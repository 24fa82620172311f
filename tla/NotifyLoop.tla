----------------------------- MODULE NotifyLoop -----------------------------
(***************************************************************************)
(* One delivery loop: RunResource (internal/notify/notify.go) over a JMAP  *)
(* push watch (internal/jmap/push/push.go) with the fan-out of             *)
(* subscriptions.Notify (internal/subscriptions/delivery.go).              *)
(*                                                                         *)
(* The loop takes a baseline sync, then Serve dials the WebSocket, enables *)
(* push and reads StateChange frames; each frame runs onChange on the      *)
(* reading goroutine: delta sync, advance the token, POST to every matching *)
(* subscription.  When the socket fails Serve waits, fires onChange once,  *)
(* and dials again.                                                        *)
(*                                                                         *)
(* The collection is the log of its changes so far, each of which creates  *)
(* an item or updates one; a sync token is the length of the log that was  *)
(* seen.  A delta returns created and updated items alike, and each is     *)
(* POSTed as created.  The JMAP server is external: it sends a frame for   *)
(* each change while push is enabled and replays nothing.  Items that are  *)
(* removed are not POSTed and are left out.                                *)
(*                                                                         *)
(* Wrong... definitions are mistaken variants, see ConnPool.               *)
(***************************************************************************)
EXTENDS Integers

CONSTANTS
  Subs,        \* subscriptions to this resource
  MaxItems,    \* bound on the items created
  MaxChanges,  \* bound on the changes, creations and updates
  MaxDrops     \* bound on the failures of the socket

ASSUME LoopConstants ==
  /\ MaxItems \in Nat
  /\ MaxChanges \in Nat
  /\ MaxDrops \in Nat

Items == 1 .. MaxItems

Changes == 1 .. MaxChanges

VARIABLES
  ctx,     \* the loop's context is not done
  state,   \* the number of changes so far of the collection
  log,     \* log[k]: the item that change k created or updated; 0: none yet
  born,    \* what the loop was doing when a change was made
  pc,      \* where the loop is
  after,   \* where onChange returns to: none (never called), read, dial
  token,   \* the sync token
  odd,     \* what syncs have met so far: failed, truncated, resync
  ids,     \* the items of the running fan-out
  todo,    \* the subscriptions it has still to POST to
  sock,    \* the WebSocket: none, up (push enabled), broken
  frames,  \* StateChange frames sent and not yet read
  drops,   \* failures of the socket so far
  subs,    \* the unexpired subscriptions in the store
  joined,  \* the token at the time a subscription was stored
  told     \* told[s][i]: the token at the last POST to s that named item i

loopVars == <<pc, after, token, odd, ids, todo>>
sockVars == <<sock, frames, drops>>
subVars == <<subs, joined, told>>
vars == <<ctx, state, log, born, loopVars, sockVars, subVars>>

Init ==
  /\ ctx = TRUE
  /\ state = 0
  /\ log = [k \in Changes |-> 0]
  /\ born = [k \in Changes |-> "none"]
  /\ pc = "baseline"
  /\ after = "none"
  /\ token = 0
  /\ odd = {}
  /\ ids = {}
  /\ todo = {}
  /\ sock = "none"
  /\ frames = 0
  /\ drops = 0
  /\ subs \in SUBSET Subs
  /\ joined = [s \in Subs |-> 0]
  /\ told = [s \in Subs |-> [i \in Items |-> 0]]

\* The items that the changes of a part of the log created or updated.
Touched(K) == {log[k] : k \in K}

-----------------------------------------------------------------------------
(* RunResource.                                                            *)

\* The baseline keeps the token and drops the items already there; those the
\* subscribers of this moment are owed are the later ones.
BaselineOK ==
  /\ pc = "baseline"
  /\ token' = state
  /\ joined' = [s \in Subs |-> state]
  /\ pc' = "watch"
  /\ UNCHANGED <<ctx, state, log, born, odd, after, ids, todo, sockVars, subs, told>>

\* The baseline sync fails, or the server advertises no push: the loop is over.
GiveUp ==
  /\ pc \in {"baseline", "watch"}
  /\ pc' = "ended"
  /\ UNCHANGED <<ctx, state, log, born, odd, after, token, ids, todo, sockVars, subVars>>

WatchStarts ==
  /\ pc = "watch"
  /\ pc' = "dial"
  /\ UNCHANGED <<ctx, state, log, born, odd, after, token, ids, todo, sockVars, subVars>>

WrongSyncOK(next) ==
  /\ pc = "sync"
  /\ next \in token .. state
  /\ token < state => token < next
  /\ odd' = IF next < state THEN odd \cup {"truncated"} ELSE odd
  /\ ids' = Touched((token + 1) .. next)
  /\ pc' = IF ids' = {} THEN after ELSE "list"
  /\ UNCHANGED <<ctx, state, log, born, after, token, todo, sockVars, subVars>>

\* onChange: the items created or updated since the token, which is advanced
\* before the fan-out.
SyncOK(next) ==
  /\ pc = "sync"
  /\ next \in token .. state
  /\ token < state => token < next
  /\ odd' = IF next < state THEN odd \cup {"truncated"} ELSE odd
  /\ ids' = Touched((token + 1) .. next)
  /\ token' = next
  /\ pc' = IF ids' = {} THEN after ELSE "list"
  /\ UNCHANGED <<ctx, state, log, born, after, todo, sockVars, subVars>>

\* The server cannot calculate changes since the token: Delta answers with the
\* whole folder.
Resync ==
  /\ pc = "sync"
  /\ odd' = odd \cup {"resync"}
  /\ ids' = Touched(1 .. state)
  /\ token' = state
  /\ pc' = IF ids' = {} THEN after ELSE "list"
  /\ UNCHANGED <<ctx, state, log, born, after, todo, sockVars, subVars>>

WrongSyncFail ==
  /\ pc = "sync"
  /\ odd' = odd \cup {"failed"}
  /\ token' = state
  /\ pc' = after
  /\ UNCHANGED <<ctx, state, log, born, after, ids, todo, sockVars, subVars>>

\* The token is kept; nothing retries before the next signal.
SyncFail ==
  /\ pc = "sync"
  /\ odd' = odd \cup {"failed"}
  /\ pc' = after
  /\ UNCHANGED <<ctx, state, log, born, after, token, ids, todo, sockVars, subVars>>

-----------------------------------------------------------------------------
(* subscriptions.Notify.                                                   *)

\* Where onChange goes on when its fan-out is down to the subscriptions rest.
Rest(rest) ==
  /\ todo' = rest
  /\ pc' = IF rest = {} THEN after ELSE "post"
  /\ ids' = IF rest = {} THEN {} ELSE ids

\* store.List, at the time the fan-out starts.
List ==
  /\ pc = "list"
  /\ Rest(subs)
  /\ UNCHANGED <<ctx, state, log, born, odd, after, token, sockVars, subVars>>

\* One POST to s that names the items of the batch, whatever its outcome.
Tried(s) == told' = [told EXCEPT ![s] = [i \in Items |-> IF i \in ids THEN token ELSE @[i]]]

PostOK(s) ==
  /\ ctx
  /\ pc = "post"
  /\ s \in todo
  /\ Tried(s)
  /\ Rest(todo \ {s})
  /\ UNCHANGED <<ctx, state, log, born, odd, after, token, sockVars, subs, joined>>

\* The failure is recorded and the others still get theirs.
PostFail(s) ==
  /\ pc = "post"
  /\ s \in todo
  /\ Tried(s)
  /\ Rest(todo \ {s})
  /\ UNCHANGED <<ctx, state, log, born, odd, after, token, sockVars, subs, joined>>

-----------------------------------------------------------------------------
(* push.Consumer: Serve and Run.                                           *)

\* Dial, subprotocol check and WebSocketPushEnable succeed.
Enable ==
  /\ ctx
  /\ pc = "dial"
  /\ sock' = "up"
  /\ pc' = "read"
  /\ UNCHANGED <<ctx, state, log, born, odd, after, token, ids, todo, frames, drops, subVars>>

DialFail ==
  /\ pc = "dial"
  /\ drops < MaxDrops
  /\ drops' = drops + 1
  /\ pc' = "backoff"
  /\ UNCHANGED <<ctx, state, log, born, odd, after, token, ids, todo, sock, frames, subVars>>

\* dispatch of a StateChange calls the handler.
ReadFrame ==
  /\ pc = "read"
  /\ frames > 0
  /\ frames' = frames - 1
  /\ after' = "read"
  /\ pc' = "sync"
  /\ UNCHANGED <<ctx, state, log, born, odd, token, ids, todo, sock, drops, subVars>>

\* Run returns the error and the frames not yet read are lost.
ReadError ==
  /\ pc = "read"
  /\ sock = "broken"
  /\ sock' = "none"
  /\ frames' = 0
  /\ pc' = "backoff"
  /\ UNCHANGED <<ctx, state, log, born, odd, after, token, ids, todo, drops, subVars>>

WrongFireAll ==
  /\ pc = "backoff"
  /\ after' = "dial"
  /\ pc' = "dial"
  /\ UNCHANGED <<ctx, state, log, born, odd, token, ids, todo, sockVars, subVars>>

\* The backoff is over: fireAll, and only then the next dial.
FireAll ==
  /\ pc = "backoff"
  /\ after' = "dial"
  /\ pc' = "sync"
  /\ UNCHANGED <<ctx, state, log, born, odd, token, ids, todo, sockVars, subVars>>

\* The context is done: Read, the backoff's select or the dial returns.
Return ==
  /\ ~ ctx
  /\ pc \in {"read", "backoff", "dial", "watch", "baseline"}
  /\ pc' = "ended"
  /\ sock' = "none"
  /\ frames' = 0
  /\ UNCHANGED <<ctx, state, log, born, odd, after, token, ids, todo, drops, subVars>>

-----------------------------------------------------------------------------
(* The environment.                                                        *)

\* What the loop is doing, for a change made now: it will be seen by the
\* baseline, pushed, seen by the fireAll to come, or it falls in the gap before
\* push is enabled for the first time (gap) or again (redial).
Moment ==
  CASE pc = "baseline" -> "baseline"
    [] pc = "ended" -> "ended"
    [] sock = "up" -> "pushed"
    [] sock = "broken" \/ pc = "backoff" \/ pc = "sync" -> "down"
    [] after = "dial" -> "redial"
    [] OTHER -> "gap"

\* An item is created (the next number) or updated; the server pushes a
\* StateChange over an enabled socket.
ItemChanges(i) ==
  /\ state < MaxChanges
  /\ 1 .. (i - 1) \subseteq Touched(1 .. state)
  /\ state' = state + 1
  /\ log' = [log EXCEPT ![state + 1] = i]
  /\ born' = [born EXCEPT ![state + 1] = Moment]
  /\ frames' = IF sock = "up" THEN frames + 1 ELSE frames
  /\ UNCHANGED <<ctx, loopVars, sock, drops, subVars>>

Drop ==
  /\ sock = "up"
  /\ drops < MaxDrops
  /\ sock' = "broken"
  /\ drops' = drops + 1
  /\ UNCHANGED <<ctx, state, log, born, loopVars, frames, subVars>>

Subscribe(s) ==
  /\ s \notin subs
  /\ subs' = subs \cup {s}
  /\ joined' = [joined EXCEPT ![s] = token]
  /\ UNCHANGED <<ctx, state, log, born, loopVars, sockVars, told>>

\* A subscription expires or is deleted.
Lapse(s) ==
  /\ s \in subs
  /\ subs' = subs \ {s}
  /\ UNCHANGED <<ctx, state, log, born, loopVars, sockVars, joined, told>>

Cancel ==
  /\ ctx
  /\ ctx' = FALSE
  /\ UNCHANGED <<state, log, born, loopVars, sockVars, subVars>>

-----------------------------------------------------------------------------

LoopStep ==
  \/ BaselineOK
  \/ WatchStarts
  \/ \E next \in token .. state : SyncOK(next)
  \/ List
  \/ \E s \in Subs : PostOK(s) \/ PostFail(s)
  \/ Enable
  \/ ReadFrame
  \/ ReadError
  \/ FireAll
  \/ Return

FaultStep == GiveUp \/ Resync \/ SyncFail \/ DialFail \/ Drop

EnvStep ==
  \/ \E i \in Items : ItemChanges(i)
  \/ \E s \in Subs : Subscribe(s) \/ Lapse(s)
  \/ Cancel

Next == LoopStep \/ FaultStep \/ EnvStep

Spec == Init /\ [][Next]_vars

\* The loop's goroutine is scheduled.  A POST is bounded by deliveryTimeout; that
\* a sync or a dial returns at all is assumed, for the loop sets it no deadline,
\* and a dial that the bound on failures does not let fail succeeds.
FairSpec == Spec /\ WF_vars(LoopStep)

-----------------------------------------------------------------------------
(* Properties.                                                             *)

\* Every variable keeps its type: the token never passes the collection, and no
\* frame is read that was not sent.
TypeOK ==
  /\ ctx \in BOOLEAN
  /\ state \in 0 .. MaxChanges
  /\ log \in [Changes -> 0 .. MaxItems]
  /\ \A k \in 1 .. state : log[k] \in Items
  /\ born \in [Changes -> {"none", "baseline", "ended", "pushed", "down", "redial", "gap"}]
  /\ pc \in {"baseline", "watch", "dial", "read", "sync", "list", "post", "backoff", "ended"}
  /\ after \in {"none", "read", "dial"}
  /\ token \in 0 .. state
  /\ odd \subseteq {"failed", "truncated", "resync"}
  /\ ids \subseteq Items
  /\ todo \subseteq Subs
  /\ sock \in {"none", "up", "broken"}
  /\ frames \in Nat
  /\ drops \in 0 .. MaxDrops
  /\ subs \subseteq Subs
  /\ joined \in [Subs -> Nat]
  /\ told \in [Subs -> [Items -> Nat]]

\* A fan-out is under way that is yet to name item i to subscription s.
Pending(s, i) == i \in ids /\ (pc = "list" \/ s \in todo)

\* The token never passes a change unseen: whatever syncs and POSTs fail, the
\* item of each change between the token at the time a subscription was stored
\* and the token now has been POSTed to it after that change, or is in the
\* fan-out that is under way.
NoneSkipped ==
  \A s \in subs, k \in Changes :
    joined[s] < k /\ k <= token => told[s][log[k]] >= k \/ Pending(s, log[k])

\* A subscription is notified of an item at most once for each change of it:
\* signals that arrive while one is handled, truncated answers and the re-sync
\* after a reconnect name an item to it again only if the item has been updated
\* since the last time, as long as the server can calculate changes.
AtMostOnce ==
  "resync" \notin odd =>
    \A s \in Subs, i \in Items :
      Pending(s, i) => \E k \in Changes : told[s][i] < k /\ k <= token /\ log[k] = i

\* Change k is synced, unless the loop is over or a sync did not tell everything.
Seen(k) == k <= token \/ ~ ctx \/ pc = "ended" \/ odd \cap {"failed", "truncated"} # {}

\* A change made while push is enabled, while a socket is broken and not yet
\* found out, or while Serve waits to reconnect is synced in the end, also when
\* its frame was lost (with syncs that succeed and answers that are complete).
PushedSeen == \A k \in Changes : born[k] \in {"pushed", "down"} ~> Seen(k)

=============================================================================
