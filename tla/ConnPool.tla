------------------------------ MODULE ConnPool ------------------------------
(***************************************************************************)
(* The per-principal connection pool of cmd/mailboxd/connpool.go, with the *)
(* pooled mode of perIdentityBackend.get (peridentity.go) as its client    *)
(* and the shutdown sequence of run (main.go) as its end.                  *)
(*                                                                         *)
(* Request goroutines check connections out with get and return them when  *)
(* they Close their lease; the ticker goroutine reaps; shutdown drains the *)
(* parked connections.  The pool's mutex protects single map operations    *)
(* only: the clock is read before the lock is taken, and health checks,    *)
(* dials and Closes run outside it, so every such point is a step of its   *)
(* own, except that a request's Close of the connection in its own hands,  *)
(* which no other goroutine can reach, is part of the step that decides    *)
(* it.  The reaper and closeAll take connections under the lock and close  *)
(* them later, in one step each.                                           *)
(*                                                                         *)
(* The slice idle[id] is the set of parked connections and, for each one,  *)
(* the connections that were in the slice when it was appended (below); its *)
(* last element is the one that all the others are below.                  *)
(*                                                                         *)
(* A definition whose name starts with Wrong is a mistaken variant of the  *)
(* definition after it.  No specification uses it: it is there to show     *)
(* that a property notices the mistake (see README.md).                    *)
(***************************************************************************)
EXTENDS Integers, FiniteSets

CONSTANTS
  Requests,     \* goroutines that serve a request needing one backend
  Principals,   \* authenticated principals, the keys of the idle map
  Conns,        \* the connections that can ever be dialed
  None,         \* no principal, no connection
  MaxIdle,      \* connPool.maxIdle; 0 is unbounded
  IdleTimeout,  \* connPool.idleTimeout; 0 disables
  Skew,         \* connPool.skew
  Lifetimes,    \* remaining lifetimes of the tokens the exchanger returns
  MaxTime       \* bound on the clock

ASSUME PoolConstants ==
  /\ None \notin Principals
  /\ None \notin Conns
  /\ IsFiniteSet(Requests)
  /\ IsFiniteSet(Conns)
  /\ MaxIdle \in Nat
  /\ IdleTimeout \in Nat
  /\ Skew \in Nat
  /\ Lifetimes \subseteq Nat
  /\ MaxTime \in Nat

VARIABLES
  clock,      \* wall clock
  idle,       \* idle[id]: the connections parked for a principal
  below,      \* below[c]: what was in the slice when c was appended
  expiresAt,  \* expiry of the token an open connection authenticates with
  idleAt,     \* the instant a connection went idle
  owner,      \* the principal a connection was dialed for; None: not dialed
  alive,      \* connections neither closed nor dropped by the server
  closed,     \* connections torn down with a real Close
  pc,         \* where each request is
  who,        \* the principal each request acts for
  now,        \* the clock value a request's get or checkin works with
  held,       \* the connection a request has popped or dialed, its lease's conn
  once,       \* the sync.Once of a request's lease has run
  phase,      \* the server: serving, draining, closing, closed
  drained,    \* what closeAll took from the map and has not closed yet
  cutOff,     \* history: the requests in flight when closeAll took the map
  reaper,     \* the reaper goroutine: sleep, sweep, close, stopped
  reaperNow,  \* the clock value the running sweep works with
  dead        \* what the sweep took from the map and has not closed yet

poolVars == <<idle, below, idleAt>>
connVars == <<expiresAt, owner, alive, closed>>
reqVars == <<pc, who, now, held, once>>
serverVars == <<phase, drained, cutOff>>
reaperVars == <<reaper, reaperNow, dead>>
vars == <<clock, poolVars, connVars, reqVars, serverVars, reaperVars>>

\* The zero time.Time: a token of unknown lifetime.  The clock starts above it.
ZeroTime == 0

Parked == UNION {idle[id] : id \in Principals}

Open == {c \in Conns : owner[c] # None} \ closed

\* A request has a connection in its hands from the pop or dial to the end of
\* checkin; after that its lease still names the connection.
InHand == {"probe", "leased", "park"}

Hand(r) == IF pc[r] \in InHand THEN held[r] ELSE None

Init ==
  /\ clock = 1
  /\ idle = [id \in Principals |-> {}]
  /\ below = [c \in Conns |-> {}]
  /\ expiresAt = [c \in Conns |-> ZeroTime]
  /\ idleAt = [c \in Conns |-> ZeroTime]
  /\ owner = [c \in Conns |-> None]
  /\ alive = {}
  /\ closed = {}
  /\ pc = [r \in Requests |-> "start"]
  /\ who = [r \in Requests |-> None]
  /\ now = [r \in Requests |-> ZeroTime]
  /\ held = [r \in Requests |-> None]
  /\ once = [r \in Requests |-> FALSE]
  /\ phase = "serving"
  /\ drained = {}
  /\ cutOff = {}
  /\ reaper = "sleep"
  /\ reaperNow = ZeroTime
  /\ dead = {}

-----------------------------------------------------------------------------
(* Predicates on a parked connection.                                      *)

WrongExpired(c, t) == expiresAt[c] = ZeroTime \/ t >= expiresAt[c]

expired(c, t) == expiresAt[c] = ZeroTime \/ t >= expiresAt[c] - Skew

timedOut(c, t) == IdleTimeout > 0 /\ t - idleAt[c] > IdleTimeout

\* What get discards at checkout and reap sweeps.
Unusable(c, t) == expired(c, t) \/ timedOut(c, t)

\* The principal's idle bound is reached.
WrongFull(id) == MaxIdle > 0 /\ Cardinality(idle[id]) > MaxIdle

Full(id) == MaxIdle > 0 /\ Cardinality(idle[id]) >= MaxIdle

\* The last element of the slice of a principal.
Last(id, c) == c \in idle[id] /\ idle[id] \ {c} \subseteq below[c]

Goto(r, label) == pc' = [pc EXCEPT ![r] = label]

\* A real Close (LOGOUT, QUIT) of a set of connections; what was known of them goes.
Close(S) ==
  /\ closed' = closed \cup S
  /\ alive' = alive \ S
  /\ expiresAt' = [c \in Conns |-> IF c \in S THEN ZeroTime ELSE expiresAt[c]]

\* The idleConn entries of a set of connections leave the map.
Unpark(S) ==
  /\ idle' = [id \in Principals |-> idle[id] \ S]
  /\ below' = [c \in Conns |-> IF c \in S THEN {} ELSE below[c]]
  /\ idleAt' = [c \in Conns |-> IF c \in S THEN ZeroTime ELSE idleAt[c]]

-----------------------------------------------------------------------------
(* get: check out a parked connection or dial one.                         *)

\* A request of an authenticated principal reaches its handler, which asks for
\* a backend; get reads the clock once, before its loop.
Get(r, id) ==
  /\ pc[r] = "start"
  /\ phase = "serving"
  /\ who' = [who EXCEPT ![r] = id]
  /\ now' = [now EXCEPT ![r] = clock]
  /\ held' = held
  /\ Goto(r, "pop")
  /\ UNCHANGED <<clock, poolVars, connVars, once, serverVars, reaperVars>>

\* pop takes the most recently parked connection; one near its expiry or idle
\* for too long is closed and the loop goes round.
Pop(r) ==
  /\ pc[r] = "pop"
  /\ \E c \in idle[who[r]] :
       /\ Last(who[r], c)
       /\ Unpark({c})
       /\ IF Unusable(c, now[r])
          THEN Close({c}) /\ UNCHANGED <<pc, held>>
          ELSE /\ held' = [held EXCEPT ![r] = c]
               /\ Goto(r, "probe")
               /\ UNCHANGED <<closed, alive, expiresAt>>
  /\ UNCHANGED <<clock, owner, who, now, once, serverVars, reaperVars>>

PopEmpty(r) ==
  /\ pc[r] = "pop"
  /\ idle[who[r]] = {}
  /\ Goto(r, "dial")
  /\ UNCHANGED <<clock, poolVars, connVars, who, now, held, once, serverVars, reaperVars>>

\* The NOOP of the health check succeeds only on a live connection.
ProbeOK(r) ==
  /\ pc[r] = "probe"
  /\ held[r] \in alive
  /\ now' = [now EXCEPT ![r] = ZeroTime]
  /\ Goto(r, "leased")
  /\ UNCHANGED <<clock, poolVars, connVars, who, held, once, serverVars, reaperVars>>

WrongProbeFail(r) ==
  /\ pc[r] = "probe"
  /\ held' = [held EXCEPT ![r] = None]
  /\ Goto(r, "pop")
  /\ UNCHANGED <<clock, poolVars, connVars, who, now, once, serverVars, reaperVars>>

\* It fails on a dropped connection, and may fail on a live one (the request's
\* context ended); either way the connection is closed and the loop goes round.
ProbeFail(r) ==
  /\ pc[r] = "probe"
  /\ Close({held[r]})
  /\ held' = [held EXCEPT ![r] = None]
  /\ Goto(r, "pop")
  /\ UNCHANGED <<clock, poolVars, owner, who, now, once, serverVars, reaperVars>>

\* dialNew exchanges the token and dials; the connection's expiry is that of
\* the token, zero when the exchanger reported no lifetime.
Dial(r, c, exp) ==
  /\ pc[r] = "dial"
  /\ owner[c] = None
  /\ owner' = [owner EXCEPT ![c] = who[r]]
  /\ expiresAt' = [expiresAt EXCEPT ![c] = exp]
  /\ alive' = alive \cup {c}
  /\ held' = [held EXCEPT ![r] = c]
  /\ now' = [now EXCEPT ![r] = ZeroTime]
  /\ Goto(r, "leased")
  /\ UNCHANGED <<clock, poolVars, closed, who, once, serverVars, reaperVars>>

\* The exchange or the dial fails and the request gets the error.
DialFail(r) ==
  /\ pc[r] = "dial"
  /\ who' = [who EXCEPT ![r] = None]
  /\ now' = [now EXCEPT ![r] = ZeroTime]
  /\ Goto(r, "start")
  /\ UNCHANGED <<clock, poolVars, connVars, held, once, serverVars, reaperVars>>

-----------------------------------------------------------------------------
(* The lease's Close: checkin, exactly once.                               *)

WrongCheckin(r) ==
  /\ pc[r] \in {"leased", "returned"}
  /\ once' = [once EXCEPT ![r] = TRUE]
  /\ IF expired(held[r], clock)
     THEN /\ Close({held[r]})
          /\ Goto(r, "returned")
          /\ UNCHANGED now
     ELSE /\ now' = [now EXCEPT ![r] = clock]
          /\ Goto(r, "park")
          /\ UNCHANGED <<closed, alive, expiresAt>>
  /\ UNCHANGED <<clock, poolVars, owner, who, held, serverVars, reaperVars>>

\* The handler Closes its lease, and may Close it again while it has it (a Close
\* that is deferred and one on an error path): the Once admits one checkin.  It
\* reads the clock and closes a connection that cannot be reused.
Checkin(r) ==
  /\ pc[r] \in {"leased", "returned"}
  /\ ~ once[r]
  /\ once' = [once EXCEPT ![r] = TRUE]
  /\ IF expired(held[r], clock)
     THEN /\ Close({held[r]})
          /\ Goto(r, "returned")
          /\ UNCHANGED now
     ELSE /\ now' = [now EXCEPT ![r] = clock]
          /\ Goto(r, "park")
          /\ UNCHANGED <<closed, alive, expiresAt>>
  /\ UNCHANGED <<clock, poolVars, owner, who, held, serverVars, reaperVars>>

WrongPark(r) ==
  /\ pc[r] = "park"
  /\ \E id \in Principals :
       /\ ~ Full(id)
       /\ idle' = [idle EXCEPT ![id] = @ \cup {held[r]}]
       /\ below' = [below EXCEPT ![held[r]] = idle[id]]
       /\ idleAt' = [idleAt EXCEPT ![held[r]] = now[r]]
  /\ now' = [now EXCEPT ![r] = ZeroTime]
  /\ Goto(r, "returned")
  /\ UNCHANGED <<clock, connVars, who, held, once, serverVars, reaperVars>>

\* Under the lock: park unless the principal's slice is full; then the
\* connection is closed.  The handler's lease still names the connection.
Park(r) ==
  /\ pc[r] = "park"
  /\ IF Full(who[r])
     THEN Close({held[r]}) /\ UNCHANGED poolVars
     ELSE /\ idle' = [idle EXCEPT ![who[r]] = @ \cup {held[r]}]
          /\ below' = [below EXCEPT ![held[r]] = idle[who[r]]]
          /\ idleAt' = [idleAt EXCEPT ![held[r]] = now[r]]
          /\ UNCHANGED <<closed, alive, expiresAt>>
  /\ now' = [now EXCEPT ![r] = ZeroTime]
  /\ Goto(r, "returned")
  /\ UNCHANGED <<clock, owner, who, held, once, serverVars, reaperVars>>

\* The handler returns and its lease goes out of scope.
Return(r) ==
  /\ pc[r] = "returned"
  /\ who' = [who EXCEPT ![r] = None]
  /\ held' = [held EXCEPT ![r] = None]
  /\ once' = [once EXCEPT ![r] = FALSE]
  /\ Goto(r, "start")
  /\ UNCHANGED <<clock, poolVars, connVars, now, serverVars, reaperVars>>

-----------------------------------------------------------------------------
(* The reaper goroutine.                                                   *)

\* The ticker fires.  After ctx is done select may still choose a ready tick.
ReapStart ==
  /\ reaper = "sleep"
  /\ reaper' = "sweep"
  /\ reaperNow' = clock
  /\ UNCHANGED <<clock, poolVars, connVars, reqVars, serverVars, dead>>

WrongReapable == {c \in Parked : timedOut(c, reaperNow)}

Reapable == {c \in Parked : Unusable(c, reaperNow)}

\* One pass over the map under the lock.
Sweep ==
  /\ reaper = "sweep"
  /\ reaper' = IF Reapable = {} THEN "sleep" ELSE "close"
  /\ reaperNow' = ZeroTime
  /\ dead' = Reapable
  /\ Unpark(Reapable)
  /\ UNCHANGED <<clock, connVars, reqVars, serverVars>>

\* What the pass dropped is closed after the unlock.  Shutdown waits for neither
\* the pass nor these Closes.
ReapClose ==
  /\ reaper = "close"
  /\ reaper' = "sleep"
  /\ Close(dead)
  /\ dead' = {}
  /\ UNCHANGED <<clock, poolVars, owner, reqVars, serverVars, reaperNow>>

ReaperStop ==
  /\ reaper = "sleep"
  /\ phase # "serving"
  /\ reaper' = "stopped"
  /\ UNCHANGED <<clock, poolVars, connVars, reqVars, serverVars, reaperNow, dead>>

-----------------------------------------------------------------------------
(* Shutdown, the upstream server and time.                                 *)

\* ctx is cancelled and srv.Shutdown stops accepting requests.
Shutdown ==
  /\ phase = "serving"
  /\ phase' = "draining"
  /\ UNCHANGED <<clock, poolVars, connVars, reqVars, drained, cutOff, reaperVars>>

\* srv.Shutdown has returned, because no request is left or because its ten
\* seconds are over; closeAll swaps the map for an empty one under the lock.
CloseAll ==
  /\ phase = "draining"
  /\ phase' = IF Parked = {} THEN "closed" ELSE "closing"
  /\ cutOff' = {r \in Requests : pc[r] # "start"}
  /\ drained' = Parked
  /\ Unpark(Parked)
  /\ UNCHANGED <<clock, connVars, reqVars, reaperVars>>

WrongCloseDrained ==
  /\ phase = "closing"
  /\ phase' = "closed"
  /\ UNCHANGED <<clock, poolVars, connVars, reqVars, drained, cutOff, reaperVars>>

\* It closes what was in the old map and returns, and the process exits soon.
CloseDrained ==
  /\ phase = "closing"
  /\ phase' = "closed"
  /\ Close(drained)
  /\ drained' = {}
  /\ UNCHANGED <<clock, poolVars, owner, reqVars, cutOff, reaperVars>>

\* The upstream server drops a connection.  Only the health check of a checkout
\* notices, so a drop while a request has the connection is one after its return.
ServerDrop(c) ==
  /\ c \in alive
  /\ c \in Parked
  /\ alive' = alive \ {c}
  /\ UNCHANGED <<clock, poolVars, expiresAt, owner, closed, reqVars, serverVars, reaperVars>>

Tick ==
  /\ clock < MaxTime
  /\ clock' = clock + 1
  /\ UNCHANGED <<poolVars, connVars, reqVars, serverVars, reaperVars>>

-----------------------------------------------------------------------------

Expiries == {ZeroTime} \cup {clock + l : l \in Lifetimes}

RequestStep(r) ==
  \/ \E id \in Principals : Get(r, id)
  \/ Pop(r)
  \/ PopEmpty(r)
  \/ ProbeOK(r)
  \/ ProbeFail(r)
  \/ \E c \in Conns, exp \in Expiries : Dial(r, c, exp)
  \/ DialFail(r)
  \/ Checkin(r)
  \/ Park(r)
  \/ Return(r)

Next ==
  \/ \E r \in Requests : RequestStep(r)
  \/ ReapStart
  \/ Sweep
  \/ ReapClose
  \/ ReaperStop
  \/ Shutdown
  \/ CloseAll
  \/ CloseDrained
  \/ \E c \in Conns : ServerDrop(c)
  \/ Tick

Spec == Init /\ [][Next]_vars

\* The reaper goroutine is scheduled and its ticker keeps firing.
FairSpec == Spec /\ WF_vars(ReapStart \/ Sweep \/ ReapClose)

-----------------------------------------------------------------------------
(* Properties.                                                             *)

\* Every variable keeps its type: in particular a request that works on a
\* connection holds one.
TypeOK ==
  /\ clock \in Nat
  /\ idle \in [Principals -> SUBSET Conns]
  /\ below \in [Conns -> SUBSET Conns]
  /\ expiresAt \in [Conns -> Nat]
  /\ idleAt \in [Conns -> Nat]
  /\ owner \in [Conns -> Principals \cup {None}]
  /\ alive \subseteq Conns
  /\ closed \subseteq Conns
  /\ pc \in [Requests -> InHand \cup {"start", "pop", "dial", "returned"}]
  /\ who \in [Requests -> Principals \cup {None}]
  /\ now \in [Requests -> Nat]
  /\ held \in [Requests -> Conns \cup {None}]
  /\ once \in [Requests -> BOOLEAN]
  /\ phase \in {"serving", "draining", "closing", "closed"}
  /\ drained \subseteq Conns
  /\ cutOff \subseteq Requests
  /\ reaper \in {"sleep", "sweep", "close", "stopped"}
  /\ reaperNow \in Nat
  /\ dead \subseteq Conns

\* A connection is in one place only: no two requests have it in hand, none has
\* a parked one, it is parked for one principal, and what the reaper or closeAll
\* is about to close is out of everyone else's reach.  This must survive a
\* handler that Closes its lease twice: an IMAP or SMTP session shared by two
\* handlers would interleave their commands.
ExclusiveLease ==
  /\ \A r1, r2 \in Requests : Hand(r1) = Hand(r2) /\ Hand(r1) # None => r1 = r2
  /\ \A r \in Requests : Hand(r) \notin Parked \cup dead \cup drained
  /\ \A p, q \in Principals : p # q => idle[p] \cap idle[q] = {}
  /\ Parked \cap (dead \cup drained) = {}
  /\ dead \cap drained = {}

\* A request works on, and the pool keeps under a key, only connections that
\* were dialed with that principal's own token.
RightPrincipal ==
  /\ \A r \in Requests : Hand(r) # None => owner[Hand(r)] = who[r]
  /\ \A id \in Principals : \A c \in idle[id] : owner[c] = id

\* Whatever the races of checkins, no principal has more than maxIdle parked
\* connections.
IdleBound == MaxIdle > 0 => \A id \in Principals : Cardinality(idle[id]) <= MaxIdle

\* No connection is lost and none is used after its Close: every dialed
\* connection is either closed, or parked, in the hands of a request, or about
\* to be closed by the reaper or closeAll.
NoneLost ==
  \A c \in Conns : owner[c] # None =>
    (c \in closed) = ~ \/ c \in Parked \cup dead \cup drained
                       \/ \E r \in Requests : Hand(r) = c

\* The skew does its work although get reads the clock once, before the loop
\* of pops and health checks: a parked connection handed out by a get that took
\* at most Skew has a token that has not expired.
CheckoutFresh ==
  \A r \in Requests :
    pc[r] = "probe" /\ clock <= now[r] + Skew => clock < expiresAt[held[r]]

\* After closeAll each request that the drain cut off leaves at most one session
\* open upstream: the one in its hands, or the one it has parked in the emptied
\* pool after the swap, which nobody closes.  Beyond these only what a pass of
\* the reaper has yet to close is open; a drain that waited for every request
\* leaves nothing else.
QuietShutdown ==
  phase = "closed" => Cardinality(Open \ dead) <= Cardinality(cutOff)

\* A parked connection that has become unusable does not linger until the
\* process exits: the reaper (or a checkout) takes it, unless shutdown begins.
ReapedEventually ==
  \A c \in Conns :
    (phase = "serving" /\ c \in Parked /\ Unusable(c, clock))
      ~> (c \notin Parked \/ phase # "serving")

=============================================================================
