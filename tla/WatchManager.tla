---------------------------- MODULE WatchManager ----------------------------
(***************************************************************************)
(* The renewal-driven watch manager of internal/notify/manager.go, composed *)
(* with the subscriptions handler that calls it (handler.go, wired by      *)
(* cmd/mailboxd/watchmanager.go).                                          *)
(*                                                                         *)
(* Every create or renewal ends in OnSubscribe, on the request's own       *)
(* goroutine: read the owner's subscribed resources, build one loop per    *)
(* resource (a token exchange and a dial each), start the lifecycle timers, *)
(* and swap the new watch in under the manager's mutex.  The old watch is  *)
(* torn down by a goroutine of its own.  Reap runs beside all this on a    *)
(* ticker and queries the store without the manager's mutex.               *)
(*                                                                         *)
(* A loop (RunResource) is starting until its baseline sync is done and    *)
(* its watch is up, then live, until it ends.                              *)
(***************************************************************************)
EXTENDS Subscriptions

CONSTANTS
  Watches,     \* the watches that can ever be built, numbered as they are begun
  Lifetimes,   \* lifetimes of exchanged tokens; 0 is unknown
  ReauthLead,  \* Manager.reauthLead
  Faults       \* whether builds and loops may fail

ASSUME WatchConstants ==
  /\ Watches \subseteq Nat
  /\ None \notin Watches
  /\ Lifetimes \subseteq Nat
  /\ ReauthLead \in Nat
  /\ Faults \in BOOLEAN

VARIABLES
  base,      \* the process-lifetime context is not cancelled
  watches,   \* Manager.watches
  wstate,    \* a watch: unused, building, built, installed, removed, cancelled
  wowner,    \* the owner a watch is for
  building,  \* building[h]: the watch that handler h is putting together
  todo,      \* the resources still to build for a watch
  loop,      \* loop[w][x]: the loop of watch w on resource x
  loopExp,   \* expiry of the token that bounds the loop; 0: unbounded
  timer,     \* the lifecycle goroutine: off, armed, sleeping, prompted, missed
  rset,      \* owners the running Reap has still to look at
  rcur       \* the owner it has found without subscriptions, or None

mgrVars == <<watches, wstate, wowner, building, todo, loop, loopExp, timer>>
reapVars == <<rset, rcur>>
vars == <<subVars, base, mgrVars, reapVars>>

WInit ==
  /\ Init
  /\ base = TRUE
  /\ watches = [o \in Owners |-> None]
  /\ wstate = [w \in Watches |-> "unused"]
  /\ wowner = [w \in Watches |-> None]
  /\ building = [h \in Handlers |-> None]
  /\ todo = [w \in Watches |-> {}]
  /\ loop = [w \in Watches |-> [x \in Resources |-> "none"]]
  /\ loopExp = [w \in Watches |-> [x \in Resources |-> 0]]
  /\ timer = [w \in Watches |-> "off"]
  /\ rset = {}
  /\ rcur = None

Started(w) == {x \in Resources : loop[w][x] # "none"}

Running(w) == {x \in Resources : loop[w][x] \in {"starting", "live"}}

\* The soonest known token expiry among the loops of a watch; 0: none is known.
Earliest(w) ==
  LET known == {loopExp[w][x] : x \in Started(w)} \ {0}
  IN IF known = {} THEN 0 ELSE CHOOSE e \in known : \A f \in known : e <= f

\* The watch's own context, and a loop's, which ends with its token too.
WrongCtxDoneBaseOnly(w) == ~ base

WrongCtxDoneOwnOnly(w) == wstate[w] = "cancelled"

CtxDone(w) == ~ base \/ wstate[w] = "cancelled"

\* The lifecycle goroutine is running.
TimerOn(w) == timer[w] \in {"armed", "sleeping", "prompted"}

LoopCtxDone(w, x) == CtxDone(w) \/ (loopExp[w][x] # 0 /\ clock >= loopExp[w][x])

-----------------------------------------------------------------------------
(* OnSubscribe, on the goroutine of the create or renewal.                 *)

OnSubscribe(h, w) ==
  LET o == req[h].sub.owner
  IN /\ pc[h] = "notify"
     /\ subscribedResources(o) # {}
     /\ wstate[w] = "unused" /\ \A v \in Watches : v < w => wstate[v] # "unused"
     /\ wstate' = [wstate EXCEPT ![w] = "building"]
     /\ wowner' = [wowner EXCEPT ![w] = o]
     /\ building' = [building EXCEPT ![h] = w]
     /\ todo' = [todo EXCEPT ![w] = subscribedResources(o) \cap Resources]
     /\ Goto(h, "build")
     /\ UNCHANGED <<clock, subs, gone, req, base, watches, loop, loopExp, timer, reapVars>>

\* Nothing is subscribed any more when the manager looks.
OnSubscribeNothing(h) ==
  /\ pc[h] = "notify"
  /\ subscribedResources(req[h].sub.owner) = {}
  /\ Respond(h)
  /\ UNCHANGED <<clock, subs, gone, base, mgrVars, reapVars>>

\* A builder exchanges the token and dials; its loop starts at once.
Build(h, x, exp) ==
  LET w == building[h]
  IN /\ pc[h] = "build"
     /\ x \in todo[w]
     /\ todo' = [todo EXCEPT ![w] = @ \ {x}]
     /\ loop' = [loop EXCEPT ![w][x] = "starting"]
     /\ loopExp' = [loopExp EXCEPT ![w][x] = exp]
     /\ UNCHANGED <<subVars, base, watches, wstate, wowner, building, timer, reapVars>>

BuildFail(h, x) ==
  LET w == building[h]
  IN /\ Faults
     /\ pc[h] = "build"
     /\ x \in todo[w]
     /\ todo' = [todo EXCEPT ![w] = @ \ {x}]
     /\ UNCHANGED <<subVars, base, watches, wstate, wowner, building, loop, loopExp,
                    timer, reapVars>>

\* No builder served the owner: the old watch, if any, stays.
NoneStarted(h) ==
  LET w == building[h]
  IN /\ pc[h] = "build"
     /\ todo[w] = {}
     /\ Started(w) = {}
     /\ wstate' = [wstate EXCEPT ![w] = "cancelled"]
     /\ building' = [building EXCEPT ![h] = None]
     /\ Respond(h)
     /\ UNCHANGED <<clock, subs, gone, base, watches, wowner, todo, loop, loopExp,
                    timer, reapVars>>

\* scheduleLifecycle starts the timers' goroutine before the swap.
ScheduleLifecycle(h) ==
  LET w == building[h]
  IN /\ pc[h] = "build"
     /\ todo[w] = {}
     /\ Started(w) # {}
     /\ wstate' = [wstate EXCEPT ![w] = "built"]
     /\ timer' = [timer EXCEPT ![w] = IF Earliest(w) = 0 THEN "off" ELSE "armed"]
     /\ Goto(h, "swap")
     /\ UNCHANGED <<clock, subs, gone, req, base, watches, wowner, building, todo,
                    loop, loopExp, reapVars>>

WrongSwap(h) ==
  LET w == building[h]
  IN /\ pc[h] = "swap"
     /\ watches' = [watches EXCEPT ![wowner[w]] = w]
     /\ wstate' = [wstate EXCEPT ![w] = "installed"]
     /\ building' = [building EXCEPT ![h] = None]
     /\ Respond(h)
     /\ UNCHANGED <<clock, subs, gone, base, wowner, todo, loop, loopExp, timer, reapVars>>

\* swap, under the mutex; the old watch is handed to a teardown goroutine.
Swap(h) ==
  LET w == building[h]
      old == watches[wowner[w]]
  IN /\ pc[h] = "swap"
     /\ watches' = [watches EXCEPT ![wowner[w]] = w]
     /\ wstate' = [v \in Watches |-> IF v = w THEN "installed"
                                     ELSE IF v = old THEN "removed" ELSE wstate[v]]
     /\ building' = [building EXCEPT ![h] = None]
     /\ Respond(h)
     /\ UNCHANGED <<clock, subs, gone, base, wowner, todo, loop, loopExp, timer, reapVars>>

-----------------------------------------------------------------------------
(* The goroutines of a watch.                                              *)

Teardown(w) ==
  /\ wstate[w] = "removed"
  /\ wstate' = [wstate EXCEPT ![w] = "cancelled"]
  /\ UNCHANGED <<subVars, base, watches, wowner, building, todo, loop, loopExp, timer, reapVars>>

\* The baseline sync has succeeded and the watch is up.
LoopLive(w, x) ==
  /\ loop[w][x] = "starting"
  /\ ~ LoopCtxDone(w, x)
  /\ loop' = [loop EXCEPT ![w][x] = "live"]
  /\ UNCHANGED <<subVars, base, watches, wstate, wowner, building, todo, loopExp, timer, reapVars>>

\* A loop returns when its context ends.
LoopEnd(w, x) ==
  /\ x \in Running(w)
  /\ LoopCtxDone(w, x)
  /\ loop' = [loop EXCEPT ![w][x] = "ended"]
  /\ UNCHANGED <<subVars, base, watches, wstate, wowner, building, todo, loopExp, timer, reapVars>>

\* It also returns when its baseline sync or its watch fails; nothing restarts it.
LoopFail(w, x) ==
  /\ Faults
  /\ x \in Running(w)
  /\ ~ LoopCtxDone(w, x)
  /\ loop' = [loop EXCEPT ![w][x] = "ended"]
  /\ UNCHANGED <<subVars, base, watches, wstate, wowner, building, todo, loopExp, timer, reapVars>>

\* The lifecycle goroutine finds the soonest expiry still ahead, or already past.
LookAhead(w) ==
  /\ timer[w] = "armed"
  /\ clock < Earliest(w)
  /\ timer' = [timer EXCEPT ![w] = "sleeping"]
  /\ UNCHANGED <<subVars, base, watches, wstate, wowner, building, todo, loop, loopExp, reapVars>>

\* reauthorizationRequired, reauthLead before the soonest expiry.
Prompt(w) ==
  /\ timer[w] = "sleeping"
  /\ ~ CtxDone(w)
  /\ clock >= Earliest(w) - ReauthLead
  /\ timer' = [timer EXCEPT ![w] = "prompted"]
  /\ UNCHANGED <<subVars, base, watches, wstate, wowner, building, todo, loop, loopExp, reapVars>>

WrongMissed(w) ==
  /\ timer[w] \in {"armed", "prompted"}
  /\ ~ CtxDone(w)
  /\ clock > Earliest(w)
  /\ timer' = [timer EXCEPT ![w] = "missed"]
  /\ UNCHANGED <<subVars, base, watches, wstate, wowner, building, todo, loop, loopExp, reapVars>>

\* missed, at the expiry: after the prompt, or at once when it was past already.
\* The signal is handed to NotifyLifecycle, which is not modelled: it posts to
\* the unexpired subscriptions with a lifecycle URL and records what fails.
Missed(w) ==
  /\ timer[w] \in {"armed", "prompted"}
  /\ ~ CtxDone(w)
  /\ clock >= Earliest(w)
  /\ timer' = [timer EXCEPT ![w] = "missed"]
  /\ UNCHANGED <<subVars, base, watches, wstate, wowner, building, todo, loop, loopExp, reapVars>>

TimerStop(w) ==
  /\ TimerOn(w)
  /\ CtxDone(w)
  /\ timer' = [timer EXCEPT ![w] = "off"]
  /\ UNCHANGED <<subVars, base, watches, wstate, wowner, building, todo, loop, loopExp, reapVars>>

-----------------------------------------------------------------------------
(* Reap.                                                                   *)

\* A tick, which select may still choose once the context is done: the watched
\* owners are snapshot under the mutex.
ReapSnapshot ==
  /\ rset = {} /\ rcur = None
  /\ rset' = {o \in Owners : watches[o] # None}
  /\ UNCHANGED <<subVars, base, mgrVars, rcur>>

WrongReapCheck(o) ==
  /\ o \in rset
  /\ rcur = None
  /\ rset' = rset \ {o}
  /\ rcur' = IF \E id \in SubIds : Stored(id) /\ subs[id].owner = o THEN None ELSE o
  /\ UNCHANGED <<subVars, base, mgrVars>>

\* The store is asked about one owner, without the mutex.
ReapCheck(o) ==
  /\ o \in rset
  /\ rcur = None
  /\ rset' = rset \ {o}
  /\ rcur' = IF subscribedResources(o) = {} THEN o ELSE None
  /\ UNCHANGED <<subVars, base, mgrVars>>

\* Whatever watch the owner has now is dropped and torn down.
ReapDelete ==
  LET pw == watches[rcur]
  IN /\ rcur # None
     /\ watches' = [watches EXCEPT ![rcur] = None]
     /\ wstate' = [v \in Watches |-> IF v = pw THEN "removed" ELSE wstate[v]]
     /\ rcur' = None
     /\ UNCHANGED <<subVars, base, wowner, building, todo, loop, loopExp, timer, rset>>

-----------------------------------------------------------------------------

\* The process-lifetime context is cancelled: no new request is accepted, those
\* in flight go on.
Shutdown ==
  /\ base
  /\ base' = FALSE
  /\ UNCHANGED <<subVars, mgrVars, reapVars>>

TokenExpiries == {IF l = 0 THEN 0 ELSE clock + l : l \in Lifetimes}

SubscriptionStep ==
  /\ \/ \E h \in Handlers : HandlerStep(h) /\ (base \/ pc[h] # "idle")
     \/ \E id \in SubIds : Delete(id)
     \/ Tick
  /\ UNCHANGED <<base, mgrVars, reapVars>>

ManagerStep(h) ==
  \/ \E w \in Watches : OnSubscribe(h, w)
  \/ OnSubscribeNothing(h)
  \/ \E x \in Resources, exp \in TokenExpiries : Build(h, x, exp)
  \/ \E x \in Resources : BuildFail(h, x)
  \/ NoneStarted(h)
  \/ ScheduleLifecycle(h)
  \/ Swap(h)

WatchStep(w) ==
  \/ Teardown(w)
  \/ \E x \in Resources : LoopLive(w, x) \/ LoopEnd(w, x) \/ LoopFail(w, x)
  \/ LookAhead(w)
  \/ Prompt(w)
  \/ Missed(w)
  \/ TimerStop(w)

ReapStep ==
  \/ ReapSnapshot
  \/ \E o \in Owners : ReapCheck(o)
  \/ ReapDelete

WNext ==
  \/ SubscriptionStep
  \/ \E h \in Handlers : ManagerStep(h)
  \/ \E w \in Watches : WatchStep(w)
  \/ ReapStep
  \/ Shutdown

WSpec == WInit /\ [][WNext]_vars

\* Goroutines that have something to do are scheduled, timers and the ticker
\* fire, and a cancelled context ends what waits on it.  Nothing is assumed of
\* clients, of builders or of the outcome of a build.
Fairness ==
  /\ \A w \in Watches :
       /\ WF_vars(Teardown(w))
       /\ WF_vars(LookAhead(w))
       /\ WF_vars(Prompt(w))
       /\ WF_vars(Missed(w))
       /\ WF_vars(TimerStop(w))
       /\ \A x \in Resources : WF_vars(LoopEnd(w, x))
  /\ WF_vars(base /\ ReapSnapshot)
  /\ \A o \in Owners : WF_vars(ReapCheck(o))
  /\ WF_vars(ReapDelete)

FairWSpec == WSpec /\ Fairness

-----------------------------------------------------------------------------
(* Properties.                                                             *)

\* No watch escapes its teardown: whatever has loops is the watch the map holds
\* for its owner, or is in the hands of the one request building it, or is
\* waiting for its teardown goroutine, or is cancelled.  The races of swaps with
\* swaps and with Reap neither lose a watch nor tear one down that is installed.
NoLeakedWatch ==
  \A w \in Watches :
    /\ wstate[w] = "installed" <=> \E o \in Owners : watches[o] = w /\ wowner[w] = o
    /\ (\E o \in Owners : watches[o] = w) => wstate[w] = "installed"
    /\ wstate[w] \in {"building", "built"} <=> \E h \in Handlers : building[h] = w
    /\ wstate[w] = "unused" => Started(w) = {}

\* A watch that a renewal superseded or Reap dropped comes to rest: its loops
\* return and its timers stop.
SupersededStops ==
  \A w \in Watches :
    wstate[w] = "removed" ~> (Running(w) = {} /\ ~ TimerOn(w))

\* A principal whose subscriptions have all expired or been deleted does not
\* keep its watch.
LapsedReaped ==
  \A o \in Owners :
    (watches[o] # None /\ subscribedResources(o) = {})
      ~> (watches[o] = None \/ subscribedResources(o) # {} \/ ~ base)

\* When a token runs out under a watch that nothing superseded, the gap is
\* signalled, at the expiry and not after it (scheduleLifecycle; whom the signal
\* reaches is NotifyLifecycle's matter).
GapSignalled ==
  \A w \in Watches :
    (TimerOn(w) /\ clock >= Earliest(w))
      ~> (timer[w] = "missed" \/ CtxDone(w))

\* Shutdown ends every loop, those of watches still being built included.
ShutdownStopsAll == ~ base ~> (\A w \in Watches : Running(w) = {})

\* Whatever the manager does on a request's goroutine, between the write and the
\* response, the subscriptions handler behaves as one without a manager does.
AtHandler ==
  [h \in Handlers |-> IF pc[h] \in {"build", "swap"} THEN "notify" ELSE pc[h]]

Handler == INSTANCE Subscriptions WITH pc <- AtHandler

HandlerUnaffected == Handler!Spec

\* What the comments of the manager say.

\* "It scopes the watch to the resources owner currently subscribes to": with no
\* request of the owner in flight, builders and loops that do not fail and
\* tokens that do not expire, each of its subscriptions has a loop.
Covered ==
  \A o \in Owners :
    (base /\ rcur # o /\ \A h \in Handlers : pc[h] = "idle") =>
      \A n \in subscribedResources(o) :
        watches[o] # None /\ Fold[n] \in Running(watches[o])

=============================================================================
