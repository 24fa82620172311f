------------------------- MODULE WatchManagerProofs -------------------------
(***************************************************************************)
(* What holds of the subscriptions handler and of the watch manager that   *)
(* it calls, for any number of handlers, owners, resources, ids and        *)
(* watches.                                                                *)
(*                                                                         *)
(* The store's two invariants rest on what a request carries from its      *)
(* check to its write: an expiry that was accepted against an earlier      *)
(* clock (Carried).  NoLeakedWatch rests on who holds a watch: a watch     *)
(* that is being put together has exactly one request (InHand, OneBuilder, *)
(* Attended), and the manager's map and the watches it counts as installed *)
(* name each other (Mapped, InMap), which is what makes it safe that swap  *)
(* and Reap tear down whatever they find there.                            *)
(***************************************************************************)
EXTENDS WatchManager, TLAPS

Sub == [owner: Owners, resource: Names, exp: Nat]

Request == [id: SubIds \cup {None}, sub: Sub]

InBuild == {"build", "swap"}

Places == {"idle", "verify", "store", "renew", "notify"} \cup InBuild

WatchStates == {"unused", "building", "built", "installed", "removed", "cancelled"}

LoopStates == {"none", "starting", "live", "ended"}

-----------------------------------------------------------------------------
(***************************************************************************)
(* The store.                                                              *)
(***************************************************************************)

\* The variables of subscriptions/store.go and of the requests in flight.
StoreShapes ==
  /\ clock \in Nat
  /\ subs \in [SubIds -> Sub \cup {None}]
  /\ gone \subseteq SubIds
  /\ pc \in [Handlers -> Places]
  /\ req \in [Handlers -> Request \cup {None}]
  /\ \A h \in Handlers : pc[h] # "idle" => req[h] \in Request
  /\ \A h \in Handlers : pc[h] = "renew" => req[h].id \in SubIds

\* Time only runs on, so an expiry that was accepted stays acceptable.
Carried ==
  \A h \in Handlers :
    pc[h] \in {"verify", "store", "renew"} => req[h].sub.exp <= clock + MaxTTL

StoreInv == StoreShapes /\ Carried /\ LifetimeBounded /\ DeletedStaysDeleted

\* The store starts empty (NewStore).
LEMMA StoreInit == Init => StoreInv
<1> SUFFICES ASSUME Init PROVE StoreInv
  OBVIOUS
<1>1. StoreShapes
  BY DEF Init, StoreShapes, Places
<1>2. Carried
  BY DEF Init, Carried
<1>3. LifetimeBounded /\ DeletedStaysDeleted
  BY DEF Init, LifetimeBounded, DeletedStaysDeleted, Stored
<1> QED
  BY <1>1, <1>2, <1>3 DEF StoreInv

\* The steps of the manager on a request's goroutine: the store is not touched,
\* and the request ends or goes on to build its watch.
Beyond ==
  /\ UNCHANGED <<clock, subs, gone>>
  /\ pc' \in [Handlers -> Places]
  /\ req' \in [Handlers -> Request \cup {None}]
  /\ \A h \in Handlers :
       \/ pc'[h] = pc[h] /\ req'[h] = req[h]
       \/ pc'[h] = "idle"
       \/ pc'[h] \in InBuild /\ pc[h] # "idle" /\ req'[h] = req[h]

\* A step beyond the store's write keeps what holds of the store.
LEMMA BeyondKeeps == StoreInv /\ Beyond => StoreInv'
<1> SUFFICES ASSUME StoreInv, Beyond PROVE StoreInv'
  OBVIOUS
<1> USE DEF StoreInv
<1>1. StoreShapes'
  BY DEF StoreShapes, Beyond, InBuild
<1>2. Carried'
  BY DEF Carried, Beyond, InBuild
<1>3. LifetimeBounded'
  BY DEF LifetimeBounded, Beyond, Stored
<1>4. DeletedStaysDeleted'
  BY DEF DeletedStaysDeleted, Beyond, Stored
<1> QED
  BY <1>1, <1>2, <1>3, <1>4

\* The response leaves a handler idle.
LEMMA Responds ==
  ASSUME NEW h \in Handlers, StoreShapes, Respond(h), UNCHANGED <<clock, subs, gone>>
  PROVE  Beyond
BY DEF StoreShapes, Respond, Goto, Beyond, Places

\* A create and a renewal put into the request what the store is to hold.
LEMMA CreateKeeps ==
  ASSUME NEW h \in Handlers, NEW o \in Owners, NEW name \in Names, NEW exp \in Nat,
         StoreInv, Create(h, o, name, exp)
  PROVE  StoreInv'
<1> DEFINE r == [id |-> None, sub |-> [owner |-> o, resource |-> name, exp |-> exp]]
<1>1. r \in Request /\ r.sub.exp = exp
  BY DEF Request, Sub
<1>2. req' = [req EXCEPT ![h] = r] /\ pc' = [pc EXCEPT ![h] = "verify"]
      /\ UNCHANGED <<clock, subs, gone>> /\ exp <= clock + MaxTTL
  BY DEF Create, Goto, ExpiryAccepted
<1> HIDE DEF r
<1>3. StoreShapes'
  BY <1>1, <1>2 DEF StoreInv, StoreShapes, Places
<1>4. Carried'
  BY <1>1, <1>2 DEF StoreInv, StoreShapes, Carried
<1>5. LifetimeBounded' /\ DeletedStaysDeleted'
  BY <1>2 DEF StoreInv, LifetimeBounded, DeletedStaysDeleted, Stored
<1> QED
  BY <1>3, <1>4, <1>5 DEF StoreInv

\* A renewal keeps the invariant of the store.
LEMMA RenewKeeps ==
  ASSUME NEW h \in Handlers, NEW o \in Owners, NEW id \in SubIds, NEW exp \in Nat,
         StoreInv, Renew(h, o, id, exp)
  PROVE  StoreInv'
<1> DEFINE r == [id |-> id, sub |-> [subs[id] EXCEPT !.exp = exp]]
<1>1. subs[id] \in Sub
  BY DEF Renew, Stored, StoreInv, StoreShapes
<1>2. r \in Request /\ r.sub.exp = exp /\ r.id = id
  BY <1>1 DEF Request, Sub
<1>3. req' = [req EXCEPT ![h] = r] /\ pc' = [pc EXCEPT ![h] = "renew"]
      /\ UNCHANGED <<clock, subs, gone>> /\ exp <= clock + MaxTTL
  BY DEF Renew, Goto, ExpiryAccepted
<1> HIDE DEF r
<1>4. StoreShapes'
  BY <1>2, <1>3 DEF StoreInv, StoreShapes, Places
<1>5. Carried'
  BY <1>2, <1>3 DEF StoreInv, StoreShapes, Carried
<1>6. LifetimeBounded' /\ DeletedStaysDeleted'
  BY <1>3 DEF StoreInv, LifetimeBounded, DeletedStaysDeleted, Stored
<1> QED
  BY <1>4, <1>5, <1>6 DEF StoreInv

\* The handshake takes its time and changes nothing.
LEMMA VerifiedKeeps ==
  ASSUME NEW h \in Handlers, StoreInv, Verified(h)
  PROVE  StoreInv'
<1>1. StoreShapes'
  BY DEF StoreInv, StoreShapes, Verified, Goto, Places
<1>2. Carried'
  BY DEF StoreInv, StoreShapes, Carried, Verified, Goto
<1>3. LifetimeBounded' /\ DeletedStaysDeleted'
  BY DEF StoreInv, LifetimeBounded, DeletedStaysDeleted, Stored, Verified
<1> QED
  BY <1>1, <1>2, <1>3 DEF StoreInv

\* The write of a create: the id is fresh, the expiry the one the request carries.
LEMMA StoreCreateKeeps ==
  ASSUME NEW h \in Handlers, NEW id \in SubIds, StoreInv, StoreCreate(h, id)
  PROVE  StoreInv'
<1> USE DEF StoreInv
<1>1. req[h] \in Request /\ req[h].sub \in Sub /\ req[h].sub.exp <= clock + MaxTTL
  BY DEF StoreShapes, Carried, StoreCreate, Request
<1>2. /\ subs' = [subs EXCEPT ![id] = req[h].sub]
      /\ pc' = [pc EXCEPT ![h] = "notify"]
      /\ req' = [req EXCEPT ![h].id = id]
      /\ UNCHANGED <<clock, gone>>
      /\ id \notin gone
  BY DEF StoreCreate, Goto
<1>3. [req[h] EXCEPT !.id = id] \in Request
  BY <1>1 DEF Request
<1>4. StoreShapes'
  BY <1>1, <1>2, <1>3 DEF StoreShapes, Places
<1>5. Carried'
  BY <1>2 DEF StoreShapes, Carried
<1>6. LifetimeBounded'
  BY <1>1, <1>2 DEF StoreShapes, LifetimeBounded, Stored
<1>7. DeletedStaysDeleted'
  BY <1>2 DEF StoreShapes, DeletedStaysDeleted, Stored
<1> QED
  BY <1>4, <1>5, <1>6, <1>7

\* The write of a renewal finds the subscription or leaves the store alone.
LEMMA StoreRenewKeeps ==
  ASSUME NEW h \in Handlers, StoreInv, StoreRenew(h)
  PROVE  StoreInv'
<1> DEFINE id == req[h].id
<1>1. CASE ~ Stored(id)
  BY <1>1, Responds, BeyondKeeps DEF StoreRenew, StoreInv
<1>2. CASE Stored(id)
  <2>1. id \in SubIds /\ req[h] \in Request /\ req[h].sub.exp \in Nat
        /\ req[h].sub.exp <= clock + MaxTTL
    BY DEF StoreInv, StoreShapes, Carried, StoreRenew, Request, Sub
  <2>2. subs[id] \in Sub /\ id \notin gone
    BY <1>2, <2>1 DEF StoreInv, StoreShapes, DeletedStaysDeleted, Stored
  <2> DEFINE s == [subs[id] EXCEPT !.exp = req[h].sub.exp]
  <2>3. s \in Sub /\ s.exp <= clock + MaxTTL
    BY <2>1, <2>2 DEF Sub
  <2>4. /\ subs' = [subs EXCEPT ![id] = s]
        /\ pc' = [pc EXCEPT ![h] = "notify"]
        /\ UNCHANGED <<clock, gone, req>>
        /\ pc[h] = "renew"
    BY <1>2, Zenon DEF StoreRenew, Goto
  <2> HIDE DEF s, id
  <2>5. StoreShapes'
    BY <2>1, <2>2, <2>3, <2>4 DEF StoreInv, StoreShapes, Places
  <2>6. Carried'
    BY <2>4 DEF StoreInv, StoreShapes, Carried
  <2>7. LifetimeBounded'
    BY <2>1, <2>3, <2>4 DEF StoreInv, StoreShapes, LifetimeBounded, Stored
  <2>8. DeletedStaysDeleted'
    BY <2>1, <2>2, <2>4 DEF StoreInv, StoreShapes, DeletedStaysDeleted, Stored
  <2> QED
    BY <2>5, <2>6, <2>7, <2>8 DEF StoreInv
<1> QED
  BY <1>1, <1>2

\* A delete keeps the invariant of the store.
LEMMA DeleteKeeps ==
  ASSUME NEW id \in SubIds, StoreInv, Delete(id)
  PROVE  StoreInv'
<1> USE DEF StoreInv, Delete
<1>1. StoreShapes'
  BY DEF StoreShapes
<1>2. Carried'
  BY DEF Carried
<1>3. LifetimeBounded'
  BY DEF StoreShapes, LifetimeBounded, Stored
<1>4. DeletedStaysDeleted'
  BY DEF StoreShapes, DeletedStaysDeleted, Stored
<1> QED
  BY <1>1, <1>2, <1>3, <1>4

\* The passing of time keeps the invariant of the store.
LEMMA TickKeeps == StoreInv /\ Tick => StoreInv'
<1> SUFFICES ASSUME StoreInv, Tick PROVE StoreInv'
  OBVIOUS
<1> USE DEF StoreInv, Tick
<1>1. StoreShapes'
  BY DEF StoreShapes
<1>2. Carried'
  <2> SUFFICES ASSUME NEW h \in Handlers, pc[h] \in {"verify", "store", "renew"}
               PROVE  req[h].sub.exp <= clock' + MaxTTL
    BY DEF Carried
  <2>1. req[h].sub.exp \in Nat
    BY DEF StoreShapes, Request, Sub
  <2> QED
    BY <2>1, SubscriptionConstants DEF Carried, StoreShapes
<1>3. LifetimeBounded'
  <2> SUFFICES ASSUME NEW id \in SubIds, Stored(id)
               PROVE  subs[id].exp <= clock' + MaxTTL
    BY DEF LifetimeBounded, Stored
  <2>1. subs[id].exp \in Nat
    BY DEF StoreShapes, Sub, Stored
  <2> QED
    BY <2>1, SubscriptionConstants DEF LifetimeBounded, StoreShapes
<1>4. DeletedStaysDeleted'
  BY DEF DeletedStaysDeleted, Stored
<1> QED
  BY <1>1, <1>2, <1>3, <1>4

\* A step of a request before it reaches the manager.
LEMMA HandlerKeeps ==
  ASSUME NEW h \in Handlers, StoreInv, HandlerStep(h)
  PROVE  StoreInv'
<1>1. Expirations \subseteq Nat
  BY SubscriptionConstants DEF Expirations, StoreInv, StoreShapes
<1>2. ASSUME NEW o \in Owners, NEW name \in Names, NEW exp \in Expirations,
             Create(h, o, name, exp)
      PROVE  StoreInv'
  BY <1>1, <1>2, CreateKeeps
<1>3. ASSUME NEW o \in Owners, NEW id \in SubIds, NEW exp \in Expirations,
             Renew(h, o, id, exp)
      PROVE  StoreInv'
  BY <1>1, <1>3, RenewKeeps
<1>4. ASSUME VerifyFailed(h) \/ StoreFailed(h)
      PROVE  StoreInv'
  BY <1>4, Responds, BeyondKeeps DEF VerifyFailed, StoreFailed, StoreInv
<1> QED
  BY <1>2, <1>3, <1>4, VerifiedKeeps, StoreCreateKeeps, StoreRenewKeeps DEF HandlerStep

-----------------------------------------------------------------------------
(***************************************************************************)
(* The manager.                                                            *)
(***************************************************************************)

\* The variables of notify/manager.go that say who holds which watch.
WatchShapes ==
  /\ watches \in [Owners -> Watches \cup {None}]
  /\ wstate \in [Watches -> WatchStates]
  /\ wowner \in [Watches -> Owners \cup {None}]
  /\ building \in [Handlers -> Watches \cup {None}]
  /\ loop \in [Watches -> [Resources -> LoopStates]]
  /\ rcur \in Owners \cup {None}

\* A request between OnSubscribe and its swap has a watch in its hands.
InHand ==
  \A h \in Handlers :
    /\ pc[h] = "build" => building[h] \in Watches /\ wstate[building[h]] = "building"
    /\ pc[h] = "swap" => building[h] \in Watches /\ wstate[building[h]] = "built"
    /\ pc[h] \notin InBuild => building[h] = None

\* No two requests put the same watch together.
OneBuilder ==
  \A g, h \in Handlers : building[g] # None /\ building[g] = building[h] => g = h

\* A watch that is being put together is in a request's hands, and has an owner.
Attended ==
  \A w \in Watches :
    wstate[w] \in {"building", "built"} =>
      wowner[w] \in Owners /\ \E h \in Handlers : building[h] = w

\* What the map holds is installed, and for the owner that it is filed under.
Mapped ==
  \A o \in Owners :
    watches[o] # None => wstate[watches[o]] = "installed" /\ wowner[watches[o]] = o

\* What is installed is in the map.
InMap ==
  \A w \in Watches :
    wstate[w] = "installed" => wowner[w] \in Owners /\ watches[wowner[w]] = w

\* A watch that nobody has begun runs nothing.
Unbegun == \A w \in Watches : wstate[w] = "unused" => Started(w) = {}

WatchInv ==
  /\ WatchShapes /\ InHand /\ OneBuilder /\ Attended /\ Mapped /\ InMap /\ Unbegun

\* The invariant says what NoLeakedWatch says.
LEMMA WatchInvImplies == WatchInv => NoLeakedWatch
<1> SUFFICES ASSUME WatchInv, NEW w \in Watches
             PROVE  /\ wstate[w] = "installed" <=>
                         \E o \in Owners : watches[o] = w /\ wowner[w] = o
                    /\ (\E o \in Owners : watches[o] = w) => wstate[w] = "installed"
                    /\ wstate[w] \in {"building", "built"} <=>
                         \E h \in Handlers : building[h] = w
                    /\ wstate[w] = "unused" => Started(w) = {}
  BY DEF NoLeakedWatch
<1> USE DEF WatchInv
<1>1. w # None
  BY WatchConstants
<1>2. ASSUME NEW o \in Owners, watches[o] = w
      PROVE  wstate[w] = "installed" /\ wowner[w] = o
  BY <1>1, <1>2 DEF Mapped
<1>3. wstate[w] = "installed" => \E o \in Owners : watches[o] = w /\ wowner[w] = o
  BY DEF InMap
<1>4. ASSUME NEW h \in Handlers, building[h] = w
      PROVE  wstate[w] \in {"building", "built"}
  BY <1>1, <1>4 DEF InHand, InBuild
<1>5. wstate[w] \in {"building", "built"} => \E h \in Handlers : building[h] = w
  BY DEF Attended
<1>6. wstate[w] = "unused" => Started(w) = {}
  BY DEF Unbegun
<1> QED
  BY <1>2, <1>3, <1>4, <1>5, <1>6

\* There is no watch to leak at the start.
LEMMA WatchInit == WInit => WatchInv
<1> SUFFICES ASSUME WInit PROVE WatchInv
  OBVIOUS
<1> USE DEF WInit
<1>1. WatchShapes
  BY DEF WatchShapes, WatchStates, LoopStates
<1>2. InHand /\ OneBuilder
  BY DEF InHand, OneBuilder, InBuild, Init
<1>3. Attended /\ InMap
  BY DEF Attended, InMap
<1>4. Mapped
  BY DEF Mapped
<1>5. Unbegun
  BY DEF Unbegun, Started
<1> QED
  BY <1>1, <1>2, <1>3, <1>4, <1>5 DEF WatchInv

\* The variables that say who holds which watch.
Holdings == <<watches, wstate, wowner, building, rcur>>

\* No request reaches the manager, or leaves it.
Apart ==
  \A h \in Handlers : pc'[h] = pc[h] \/ (pc[h] \notin InBuild /\ pc'[h] \notin InBuild)

\* Steps that change no holding, and start no loop of a watch nobody has begun.
LEMMA HoldingsKeep ==
  ASSUME WatchInv, Apart, UNCHANGED Holdings,
         loop' \in [Watches -> [Resources -> LoopStates]],
         \A w \in Watches : wstate[w] = "unused" => loop'[w] = loop[w]
  PROVE  WatchInv'
<1> USE DEF WatchInv, Holdings
<1>1. WatchShapes'
  BY DEF WatchShapes
<1>2. InHand'
  BY DEF InHand, Apart, InBuild
<1>3. OneBuilder' /\ Mapped'
  BY DEF OneBuilder, Mapped
<1>4. Attended' /\ InMap'
  BY DEF Attended, InMap
<1>5. Unbegun'
  BY DEF Unbegun, Started
<1> QED
  BY <1>1, <1>2, <1>3, <1>4, <1>5

\* Steps of the handler, of other goroutines and of Reap that leave loops alone.
LEMMA HoldingsSame ==
  ASSUME WatchInv, Apart, UNCHANGED <<Holdings, loop>>
  PROVE  WatchInv'
BY HoldingsKeep DEF WatchInv, WatchShapes

\* A step of a request before it reaches the manager.
LEMMA HandlerApart ==
  ASSUME NEW h \in Handlers, StoreShapes, HandlerStep(h)
  PROVE  Apart
<1>1. ASSUME NEW label \in {"verify", "store", "renew", "notify", "idle"},
             pc[h] \notin InBuild, pc' = [pc EXCEPT ![h] = label]
      PROVE  Apart
  BY <1>1 DEF StoreShapes, Apart, InBuild
<1>2. \E label \in {"verify", "store", "renew", "notify", "idle"} :
        pc[h] \notin InBuild /\ pc' = [pc EXCEPT ![h] = label]
  BY DEF HandlerStep, Create, Verified, VerifyFailed, StoreCreate, StoreFailed, Renew,
         StoreRenew, Respond, Goto, InBuild
<1> QED
  BY <1>1, <1>2

\* The subscription handler's own steps keep the invariant of the watches.
LEMMA SubscriptionKeeps ==
  ASSUME StoreInv, WatchInv, SubscriptionStep
  PROVE  StoreInv' /\ WatchInv'
<1>1. StoreInv'
  BY HandlerKeeps, DeleteKeeps, TickKeeps DEF SubscriptionStep
<1>2. Apart
  <2>1. ASSUME UNCHANGED pc PROVE Apart
    BY <2>1 DEF Apart
  <2> QED
    BY <2>1, HandlerApart DEF SubscriptionStep, Delete, Tick, StoreInv
<1>3. WatchInv'
  BY <1>2, HoldingsSame DEF SubscriptionStep, Holdings, mgrVars, reapVars
<1> QED
  BY <1>1, <1>3

\* OnSubscribe takes a watch that nobody has begun.
LEMMA OnSubscribeKeeps ==
  ASSUME NEW h \in Handlers, NEW w \in Watches, StoreInv, WatchInv, OnSubscribe(h, w)
  PROVE  StoreInv' /\ WatchInv'
<1> DEFINE o == req[h].sub.owner
<1>1. pc[h] = "notify" /\ o \in Owners /\ w # None /\ building[h] = None
  BY WatchConstants DEF OnSubscribe, StoreInv, StoreShapes, Request, Sub, WatchInv, InHand,
     InBuild
<1>2. /\ wstate[w] = "unused"
      /\ wstate' = [wstate EXCEPT ![w] = "building"]
      /\ wowner' = [wowner EXCEPT ![w] = o]
      /\ building' = [building EXCEPT ![h] = w]
      /\ pc' = [pc EXCEPT ![h] = "build"]
      /\ UNCHANGED <<clock, subs, gone, req, watches, loop, rcur>>
  BY DEF OnSubscribe, Goto, reapVars
<1> HIDE DEF o
<1>3. Beyond
  BY <1>1, <1>2 DEF StoreInv, StoreShapes, Beyond, InBuild, Places
<1>4. WatchShapes /\ pc \in [Handlers -> Places]
  BY DEF WatchInv, StoreInv, StoreShapes
<1>5. \A g \in Handlers : building[g] # w
  BY <1>1, <1>2 DEF WatchInv, InHand, InBuild
<1>6. \A p \in Owners : watches[p] # w
  BY <1>1, <1>2 DEF WatchInv, Mapped
<1>7. WatchShapes'
  BY <1>1, <1>2, <1>4 DEF WatchShapes, WatchStates
<1>8. InHand'
  BY <1>2, <1>4, <1>5 DEF WatchInv, InHand, WatchShapes, InBuild
<1>9. OneBuilder'
  BY <1>2, <1>4, <1>5 DEF WatchInv, OneBuilder, WatchShapes
<1>10. Attended'
  <2> SUFFICES ASSUME NEW v \in Watches, wstate'[v] \in {"building", "built"}
               PROVE  wowner'[v] \in Owners /\ \E g \in Handlers : building'[g] = v
    BY DEF Attended
  <2>1. CASE v = w
    BY <1>1, <1>2, <1>4, <2>1 DEF WatchShapes
  <2>2. CASE v # w
    <3>1. wstate[v] \in {"building", "built"} /\ wowner'[v] = wowner[v]
      BY <1>2, <1>4, <2>2 DEF WatchShapes
    <3>2. PICK g \in Handlers : building[g] = v
      BY <3>1 DEF WatchInv, Attended
    <3>3. g # h
      BY <1>1, <3>2, WatchConstants
    <3> QED
      BY <1>2, <1>4, <3>1, <3>2, <3>3 DEF WatchInv, Attended, WatchShapes
  <2> QED
    BY <2>1, <2>2
<1>11. Mapped'
  BY <1>2, <1>4, <1>6 DEF WatchInv, Mapped, WatchShapes
<1>12. InMap'
  BY <1>2, <1>4 DEF WatchInv, InMap, WatchShapes
<1>13. Unbegun'
  BY <1>2, <1>4 DEF WatchInv, Unbegun, Started, WatchShapes
<1> QED
  BY <1>3, <1>7, <1>8, <1>9, <1>10, <1>11, <1>12, <1>13, BeyondKeeps DEF WatchInv

\* A build starts a loop of the watch in hand, which has been begun.
LEMMA BuildKeeps ==
  ASSUME NEW h \in Handlers, NEW x \in Resources, NEW exp, StoreInv, WatchInv,
         Build(h, x, exp)
  PROVE  StoreInv' /\ WatchInv'
<1>1. building[h] \in Watches /\ wstate[building[h]] = "building"
  BY DEF Build, WatchInv, InHand
<1>2. /\ loop' = [loop EXCEPT ![building[h]][x] = "starting"]
      /\ UNCHANGED <<clock, subs, gone, pc, req>>
      /\ UNCHANGED Holdings
  BY DEF Build, Holdings, subVars, reapVars
<1>3. Beyond /\ Apart
  BY <1>2 DEF Beyond, Apart, StoreInv, StoreShapes
<1>4. loop' \in [Watches -> [Resources -> LoopStates]]
  BY <1>1, <1>2 DEF WatchInv, WatchShapes, LoopStates
<1>5. \A w \in Watches : wstate[w] = "unused" => loop'[w] = loop[w]
  BY <1>1, <1>2 DEF WatchInv, WatchShapes
<1> QED
  BY <1>2, <1>3, <1>4, <1>5, BeyondKeeps, HoldingsKeep

\* No builder served the owner: the watch in hand is cancelled.
LEMMA NoneStartedKeeps ==
  ASSUME NEW h \in Handlers, StoreInv, WatchInv, NoneStarted(h)
  PROVE  StoreInv' /\ WatchInv'
<1> DEFINE w == building[h]
<1>1. w \in Watches /\ wstate[w] = "building" /\ w # None
  BY WatchConstants DEF NoneStarted, WatchInv, InHand
<1>2. /\ wstate' = [wstate EXCEPT ![w] = "cancelled"]
      /\ building' = [building EXCEPT ![h] = None]
      /\ pc' = [pc EXCEPT ![h] = "idle"]
      /\ UNCHANGED <<watches, wowner, loop, rcur>>
  BY DEF NoneStarted, Respond, Goto, reapVars
<1>3. Beyond
  BY Responds DEF NoneStarted, StoreInv
<1>4. WatchShapes /\ pc \in [Handlers -> Places]
  BY DEF WatchInv, StoreInv, StoreShapes
<1>5. \A g \in Handlers : g # h => building[g] # w
  BY <1>1 DEF WatchInv, OneBuilder
<1>6. \A p \in Owners : watches[p] # w
  BY <1>1 DEF WatchInv, Mapped
<1>7. WatchShapes'
  BY <1>1, <1>2, <1>4 DEF WatchShapes, WatchStates
<1>8. InHand'
  BY <1>2, <1>4, <1>5 DEF WatchInv, InHand, WatchShapes, InBuild
<1>9. OneBuilder'
  BY <1>2, <1>4 DEF WatchInv, OneBuilder, WatchShapes
<1>10. Attended'
  BY <1>1, <1>2, <1>4 DEF WatchInv, Attended, WatchShapes
<1>11. Mapped'
  BY <1>2, <1>4, <1>6 DEF WatchInv, Mapped, WatchShapes
<1>12. InMap'
  BY <1>2, <1>4 DEF WatchInv, InMap, WatchShapes
<1>13. Unbegun'
  BY <1>2, <1>4 DEF WatchInv, Unbegun, Started, WatchShapes
<1> QED
  BY <1>3, <1>7, <1>8, <1>9, <1>10, <1>11, <1>12, <1>13, BeyondKeeps DEF WatchInv

\* The watch in hand is complete; it stays in the same hands.
LEMMA ScheduleLifecycleKeeps ==
  ASSUME NEW h \in Handlers, StoreInv, WatchInv, ScheduleLifecycle(h)
  PROVE  StoreInv' /\ WatchInv'
<1> DEFINE w == building[h]
<1>1. w \in Watches /\ wstate[w] = "building" /\ w # None /\ pc[h] = "build"
  BY WatchConstants DEF ScheduleLifecycle, WatchInv, InHand
<1>2. /\ wstate' = [wstate EXCEPT ![w] = "built"]
      /\ pc' = [pc EXCEPT ![h] = "swap"]
      /\ UNCHANGED <<clock, subs, gone, req, watches, wowner, building, loop, rcur>>
  BY DEF ScheduleLifecycle, Goto, reapVars
<1>3. Beyond
  BY <1>1, <1>2 DEF StoreInv, StoreShapes, Beyond, InBuild, Places
<1>4. WatchShapes /\ pc \in [Handlers -> Places]
  BY DEF WatchInv, StoreInv, StoreShapes
<1>5. \A g \in Handlers : g # h => building[g] # w
  BY <1>1 DEF WatchInv, OneBuilder
<1>6. \A p \in Owners : watches[p] # w
  BY <1>1 DEF WatchInv, Mapped
<1>7. WatchShapes'
  BY <1>1, <1>2, <1>4 DEF WatchShapes, WatchStates
<1>8. InHand'
  BY <1>1, <1>2, <1>4, <1>5 DEF WatchInv, InHand, WatchShapes, InBuild
<1>9. OneBuilder'
  BY <1>2 DEF WatchInv, OneBuilder
<1>10. Attended'
  BY <1>1, <1>2, <1>4 DEF WatchInv, Attended, WatchShapes
<1>11. Mapped'
  BY <1>2, <1>4, <1>6 DEF WatchInv, Mapped, WatchShapes
<1>12. InMap'
  BY <1>2, <1>4 DEF WatchInv, InMap, WatchShapes
<1>13. Unbegun'
  BY <1>2, <1>4 DEF WatchInv, Unbegun, Started, WatchShapes
<1> QED
  BY <1>3, <1>7, <1>8, <1>9, <1>10, <1>11, <1>12, <1>13, BeyondKeeps DEF WatchInv

\* Two requests of one owner may swap in any order: the later swap finds the
\* earlier one's watch in the map and hands it to its teardown.
LEMMA SwapKeeps ==
  ASSUME NEW h \in Handlers, StoreInv, WatchInv, Swap(h)
  PROVE  StoreInv' /\ WatchInv'
<1> DEFINE w == building[h]
           owner == wowner[w]
           old == watches[owner]
<1>1. w \in Watches /\ wstate[w] = "built" /\ w # None
  BY WatchConstants DEF Swap, WatchInv, InHand
<1>2. owner \in Owners /\ old \in Watches \cup {None} /\ old # w
  <2>1. owner \in Owners
    BY <1>1 DEF WatchInv, Attended
  <2> QED
    BY <1>1, <2>1 DEF WatchInv, Mapped, WatchShapes
<1>3. /\ watches' = [watches EXCEPT ![owner] = w]
      /\ wstate' = [v \in Watches |-> IF v = w THEN "installed"
                                      ELSE IF v = old THEN "removed" ELSE wstate[v]]
      /\ building' = [building EXCEPT ![h] = None]
      /\ pc' = [pc EXCEPT ![h] = "idle"]
      /\ UNCHANGED <<wowner, loop, rcur>>
  BY DEF Swap, Respond, Goto, reapVars
<1>4. Beyond
  BY Responds DEF Swap, StoreInv
<1>5. WatchShapes /\ pc \in [Handlers -> Places]
  BY DEF WatchInv, StoreInv, StoreShapes
<1>6. \A g \in Handlers : g # h => building[g] # w
  BY <1>1 DEF WatchInv, OneBuilder
<1>7. old # None => wstate[old] = "installed" /\ wowner[old] = owner
  BY <1>2 DEF WatchInv, Mapped
<1>8. wowner[w] = owner
  OBVIOUS
<1> HIDE DEF w, owner, old
<1>9. WatchShapes'
  BY <1>1, <1>2, <1>3, <1>5 DEF WatchShapes, WatchStates
<1>10. InHand'
  <2>1. \A g \in Handlers : building[g] \in Watches /\ building[g] = old
          => pc[g] \notin InBuild
    BY <1>7, WatchConstants DEF WatchInv, InHand, InBuild
  <2> QED
    BY <1>3, <1>5, <1>6, <2>1 DEF WatchInv, InHand, WatchShapes, InBuild
<1>11. OneBuilder'
  BY <1>3, <1>5 DEF WatchInv, OneBuilder, WatchShapes
<1>12. Attended'
  <2> SUFFICES ASSUME NEW v \in Watches, wstate'[v] \in {"building", "built"}
               PROVE  wowner[v] \in Owners /\ \E g \in Handlers : building'[g] = v
    BY <1>3 DEF Attended
  <2>1. v # w /\ wstate[v] \in {"building", "built"}
    BY <1>3
  <2>2. PICK g \in Handlers : building[g] = v
    BY <2>1 DEF WatchInv, Attended
  <2>3. g # h
    BY <2>1, <2>2 DEF w
  <2> QED
    BY <1>3, <1>5, <2>1, <2>2, <2>3 DEF WatchInv, Attended, WatchShapes
<1>13. Mapped'
  <2> SUFFICES ASSUME NEW p \in Owners, watches'[p] # None
               PROVE  wstate'[watches'[p]] = "installed" /\ wowner[watches'[p]] = p
    BY <1>3 DEF Mapped
  <2>1. CASE p = owner
    BY <1>1, <1>3, <1>5, <1>8, <2>1 DEF WatchShapes
  <2>2. CASE p # owner
    <3>1. watches'[p] = watches[p] /\ watches[p] \in Watches
      BY <1>3, <1>5, <2>2 DEF WatchShapes
    <3>2. wstate[watches[p]] = "installed" /\ wowner[watches[p]] = p
      BY <3>1, WatchConstants DEF WatchInv, Mapped
    <3>3. watches[p] # old
      BY <1>7, <2>2, <3>1, <3>2, WatchConstants
    <3> QED
      BY <1>3, <3>1, <3>2, <3>3
  <2> QED
    BY <2>1, <2>2
<1>14. InMap'
  <2> SUFFICES ASSUME NEW v \in Watches, wstate'[v] = "installed"
               PROVE  wowner[v] \in Owners /\ watches'[wowner[v]] = v
    BY <1>3 DEF InMap
  <2>1. CASE v = w
    BY <1>2, <1>3, <1>5, <1>8, <2>1 DEF WatchShapes
  <2>2. CASE v # w
    <3>1. v # old /\ wstate[v] = "installed"
      BY <1>3, <2>2
    <3>2. wowner[v] \in Owners /\ watches[wowner[v]] = v
      BY <3>1 DEF WatchInv, InMap
    <3>3. wowner[v] # owner
      BY <3>1, <3>2 DEF old
    <3> QED
      BY <1>3, <1>5, <3>2, <3>3 DEF WatchShapes
  <2> QED
    BY <2>1, <2>2
<1>15. Unbegun'
  BY <1>3 DEF WatchInv, Unbegun, Started
<1> QED
  BY <1>4, <1>9, <1>10, <1>11, <1>12, <1>13, <1>14, <1>15, BeyondKeeps DEF WatchInv

\* A step of a request inside the manager.
LEMMA ManagerKeeps ==
  ASSUME NEW h \in Handlers, StoreInv, WatchInv, ManagerStep(h)
  PROVE  StoreInv' /\ WatchInv'
<1>1. ASSUME OnSubscribeNothing(h)
      PROVE  StoreInv' /\ WatchInv'
  <2>1. Beyond
    BY <1>1, Responds DEF OnSubscribeNothing, StoreInv
  <2>2. Apart
    BY <1>1 DEF OnSubscribeNothing, Respond, Goto, Apart, StoreInv, StoreShapes, InBuild
  <2> QED
    BY <1>1, <2>1, <2>2, BeyondKeeps, HoldingsSame
    DEF OnSubscribeNothing, Holdings, mgrVars, reapVars
<1>2. ASSUME NEW x \in Resources, BuildFail(h, x)
      PROVE  StoreInv' /\ WatchInv'
  <2>1. UNCHANGED <<clock, subs, gone, pc, req>> /\ UNCHANGED <<Holdings, loop>>
    BY <1>2 DEF BuildFail, Holdings, subVars, reapVars
  <2>2. Beyond /\ Apart
    BY <2>1 DEF Beyond, Apart, StoreInv, StoreShapes
  <2> QED
    BY <2>1, <2>2, BeyondKeeps, HoldingsSame
<1> QED
  BY <1>1, <1>2, OnSubscribeKeeps, BuildKeeps, NoneStartedKeeps, ScheduleLifecycleKeeps,
     SwapKeeps DEF ManagerStep

\* The goroutines of a watch, and Reap before it drops one, touch no request.
LEMMA StillKeeps ==
  ASSUME StoreInv, UNCHANGED subVars
  PROVE  StoreInv' /\ Apart
<1>1. Beyond /\ Apart
  BY DEF Beyond, Apart, StoreInv, StoreShapes, subVars
<1> QED
  BY <1>1, BeyondKeeps

\* A teardown goroutine cancels a watch that is in nobody's hands.
LEMMA TeardownKeeps ==
  ASSUME NEW w \in Watches, WatchInv, Teardown(w)
  PROVE  WatchInv'
<1>1. /\ wstate[w] = "removed"
      /\ wstate' = [wstate EXCEPT ![w] = "cancelled"]
      /\ UNCHANGED <<pc, watches, wowner, building, loop, rcur>>
  BY DEF Teardown, subVars, reapVars
<1>2. WatchShapes
  BY DEF WatchInv
<1>3. WatchShapes'
  BY <1>1, <1>2 DEF WatchShapes, WatchStates
<1>4. InHand' /\ OneBuilder'
  BY <1>1, <1>2 DEF WatchInv, InHand, OneBuilder, WatchShapes
<1>5. Attended'
  BY <1>1, <1>2 DEF WatchInv, Attended, WatchShapes
<1>6. Mapped'
  BY <1>1, <1>2 DEF WatchInv, Mapped, WatchShapes
<1>7. InMap' /\ Unbegun'
  BY <1>1, <1>2 DEF WatchInv, InMap, Unbegun, Started, WatchShapes
<1> QED
  BY <1>3, <1>4, <1>5, <1>6, <1>7 DEF WatchInv

\* A loop that moves on was started.
LEMMA LoopKeeps ==
  ASSUME NEW w \in Watches, NEW x \in Resources, NEW s \in LoopStates,
         WatchInv, Apart, UNCHANGED Holdings,
         loop[w][x] # "none", loop' = [loop EXCEPT ![w][x] = s]
  PROVE  WatchInv'
<1>1. loop' \in [Watches -> [Resources -> LoopStates]]
  BY DEF WatchInv, WatchShapes
<1>2. wstate[w] # "unused"
  BY DEF WatchInv, Unbegun, Started
<1>3. \A v \in Watches : wstate[v] = "unused" => loop'[v] = loop[v]
  BY <1>2 DEF WatchInv, WatchShapes
<1> QED
  BY <1>1, <1>3, HoldingsKeep

\* A step of a watch's loops and timers keeps the invariant of the watches.
LEMMA WatchStepKeeps ==
  ASSUME NEW w \in Watches, StoreInv, WatchInv, WatchStep(w)
  PROVE  StoreInv' /\ WatchInv'
<1>1. UNCHANGED subVars
  BY DEF WatchStep, Teardown, LoopLive, LoopEnd, LoopFail, LookAhead, Prompt, Missed, TimerStop
<1>2. StoreInv' /\ Apart
  BY <1>1, StillKeeps
<1>3. ASSUME NEW x \in Resources, LoopLive(w, x) \/ LoopEnd(w, x) \/ LoopFail(w, x)
      PROVE  WatchInv'
  <2>1. loop[w][x] # "none" /\ UNCHANGED Holdings
    BY <1>3 DEF LoopLive, LoopEnd, LoopFail, Running, Holdings, reapVars
  <2>2. \E s \in LoopStates : loop' = [loop EXCEPT ![w][x] = s]
    BY <1>3 DEF LoopLive, LoopEnd, LoopFail, LoopStates
  <2> QED
    BY <1>2, <2>1, <2>2, LoopKeeps
<1>4. ASSUME LookAhead(w) \/ Prompt(w) \/ Missed(w) \/ TimerStop(w)
      PROVE  WatchInv'
  <2>1. UNCHANGED <<Holdings, loop>>
    BY <1>4 DEF LookAhead, Prompt, Missed, TimerStop, Holdings, reapVars
  <2> QED
    BY <1>2, <2>1, HoldingsSame
<1> QED
  BY <1>2, <1>3, <1>4, TeardownKeeps DEF WatchStep

\* Reap drops whatever watch the owner has by now, also one that a request has
\* installed since the store was asked; it goes to its teardown all the same.
LEMMA ReapDeleteKeeps ==
  ASSUME WatchInv, ReapDelete
  PROVE  WatchInv'
<1> DEFINE owner == rcur
           pw == watches[owner]
<1>1. /\ owner # None
      /\ watches' = [watches EXCEPT ![owner] = None]
      /\ wstate' = [v \in Watches |-> IF v = pw THEN "removed" ELSE wstate[v]]
      /\ rcur' = None
      /\ UNCHANGED <<pc, wowner, building, loop>>
  BY DEF ReapDelete, subVars
<1>2. WatchShapes /\ owner \in Owners
  BY <1>1 DEF WatchInv, WatchShapes
<1>3. pw # None => wstate[pw] = "installed" /\ wowner[pw] = owner
  BY <1>2 DEF WatchInv, Mapped
<1>4. \A v \in Watches : v = pw => wstate[v] = "installed" /\ wowner[v] = owner
  BY <1>3, WatchConstants
<1> HIDE DEF pw, owner
<1>5. WatchShapes'
  BY <1>1, <1>2 DEF WatchShapes, WatchStates
<1>6. InHand' /\ OneBuilder'
  BY <1>1, <1>4 DEF WatchInv, InHand, OneBuilder
<1>7. Attended'
  BY <1>1 DEF WatchInv, Attended
<1>8. Mapped'
  <2> SUFFICES ASSUME NEW p \in Owners, watches'[p] # None
               PROVE  wstate'[watches'[p]] = "installed" /\ wowner[watches'[p]] = p
    BY <1>1 DEF Mapped
  <2>1. p # owner /\ watches'[p] = watches[p] /\ watches[p] \in Watches
    BY <1>1, <1>2 DEF WatchShapes
  <2>2. wstate[watches[p]] = "installed" /\ wowner[watches[p]] = p
    BY <2>1, WatchConstants DEF WatchInv, Mapped
  <2>3. watches[p] # pw
    BY <1>4, <2>1, <2>2
  <2> QED
    BY <1>1, <2>1, <2>2, <2>3
<1>9. InMap'
  <2> SUFFICES ASSUME NEW v \in Watches, wstate'[v] = "installed"
               PROVE  wowner[v] \in Owners /\ watches'[wowner[v]] = v
    BY <1>1 DEF InMap
  <2>1. v # pw /\ wstate[v] = "installed"
    BY <1>1
  <2>2. wowner[v] \in Owners /\ watches[wowner[v]] = v
    BY <2>1 DEF WatchInv, InMap
  <2>3. wowner[v] # owner
    BY <2>1, <2>2 DEF pw
  <2> QED
    BY <1>1, <1>2, <2>2, <2>3 DEF WatchShapes
<1>10. Unbegun'
  BY <1>1 DEF WatchInv, Unbegun, Started
<1> QED
  BY <1>5, <1>6, <1>7, <1>8, <1>9, <1>10 DEF WatchInv

\* The reaper keeps the invariant of the watches.
LEMMA ReapKeeps ==
  ASSUME StoreInv, WatchInv, ReapStep
  PROVE  StoreInv' /\ WatchInv'
<1>1. UNCHANGED subVars
  BY DEF ReapStep, ReapSnapshot, ReapCheck, ReapDelete
<1>2. StoreInv' /\ Apart
  BY <1>1, StillKeeps
<1>3. ASSUME ReapSnapshot
      PROVE  WatchInv'
  BY <1>2, <1>3, HoldingsSame DEF ReapSnapshot, Holdings, mgrVars
<1>4. ASSUME NEW o \in Owners, ReapCheck(o)
      PROVE  WatchInv'
  <2>1. /\ UNCHANGED <<pc, watches, wstate, wowner, building, loop>>
        /\ rcur' \in Owners \cup {None}
    BY <1>4 DEF ReapCheck, mgrVars, subVars
  <2>2. WatchShapes'
    BY <2>1 DEF WatchInv, WatchShapes
  <2>3. InHand' /\ OneBuilder' /\ Attended' /\ Mapped' /\ InMap' /\ Unbegun'
    BY <2>1 DEF WatchInv, InHand, OneBuilder, Attended, Mapped, InMap, Unbegun, Started
  <2> QED
    BY <2>2, <2>3 DEF WatchInv
<1> QED
  BY <1>2, <1>3, <1>4, ReapDeleteKeeps DEF ReapStep

-----------------------------------------------------------------------------
(***************************************************************************)
(* The theorems.                                                           *)
(***************************************************************************)

\* Both invariants hold throughout.
LEMMA WatchInvariants == WSpec => [](StoreInv /\ WatchInv)
<1>1. WInit => StoreInv /\ WatchInv
  BY StoreInit, WatchInit DEF WInit
<1>2. StoreInv /\ WatchInv /\ [WNext]_vars => StoreInv' /\ WatchInv'
  <2> SUFFICES ASSUME StoreInv, WatchInv, [WNext]_vars PROVE StoreInv' /\ WatchInv'
    OBVIOUS
  <2>1. ASSUME UNCHANGED subVars, UNCHANGED mgrVars, UNCHANGED reapVars
        PROVE  StoreInv' /\ WatchInv'
    BY <2>1, StillKeeps, HoldingsSame DEF Holdings, mgrVars, reapVars
  <2>2. CASE Shutdown
    BY <2>1, <2>2 DEF Shutdown
  <2>3. CASE UNCHANGED vars
    BY <2>1, <2>3 DEF vars
  <2> QED
    BY <2>2, <2>3, SubscriptionKeeps, ManagerKeeps, WatchStepKeeps, ReapKeeps DEF WNext
<1> QED
  BY <1>1, <1>2, PTL DEF WSpec

\* However long the handshake of handleCreate takes, and however two renewals
\* race, store.go never holds a subscription that outlives maxTTL from now.
THEOREM Lifetime == WSpec => []LifetimeBounded
BY WatchInvariants, PTL DEF StoreInv

\* store.Renew looks its id up again: a renewal whose subscription was deleted
\* after handleRenew had read it does not bring it back.
THEOREM Deleted == WSpec => []DeletedStaysDeleted
BY WatchInvariants, PTL DEF StoreInv

\* Swaps of two requests and the deletions of Reap, in any order, neither lose a
\* watch of manager.go nor tear one down that its map still holds.
THEOREM NothingLeaks == WSpec => []NoLeakedWatch
BY WatchInvariants, WatchInvImplies, PTL

-----------------------------------------------------------------------------
(***************************************************************************)
(* The manager runs inside the handler's requests, and is not seen there.  *)
(***************************************************************************)

\* A step of a request before the manager is the same step of the handler.
LEMMA HandlerSame ==
  ASSUME NEW h \in Handlers, StoreInv, HandlerStep(h)
  PROVE  Handler!HandlerStep(h)
<1>1. pc[h] \notin InBuild /\ AtHandler[h] = pc[h]
  BY DEF HandlerStep, Create, Verified, VerifyFailed, StoreCreate, StoreFailed, Renew,
         StoreRenew, InBuild, AtHandler
<1>2. ASSUME NEW label, label \notin InBuild, Goto(h, label)
      PROVE  Handler!Goto(h, label)
  BY <1>1, <1>2 DEF Goto, Handler!Goto, AtHandler, StoreInv, StoreShapes, InBuild
<1>3. ASSUME Respond(h) PROVE Handler!Respond(h)
  BY <1>2, <1>3 DEF Respond, Handler!Respond, InBuild
<1>4. ASSUME NEW o \in Owners, NEW name \in Names, NEW exp \in Expirations,
             Create(h, o, name, exp)
      PROVE  Handler!HandlerStep(h)
  <2>1. Handler!Create(h, o, name, exp)
    BY <1>1, <1>2, <1>4 DEF Create, Handler!Create, ExpiryAccepted, Handler!ExpiryAccepted,
       InBuild
  <2> QED
    BY <2>1 DEF Handler!HandlerStep, Expirations, Handler!Expirations
<1>5. ASSUME NEW o \in Owners, NEW id \in SubIds, NEW exp \in Expirations,
             Renew(h, o, id, exp)
      PROVE  Handler!HandlerStep(h)
  <2>1. Handler!Renew(h, o, id, exp)
    BY <1>1, <1>2, <1>5 DEF Renew, Handler!Renew, ExpiryAccepted, Handler!ExpiryAccepted,
       Stored, Handler!Stored, InBuild
  <2> QED
    BY <2>1 DEF Handler!HandlerStep, Expirations, Handler!Expirations
<1>6. ASSUME Verified(h) PROVE Handler!Verified(h)
  BY <1>1, <1>2, <1>6 DEF Verified, Handler!Verified, InBuild
<1>7. ASSUME VerifyFailed(h) PROVE Handler!VerifyFailed(h)
  BY <1>1, <1>3, <1>7 DEF VerifyFailed, Handler!VerifyFailed
<1>8. ASSUME NEW id \in SubIds, StoreCreate(h, id) PROVE Handler!StoreCreate(h, id)
  BY <1>1, <1>2, <1>8 DEF StoreCreate, Handler!StoreCreate, Stored, Handler!Stored, InBuild
<1>9. ASSUME StoreFailed(h) PROVE Handler!StoreFailed(h)
  BY <1>1, <1>3, <1>9 DEF StoreFailed, Handler!StoreFailed
<1>10. ASSUME StoreRenew(h) PROVE Handler!StoreRenew(h)
  BY <1>1, <1>2, <1>3, <1>10 DEF StoreRenew, Handler!StoreRenew, Stored, Handler!Stored, InBuild
<1> QED
  BY <1>4, <1>5, <1>6, <1>7, <1>8, <1>9, <1>10 DEF HandlerStep, Handler!HandlerStep

\* A request that comes back from the manager responds, as one without it does.
LEMMA ComesBack ==
  ASSUME NEW h \in Handlers, StoreInv, pc[h] \in InBuild \cup {"notify"}, Respond(h),
         UNCHANGED <<clock, subs, gone>>
  PROVE  Handler!Done(h)
<1>1. AtHandler[h] = "notify"
  BY DEF AtHandler, InBuild
<1>2. AtHandler' = [AtHandler EXCEPT ![h] = "idle"]
  BY DEF AtHandler, Respond, Goto, StoreInv, StoreShapes
<1> QED
  BY <1>1, <1>2 DEF Handler!Done, Handler!Respond, Handler!Goto, Respond

\* Inside the manager a request has not moved, for the handler.
LEMMA MovesUnseen ==
  ASSUME NEW h \in Handlers, StoreInv, NEW label \in InBuild,
         pc[h] \in InBuild \cup {"notify"}, Goto(h, label)
  PROVE  UNCHANGED AtHandler
BY DEF AtHandler, Goto, InBuild, StoreInv, StoreShapes

\* The manager of manager.go adds nothing to what the subscriptions handler and
\* its store can do: every behaviour of the two together is, with the time a
\* request spends in the manager taken as time before its response, a behaviour
\* of the handler alone.
THEOREM ManagerUnseen == WSpec => HandlerUnaffected
<1>1. WInit => Handler!Init
  BY DEF WInit, Init, Handler!Init, AtHandler
<1>2. StoreInv /\ [WNext]_vars => [Handler!Next]_(Handler!subVars)
  <2> SUFFICES ASSUME StoreInv, [WNext]_vars
               PROVE  [Handler!Next]_(Handler!subVars)
    OBVIOUS
  <2>1. ASSUME UNCHANGED subVars PROVE UNCHANGED Handler!subVars
    BY <2>1 DEF subVars, Handler!subVars, AtHandler
  <2>2. CASE SubscriptionStep
    <3>1. ASSUME NEW h \in Handlers, HandlerStep(h) PROVE Handler!Next
      BY <3>1, HandlerSame DEF Handler!Next
    <3>2. ASSUME UNCHANGED pc PROVE UNCHANGED AtHandler
      BY <3>2 DEF AtHandler
    <3>3. ASSUME NEW id \in SubIds, Delete(id) PROVE Handler!Next
      BY <3>2, <3>3 DEF Delete, Handler!Delete, Stored, Handler!Stored, Handler!Next
    <3>4. ASSUME Tick PROVE Handler!Next
      BY <3>2, <3>4 DEF Tick, Handler!Tick, Handler!Next
    <3> QED
      BY <2>2, <3>1, <3>3, <3>4 DEF SubscriptionStep
  <2>3. ASSUME NEW h \in Handlers, ManagerStep(h)
        PROVE  [Handler!Next]_(Handler!subVars)
    <3>1. ASSUME OnSubscribeNothing(h) \/ NoneStarted(h) \/ Swap(h)
          PROVE  Handler!Next
      <4>1. Handler!Done(h)
        BY <3>1, ComesBack DEF OnSubscribeNothing, NoneStarted, Swap, InBuild
      <4> QED
        BY <4>1 DEF Handler!Next
    <3>2. ASSUME (\E w \in Watches : OnSubscribe(h, w)) \/ ScheduleLifecycle(h)
          PROVE  UNCHANGED Handler!subVars
      BY <3>2, MovesUnseen DEF OnSubscribe, ScheduleLifecycle, Handler!subVars, InBuild
    <3>3. ASSUME (\E x \in Resources, exp \in TokenExpiries : Build(h, x, exp))
                 \/ \E x \in Resources : BuildFail(h, x)
          PROVE  UNCHANGED Handler!subVars
      BY <2>1, <3>3 DEF Build, BuildFail
    <3> QED
      BY <2>3, <3>1, <3>2, <3>3 DEF ManagerStep
  <2>4. ASSUME NEW w \in Watches, WatchStep(w) PROVE UNCHANGED Handler!subVars
    BY <2>1, <2>4 DEF WatchStep, Teardown, LoopLive, LoopEnd, LoopFail, LookAhead, Prompt,
       Missed, TimerStop
  <2>5. ASSUME ReapStep \/ Shutdown \/ UNCHANGED vars PROVE UNCHANGED Handler!subVars
    BY <2>1, <2>5 DEF ReapStep, ReapSnapshot, ReapCheck, ReapDelete, Shutdown, vars
  <2> QED
    BY <2>2, <2>3, <2>4, <2>5 DEF WNext
<1> QED
  BY <1>1, <1>2, WatchInvariants, PTL DEF WSpec, HandlerUnaffected, Handler!Spec

=============================================================================
