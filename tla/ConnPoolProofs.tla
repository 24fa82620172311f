--------------------------- MODULE ConnPoolProofs ---------------------------
(***************************************************************************)
(* Proofs about ConnPool for any number of requests, principals and        *)
(* connections and any bounds.                                             *)
(***************************************************************************)
EXTENDS ConnPool, FiniteSetTheorems, TLAPS

\* Where a request is tells whether it has a connection and a principal; a
\* lease that is back has had its checkin, so a second Close finds the Once done.
\* The reaper and closeAll have connections in hand only between the two halves
\* of their work.
ControlInv ==
  /\ \A r \in Requests :
       /\ held[r] # None <=> pc[r] \in InHand \cup {"returned"}
       /\ pc[r] # "start" => who[r] \in Principals
       /\ pc[r] \in {"park", "returned"} => once[r]
  /\ reaper # "close" => dead = {}
  /\ phase # "closing" => drained = {}

\* Only dialed connections are closed.
ClosedInv == \A c \in closed : owner[c] # None

\* Only dialed connections are about to be closed.
OwnedInv == \A c \in dead \cup drained : owner[c] # None

\* A connection that passed get's tests was fresh at get's clock value.
FreshInv ==
  \A r \in Requests :
    pc[r] = "probe" => now[r] + Skew < expiresAt[held[r]]

\* ExclusiveLease, RightPrincipal and NoneLost are inductive only together:
\* that a parked connection is not held rests on its owner, and that a Close
\* hits nothing in use rests on its being in one place.
PlaceInv ==
  /\ TypeOK
  /\ ControlInv
  /\ ClosedInv
  /\ OwnedInv
  /\ ExclusiveLease
  /\ RightPrincipal
  /\ NoneLost

-----------------------------------------------------------------------------

USE DEF ZeroTime, InHand

\* The pool starts well typed.
LEMMA InitTypeOK == Init => TypeOK
BY PoolConstants DEF Init, TypeOK

\* The steps keep the types.
LEMMA NextTypeOK == TypeOK /\ ControlInv /\ [Next]_vars => TypeOK'
<1>. SUFFICES ASSUME TypeOK, ControlInv, [Next]_vars PROVE TypeOK'
  OBVIOUS
<1>. USE PoolConstants
<1>1. ASSUME NEW r \in Requests, NEW id \in Principals, Get(r, id) PROVE TypeOK'
  BY <1>1 DEF TypeOK, Get, Goto, poolVars, connVars, serverVars, reaperVars
<1>2. ASSUME NEW r \in Requests, Pop(r) PROVE TypeOK'
  <2>1. who[r] \in Principals
    BY <1>2 DEF ControlInv, Pop
  <2>2. PICK c \in idle[who[r]] :
          /\ Unpark({c})
          /\ IF Unusable(c, now[r])
             THEN Close({c}) /\ UNCHANGED <<pc, held>>
             ELSE /\ held' = [held EXCEPT ![r] = c]
                  /\ Goto(r, "probe")
                  /\ UNCHANGED <<closed, alive, expiresAt>>
    BY <1>2 DEF Pop
  <2>3. c \in Conns
    BY <2>1 DEF TypeOK
  <2>4. idle' \in [Principals -> SUBSET Conns] /\ below' \in [Conns -> SUBSET Conns]
        /\ idleAt' \in [Conns -> Nat]
    BY <2>2 DEF TypeOK, Unpark
  <2>5. /\ closed' \subseteq Conns /\ alive' \subseteq Conns
        /\ expiresAt' \in [Conns -> Nat]
        /\ held' \in [Requests -> Conns \cup {None}]
        /\ pc' \in [Requests -> InHand \cup {"start", "pop", "dial", "returned"}]
    BY <2>2, <2>3 DEF TypeOK, Close, Goto
  <2>. QED
    BY <1>2, <2>4, <2>5 DEF TypeOK, Pop, serverVars, reaperVars
<1>3. ASSUME NEW r \in Requests, PopEmpty(r) PROVE TypeOK'
  BY <1>3 DEF TypeOK, PopEmpty, Goto, poolVars, connVars, serverVars, reaperVars
<1>4. ASSUME NEW r \in Requests, ProbeOK(r) PROVE TypeOK'
  BY <1>4 DEF TypeOK, ProbeOK, Goto, poolVars, connVars, serverVars, reaperVars
<1>5. ASSUME NEW r \in Requests, ProbeFail(r) PROVE TypeOK'
  BY <1>5 DEF TypeOK, ControlInv, ProbeFail, Goto, Close, poolVars, serverVars, reaperVars
<1>6. ASSUME NEW r \in Requests, NEW c \in Conns, NEW exp \in Expiries, Dial(r, c, exp)
      PROVE TypeOK'
  <2>1. exp \in Nat
    BY DEF Expiries, TypeOK
  <2>. QED
    BY <1>6, <2>1 DEF TypeOK, Dial, Goto, poolVars, serverVars, reaperVars
<1>7. ASSUME NEW r \in Requests, DialFail(r) PROVE TypeOK'
  BY <1>7 DEF TypeOK, DialFail, Goto, poolVars, connVars, serverVars, reaperVars
<1>8. ASSUME NEW r \in Requests, Checkin(r) PROVE TypeOK'
  BY <1>8 DEF TypeOK, ControlInv, Checkin, Goto, Close, poolVars, serverVars, reaperVars
<1>9. ASSUME NEW r \in Requests, Park(r) PROVE TypeOK'
  BY <1>9 DEF TypeOK, ControlInv, Park, Goto, Close, poolVars, serverVars, reaperVars
<1>10. ASSUME NEW r \in Requests, Return(r) PROVE TypeOK'
  BY <1>10 DEF TypeOK, Return, Goto, poolVars, connVars, serverVars, reaperVars
<1>11. CASE ReapStart
  BY <1>11 DEF TypeOK, ReapStart, poolVars, connVars, reqVars, serverVars
<1>12. CASE Sweep
  BY <1>12 DEF TypeOK, Sweep, Reapable, Parked, Unpark, connVars, reqVars, serverVars
<1>13. CASE ReaperStop
  BY <1>13 DEF TypeOK, ReaperStop, poolVars, connVars, reqVars, serverVars
<1>14. CASE Shutdown
  BY <1>14 DEF TypeOK, Shutdown, poolVars, connVars, reqVars, serverVars, reaperVars
<1>15. CASE CloseAll
  BY <1>15 DEF TypeOK, CloseAll, Parked, Unpark, connVars, reqVars, reaperVars
<1>16. ASSUME NEW c \in Conns, ServerDrop(c) PROVE TypeOK'
  BY <1>16 DEF TypeOK, ServerDrop, poolVars, reqVars, serverVars, reaperVars
<1>17. CASE Tick
  BY <1>17 DEF TypeOK, Tick, poolVars, connVars, reqVars, serverVars, reaperVars
<1>18. CASE ReapClose
  BY <1>18 DEF TypeOK, ReapClose, Close, poolVars, reqVars, serverVars
<1>19. CASE CloseDrained
  BY <1>19 DEF TypeOK, CloseDrained, Close, poolVars, reqVars, reaperVars
<1>20. CASE UNCHANGED vars
  BY <1>20 DEF TypeOK, vars, poolVars, connVars, reqVars, serverVars, reaperVars
<1>. QED
  BY <1>1, <1>2, <1>3, <1>4, <1>5, <1>6, <1>7, <1>8, <1>9, <1>10, <1>11, <1>12,
     <1>13, <1>14, <1>15, <1>16, <1>17, <1>18, <1>19, <1>20 DEF Next, RequestStep

-----------------------------------------------------------------------------
(* One lemma for each kind of step that moves a connection.                *)

\* What the reaper and closeAll have taken from the map and not closed.
Taken == dead \cup drained

\* Steps that move none: only control and clock values change.
LEMMA ControlSteps ==
  ASSUME PlaceInv, NEW r \in Requests,
         \/ \E id \in Principals : Get(r, id)
         \/ PopEmpty(r)
         \/ ProbeOK(r)
         \/ DialFail(r)
         \/ Return(r)
  PROVE  (ControlInv /\ ClosedInv /\ ExclusiveLease /\ RightPrincipal /\ NoneLost)'
<1>. USE PoolConstants
<1>1. UNCHANGED <<idle, owner, closed, dead, drained>>
  BY DEF Get, PopEmpty, ProbeOK, DialFail, Return, poolVars, connVars, serverVars, reaperVars
<1>2. Hand(r) # None => who'[r] = who[r]
  BY DEF PlaceInv, ControlInv, Hand, Get, PopEmpty, ProbeOK, DialFail, Return
<1>3. ControlInv'
  BY DEF PlaceInv, TypeOK, ControlInv, Get, PopEmpty, ProbeOK, DialFail, Return, Goto,
         serverVars, reaperVars
<1>4. \A q \in Requests : q # r => who'[q] = who[q]
  BY DEF PlaceInv, TypeOK, Get, PopEmpty, ProbeOK, DialFail, Return
<1>5. \A q \in Requests : Hand(q)' = Hand(q)
  BY DEF PlaceInv, TypeOK, Hand, Get, PopEmpty, ProbeOK, DialFail, Return, Goto
<1>6. (ClosedInv /\ ExclusiveLease /\ RightPrincipal /\ NoneLost)'
  BY <1>1, <1>2, <1>4, <1>5
     DEF PlaceInv, ClosedInv, ExclusiveLease, RightPrincipal, NoneLost, Parked
<1>. QED
  BY <1>3, <1>6

\* A pop moves a connection from the slice to the request, or closes it.
LEMMA PopStep ==
  ASSUME PlaceInv, NEW r \in Requests, Pop(r)
  PROVE  (ControlInv /\ ClosedInv /\ ExclusiveLease /\ RightPrincipal /\ NoneLost)'
<1>. USE PoolConstants
<1>1. who[r] \in Principals /\ Hand(r) = None /\ held[r] = None
  BY DEF PlaceInv, ControlInv, Pop, Hand
<1>2. PICK c \in idle[who[r]] :
        /\ Unpark({c})
        /\ IF Unusable(c, now[r])
           THEN Close({c}) /\ UNCHANGED <<pc, held>>
           ELSE /\ held' = [held EXCEPT ![r] = c]
                /\ Goto(r, "probe")
                /\ UNCHANGED <<closed, alive>>
  BY DEF Pop
<1>3. /\ c \in Conns /\ c # None /\ c \in Parked /\ c \notin closed /\ c \notin Taken
      /\ owner[c] = who[r] /\ owner[c] # None
      /\ \A q \in Requests : Hand(q) # c
  BY <1>1 DEF PlaceInv, TypeOK, RightPrincipal, NoneLost, ExclusiveLease, Parked, Taken
<1>4. \A id \in Principals : idle'[id] = idle[id] \ {c}
  BY <1>2 DEF Unpark
<1>5. UNCHANGED <<who, owner, once, dead, drained, reaper, phase>>
  BY DEF Pop, serverVars, reaperVars
<1>6. Parked' = Parked \ {c}
  BY <1>4 DEF Parked
<1>7. CASE Unusable(c, now[r])
  <2>1. closed' = closed \cup {c} /\ UNCHANGED <<pc, held>>
    BY <1>2, <1>7 DEF Close
  <2>2. ControlInv' /\ ClosedInv'
    BY <1>3, <1>5, <2>1 DEF PlaceInv, ControlInv, ClosedInv
  <2>3. \A q \in Requests : Hand(q)' = Hand(q)
    BY <2>1 DEF Hand
  <2>4. ExclusiveLease' /\ RightPrincipal'
    BY <1>4, <1>5, <1>6, <2>1, <2>3 DEF PlaceInv, ExclusiveLease, RightPrincipal
  <2>5. NoneLost'
    BY <1>3, <1>5, <1>6, <2>1, <2>3 DEF PlaceInv, NoneLost, Taken
  <2>. QED
    BY <2>2, <2>4, <2>5
<1>8. CASE ~ Unusable(c, now[r])
  <2>1. held' = [held EXCEPT ![r] = c] /\ pc' = [pc EXCEPT ![r] = "probe"] /\ closed' = closed
    BY <1>2, <1>8 DEF Goto
  <2>2. ControlInv' /\ ClosedInv'
    BY <1>1, <1>3, <1>5, <2>1 DEF PlaceInv, TypeOK, ControlInv, ClosedInv
  <2>3. Hand(r)' = c /\ \A q \in Requests : q # r => Hand(q)' = Hand(q)
    BY <2>1 DEF PlaceInv, TypeOK, Hand
  <2>4. ExclusiveLease' /\ RightPrincipal'
    BY <1>3, <1>4, <1>5, <1>6, <2>3 DEF PlaceInv, ExclusiveLease, RightPrincipal, Taken
  <2>5. NoneLost'
    BY <1>1, <1>3, <1>5, <1>6, <2>1, <2>3 DEF PlaceInv, NoneLost
  <2>. QED
    BY <2>2, <2>4, <2>5
<1>. QED
  BY <1>7, <1>8

\* A request closes the connection in its hands and has none any more.
LEMMA CloseHeldStep ==
  ASSUME PlaceInv, NEW r \in Requests, Hand(r) # None,
         closed' = closed \cup {held[r]},
         Hand(r)' = None, \A q \in Requests : q # r => Hand(q)' = Hand(q),
         UNCHANGED <<idle, owner, who, dead, drained>>
  PROVE  (ClosedInv /\ ExclusiveLease /\ RightPrincipal /\ NoneLost)'
<1>. USE PoolConstants
<1>1. /\ Hand(r) = held[r] /\ held[r] \in Conns
      /\ owner[held[r]] # None /\ held[r] \notin closed
      /\ who[r] \in Principals
  BY DEF PlaceInv, TypeOK, ControlInv, RightPrincipal, NoneLost, Hand
<1>2. ClosedInv'
  BY <1>1 DEF PlaceInv, ClosedInv
<1>3. ExclusiveLease' /\ RightPrincipal'
  BY <1>1 DEF PlaceInv, TypeOK, ExclusiveLease, RightPrincipal, Parked
<1>4. NoneLost'
  <2>1. \A c \in Conns : (\E q \in Requests : Hand(q)' = c)
                         <=> c # held[r] /\ \E q \in Requests : Hand(q) = c
    BY <1>1 DEF PlaceInv, ExclusiveLease
  <2>2. held[r] \notin Parked \cup dead \cup drained
    BY <1>1 DEF PlaceInv, ExclusiveLease
  <2>. QED
    BY <1>1, <2>1, <2>2 DEF PlaceInv, NoneLost, Parked
<1>. QED
  BY <1>2, <1>3, <1>4

\* A dial gives an unused connection to the request, owned by its principal.
LEMMA DialStep ==
  ASSUME PlaceInv, NEW r \in Requests, NEW c \in Conns, NEW exp, Dial(r, c, exp)
  PROVE  (ControlInv /\ ClosedInv /\ ExclusiveLease /\ RightPrincipal /\ NoneLost)'
<1>. USE PoolConstants
<1>1. who[r] \in Principals /\ Hand(r) = None /\ owner[c] = None /\ c # None
  BY DEF PlaceInv, ControlInv, Dial, Hand
<1>2. c \notin closed /\ c \notin Parked /\ \A q \in Requests : Hand(q) # c
  BY <1>1 DEF PlaceInv, TypeOK, ControlInv, ClosedInv, RightPrincipal, Parked, Hand
<1>3. c \notin dead \cup drained
  BY <1>1 DEF PlaceInv, OwnedInv
<1>4. /\ owner' = [owner EXCEPT ![c] = who[r]]
      /\ held' = [held EXCEPT ![r] = c]
      /\ pc' = [pc EXCEPT ![r] = "leased"]
      /\ UNCHANGED <<idle, closed, who, once, dead, drained, reaper, phase>>
  BY DEF Dial, Goto, poolVars, serverVars, reaperVars
<1>5. Hand(r)' = c /\ \A q \in Requests : q # r => Hand(q)' = Hand(q)
  BY <1>4 DEF PlaceInv, TypeOK, Hand
<1>6. ControlInv' /\ ClosedInv'
  BY <1>1, <1>2, <1>4 DEF PlaceInv, TypeOK, ControlInv, ClosedInv
<1>7. ExclusiveLease' /\ RightPrincipal'
  BY <1>1, <1>2, <1>3, <1>4, <1>5 DEF PlaceInv, TypeOK, ExclusiveLease, RightPrincipal, Parked
<1>8. NoneLost'
  BY <1>1, <1>2, <1>3, <1>4, <1>5 DEF PlaceInv, TypeOK, NoneLost, Parked
<1>. QED
  BY <1>6, <1>7, <1>8

\* The connection goes from the request to the slice of its principal.
LEMMA AppendStep ==
  ASSUME PlaceInv, NEW r \in Requests, Park(r), ~ Full(who[r])
  PROVE  (ClosedInv /\ ExclusiveLease /\ RightPrincipal /\ NoneLost)'
<1>. USE PoolConstants
<1>1. /\ Hand(r) = held[r] /\ held[r] # None /\ held[r] \in Conns /\ who[r] \in Principals
      /\ owner[held[r]] = who[r] /\ held[r] \notin closed /\ held[r] \notin Parked
      /\ held[r] \notin dead \cup drained
      /\ \A q \in Requests : q # r => Hand(q) # held[r]
  BY DEF PlaceInv, TypeOK, ControlInv, RightPrincipal, NoneLost, ExclusiveLease, Park, Hand
<1>2. /\ idle' = [idle EXCEPT ![who[r]] = @ \cup {held[r]}]
      /\ pc' = [pc EXCEPT ![r] = "returned"]
      /\ UNCHANGED <<owner, closed, who, held, dead, drained>>
  BY DEF Park, Goto, serverVars, reaperVars
<1>3. Parked' = Parked \cup {held[r]}
  BY <1>1, <1>2 DEF PlaceInv, TypeOK, Parked
<1>4. Hand(r)' = None /\ \A q \in Requests : q # r => Hand(q)' = Hand(q)
  BY <1>2 DEF PlaceInv, TypeOK, Hand
<1>5. ClosedInv'
  BY <1>1, <1>2 DEF PlaceInv, ClosedInv
<1>6. RightPrincipal'
  BY <1>1, <1>2, <1>4 DEF PlaceInv, TypeOK, RightPrincipal
<1>7. ExclusiveLease'
  <2>1. \A q \in Requests : Hand(q)' \notin Parked' \cup dead' \cup drained'
    BY <1>1, <1>2, <1>3, <1>4 DEF PlaceInv, TypeOK, ExclusiveLease, Parked
  <2>2. \A p, q \in Principals : p # q => idle'[p] \cap idle'[q] = {}
    BY <1>1, <1>2 DEF PlaceInv, TypeOK, ExclusiveLease, Parked
  <2>3. \A q1, q2 \in Requests : Hand(q1)' = Hand(q2)' /\ Hand(q1)' # None => q1 = q2
    BY <1>1, <1>4 DEF PlaceInv, ExclusiveLease
  <2>4. Parked' \cap (dead' \cup drained') = {} /\ dead' \cap drained' = {}
    BY <1>1, <1>2, <1>3 DEF PlaceInv, ExclusiveLease
  <2>. QED
    BY <2>1, <2>2, <2>3, <2>4 DEF ExclusiveLease
<1>8. NoneLost'
  <2>1. \A c \in Conns : (\E q \in Requests : Hand(q)' = c)
                         <=> c # held[r] /\ \E q \in Requests : Hand(q) = c
    BY <1>1, <1>4
  <2>. QED
    BY <1>1, <1>2, <1>3, <2>1 DEF PlaceInv, NoneLost
<1>. QED
  BY <1>5, <1>6, <1>7, <1>8

\* The reaper or closeAll takes a set of parked connections out of the map.
LEMMA TakeStep ==
  ASSUME PlaceInv, NEW S \in SUBSET Parked, Unpark(S),
         Taken' = Taken \cup S, dead' \cap drained' = {},
         UNCHANGED <<owner, closed, pc, who, held>>
  PROVE  (ClosedInv /\ ExclusiveLease /\ RightPrincipal /\ NoneLost)'
<1>. USE PoolConstants
<1>1. \A id \in Principals : idle'[id] = idle[id] \ S
  BY DEF Unpark
<1>2. Parked' = Parked \ S
  BY <1>1 DEF Parked
<1>3. \A q \in Requests : Hand(q)' = Hand(q)
  BY DEF Hand
<1>4. ClosedInv' /\ RightPrincipal'
  BY <1>1, <1>3 DEF PlaceInv, ClosedInv, RightPrincipal
<1>5. ExclusiveLease'
  BY <1>1, <1>2, <1>3 DEF PlaceInv, ExclusiveLease, Taken
<1>6. NoneLost'
  <2>1. Parked' \cup Taken' = Parked \cup Taken
    BY <1>2
  <2>. QED
    BY <1>3, <2>1 DEF PlaceInv, NoneLost, Taken
<1>. QED
  BY <1>4, <1>5, <1>6

\* The reaper or closeAll closes what it has taken.
LEMMA CloseTakenStep ==
  ASSUME PlaceInv, NEW S \in SUBSET Taken, Close(S),
         Taken' = Taken \ S, dead' \subseteq dead, drained' \subseteq drained,
         UNCHANGED <<idle, owner, pc, who, held>>
  PROVE  (ClosedInv /\ ExclusiveLease /\ RightPrincipal /\ NoneLost)'
<1>. USE PoolConstants
<1>1. closed' = closed \cup S /\ Parked' = Parked
  BY DEF Close, Parked
<1>2. \A q \in Requests : Hand(q)' = Hand(q)
  BY DEF Hand
<1>3. \A c \in S : owner[c] # None /\ c \notin Parked /\ \A q \in Requests : Hand(q) # c
  BY DEF PlaceInv, OwnedInv, ExclusiveLease, Taken
<1>4. ClosedInv' /\ RightPrincipal'
  BY <1>1, <1>2, <1>3 DEF PlaceInv, ClosedInv, RightPrincipal
<1>5. ExclusiveLease'
  BY <1>1, <1>2 DEF PlaceInv, ExclusiveLease, Taken
<1>6. NoneLost'
  BY <1>1, <1>2, <1>3 DEF PlaceInv, NoneLost, Taken
<1>. QED
  BY <1>4, <1>5, <1>6

-----------------------------------------------------------------------------

\* Nothing is dialed at the start, so nothing is misplaced.
LEMMA InitPlaceInv == Init => PlaceInv
BY InitTypeOK, PoolConstants
   DEF Init, PlaceInv, ControlInv, ClosedInv, OwnedInv, ExclusiveLease, RightPrincipal,
       NoneLost, Parked, Hand

\* What is about to be closed was dialed: it comes from the map.
LEMMA NextOwnedInv == PlaceInv /\ [Next]_vars => OwnedInv'
<1>. SUFFICES ASSUME PlaceInv, [Next]_vars PROVE OwnedInv'
  OBVIOUS
<1>. USE PoolConstants
<1>1. \A c \in Parked : owner[c] # None
  BY DEF PlaceInv, RightPrincipal, Parked
<1>2. \A c \in Conns : owner[c] # None => owner'[c] = owner[c]
  <2>1. ASSUME NEW r \in Requests, RequestStep(r)
        PROVE  owner' = owner \/ \E c \in Conns, exp \in Expiries : Dial(r, c, exp)
    BY <2>1 DEF RequestStep, Get, Pop, PopEmpty, ProbeOK, ProbeFail, DialFail, Checkin, Park,
                Return, connVars
  <2>2. ASSUME NEW r \in Requests, NEW d \in Conns, NEW exp, Dial(r, d, exp)
        PROVE  \A c \in Conns : owner[c] # None => owner'[c] = owner[c]
    BY <2>2 DEF Dial, PlaceInv, TypeOK
  <2>. QED
    BY <2>1, <2>2 DEF Next, ReapStart, Sweep, ReapClose, ReaperStop, Shutdown, CloseAll,
                      CloseDrained, ServerDrop, Tick, vars, connVars
<1>3. dead' \subseteq dead \cup Parked /\ drained' \subseteq drained \cup Parked
  <2>1. ASSUME NEW r \in Requests, RequestStep(r)
        PROVE  UNCHANGED <<dead, drained>>
    BY <2>1 DEF RequestStep, Get, Pop, PopEmpty, ProbeOK, ProbeFail, Dial, DialFail, Checkin,
                Park, Return, serverVars, reaperVars
  <2>. QED
    BY <2>1 DEF Next, ReapStart, Sweep, Reapable, ReapClose, ReaperStop, Shutdown, CloseAll,
                CloseDrained, ServerDrop, Tick, vars, serverVars, reaperVars
<1>4. dead \cup drained \cup Parked \subseteq Conns
  BY DEF PlaceInv, TypeOK, Parked
<1>. QED
  BY <1>1, <1>2, <1>3, <1>4 DEF PlaceInv, OwnedInv

\* Every step keeps every connection in one place, under its owner.
LEMMA NextPlaceInv == PlaceInv /\ [Next]_vars => PlaceInv'
<1>. DEFINE Places == ControlInv /\ ClosedInv /\ ExclusiveLease /\ RightPrincipal /\ NoneLost
<1>. SUFFICES ASSUME PlaceInv, [Next]_vars PROVE PlaceInv'
  OBVIOUS
<1>1. TypeOK' /\ OwnedInv'
  BY NextTypeOK, NextOwnedInv DEF PlaceInv
<1>2. ASSUME NEW r \in Requests, RequestStep(r) PROVE Places'
  <2>1. CASE \/ \E id \in Principals : Get(r, id)
             \/ PopEmpty(r) \/ ProbeOK(r) \/ DialFail(r) \/ Return(r)
    BY <2>1, ControlSteps
  <2>2. CASE Pop(r)
    BY <2>2, PopStep
  <2>3. CASE ProbeFail(r)
    <3>1. Hand(r) # None /\ who[r] \in Principals
      BY <2>3 DEF PlaceInv, ControlInv, ProbeFail, Hand
    <3>2. Hand(r)' = None /\ \A q \in Requests : q # r => Hand(q)' = Hand(q)
      BY <2>3 DEF PlaceInv, TypeOK, ProbeFail, Goto, Hand
    <3>3. ControlInv'
      BY <2>3, <3>1 DEF PlaceInv, TypeOK, ControlInv, ProbeFail, Goto, serverVars, reaperVars
    <3>4. (ClosedInv /\ ExclusiveLease /\ RightPrincipal /\ NoneLost)'
      BY <2>3, <3>1, <3>2, CloseHeldStep
         DEF ProbeFail, Close, poolVars, serverVars, reaperVars
    <3>. QED
      BY <3>3, <3>4
  <2>4. CASE \E c \in Conns, exp \in Expiries : Dial(r, c, exp)
    BY <2>4, DialStep
  <2>5. CASE Checkin(r)
    <3>1. pc[r] = "leased" /\ Hand(r) # None /\ who[r] \in Principals
      BY <2>5 DEF PlaceInv, ControlInv, Checkin, Hand
    <3>2. ControlInv'
      BY <2>5, <3>1 DEF PlaceInv, TypeOK, ControlInv, Checkin, Goto, serverVars, reaperVars
    <3>3. CASE expired(held[r], clock)
      <4>1. Hand(r)' = None /\ \A q \in Requests : q # r => Hand(q)' = Hand(q)
        BY <2>5, <3>3 DEF PlaceInv, TypeOK, Checkin, Goto, Hand
      <4>2. (ClosedInv /\ ExclusiveLease /\ RightPrincipal /\ NoneLost)'
        BY <2>5, <3>1, <3>3, <4>1, CloseHeldStep
           DEF Checkin, Close, poolVars, serverVars, reaperVars
      <4>. QED
        BY <3>2, <4>2
    <3>4. CASE ~ expired(held[r], clock)
      <4>1. UNCHANGED <<idle, owner, closed, who, dead, drained>>
        BY <2>5, <3>4 DEF Checkin, poolVars, serverVars, reaperVars
      <4>2. \A q \in Requests : Hand(q)' = Hand(q)
        BY <2>5, <3>1, <3>4 DEF PlaceInv, TypeOK, Checkin, Goto, Hand
      <4>. QED
        BY <3>2, <4>1, <4>2
           DEF PlaceInv, ClosedInv, ExclusiveLease, RightPrincipal, NoneLost, Parked
    <3>. QED
      BY <3>3, <3>4
  <2>6. CASE Park(r)
    <3>1. Hand(r) # None /\ who[r] \in Principals /\ held[r] # None /\ pc[r] = "park"
      BY <2>6 DEF PlaceInv, ControlInv, Park, Hand
    <3>2. ControlInv'
      BY <2>6, <3>1 DEF PlaceInv, TypeOK, ControlInv, Park, Goto, serverVars, reaperVars
    <3>3. CASE Full(who[r])
      <4>1. Hand(r)' = None /\ \A q \in Requests : q # r => Hand(q)' = Hand(q)
        BY <2>6, <3>3 DEF PlaceInv, TypeOK, Park, Goto, Hand
      <4>2. (ClosedInv /\ ExclusiveLease /\ RightPrincipal /\ NoneLost)'
        BY <2>6, <3>1, <3>3, <4>1, CloseHeldStep
           DEF Park, Close, poolVars, serverVars, reaperVars
      <4>. QED
        BY <3>2, <4>2
    <3>4. CASE ~ Full(who[r])
      BY <2>6, <3>2, <3>4, AppendStep
    <3>. QED
      BY <3>3, <3>4
  <2>. QED
    BY <1>2, <2>1, <2>2, <2>3, <2>4, <2>5, <2>6 DEF RequestStep
<1>3. ASSUME Sweep PROVE Places'
  <2>1. Reapable \in SUBSET Parked
    BY DEF Reapable
  <2>2. ControlInv'
    BY <1>3 DEF PlaceInv, ControlInv, Sweep, reqVars, serverVars
  <2>3. dead = {} /\ Reapable \cap drained = {}
    BY <1>3, <2>1 DEF PlaceInv, ControlInv, ExclusiveLease, Sweep
  <2>4. Taken' = Taken \cup Reapable /\ dead' \cap drained' = {}
    BY <1>3, <2>3 DEF Sweep, Taken, serverVars
  <2>5. (ClosedInv /\ ExclusiveLease /\ RightPrincipal /\ NoneLost)'
    BY <1>3, <2>1, <2>4, TakeStep DEF Sweep, connVars, reqVars
  <2>. QED
    BY <2>2, <2>5
<1>4. ASSUME CloseAll PROVE Places'
  <2>1. ControlInv'
    BY <1>4 DEF PlaceInv, ControlInv, CloseAll, reqVars, reaperVars
  <2>2. drained = {} /\ Parked \cap dead = {}
    BY <1>4 DEF PlaceInv, ControlInv, ExclusiveLease, CloseAll
  <2>3. Taken' = Taken \cup Parked /\ dead' \cap drained' = {}
    BY <1>4, <2>2 DEF CloseAll, Taken, reaperVars
  <2>4. (ClosedInv /\ ExclusiveLease /\ RightPrincipal /\ NoneLost)'
    BY <1>4, <2>3, TakeStep DEF CloseAll, connVars, reqVars
  <2>. QED
    BY <2>1, <2>4
<1>5. ASSUME ReapClose PROVE Places'
  <2>1. ControlInv'
    BY <1>5 DEF PlaceInv, ControlInv, ReapClose, reqVars, serverVars
  <2>2. Taken' = Taken \ dead /\ dead \in SUBSET Taken
    BY <1>5 DEF PlaceInv, ExclusiveLease, ReapClose, Taken, serverVars
  <2>3. (ClosedInv /\ ExclusiveLease /\ RightPrincipal /\ NoneLost)'
    BY <1>5, <2>2, CloseTakenStep DEF ReapClose, poolVars, reqVars, serverVars
  <2>. QED
    BY <2>1, <2>3
<1>6. ASSUME CloseDrained PROVE Places'
  <2>1. ControlInv'
    BY <1>6 DEF PlaceInv, ControlInv, CloseDrained, reqVars, reaperVars
  <2>2. Taken' = Taken \ drained /\ drained \in SUBSET Taken
    BY <1>6 DEF PlaceInv, ExclusiveLease, CloseDrained, Taken, reaperVars
  <2>3. (ClosedInv /\ ExclusiveLease /\ RightPrincipal /\ NoneLost)'
    BY <1>6, <2>2, CloseTakenStep DEF CloseDrained, poolVars, reqVars, reaperVars
  <2>. QED
    BY <2>1, <2>3
<1>7. ASSUME \/ ReapStart \/ ReaperStop \/ Shutdown \/ Tick
             \/ UNCHANGED vars \/ \E c \in Conns : ServerDrop(c)
      PROVE  Places'
  <2>1. UNCHANGED <<idle, owner, closed, pc, who, held, once, dead, drained>>
    BY <1>7 DEF ReapStart, ReaperStop, Shutdown, Tick, ServerDrop, vars, poolVars, connVars,
                reqVars, serverVars, reaperVars
  <2>2. \A q \in Requests : Hand(q)' = Hand(q)
    BY <2>1 DEF Hand
  <2>3. ControlInv'
    BY <1>7, <2>1 DEF PlaceInv, ControlInv, ReapStart, ReaperStop, Shutdown, Tick, ServerDrop,
                      vars, serverVars, reaperVars
  <2>. QED
    BY <2>1, <2>2, <2>3 DEF PlaceInv, ClosedInv, ExclusiveLease, RightPrincipal, NoneLost, Parked
<1>8. Places'
  BY <1>2, <1>3, <1>4, <1>5, <1>6, <1>7 DEF Next
<1>. QED
  BY <1>1, <1>8 DEF PlaceInv

\* The types of the pool's state, for every instance.
THEOREM TypeCorrect == Spec => []TypeOK
<1>1. Init => PlaceInv
  BY InitPlaceInv
<1>2. PlaceInv /\ [Next]_vars => PlaceInv'
  BY NextPlaceInv
<1>3. PlaceInv => TypeOK
  BY DEF PlaceInv
<1>. QED
  BY <1>1, <1>2, <1>3, PTL DEF Spec

\* Whatever the interleaving of checkouts, health checks, dials, double Closes,
\* the reaper and closeAll, a connection is in one place, belongs to the
\* principal it serves, is never lost and never used after its Close.
THEOREM LeaseSafety == Spec => [](ExclusiveLease /\ RightPrincipal /\ NoneLost)
<1>1. Init => PlaceInv
  BY InitPlaceInv
<1>2. PlaceInv /\ [Next]_vars => PlaceInv'
  BY NextPlaceInv
<1>3. PlaceInv => ExclusiveLease /\ RightPrincipal /\ NoneLost
  BY DEF PlaceInv
<1>. QED
  BY <1>1, <1>2, <1>3, PTL DEF Spec

-----------------------------------------------------------------------------
(* The idle bound.                                                         *)

\* Only an append lengthens a slice, and it has tested the length under the lock.
LEMMA NextIdleBound == PlaceInv /\ IdleBound /\ [Next]_vars => IdleBound'
<1>. SUFFICES ASSUME PlaceInv, IdleBound, [Next]_vars, MaxIdle > 0, NEW id \in Principals
              PROVE  Cardinality(idle'[id]) <= MaxIdle
  BY DEF IdleBound
<1>. USE PoolConstants
<1>1. idle[id] \subseteq Conns /\ IsFiniteSet(idle[id])
  BY FS_Subset DEF PlaceInv, TypeOK
<1>2. Cardinality(idle[id]) \in Nat /\ Cardinality(idle[id]) <= MaxIdle
  BY <1>1, FS_CardinalityType DEF IdleBound
<1>3. CASE idle'[id] \subseteq idle[id]
  <2>1. Cardinality(idle'[id]) <= Cardinality(idle[id])
    BY <1>1, <1>3, FS_Subset
  <2>2. Cardinality(idle'[id]) \in Nat
    BY <1>1, <1>3, FS_Subset, FS_CardinalityType
  <2>. QED
    BY <1>2, <2>1, <2>2
<1>4. CASE \E r \in Requests : Park(r) /\ who[r] = id /\ ~ Full(id)
  <2>1. PICK r \in Requests : Park(r) /\ who[r] = id /\ ~ Full(id)
    BY <1>4
  <2>2. idle'[id] = idle[id] \cup {held[r]}
    BY <2>1 DEF Park, PlaceInv, TypeOK
  <2>3. Cardinality(idle[id]) < MaxIdle
    BY <1>2, <2>1 DEF Full
  <2>4. held[r] \notin idle[id]
    BY <2>1 DEF PlaceInv, ControlInv, ExclusiveLease, Parked, Park, Hand
  <2>5. Cardinality(idle'[id]) = Cardinality(idle[id]) + 1
    BY <1>1, <2>2, <2>4, FS_AddElement
  <2>. QED
    BY <1>2, <2>3, <2>5
<1>5. idle'[id] \subseteq idle[id] \/ \E r \in Requests : Park(r) /\ who[r] = id /\ ~ Full(id)
  <2>1. ASSUME NEW r \in Requests, RequestStep(r)
        PROVE  idle'[id] \subseteq idle[id] \/ (Park(r) /\ who[r] = id /\ ~ Full(id))
    <3>1. CASE Pop(r)
      BY <3>1 DEF Pop, Unpark
    <3>2. CASE Park(r)
      BY <3>2 DEF Park, PlaceInv, TypeOK, poolVars
    <3>. QED
      BY <2>1, <3>1, <3>2
         DEF RequestStep, Get, PopEmpty, ProbeOK, ProbeFail, Dial, DialFail, Checkin,
             Return, poolVars
  <2>2. CASE Sweep \/ CloseAll
    BY <2>2 DEF Sweep, CloseAll, Unpark
  <2>3. CASE \/ ReapStart \/ ReapClose \/ ReaperStop \/ Shutdown \/ CloseDrained \/ Tick
             \/ UNCHANGED vars \/ \E c \in Conns : ServerDrop(c)
    BY <2>3 DEF ReapStart, ReapClose, ReaperStop, Shutdown, CloseDrained, Tick, ServerDrop,
                vars, poolVars
  <2>. QED
    BY <2>1, <2>2, <2>3 DEF Next
<1>. QED
  BY <1>3, <1>4, <1>5

\* No principal ever has more than maxIdle parked connections: the length test
\* and the append share the lock, and a held connection is not in the slice.
THEOREM IdleBounded == Spec => []IdleBound
<1>1. Init => PlaceInv /\ IdleBound
  <2>1. Init => IdleBound
    BY FS_EmptySet, PoolConstants DEF Init, IdleBound
  <2>. QED
    BY <2>1, InitPlaceInv
<1>2. PlaceInv /\ IdleBound /\ [Next]_vars => (PlaceInv /\ IdleBound)'
  BY NextPlaceInv, NextIdleBound
<1>. QED
  BY <1>1, <1>2, PTL DEF Spec

-----------------------------------------------------------------------------
(* The freshness of what get hands out.                                    *)

\* No step hands out a connection that fails the test at the instant get read.
LEMMA NextFreshInv == PlaceInv /\ FreshInv /\ [Next]_vars => FreshInv'
<1>. SUFFICES ASSUME PlaceInv, FreshInv, [Next]_vars,
                     NEW q \in Requests, pc'[q] = "probe"
              PROVE  now'[q] + Skew < expiresAt'[held'[q]]
  BY DEF FreshInv
<1>. USE PoolConstants DEF PlaceInv, TypeOK
<1>1. CASE UNCHANGED <<pc, now, held, expiresAt>>
  BY <1>1 DEF FreshInv
<1>2. ASSUME NEW r \in Requests, RequestStep(r) PROVE now'[q] + Skew < expiresAt'[held'[q]]
  <2>1. CASE Pop(r)
    <3>1. who[r] \in Principals
      BY <2>1 DEF ControlInv, Pop
    <3>2. PICK c \in idle[who[r]] :
            IF Unusable(c, now[r])
            THEN Close({c}) /\ UNCHANGED <<pc, held>>
            ELSE /\ held' = [held EXCEPT ![r] = c]
                 /\ pc' = [pc EXCEPT ![r] = "probe"]
                 /\ UNCHANGED expiresAt
      BY <2>1 DEF Pop, Goto
    <3>3. now' = now /\ c \in Conns /\ c \in Parked
      BY <2>1, <3>1 DEF Pop, Parked
    <3>4. CASE Unusable(c, now[r])
      <4>1. pc[q] = "probe" /\ held' = held /\ held[q] \in Conns /\ held[q] # c
        BY <3>2, <3>3, <3>4 DEF ControlInv, ExclusiveLease, Hand
      <4>2. expiresAt'[held[q]] = expiresAt[held[q]]
        BY <3>2, <3>4, <4>1 DEF Close
      <4>. QED
        BY <3>3, <4>1, <4>2 DEF FreshInv
    <3>5. CASE ~ Unusable(c, now[r])
      <4>1. now[r] + Skew < expiresAt[c]
        BY <3>3, <3>5 DEF Unusable, expired
      <4>. QED
        BY <3>2, <3>3, <3>5, <4>1 DEF FreshInv
    <3>. QED
      BY <3>4, <3>5
  <2>2. CASE \E c \in Conns, exp \in Expiries : Dial(r, c, exp)
    <3>1. PICK c \in Conns, exp \in Expiries : Dial(r, c, exp)
      BY <2>2
    <3>2. q # r /\ pc[q] = "probe" /\ held'[q] = held[q] /\ now'[q] = now[q]
      BY <3>1 DEF Dial, Goto
    <3>3. held[q] # c /\ held[q] \in Conns
      BY <3>1, <3>2 DEF ControlInv, RightPrincipal, Dial, Hand
    <3>4. expiresAt'[held[q]] = expiresAt[held[q]]
      BY <3>1, <3>3 DEF Dial
    <3>. QED
      BY <3>2, <3>4 DEF FreshInv
  <2>3. CASE \/ \E id \in Principals : Get(r, id)
             \/ PopEmpty(r) \/ ProbeOK(r) \/ DialFail(r) \/ Return(r)
    <3>1. q # r /\ pc[q] = "probe" /\ held'[q] = held[q] /\ now'[q] = now[q]
          /\ expiresAt' = expiresAt
      BY <2>3 DEF Get, PopEmpty, ProbeOK, DialFail, Return, Goto, connVars
    <3>. QED
      BY <3>1 DEF FreshInv
  <2>4. CASE ProbeFail(r) \/ Checkin(r) \/ Park(r)
    <3>1. q # r /\ pc[q] = "probe" /\ held'[q] = held[q] /\ now'[q] = now[q]
          /\ (expiresAt' = expiresAt \/ Close({held[r]})) /\ Hand(r) = held[r]
      <4>1. CASE ProbeFail(r)  BY <4>1 DEF ProbeFail, Goto, Hand
      <4>2. CASE Checkin(r)  BY <4>2 DEF ControlInv, Checkin, Goto, Hand
      <4>3. CASE Park(r)  BY <4>3 DEF Park, Goto, Hand
      <4>. QED  BY <2>4, <4>1, <4>2, <4>3
    <3>2. held[q] \in Conns /\ held[q] # held[r]
      BY <3>1 DEF ControlInv, ExclusiveLease, Hand
    <3>3. expiresAt'[held[q]] = expiresAt[held[q]]
      BY <3>1, <3>2 DEF Close
    <3>. QED
      BY <3>1, <3>3 DEF FreshInv
  <2>. QED
    BY <1>2, <2>1, <2>2, <2>3, <2>4 DEF RequestStep
<1>3. CASE ReapClose \/ CloseDrained
  <2>1. PICK S \in SUBSET (dead \cup drained) : Close(S)
    BY <1>3 DEF ReapClose, CloseDrained
  <2>2. UNCHANGED <<pc, now, held>>
    BY <1>3 DEF ReapClose, CloseDrained, reqVars
  <2>3. held[q] \in Conns /\ held[q] \notin S
    BY <2>2 DEF ControlInv, ExclusiveLease, Hand
  <2>4. expiresAt'[held[q]] = expiresAt[held[q]]
    BY <2>1, <2>3 DEF Close
  <2>. QED
    BY <2>2, <2>4 DEF FreshInv
<1>4. CASE \/ ReapStart \/ Sweep \/ ReaperStop \/ Shutdown \/ CloseAll \/ Tick
           \/ UNCHANGED vars \/ \E c \in Conns : ServerDrop(c)
  <2>1. UNCHANGED <<pc, now, held, expiresAt>>
    BY <1>4 DEF ReapStart, Sweep, ReaperStop, Shutdown, CloseAll, Tick, ServerDrop, vars,
                connVars, reqVars
  <2>. QED
    BY <1>1, <2>1
<1>. QED
  BY <1>2, <1>3, <1>4 DEF Next

\* A parked connection handed out within Skew of the instant get read the clock
\* authenticates with an unexpired token.
THEOREM FreshCheckout == Spec => []CheckoutFresh
<1>1. Init => PlaceInv /\ FreshInv
  <2>1. Init => FreshInv
    BY DEF Init, FreshInv
  <2>. QED
    BY <2>1, InitPlaceInv
<1>2. PlaceInv /\ FreshInv /\ [Next]_vars => (PlaceInv /\ FreshInv)'
  BY NextPlaceInv, NextFreshInv
<1>3. PlaceInv /\ FreshInv => CheckoutFresh
  <2>. SUFFICES ASSUME PlaceInv, FreshInv, NEW r \in Requests, pc[r] = "probe",
                       clock <= now[r] + Skew
                PROVE  clock < expiresAt[held[r]]
    BY DEF CheckoutFresh
  <2>1. held[r] \in Conns
    BY DEF PlaceInv, TypeOK, ControlInv
  <2>. QED
    BY <2>1, PoolConstants DEF PlaceInv, TypeOK, FreshInv
<1>. QED
  BY <1>1, <1>2, <1>3, PTL DEF Spec

-----------------------------------------------------------------------------
(* Shutdown.                                                               *)

\* The requests that the drain cut off and that have their lease back, or gave up.
Back == {r \in cutOff : pc[r] \in {"start", "returned"}}

\* Once closeAll has swapped the map only the requests it found in flight run,
\* and each parks at most one connection, when its lease comes back.
CutOffInv ==
  phase \in {"closing", "closed"} =>
    /\ \A r \in Requests : pc[r] # "start" => r \in cutOff
    /\ Cardinality(Parked) <= Cardinality(Back)

\* A step after the swap keeps the requests in flight among those it cut off.
LEMMA NextBack ==
  ASSUME PlaceInv, CutOffInv, [Next]_vars, phase \in {"closing", "closed"}
  PROVE  /\ phase' \in {"closing", "closed"}
         /\ cutOff' = cutOff
         /\ \A r \in Requests : pc'[r] # "start" => r \in cutOff
         /\ Back \subseteq Back'
<1>. USE DEF PlaceInv, TypeOK
<1>1. ASSUME NEW r \in Requests, RequestStep(r)
      PROVE  /\ UNCHANGED <<phase, cutOff>>
             /\ pc[r] # "start"
             /\ \A q \in Requests : q # r => pc'[q] = pc[q]
             /\ pc[r] = "returned" => pc'[r] = "start"
  <2>1. UNCHANGED <<phase, cutOff>>
    BY <1>1 DEF RequestStep, Get, Pop, PopEmpty, ProbeOK, ProbeFail, Dial, DialFail, Checkin,
                Park, Return, serverVars
  <2>2. pc[r] # "start"
    BY <1>1 DEF RequestStep, Get, Pop, PopEmpty, ProbeOK, ProbeFail, Dial, DialFail, Checkin,
                Park, Return
  <2>3. \A q \in Requests : q # r => pc'[q] = pc[q]
    BY <1>1 DEF RequestStep, Get, Pop, PopEmpty, ProbeOK, ProbeFail, Dial, DialFail, Checkin,
                Park, Return, Goto
  <2>4. pc[r] = "returned" => pc'[r] = "start"
    BY <1>1 DEF ControlInv, RequestStep, Get, Pop, PopEmpty, ProbeOK, ProbeFail, Dial, DialFail,
                Checkin, Park, Return, Goto
  <2>. QED
    BY <2>1, <2>2, <2>3, <2>4
<1>2. CASE \E r \in Requests : RequestStep(r)
  BY <1>1, <1>2 DEF CutOffInv, Back
<1>3. CASE ~ \E r \in Requests : RequestStep(r)
  <2>1. cutOff' = cutOff /\ pc' = pc /\ phase' \in {"closing", "closed"}
    BY <1>3 DEF Next, ReapStart, Sweep, ReapClose, ReaperStop, Shutdown, CloseAll, CloseDrained,
                ServerDrop, Tick, vars, reqVars, serverVars
  <2>. QED
    BY <2>1 DEF CutOffInv, Back
<1>. QED
  BY <1>2, <1>3

\* A step parks a connection or keeps or shrinks what is parked.
LEMMA NextParked ==
  ASSUME PlaceInv, [Next]_vars
  PROVE  \/ Parked' \subseteq Parked
         \/ \E r \in Requests : Park(r) /\ Parked' = Parked \cup {held[r]}
<1>. USE DEF PlaceInv, TypeOK
<1>1. ASSUME NEW r \in Requests, Park(r)
      PROVE  Parked' \subseteq Parked \/ Parked' = Parked \cup {held[r]}
  <2>1. who[r] \in Principals
    BY <1>1 DEF ControlInv, Park
  <2>2. CASE Full(who[r])
    BY <1>1, <2>2 DEF Park, Parked, poolVars
  <2>3. CASE ~ Full(who[r])
    BY <1>1, <2>1, <2>3 DEF Park, Parked
  <2>. QED
    BY <2>2, <2>3
<1>2. ASSUME NEW r \in Requests, Pop(r) PROVE Parked' \subseteq Parked
  BY <1>2 DEF Pop, Unpark, Parked
<1>3. ASSUME NEW r \in Requests, RequestStep(r), ~ Park(r), ~ Pop(r) PROVE idle' = idle
  BY <1>3 DEF RequestStep, Get, PopEmpty, ProbeOK, ProbeFail, Dial, DialFail, Checkin, Return,
              poolVars
<1>4. CASE Sweep \/ CloseAll
  BY <1>4 DEF Sweep, CloseAll, Unpark, Parked
<1>5. CASE \/ ReapStart \/ ReapClose \/ ReaperStop \/ Shutdown \/ CloseDrained \/ Tick
           \/ UNCHANGED vars \/ \E c \in Conns : ServerDrop(c)
  BY <1>5 DEF ReapStart, ReapClose, ReaperStop, Shutdown, CloseDrained, Tick, ServerDrop, vars,
              poolVars, Parked
<1>6. CASE \E r \in Requests : RequestStep(r)
  <2>1. PICK r \in Requests : RequestStep(r)
    BY <1>6
  <2>2. CASE Park(r)
    BY <1>1, <2>2
  <2>3. CASE Pop(r)
    BY <1>2, <2>3
  <2>4. CASE ~ Park(r) /\ ~ Pop(r)
    <3>1. idle' = idle
      BY <1>3, <2>1, <2>4
    <3>. QED
      BY <3>1 DEF Parked
  <2>. QED
    BY <2>2, <2>3, <2>4
<1>. QED
  BY <1>4, <1>5, <1>6 DEF Next

\* Each parked connection has a returned request of its own to answer for it.
LEMMA NextCutOffInv == PlaceInv /\ CutOffInv /\ [Next]_vars => CutOffInv'
<1>. SUFFICES ASSUME PlaceInv, CutOffInv, [Next]_vars, phase' \in {"closing", "closed"}
              PROVE  /\ \A r \in Requests : pc'[r] # "start" => r \in cutOff'
                     /\ Cardinality(Parked') <= Cardinality(Back')
  BY DEF CutOffInv
<1>. USE PoolConstants
<1>1. IsFiniteSet(Parked) /\ IsFiniteSet(Back) /\ IsFiniteSet(Back')
  <2>1. TypeOK'
    BY NextPlaceInv DEF PlaceInv
  <2>. QED
    BY <2>1, FS_Subset DEF PlaceInv, TypeOK, Parked, Back
<1>2. Cardinality(Parked) \in Nat /\ Cardinality(Back) \in Nat /\ Cardinality(Back') \in Nat
  BY <1>1, FS_CardinalityType
<1>3. CASE phase \in {"closing", "closed"}
  <2>1. /\ cutOff' = cutOff
        /\ \A r \in Requests : pc'[r] # "start" => r \in cutOff
        /\ Back \subseteq Back'
    BY <1>3, NextBack
  <2>2. Cardinality(Parked) <= Cardinality(Back)
    BY <1>3 DEF CutOffInv
  <2>3. CASE Parked' \subseteq Parked
    <3>1. Cardinality(Parked') <= Cardinality(Parked) /\ Cardinality(Parked') \in Nat
      BY <1>1, <2>3, FS_Subset, FS_CardinalityType
    <3>2. Cardinality(Back) <= Cardinality(Back')
      BY <1>1, <2>1, FS_Subset
    <3>. QED
      BY <1>2, <2>1, <2>2, <3>1, <3>2
  <2>4. ASSUME NEW r \in Requests, Park(r), Parked' = Parked \cup {held[r]}
        PROVE  Cardinality(Parked') <= Cardinality(Back')
    <3>1. r \notin Back /\ r \in Back'
      BY <2>1, <2>4, <1>3 DEF Park, Goto, Back, PlaceInv, TypeOK, CutOffInv
    <3>2. Cardinality(Back \cup {r}) = Cardinality(Back) + 1
      BY <1>1, <3>1, FS_AddElement
    <3>3. Cardinality(Back \cup {r}) <= Cardinality(Back')
      BY <1>1, <2>1, <3>1, FS_Subset
    <3>4. Cardinality(Parked') <= Cardinality(Parked) + 1 /\ Cardinality(Parked') \in Nat
      <4>1. CASE held[r] \in Parked
        <5>1. Parked' = Parked
          BY <2>4, <4>1
        <5>. QED
          BY <1>2, <5>1
      <4>2. CASE held[r] \notin Parked
        <5>1. Cardinality(Parked \cup {held[r]}) = Cardinality(Parked) + 1
          BY <1>1, <4>2, FS_AddElement
        <5>. QED
          BY <1>2, <2>4, <5>1
      <4>. QED
        BY <4>1, <4>2
    <3>. QED
      BY <1>2, <2>2, <3>2, <3>3, <3>4
  <2>. QED
    BY <2>1, <2>3, <2>4, NextParked
<1>4. CASE phase \notin {"closing", "closed"}
  <2>1. CloseAll
    <3>1. ASSUME NEW r \in Requests, RequestStep(r) PROVE phase' = phase
      BY <3>1 DEF RequestStep, Get, Pop, PopEmpty, ProbeOK, ProbeFail, Dial, DialFail, Checkin,
                  Park, Return, serverVars
    <3>. QED
      BY <1>4, <3>1 DEF Next, ReapStart, Sweep, ReapClose, ReaperStop, Shutdown, CloseDrained,
                        ServerDrop, Tick, vars, serverVars
  <2>2. Parked' = {}
    BY <2>1 DEF CloseAll, Unpark, Parked
  <2>3. Cardinality(Parked') = 0
    BY <2>2, FS_EmptySet
  <2>4. \A r \in Requests : pc'[r] # "start" => r \in cutOff'
    BY <2>1 DEF CloseAll, reqVars
  <2>. QED
    BY <1>2, <2>3, <2>4
<1>. QED
  BY <1>3, <1>4

\* The connections in the hands of requests are no more than those requests.
LEMMA HandsBound ==
  ASSUME PlaceInv, NEW R, IsFiniteSet(R), \A r \in R : r \in Requests /\ Hand(r) # None
  PROVE  /\ IsFiniteSet({Hand(r) : r \in R})
         /\ Cardinality({Hand(r) : r \in R}) <= Cardinality(R)
<1>. DEFINE T == {Hand(r) : r \in R}
            f == [r \in R |-> Hand(r)]
<1>1. f \in Surjection(R, T)
  BY DEF Surjection
<1>. QED
  BY <1>1, FS_Surjection

\* The shutdown leaves open what a pass of the reaper is closing and at most one
\* connection for each request that the drain cut off: the one in its hands, or
\* the one it parks after the swap.
THEOREM ShutdownQuiet == Spec => []QuietShutdown
<1>1. Init => PlaceInv /\ CutOffInv
  <2>1. Init => CutOffInv
    BY DEF Init, CutOffInv
  <2>. QED
    BY <2>1, InitPlaceInv
<1>2. PlaceInv /\ CutOffInv /\ [Next]_vars => (PlaceInv /\ CutOffInv)'
  BY NextPlaceInv, NextCutOffInv
<1>3. PlaceInv /\ CutOffInv => QuietShutdown
  <2>. SUFFICES ASSUME PlaceInv, CutOffInv, phase = "closed"
                PROVE  Cardinality(Open \ dead) <= Cardinality(cutOff)
    BY DEF QuietShutdown
  <2>. USE PoolConstants
  <2>. DEFINE R == {r \in cutOff : pc[r] \in InHand}
              H == {Hand(r) : r \in R}
  <2>1. IsFiniteSet(Parked) /\ IsFiniteSet(Back) /\ IsFiniteSet(R) /\ IsFiniteSet(cutOff)
    BY FS_Subset DEF PlaceInv, TypeOK, Parked, Back
  <2>2. \A r \in R : r \in Requests /\ Hand(r) # None
    BY DEF PlaceInv, TypeOK, ControlInv, Hand
  <2>3. IsFiniteSet(H) /\ Cardinality(H) <= Cardinality(R)
    BY <2>1, <2>2, HandsBound
  <2>4. Open \ dead \subseteq Parked \cup H
    <3>. SUFFICES ASSUME NEW c \in Open, c \notin dead, c \notin Parked PROVE c \in H
      OBVIOUS
    <3>1. PICK r \in Requests : Hand(r) = c
      BY DEF PlaceInv, ControlInv, NoneLost, Open
    <3>2. pc[r] \in InHand
      BY <3>1 DEF Hand, Open
    <3>. QED
      BY <3>1, <3>2 DEF CutOffInv
  <2>. HIDE DEF R, H
  <2>5. /\ IsFiniteSet(Parked \cup H)
        /\ Cardinality(Parked \cup H) <= Cardinality(Parked) + Cardinality(H)
    <3>1. IsFiniteSet(Parked \cap H)
      BY <2>1, FS_Subset
    <3>2. /\ IsFiniteSet(Parked \cup H)
          /\ Cardinality(Parked \cup H)
               = Cardinality(Parked) + Cardinality(H) - Cardinality(Parked \cap H)
      BY <2>1, <2>3, FS_Union
    <3>3. /\ Cardinality(Parked) \in Nat /\ Cardinality(H) \in Nat
          /\ Cardinality(Parked \cap H) \in Nat
      BY <2>1, <2>3, <3>1, FS_CardinalityType
    <3>. QED
      BY <3>2, <3>3
  <2>6. Cardinality(Back \cup R) = Cardinality(Back) + Cardinality(R)
    <3>1. Back \cap R = {}
      BY DEF Back, R
    <3>2. Cardinality(Back \cap R) = 0
      BY <3>1, FS_EmptySet
    <3>3. Cardinality(Back \cup R) = Cardinality(Back) + Cardinality(R) - Cardinality(Back \cap R)
      BY <2>1, FS_Union
    <3>4. Cardinality(Back) \in Nat /\ Cardinality(R) \in Nat
      BY <2>1, FS_CardinalityType
    <3>. QED
      BY <3>2, <3>3, <3>4
  <2>7. Cardinality(Back \cup R) <= Cardinality(cutOff)
    <3>1. Back \cup R \subseteq cutOff
      BY DEF Back, R
    <3>. QED
      BY <2>1, <3>1, FS_Subset
  <2>8. Cardinality(Open \ dead) <= Cardinality(Parked \cup H)
    BY <2>4, <2>5, FS_Subset
  <2>9. Cardinality(Parked) <= Cardinality(Back)
    BY DEF CutOffInv
  <2>10. /\ Cardinality(Parked) \in Nat /\ Cardinality(H) \in Nat /\ Cardinality(R) \in Nat
         /\ Cardinality(Back) \in Nat /\ Cardinality(Back \cup R) \in Nat
         /\ Cardinality(cutOff) \in Nat /\ Cardinality(Parked \cup H) \in Nat
         /\ Cardinality(Open \ dead) \in Nat
    BY <2>1, <2>3, <2>4, <2>5, FS_Union, FS_Subset, FS_CardinalityType
  <2>. QED
    BY <2>3, <2>5, <2>6, <2>7, <2>8, <2>9, <2>10
<1>. QED
  BY <1>1, <1>2, <1>3, PTL DEF Spec

=============================================================================
