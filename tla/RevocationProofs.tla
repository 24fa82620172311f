-------------------------- MODULE RevocationProofs --------------------------
(***************************************************************************)
(* The revocation store for any number of subjects, tokens, deliveries and *)
(* events: type correctness, an acknowledged revocation stays enforced, no *)
(* refused token is accepted again, and the store implements DeadTokens.   *)
(***************************************************************************)
EXTENDS Revocation, TLAPS

\* The store is exact: the time it keeps covers every revocation applied, and is
\* the time of one of them.
CoverInv ==
  /\ \A e \in Applied : subjects[e.sub] # None /\ e.at <= subjects[e.sub]
  /\ \A s \in Subjects : subjects[s] # None => [sub |-> s, at |-> subjects[s]] \in Applied

\* A delivery with something to apply, or applied, knows its subject.
WorkInv == \A d \in Receivers : work[d].todo # <<>> \/ work[d].done # {} => work[d].sub \in Subjects

-----------------------------------------------------------------------------
(* The operators.                                                          *)

\* RevocationTimes yields a sequence of times.
LEMMA RevocationTimesType ==
  ASSUME NEW set \in SETs
  PROVE  RevocationTimes(set) \in Seq(Times)
<1>1. [i \in 1 .. set.risc |-> set.iat] \in Seq(Times)
  BY RevocationConstants DEF SETs
<1>2. (IF set.caep = None THEN <<>>
       ELSE <<IF set.caep = ZeroTime THEN set.iat ELSE set.caep>>) \in Seq(Times)
  <2>1. set.caep \in Times \cup {None} /\ set.iat \in Times
    BY DEF SETs
  <2>. QED  BY <2>1
<1>. QED  BY <1>1, <1>2 DEF RevocationTimes

\* RevokeSubject moves a subject's time forward only, up to the time given.
LEMMA RevokeSubjectStep ==
  ASSUME TypeOK, NEW s \in Subjects, NEW at \in 1 .. MaxTime, RevokeSubject(s, at)
  PROVE  /\ subjects' \in [Subjects -> (1 .. MaxTime) \cup {None}]
         /\ \A u \in Subjects \ {s} : subjects'[u] = subjects[u]
         /\ subjects'[s] = IF subjects[s] = None \/ at > subjects[s] THEN at ELSE subjects[s]
         /\ subjects'[s] # None /\ at <= subjects'[s]
BY RevocationConstants DEF TypeOK, RevokeSubject

-----------------------------------------------------------------------------
(* Types.                                                                  *)

\* The initial state is well typed.
LEMMA InitTypes == Init => TypeOK /\ WorkInv
<1>. SUFFICES ASSUME Init PROVE TypeOK /\ WorkInv
  OBVIOUS
<1>1. Idle \in [sub : Subjects \cup {None}, todo : Seq(Times), done : SUBSET (1 .. MaxTime)]
  BY DEF Idle, Delivery
<1>. QED  BY <1>1, RevocationConstants DEF Init, TypeOK, WorkInv, Idle, Delivery

\* Every step keeps the types; only Deliver, ResolveNow, Apply and Ack touch a
\* delivery's record.
LEMMA NextTypes == TypeOK /\ WorkInv /\ [Next]_vars => TypeOK' /\ WorkInv'
<1>. SUFFICES ASSUME TypeOK, WorkInv, [Next]_vars PROVE TypeOK' /\ WorkInv'
  OBVIOUS
<1>. DEFINE W == [sub : Subjects \cup {None}, todo : Seq(Times), done : SUBSET (1 .. MaxTime)]
<1>0. Idle \in W /\ Idle.todo = <<>> /\ Idle.done = {}
  BY DEF Idle, Delivery
<1>1. ASSUME NEW d \in Receivers, NEW set \in SETs, Deliver(d, set)
      PROVE  TypeOK' /\ WorkInv'
  <2>1. set.sub \in Subjects
    BY <1>1 DEF Deliver, SETs
  <2>2. Delivery(set.sub, RevocationTimes(set), {}) \in W
    BY <2>1, RevocationTimesType DEF Delivery
  <2>. QED  BY <1>1, <2>1, <2>2 DEF Deliver, TypeOK, WorkInv, Delivery
<1>2. ASSUME NEW d \in Receivers, ResolveNow(d) PROVE TypeOK' /\ WorkInv'
  <2>1. clock \in Times /\ work[d] \in W /\ work[d].todo # <<>>
    BY <1>2, RevocationConstants DEF ResolveNow, TypeOK, Times
  <2>2. <<clock>> \o Tail(work[d].todo) \in Seq(Times)
    BY <2>1
  <2>3. work' \in [Receivers -> W]
    BY <1>2, <2>1, <2>2 DEF ResolveNow, TypeOK, Delivery
  <2>4. \A c \in Receivers : work'[c].sub = work[c].sub /\ (c # d => work'[c] = work[c])
    BY <1>2, <2>1 DEF ResolveNow, TypeOK, Delivery
  <2>. QED  BY <1>2, <2>1, <2>3, <2>4 DEF ResolveNow, TypeOK, WorkInv
<1>3. ASSUME NEW d \in Receivers, Apply(d) PROVE TypeOK' /\ WorkInv'
  <2>. DEFINE at == Head(work[d].todo)
  <2>1. work[d] \in W /\ work[d].todo # <<>> /\ work[d].sub \in Subjects
    BY <1>3 DEF Apply, TypeOK, WorkInv
  <2>a. at \in Times /\ Tail(work[d].todo) \in Seq(Times)
    BY <2>1
  <2>b. at # ZeroTime
    BY <1>3 DEF Apply
  <2>2. at \in 1 .. MaxTime /\ Tail(work[d].todo) \in Seq(Times)
    BY <2>a, <2>b, RevocationConstants DEF Times, ZeroTime
  <2>3. subjects' \in [Subjects -> (1 .. MaxTime) \cup {None}]
    BY <1>3, <2>1, <2>2, RevokeSubjectStep DEF Apply
  <2>4. work' \in [Receivers -> W]
    BY <1>3, <2>1, <2>2 DEF Apply, TypeOK, Delivery
  <2>5. \A c \in Receivers : work'[c].sub = work[c].sub /\ (c # d => work'[c] = work[c])
    BY <1>3, <2>1 DEF Apply, TypeOK, Delivery
  <2>. QED  BY <1>3, <2>1, <2>3, <2>4, <2>5 DEF Apply, TypeOK, WorkInv
<1>4. ASSUME NEW d \in Receivers, Ack(d) PROVE TypeOK' /\ WorkInv'
  <2>1. work[d] \in W /\ work[d].sub \in Subjects
    BY <1>4 DEF Ack, TypeOK
  <2>2. acked' \subseteq [sub : Subjects, at : 1 .. MaxTime]
    BY <1>4, <2>1 DEF Ack, TypeOK
  <2>3. work' = [work EXCEPT ![d] = Idle]
    BY <1>4 DEF Ack
  <2>. QED  BY <1>0, <1>4, <2>2, <2>3 DEF Ack, TypeOK, WorkInv
<1>5. ASSUME NEW jti \in Jtis, RevokeToken(jti) PROVE TypeOK' /\ WorkInv'
  BY <1>5 DEF RevokeToken, TypeOK, WorkInv
<1>6. ASSUME NEW r \in Requests, NEW t \in Tokens, Serve(r, t) PROVE TypeOK' /\ WorkInv'
  BY <1>6 DEF Serve, TypeOK, WorkInv
<1>7. ASSUME NEW r \in Requests, Finish(r) PROVE TypeOK' /\ WorkInv'
  BY <1>7 DEF Finish, TypeOK, WorkInv
<1>8. CASE Tick
  BY <1>8, RevocationConstants DEF Tick, TypeOK, WorkInv
<1>9. CASE UNCHANGED vars
  BY <1>9 DEF vars, TypeOK, WorkInv
<1>. QED  BY <1>1, <1>2, <1>3, <1>4, <1>5, <1>6, <1>7, <1>8, <1>9 DEF Next

\* TypeOK holds for any constants: no absent (zero) time ever reaches the
\* store, because RevokeSubject replaces it by the current time.
THEOREM TypeCorrect == Spec => []TypeOK
<1>1. TypeOK /\ WorkInv /\ [Next]_vars => (TypeOK /\ WorkInv)'
  BY NextTypes
<1>. QED  BY InitTypes, <1>1, PTL DEF Spec

-----------------------------------------------------------------------------
(* The store is exact.                                                     *)

\* How each step changes the set of applied revocations: Apply adds the one it
\* passes to RevokeSubject; acknowledging a delivery moves its own to acked.
LEMMA AppliedStep ==
  ASSUME TypeOK, WorkInv, NEW d \in Receivers
  PROVE  /\ \A set \in SETs : Deliver(d, set) => Applied' = Applied
         /\ ResolveNow(d) => Applied' = Applied
         /\ Apply(d) => /\ work[d].sub \in Subjects
                        /\ Head(work[d].todo) \in 1 .. MaxTime
                        /\ Applied' = Applied
                             \cup {[sub |-> work[d].sub, at |-> Head(work[d].todo)]}
         /\ Ack(d) => Applied' = Applied
<1>. DEFINE Of(w) == {[sub |-> w.sub, at |-> at] : at \in w.done}
<1>. DEFINE Others == UNION {Of(work[c]) : c \in Receivers \ {d}}
<1>1. Applied = acked \cup Others \cup Of(work[d])
  BY DEF Applied
<1>2. ASSUME NEW w, work' = [work EXCEPT ![d] = w]
      PROVE  Applied' = acked' \cup Others \cup Of(w)
  <2>1. work'[d] = w /\ \A c \in Receivers \ {d} : work'[c] = work[c]
    BY <1>2 DEF TypeOK
  <2>2. Applied' = acked' \cup UNION {Of(work'[c]) : c \in Receivers}
    BY DEF Applied
  <2>. QED  BY <2>1, <2>2
<1>3. ASSUME NEW set \in SETs, Deliver(d, set) PROVE Applied' = Applied
  <2>1. Applied' = acked \cup Others \cup Of(Delivery(set.sub, RevocationTimes(set), {}))
    BY <1>2, <1>3 DEF Deliver
  <2>2. work[d] = Idle
    BY <1>3 DEF Deliver
  <2>. QED  BY <1>1, <2>1, <2>2 DEF Idle, Delivery
<1>4. ASSUME ResolveNow(d) PROVE Applied' = Applied
  <2>1. Applied' = acked \cup Others
                    \cup Of(Delivery(work[d].sub, <<clock>> \o Tail(work[d].todo), work[d].done))
    BY <1>2, <1>4 DEF ResolveNow
  <2>. QED  BY <1>1, <2>1 DEF Delivery
<1>5. ASSUME Apply(d)
      PROVE  /\ work[d].sub \in Subjects
             /\ Head(work[d].todo) \in 1 .. MaxTime
             /\ Applied' = Applied \cup {[sub |-> work[d].sub, at |-> Head(work[d].todo)]}
  <2>. DEFINE at == Head(work[d].todo)
  <2>1. work[d].todo # <<>> /\ at # ZeroTime
    BY <1>5 DEF Apply
  <2>2. at \in Times
    BY <2>1 DEF TypeOK
  <2>3. at \in 1 .. MaxTime /\ work[d].sub \in Subjects
    BY <2>1, <2>2, RevocationConstants DEF Times, ZeroTime, WorkInv
  <2>4. Applied' = acked \cup Others
                    \cup Of(Delivery(work[d].sub, Tail(work[d].todo), work[d].done \cup {at}))
    BY <1>2, <1>5 DEF Apply
  <2>. QED  BY <1>1, <2>3, <2>4 DEF Delivery
<1>6. ASSUME Ack(d) PROVE Applied' = Applied
  <2>1. Applied' = acked' \cup Others \cup Of(Idle)
    BY <1>2, <1>6 DEF Ack
  <2>2. acked' = acked \cup Of(work[d])
    BY <1>6 DEF Ack
  <2>. QED  BY <1>1, <2>1, <2>2 DEF Idle, Delivery
<1>. QED  BY <1>3, <1>4, <1>5, <1>6

\* Applied revocations name a subject and a time.
LEMMA AppliedType ==
  ASSUME TypeOK, WorkInv
  PROVE  Applied \subseteq [sub : Subjects, at : 1 .. MaxTime]
BY DEF TypeOK, WorkInv, Applied

\* Nothing is applied at the start.
LEMMA InitCover == Init => CoverInv
<1>. SUFFICES ASSUME Init PROVE CoverInv
  OBVIOUS
<1>1. Applied = {}
  BY DEF Init, Applied, Idle, Delivery
<1>. QED  BY <1>1 DEF Init, CoverInv

\* Only Apply changes what CoverInv speaks of: it adds one revocation and lets
\* the subject's time reach it, never fall behind.
LEMMA NextCover == TypeOK /\ WorkInv /\ CoverInv /\ [Next]_vars => CoverInv'
<1>. SUFFICES ASSUME TypeOK, WorkInv, CoverInv, [Next]_vars PROVE CoverInv'
  OBVIOUS
<1>0. ASSUME UNCHANGED subjects, Applied' = Applied PROVE CoverInv'
  BY <1>0 DEF CoverInv
<1>1. ASSUME NEW d \in Receivers, NEW set \in SETs, Deliver(d, set) PROVE CoverInv'
  BY <1>0, <1>1, AppliedStep DEF Deliver
<1>2. ASSUME NEW d \in Receivers, ResolveNow(d) PROVE CoverInv'
  BY <1>0, <1>2, AppliedStep DEF ResolveNow
<1>3. ASSUME NEW d \in Receivers, Apply(d) PROVE CoverInv'
  <2>. DEFINE s == work[d].sub
              at == Head(work[d].todo)
  <2>1. /\ s \in Subjects /\ at \in 1 .. MaxTime
        /\ Applied' = Applied \cup {[sub |-> s, at |-> at]}
    BY <1>3, AppliedStep
  <2>2. RevokeSubject(s, at)
    BY <1>3 DEF Apply
  <2>. HIDE DEF s, at
  <2>3. /\ subjects' \in [Subjects -> (1 .. MaxTime) \cup {None}]
        /\ \A u \in Subjects \ {s} : subjects'[u] = subjects[u]
        /\ subjects'[s] = IF subjects[s] = None \/ at > subjects[s] THEN at ELSE subjects[s]
        /\ subjects'[s] # None /\ at <= subjects'[s]
    BY <2>1, <2>2, RevokeSubjectStep
  <2>4. ASSUME NEW e \in Applied PROVE subjects'[e.sub] # None /\ e.at <= subjects'[e.sub]
    <3>1. e.sub \in Subjects /\ e.at \in 1 .. MaxTime
      BY AppliedType
    <3>2. subjects[e.sub] # None /\ e.at <= subjects[e.sub] /\ subjects[e.sub] \in 1 .. MaxTime
      BY <3>1 DEF CoverInv, TypeOK
    <3>3. CASE e.sub # s
      BY <2>3, <3>1, <3>2, <3>3
    <3>4. CASE e.sub = s
      <4>1. subjects[s] \in 1 .. MaxTime /\ e.at <= subjects[s] /\ subjects[s] # None
        BY <3>2, <3>4
      <4>2. subjects'[s] # None /\ subjects'[s] \in 1 .. MaxTime /\ subjects[s] <= subjects'[s]
        BY <2>1, <2>3, <4>1
      <4>3. e.at <= subjects'[s]
        BY <3>1, <4>1, <4>2
      <4>. QED  BY <3>4, <4>2, <4>3
    <3>. QED  BY <3>3, <3>4
  <2>5. ASSUME NEW u \in Subjects, subjects'[u] # None
        PROVE  [sub |-> u, at |-> subjects'[u]] \in Applied'
    <3>1. CASE u # s
      BY <2>1, <2>3, <2>5, <3>1 DEF CoverInv
    <3>2. CASE u = s /\ subjects'[s] = at
      BY <2>1, <3>2
    <3>3. CASE u = s /\ subjects'[s] # at
      <4>1. subjects'[s] = subjects[s] /\ subjects[s] # None
        BY <2>3, <3>3
      <4>. QED  BY <2>1, <3>3, <4>1 DEF CoverInv
    <3>. QED  BY <3>1, <3>2, <3>3
  <2>. QED  BY <2>1, <2>3, <2>4, <2>5 DEF CoverInv
<1>4. ASSUME NEW d \in Receivers, Ack(d) PROVE CoverInv'
  BY <1>0, <1>4, AppliedStep DEF Ack
<1>5. ASSUME NEW jti \in Jtis, RevokeToken(jti) PROVE CoverInv'
  BY <1>0, <1>5 DEF RevokeToken, Applied
<1>6. ASSUME NEW r \in Requests, NEW t \in Tokens, Serve(r, t) PROVE CoverInv'
  BY <1>0, <1>6 DEF Serve, Applied
<1>7. ASSUME NEW r \in Requests, Finish(r) PROVE CoverInv'
  BY <1>0, <1>7 DEF Finish, Applied
<1>8. CASE Tick
  BY <1>0, <1>8 DEF Tick, Applied
<1>9. CASE UNCHANGED vars
  BY <1>0, <1>9 DEF vars, Applied
<1>. QED  BY <1>1, <1>2, <1>3, <1>4, <1>5, <1>6, <1>7, <1>8, <1>9 DEF Next

\* The three invariants together, for every reachable state.
LEMMA Invariants == Spec => [](TypeOK /\ WorkInv /\ CoverInv)
<1>1. TypeOK /\ WorkInv /\ CoverInv /\ [Next]_vars => (TypeOK /\ WorkInv /\ CoverInv)'
  BY NextTypes, NextCover
<1>. QED  BY InitTypes, InitCover, <1>1, PTL DEF Spec

\* The store answers as the list of applied revocations does.
LEMMA RevokedIsDead ==
  ASSUME TypeOK, WorkInv, CoverInv, NEW t \in Tokens
  PROVE  Revoked(t) <=> Abstract!Dead(t)
<1>. DEFINE T == subjects[t.sub]
<1>1. t.sub \in Subjects /\ t.iat \in Times
  BY DEF Tokens
<1>2. ASSUME NEW e \in Applied, t.sub = e.sub, t.iat = 0 \/ t.iat <= e.at PROVE Revoked(t)
  <2>1. e.at \in 1 .. MaxTime /\ T # None /\ T \in 1 .. MaxTime /\ e.at <= T
    BY <1>1, <1>2, AppliedType DEF CoverInv, TypeOK
  <2>2. t.iat = 0 \/ t.iat <= T
    BY <1>1, <1>2, <2>1, RevocationConstants DEF Times
  <2>. QED  BY <2>1, <2>2 DEF Revoked, ZeroTime
<1>3. ASSUME Revoked(t), t.jti \notin tokens PROVE \E e \in Applied : Abstract!Covered(t, e)
  <2>1. T # None /\ (t.iat = 0 \/ t.iat <= T)
    BY <1>3 DEF Revoked, ZeroTime
  <2>2. [sub |-> t.sub, at |-> T] \in Applied
    BY <1>1, <2>1 DEF CoverInv
  <2>. QED  BY <2>1, <2>2 DEF Abstract!Covered
<1>4. Abstract!Dead(t) <=> t.jti \in tokens \/ \E e \in Applied : Abstract!Covered(t, e)
  BY DEF Abstract!Dead
<1>5. t.jti \in tokens => Revoked(t)
  BY DEF Revoked
<1>6. (\E e \in Applied : Abstract!Covered(t, e)) => Revoked(t)
  BY <1>2 DEF Abstract!Covered
<1>. QED  BY <1>3, <1>4, <1>5, <1>6

\* AckedEnforced holds for any number of deliveries in any order.
THEOREM AckedStaysEnforced == Spec => []AckedEnforced
<1>1. TypeOK /\ WorkInv /\ CoverInv => AckedEnforced
  <2>. SUFFICES ASSUME TypeOK, WorkInv, CoverInv, NEW e \in acked, NEW t \in Tokens,
                       t.sub = e.sub, t.iat = ZeroTime \/ t.iat <= e.at
                PROVE  Revoked(t)
    BY DEF AckedEnforced
  <2>1. e \in Applied
    BY DEF Applied
  <2>2. Abstract!Dead(t)
    BY <2>1 DEF Abstract!Dead, Abstract!Covered, ZeroTime
  <2>. QED  BY <2>2, RevokedIsDead
<1>. QED  BY <1>1, Invariants, PTL

-----------------------------------------------------------------------------
(* Action properties.                                                      *)

\* The store only grows: revoked ids stay and a subject's time never moves back.
LEMMA StoreGrows ==
  ASSUME TypeOK, WorkInv, [Next]_vars
  PROVE  /\ tokens \subseteq tokens'
         /\ \A s \in Subjects : subjects[s] # None =>
                                  subjects'[s] # None /\ subjects[s] <= subjects'[s]
<1>. DEFINE Grows == /\ tokens \subseteq tokens'
                    /\ \A s \in Subjects : subjects[s] # None =>
                                             subjects'[s] # None /\ subjects[s] <= subjects'[s]
<1>. SUFFICES Grows
  OBVIOUS
<1>0. ASSUME subjects' = subjects, tokens \subseteq tokens' PROVE Grows
  BY <1>0 DEF TypeOK
<1>1. ASSUME NEW d \in Receivers, Apply(d) PROVE Grows
  <2>. DEFINE s == work[d].sub
              at == Head(work[d].todo)
  <2>1. s \in Subjects /\ at \in 1 .. MaxTime
    BY <1>1, AppliedStep
  <2>2. RevokeSubject(s, at) /\ tokens' = tokens
    BY <1>1 DEF Apply
  <2>. HIDE DEF s, at
  <2>3. /\ \A u \in Subjects \ {s} : subjects'[u] = subjects[u]
        /\ subjects'[s] = IF subjects[s] = None \/ at > subjects[s] THEN at ELSE subjects[s]
        /\ subjects'[s] # None
    BY <2>1, <2>2, RevokeSubjectStep
  <2>4. subjects[s] # None => subjects[s] <= subjects'[s]
    BY <2>1, <2>3 DEF TypeOK
  <2>. QED  BY <2>2, <2>3, <2>4 DEF TypeOK
<1>2. ASSUME NEW d \in Receivers, NEW set \in SETs, Deliver(d, set) PROVE Grows
  BY <1>0, <1>2 DEF Deliver
<1>3. ASSUME NEW d \in Receivers, ResolveNow(d) PROVE Grows
  BY <1>0, <1>3 DEF ResolveNow
<1>4. ASSUME NEW d \in Receivers, Ack(d) PROVE Grows
  BY <1>0, <1>4 DEF Ack
<1>5. ASSUME NEW jti \in Jtis, RevokeToken(jti) PROVE Grows
  BY <1>0, <1>5 DEF RevokeToken
<1>6. ASSUME NEW r \in Requests, NEW t \in Tokens, Serve(r, t) PROVE Grows
  BY <1>0, <1>6 DEF Serve
<1>7. ASSUME NEW r \in Requests, Finish(r) PROVE Grows
  BY <1>0, <1>7 DEF Finish
<1>8. CASE Tick
  BY <1>0, <1>8 DEF Tick
<1>9. CASE UNCHANGED vars
  BY <1>0, <1>9 DEF vars
<1>. HIDE DEF Grows
<1>. QED  BY <1>1, <1>2, <1>3, <1>4, <1>5, <1>6, <1>7, <1>8, <1>9 DEF Next

\* NeverRevived holds whatever arrives after a revocation, a repeated or older
\* SET included.
THEOREM NoTokenRevived == Spec => NeverRevived
<1>1. TypeOK /\ WorkInv /\ [Next]_vars => [\A t \in Tokens : Revoked(t) => Revoked(t)']_vars
  <2>. SUFFICES ASSUME TypeOK, WorkInv, [Next]_vars, NEW t \in Tokens, Revoked(t)
                PROVE  Revoked(t)'
    OBVIOUS
  <2>1. CASE t.jti \in tokens
    BY <2>1, StoreGrows DEF Revoked
  <2>2. CASE subjects[t.sub] # None /\ (t.iat = ZeroTime \/ t.iat <= subjects[t.sub])
    <3>1. t.sub \in Subjects /\ t.iat \in Times
      BY DEF Tokens
    <3>2. subjects'[t.sub] # None /\ subjects[t.sub] <= subjects'[t.sub]
      BY <2>2, <3>1, StoreGrows
    <3>3. subjects[t.sub] \in 1 .. MaxTime /\ subjects'[t.sub] \in 1 .. MaxTime
      BY <2>2, <3>1, <3>2, NextTypes DEF TypeOK
    <3>4. t.iat = ZeroTime \/ t.iat <= subjects'[t.sub]
      BY <2>2, <3>1, <3>2, <3>3, RevocationConstants DEF Times
    <3>. QED  BY <3>2, <3>4 DEF Revoked
  <2>. QED  BY <2>1, <2>2 DEF Revoked
<1>. QED  BY <1>1, Invariants, PTL DEF Spec, NeverRevived

-----------------------------------------------------------------------------
(* Refinement.                                                             *)

\* The store implements DeadTokens: Apply is the abstract RevokeSubject, Serve
\* answers as the abstract Serve does, and the rest of a delivery stutters.
THEOREM StoreImplements == Spec => ImplementsDeadTokens
<1>1. Init => Abstract!Init
  BY DEF Init, Abstract!Init, Applied, Idle, Delivery
<1>2. TypeOK /\ WorkInv /\ CoverInv /\ [Next]_vars => [Abstract!Next]_<<Applied, tokens, response>>
  <2>. SUFFICES ASSUME TypeOK, WorkInv, CoverInv, [Next]_vars
                PROVE  [Abstract!Next]_<<Applied, tokens, response>>
    OBVIOUS
  <2>1. ASSUME NEW d \in Receivers, NEW set \in SETs, Deliver(d, set)
        PROVE  UNCHANGED <<Applied, tokens, response>>
    BY <2>1, AppliedStep DEF Deliver
  <2>2. ASSUME NEW d \in Receivers, ResolveNow(d) PROVE UNCHANGED <<Applied, tokens, response>>
    BY <2>2, AppliedStep DEF ResolveNow
  <2>3. ASSUME NEW d \in Receivers, Apply(d) PROVE Abstract!Next
    <3>1. /\ work[d].sub \in Subjects
          /\ Head(work[d].todo) \in 1 .. MaxTime
          /\ Applied' = Applied \cup {[sub |-> work[d].sub, at |-> Head(work[d].todo)]}
      BY <2>3, AppliedStep
    <3>2. Head(work[d].todo) \in Times
      BY <3>1, RevocationConstants DEF Times
    <3>3. UNCHANGED <<tokens, response>>
      BY <2>3 DEF Apply
    <3>4. Abstract!RevokeSubject(work[d].sub, Head(work[d].todo))
      BY <3>1, <3>3 DEF Abstract!RevokeSubject
    <3>. QED  BY <3>1, <3>2, <3>4 DEF Abstract!Next
  <2>4. ASSUME NEW d \in Receivers, Ack(d) PROVE UNCHANGED <<Applied, tokens, response>>
    BY <2>4, AppliedStep DEF Ack
  <2>5. ASSUME NEW jti \in Jtis, RevokeToken(jti) PROVE Abstract!Next
    <3>1. Abstract!RevokeToken(jti)
      BY <2>5 DEF RevokeToken, Applied, Abstract!RevokeToken
    <3>. QED  BY <3>1 DEF Abstract!Next
  <2>6. ASSUME NEW r \in Requests, NEW t \in Tokens, Serve(r, t) PROVE Abstract!Next
    <3>1. (~ Revoked(t)) = (~ Abstract!Dead(t))
      BY RevokedIsDead
    <3>2. UNCHANGED <<Applied, tokens>>
      BY <2>6 DEF Serve, Applied
    <3>3. Abstract!Serve(r, t)
      BY <2>6, <3>1, <3>2 DEF Serve, Abstract!Serve
    <3>. QED  BY <3>3 DEF Abstract!Next
  <2>7. ASSUME NEW r \in Requests, Finish(r) PROVE Abstract!Next
    <3>1. Abstract!Finish(r)
      BY <2>7 DEF Finish, Applied, Abstract!Finish
    <3>. QED  BY <3>1 DEF Abstract!Next
  <2>8. CASE Tick
    BY <2>8 DEF Tick, Applied
  <2>9. CASE UNCHANGED vars
    BY <2>9 DEF vars, Applied
  <2>. QED  BY <2>1, <2>2, <2>3, <2>4, <2>5, <2>6, <2>7, <2>8, <2>9 DEF Next
<1>. QED  BY <1>1, <1>2, Invariants, PTL DEF Spec, ImplementsDeadTokens, Abstract!Spec

=============================================================================
