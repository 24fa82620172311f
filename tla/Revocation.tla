----------------------------- MODULE Revocation -----------------------------
(***************************************************************************)
(* The Shared Signals receiver of internal/revocation and its enforcement  *)
(* in the middleware of internal/auth.                                     *)
(*                                                                         *)
(* The push endpoint runs one goroutine per delivery.  A verified security *)
(* event token (SET) carries a CAEP session-revoked event, RISC account    *)
(* events or both; each becomes a RevokeSubject under the store's lock, one *)
(* after the other.  The transmitter may delay, reorder and repeat SETs.   *)
(* The store keeps one time per subject, the latest.                       *)
(*                                                                         *)
(* The mailbox identity is the token's (iss, sub), the default claim.      *)
(* Wrong... definitions are mistaken variants, see ConnPool.               *)
(***************************************************************************)
EXTENDS Integers, Sequences

CONSTANTS
  Requests,   \* goroutines serving requests behind the middleware
  Receivers,  \* goroutines serving deliveries on the SET endpoint
  Subjects,   \* (iss, sub) pairs
  Jtis,       \* token ids
  None,       \* no value
  MaxEvents,  \* bound on the RISC events in one SET
  MaxTime     \* bound on the clock

ASSUME RevocationConstants ==
  /\ None \notin Jtis
  /\ None \notin Subjects
  /\ None \notin 0 .. MaxTime
  /\ MaxEvents \in Nat
  /\ MaxTime \in Nat \ {0}

\* The zero time.Time: an absent timestamp.  The clock starts above it.
ZeroTime == 0

Times == 0 .. MaxTime

\* Access tokens that validate; iat and jti may be absent.
Tokens == [sub : Subjects, iat : Times, jti : Jtis \cup {None}]

\* A verified SET: its subject (None: not an iss_sub identifier), its iat, by
\* the transmitter's clock, the session-revoked event's own timestamp (None: no
\* such event), the number of RISC account events.  An event that cannot be
\* decoded counts as absent.
SETs == [sub : Subjects \cup {None}, iat : Times, caep : Times \cup {None}, risc : 0 .. MaxEvents]

VARIABLES
  clock,     \* wall clock
  subjects,  \* Store.subjects: latest revocation time; None: no entry
  tokens,    \* Store.tokens: revoked jtis
  work,      \* work[d]: what the delivery d has still to apply
  response,   \* response[r]: the token request r presented and whether it was admitted
  acked      \* the revocations of completed deliveries: [sub, at]

vars == <<clock, subjects, tokens, work, response, acked>>

\* A delivery: its subject, the times still to apply, the times applied.
Delivery(s, todo, done) == [sub |-> s, todo |-> todo, done |-> done]

Idle == Delivery(None, <<>>, {})

Init ==
  /\ clock = 1
  /\ subjects = [s \in Subjects |-> None]
  /\ tokens = {}
  /\ work = [d \in Receivers |-> Idle]
  /\ response = [r \in Requests |-> None]
  /\ acked = {}

-----------------------------------------------------------------------------
(* The store.                                                              *)

\* RevokeSubject under the lock: the latest time wins.
WrongRevokeSubject(s, at) == subjects' = [subjects EXCEPT ![s] = at]

RevokeSubject(s, at) ==
  subjects' = IF subjects[s] = None \/ at > subjects[s]
              THEN [subjects EXCEPT ![s] = at] ELSE subjects

RevokeToken(jti) ==
  /\ tokens' = tokens \cup {jti}
  /\ UNCHANGED <<clock, subjects, work, response, acked>>

WrongRevoked(t) ==
  \/ t.jti \in tokens
  \/ subjects[t.sub] # None

Revoked(t) ==
  \/ t.jti \in tokens
  \/ subjects[t.sub] # None /\ (t.iat = ZeroTime \/ t.iat <= subjects[t.sub])

-----------------------------------------------------------------------------
(* DeliverSET.                                                             *)

\* The times it passes to RevokeSubject: the CAEP event's timestamp or, absent,
\* the SET's iat; then the SET's iat for each RISC event.
RevocationTimes(set) ==
  (IF set.caep = None THEN <<>>
   ELSE <<IF set.caep = ZeroTime THEN set.iat ELSE set.caep>>)
    \o [i \in 1 .. set.risc |-> set.iat]

\* A SET arrives, for the first time or again, sooner or later.  One without an
\* iss_sub subject or without a revoking event that decodes is accepted and
\* changes nothing.
Deliver(d, set) ==
  /\ work[d] = Idle
  /\ set.sub # None
  /\ RevocationTimes(set) # <<>>
  /\ work' = [work EXCEPT ![d] = Delivery(set.sub, RevocationTimes(set), {})]
  /\ UNCHANGED <<clock, subjects, tokens, response, acked>>

\* RevokeSubject takes a zero time to be now, which it reads before the lock.
ResolveNow(d) ==
  /\ work[d].todo # <<>>
  /\ Head(work[d].todo) = ZeroTime
  /\ work' = [work EXCEPT ![d] = Delivery(@.sub, <<clock>> \o Tail(@.todo), @.done)]
  /\ UNCHANGED <<clock, subjects, tokens, response, acked>>

\* One of its events is applied.
Apply(d) ==
  LET at == Head(work[d].todo)
  IN /\ work[d].todo # <<>>
     /\ at # ZeroTime
     /\ RevokeSubject(work[d].sub, at)
     /\ work' = [work EXCEPT ![d] = Delivery(@.sub, Tail(@.todo), @.done \cup {at})]
     /\ UNCHANGED <<clock, tokens, response, acked>>

\* The transmitter is told that the SET was accepted.
WrongAck(d) ==
  /\ work[d].sub # None
  /\ \A i \in DOMAIN work[d].todo : work[d].todo[i] # ZeroTime
  /\ acked' = acked \cup {[sub |-> work[d].sub, at |-> work[d].todo[i]] : i \in DOMAIN work[d].todo}
  /\ work' = [work EXCEPT ![d] = Idle]
  /\ UNCHANGED <<clock, subjects, tokens, response>>

Ack(d) ==
  /\ work[d].sub # None
  /\ work[d].todo = <<>>
  /\ acked' = acked \cup {[sub |-> work[d].sub, at |-> at] : at \in work[d].done}
  /\ work' = [work EXCEPT ![d] = Idle]
  /\ UNCHANGED <<clock, subjects, tokens, response>>

-----------------------------------------------------------------------------
(* The middleware.                                                         *)

\* A token that validates reaches the handler unless it is revoked (401).
Serve(r, t) ==
  /\ response[r] = None
  /\ t.iat <= clock
  /\ response' = [response EXCEPT ![r] = [token |-> t, admitted |-> ~ Revoked(t)]]
  /\ UNCHANGED <<clock, subjects, tokens, work, acked>>

Finish(r) ==
  /\ response[r] # None
  /\ response' = [response EXCEPT ![r] = None]
  /\ UNCHANGED <<clock, subjects, tokens, work, acked>>

Tick ==
  /\ clock < MaxTime
  /\ clock' = clock + 1
  /\ UNCHANGED <<subjects, tokens, work, response, acked>>

Next ==
  \/ \E d \in Receivers, set \in SETs : Deliver(d, set)
  \/ \E d \in Receivers : ResolveNow(d) \/ Apply(d) \/ Ack(d)
  \/ \E jti \in Jtis : RevokeToken(jti)
  \/ \E r \in Requests, t \in Tokens : Serve(r, t)
  \/ \E r \in Requests : Finish(r)
  \/ Tick

Spec == Init /\ [][Next]_vars

-----------------------------------------------------------------------------
(* Properties.                                                             *)

\* Every variable keeps its type; no time recorded lies outside the clock's.
TypeOK ==
  /\ clock \in 1 .. MaxTime
  /\ subjects \in [Subjects -> (1 .. MaxTime) \cup {None}]
  /\ tokens \subseteq Jtis
  /\ work \in [Receivers ->
               [sub : Subjects \cup {None}, todo : Seq(Times), done : SUBSET (1 .. MaxTime)]]
  /\ response \in [Requests -> [token : Tokens, admitted : BOOLEAN] \cup {None}]
  /\ acked \subseteq [sub : Subjects, at : 1 .. MaxTime]

\* Whatever the order and repetition of deliveries, a revocation that was
\* acknowledged stays enforced: every token it covers is refused from then on.
\* A revocation is an event that DeliverSET could decode; it also acknowledges
\* a SET of which it could not.
AckedEnforced ==
  \A e \in acked, t \in Tokens :
    t.sub = e.sub /\ (t.iat = ZeroTime \/ t.iat <= e.at) => Revoked(t)

\* A token that is refused once is refused for good.
NeverRevived == [][\A t \in Tokens : Revoked(t) => Revoked(t)']_vars

\* The revocations applied so far: those acknowledged and those of deliveries
\* still in progress.
Applied ==
  acked \cup UNION {{[sub |-> work[d].sub, at |-> at] : at \in work[d].done} : d \in Receivers}

\* The store, which keeps one time per subject, answers every request as the
\* list of all revocations would: no token is missed and none is killed in excess.
Abstract == INSTANCE DeadTokens WITH events <- Applied

ImplementsDeadTokens == Abstract!Spec

=============================================================================
