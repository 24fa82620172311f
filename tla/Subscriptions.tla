--------------------------- MODULE Subscriptions ----------------------------
(***************************************************************************)
(* The Graph change-notification subscriptions of internal/subscriptions:  *)
(* the in-memory store (store.go) and the HTTP handler's create, renew and *)
(* delete (handler.go) in multi-tenant mode, where every request has an    *)
(* owner.                                                                  *)
(*                                                                         *)
(* Each store operation runs under the store's mutex and is one step.  The *)
(* handshake with the client's notification URL runs between the check of  *)
(* the requested expiry and the write, and so does other requests' work.   *)
(* A request that is refused (400, 403, 404) leaves no trace and is no step.*)
(*                                                                         *)
(* Wrong... definitions are mistaken variants, see ConnPool.               *)
(***************************************************************************)
EXTENDS Integers, FiniteSets

CONSTANTS
  Handlers,   \* goroutines serving requests on /subscriptions
  Owners,     \* the principals (iss|sub keys)
  Resources,  \* the watchable collections, as the allow-list spells them
  Names,      \* the spellings clients use for them
  Fold,       \* Fold[n]: the collection that a spelling names (strings.EqualFold)
  SubIds,     \* the ids the store can draw
  None,       \* no value
  MaxTTL,     \* Handler.maxTTL
  MaxTime     \* bound on the clock

ASSUME SubscriptionConstants ==
  /\ Resources \subseteq Names
  /\ Fold \in [Names -> Resources]
  /\ \A x \in Resources : Fold[x] = x
  /\ None \notin Owners \cup Names \cup SubIds
  /\ MaxTTL \in Nat \ {0}
  /\ MaxTime \in Nat

VARIABLES
  clock,  \* wall clock
  subs,   \* subs[id]: the stored subscription, or None
  gone,   \* ids that were stored and deleted (a random id is not drawn again)
  pc,     \* where each handler is
  req     \* what each handler is working on

subVars == <<clock, subs, gone, pc, req>>

Stored(id) == subs[id] # None

\* The resource names for which a principal has an unexpired subscription.
subscribedResources(o) ==
  {subs[id].resource : id \in {i \in SubIds : Stored(i) /\ subs[i].owner = o
                                                /\ subs[i].exp > clock}}

Init ==
  /\ clock = 1
  /\ subs = [id \in SubIds |-> None]
  /\ gone = {}
  /\ pc = [h \in Handlers |-> "idle"]
  /\ req = [h \in Handlers |-> None]

Goto(h, label) == pc' = [pc EXCEPT ![h] = label]

\* The handler sends its response.
Respond(h) ==
  /\ Goto(h, "idle")
  /\ req' = [req EXCEPT ![h] = None]

-----------------------------------------------------------------------------
(* POST /subscriptions                                                     *)

WrongExpiryAccepted(exp) == exp > clock

\* Both handlers check the requested expiry against the same bounds.
ExpiryAccepted(exp) == exp > clock /\ exp <= clock + MaxTTL

\* The body is decoded and passes Validate, at the time the handler reads.
Create(h, o, name, exp) ==
  /\ pc[h] = "idle"
  /\ ExpiryAccepted(exp)
  /\ req' = [req EXCEPT ![h] =
               [id |-> None, sub |-> [owner |-> o, resource |-> name, exp |-> exp]]]
  /\ Goto(h, "verify")
  /\ UNCHANGED <<clock, subs, gone>>

\* The notificationUrl, and the lifecycleNotificationUrl when there is one,
\* echo the validation token.
Verified(h) ==
  /\ pc[h] = "verify"
  /\ Goto(h, "store")
  /\ UNCHANGED <<clock, subs, gone, req>>

VerifyFailed(h) ==
  /\ pc[h] = "verify"
  /\ Respond(h)
  /\ UNCHANGED <<clock, subs, gone>>

StoreCreate(h, id) ==
  /\ pc[h] = "store"
  /\ ~ Stored(id) /\ id \notin gone
  /\ subs' = [subs EXCEPT ![id] = req[h].sub]
  /\ req' = [req EXCEPT ![h].id = id]
  /\ Goto(h, "notify")
  /\ UNCHANGED <<clock, gone>>

\* No id could be drawn: 500.
StoreFailed(h) ==
  /\ pc[h] = "store"
  /\ Respond(h)
  /\ UNCHANGED <<clock, subs, gone>>

-----------------------------------------------------------------------------
(* PATCH and DELETE /subscriptions/{id}                                    *)

\* The subscription is read, its owner compared, the new expiry checked.  One
\* that has expired is still in the store and can be renewed.
Renew(h, o, id, exp) ==
  /\ pc[h] = "idle"
  /\ Stored(id)
  /\ subs[id].owner = o
  /\ ExpiryAccepted(exp)
  /\ req' = [req EXCEPT ![h] = [id |-> id, sub |-> [subs[id] EXCEPT !.exp = exp]]]
  /\ Goto(h, "renew")
  /\ UNCHANGED <<clock, subs, gone>>

WrongStoreRenew(h) ==
  /\ pc[h] = "renew"
  /\ subs' = [subs EXCEPT ![req[h].id] = req[h].sub]
  /\ Goto(h, "notify")
  /\ UNCHANGED <<clock, gone, req>>

\* store.Renew looks the id up again: a subscription deleted meanwhile stays
\* deleted and the request gets 404.
StoreRenew(h) ==
  LET id == req[h].id
  IN /\ pc[h] = "renew"
     /\ IF Stored(id)
        THEN /\ subs' = [subs EXCEPT ![id].exp = req[h].sub.exp]
             /\ Goto(h, "notify")
             /\ UNCHANGED req
        ELSE Respond(h) /\ UNCHANGED subs
     /\ UNCHANGED <<clock, gone>>

\* DELETE removes the subscription; no watch is told.
Delete(id) ==
  /\ Stored(id)
  /\ subs' = [subs EXCEPT ![id] = None]
  /\ gone' = gone \cup {id}
  /\ UNCHANGED <<clock, pc, req>>

-----------------------------------------------------------------------------

\* The request after its write when no watch callback is installed.
Done(h) ==
  /\ pc[h] = "notify"
  /\ Respond(h)
  /\ UNCHANGED <<clock, subs, gone>>

Tick ==
  /\ clock < MaxTime
  /\ clock' = clock + 1
  /\ UNCHANGED <<subs, gone, pc, req>>

Expirations == (clock + 1) .. (clock + MaxTTL + 1)

HandlerStep(h) ==
  \/ \E o \in Owners, name \in Names, exp \in Expirations : Create(h, o, name, exp)
  \/ Verified(h)
  \/ VerifyFailed(h)
  \/ \E id \in SubIds : StoreCreate(h, id)
  \/ StoreFailed(h)
  \/ \E o \in Owners, id \in SubIds, exp \in Expirations : Renew(h, o, id, exp)
  \/ StoreRenew(h)

Next ==
  \/ \E h \in Handlers : HandlerStep(h) \/ Done(h)
  \/ \E id \in SubIds : Delete(id)
  \/ Tick

Spec == Init /\ [][Next]_subVars

-----------------------------------------------------------------------------
(* Properties.                                                             *)

\* However long the handshake or the race between two renewals takes, no stored
\* subscription lives longer than maxTTL from now.
LifetimeBounded ==
  \A id \in SubIds : Stored(id) => subs[id].exp <= clock + MaxTTL

\* A renewal that read a subscription before its DELETE does not bring it back.
DeletedStaysDeleted == \A id \in gone : ~ Stored(id)

=============================================================================
