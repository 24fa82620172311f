--------------------------- MODULE MeetingsProofs ---------------------------
(***************************************************************************)
(* Proofs about Meetings, for any requests, guests, bodies and servers.    *)
(*                                                                         *)
(* The stored event keeps its type through merging, scheduling and the     *)
(* conversion to iCalendar and back (RoundTrip, Typed).  A conditional     *)
(* PATCH loses nothing (LosesNothing) although its ETag and its base come  *)
(* from two different reads: the inductive invariant orders the two by the *)
(* ETags the calendar server gave out, which only grow (Ordered).          *)
(*                                                                         *)
(* SCHEDULE-STATUS is honest (StatusHonest) and nobody keeps a meeting     *)
(* that is not theirs (MeetingWithdrawn): the inductive invariant looks    *)
(* past the mail under way, to what each guest's calendar comes to once    *)
(* all of it is delivered, in whatever order (Reached, Gone).              *)
(***************************************************************************)
EXTENDS Meetings, TLAPS

Pcs == {"idle", "invite", "cancel", "put", "remove", "done"}

Read == [ver: Nat, ev: Event]

RequestType ==
  [op: {"none", "create", "patch", "delete", "respond"}, pc: Pcs,
   ifm: Nat \cup {None}, base: Read \cup {None}, new: Event \cup {None},
   to: SUBSET Guests]

\* A CANCEL withdraws the meeting, so it names no time.
Notice ==
  {m \in [method: {"REQUEST", "CANCEL"}, seq: Nat, when: Whens \cup {None}, to: Guests] :
     m.method = "CANCEL" => m.when = None}

\* What a request needs at each of its calls.
Prepared(q) ==
  /\ q.pc \in {"invite", "put"} => q.new \in Event
  /\ q.pc = "remove" => q.op = "delete"
  /\ q.pc = "cancel" => q.base \in Read
  /\ q.pc = "cancel" /\ q.op # "delete" => q.new \in Event

\* The stored text is what eventToICal made of an event.
Stored == obj # None => obj.ver \in Nat /\ \E ev \in Event : obj.ics = EventToICal(ev)

Shapes ==
  /\ dep \in Deployments
  /\ vers \in Nat
  /\ req \in [Requests -> RequestType]
  /\ \A r \in Requests : Prepared(req[r])
  /\ post \subseteq Notice
  /\ held \in [Guests -> [seq: Int, when: Whens \cup {None}]]
  /\ torn \in BOOLEAN
  /\ unsent \subseteq Guests

IInv == Stored /\ Shapes

\* The stored object has the last ETag given out; the ETag a client brings is
\* not younger than the read the request merges into.
Ordered ==
  /\ obj # None => obj.ver = vers
  /\ \A r \in Requests :
       /\ req[r].pc = "idle" => req[r].ifm = None
       /\ req[r].ifm # None =>
            req[r].base \in Read /\ req[r].ifm <= req[r].base.ver /\ req[r].base.ver <= vers

-----------------------------------------------------------------------------
(***************************************************************************)
(* Events.                                                                 *)
(***************************************************************************)


\* None is no time, no participation status and no delivery status.
LEMMA NoneApart == None \notin Nat /\ None \notin PartStats /\ None \notin Statuses
  BY MeetingsAssumption

\* What eventToICal writes, mapEvent reads back, parameter by parameter; only
\* the SCHEDULE-STATUS of somebody no longer listed is lost (applyPartStat,
\* reconcilePartStat).
THEOREM RoundTrip ==
  ASSUME NEW ev \in Event
  PROVE  MapEvent(EventToICal(ev)) =
           [ev EXCEPT !.status = [g \in Guests |->
              IF ev.part[g] # None THEN ev.status[g] ELSE "none"]]
  <1> DEFINE ics == EventToICal(ev)
             listed == {q \in People : ev.part[q] # None}
             kept == [g \in Guests |-> IF ev.part[g] # None THEN ev.status[g] ELSE "none"]
  <1>0. Guests \subseteq People
    BY DEF People
  <1>1. ics.seq = ev.seq /\ ics.when = ev.when /\ DOMAIN ics.attendee = listed
    BY DEF EventToICal
  <1>2. \A p \in listed : /\ ics.attendee[p].partstat = Param(ev.part[p], Unsaid)
                          /\ ics.attendee[p].schedule =
                               IF p \in Guests THEN Param(ev.status[p], "none") ELSE None
    BY DEF EventToICal
  <1>3. \A p \in listed : Value(ics.attendee[p].partstat, Unsaid) = ev.part[p]
    BY <1>2 DEF Param, Value
  <1>4. \A g \in Guests : ev.status[g] # None
    BY NoneApart DEF Event
  <1>5. \A g \in Guests : g \in listed => Value(ics.attendee[g].schedule, "none") = ev.status[g]
    BY <1>2, <1>4 DEF Param, Value
  <1> HIDE DEF ics
  <1>6. [p \in People |-> IF p \in DOMAIN ics.attendee
                          THEN Value(ics.attendee[p].partstat, Unsaid) ELSE None] = ev.part
    BY <1>1, <1>3 DEF Event
  <1>7. [g \in Guests |-> IF g \in DOMAIN ics.attendee
                          THEN Value(ics.attendee[g].schedule, "none") ELSE "none"] = kept
    BY <1>0, <1>1, <1>5
  <1>8. MapEvent(ics) = [seq |-> ev.seq, when |-> ev.when, part |-> ev.part, status |-> kept]
    BY <1>1, <1>6, <1>7 DEF MapEvent
  <1>9. [ev EXCEPT !.status = kept] =
          [seq |-> ev.seq, when |-> ev.when, part |-> ev.part, status |-> kept]
    BY DEF Event
  <1> QED  BY <1>8, <1>9 DEF ics

\* Reading a stored event gives an event.
LEMMA ReadBack == \A ev \in Event : MapEvent(EventToICal(ev)) \in Event
  <1> SUFFICES ASSUME NEW ev \in Event PROVE MapEvent(EventToICal(ev)) \in Event
    OBVIOUS
  <1>1. [g \in Guests |-> IF ev.part[g] # None THEN ev.status[g] ELSE "none"]
          \in [Guests -> Statuses]
    BY DEF Event, Statuses
  <1> QED  BY <1>1, RoundTrip DEF Event

\* The attendee list of a body becomes a roster.
LEMMA Rostered ==
  ASSUME NEW ev \in Event, NEW part \in [People -> PartStats \cup {None}],
         NEW status \in [Guests -> Statuses]
  PROVE  SetEventAttendees(ev, part, status) \in Event
  BY DEF SetEventAttendees, Event

\* The body of a POST describes an event.
LEMMA Posted ==
  ASSUME NEW when \in Whens, NEW roster \in Rosters
  PROVE  GraphToEvent(when, roster) \in Event
  <1>1. \A p \in DOMAIN roster : roster[p] \in PartStats
    BY MeetingsAssumption DEF PartStats
  <1> QED  BY <1>1 DEF GraphToEvent, Event, Statuses

\* The body of a PATCH is merged into an event.
LEMMA Merged ==
  ASSUME NEW ev \in Event, NEW patch \in Patches
  PROVE  MergeEventPatch(ev, patch) \in Event
  <1>1. patch.when \in Whens \cup {None} /\ patch.roster \in Rosters \cup {None}
    BY DEF Patches
  <1>2. SetTimesInZone(ev, patch.when) \in Event
    BY <1>1 DEF SetTimesInZone, Event
  <1>3. ASSUME NEW e \in Event, NEW roster \in Rosters
        PROVE  MergeAttendees(e, roster) \in Event
    <2>1. \A p \in DOMAIN roster : roster[p] \in PartStats
      BY MeetingsAssumption DEF PartStats
    <2>2. [p \in People |->
             CASE p \notin DOMAIN roster -> None
               [] p \in DOMAIN roster /\ roster[p] # Unsaid -> roster[p]
               [] p \in DOMAIN roster /\ roster[p] = Unsaid ->
                    IF e.part[p] # None THEN e.part[p] ELSE Unsaid]
            \in [People -> PartStats \cup {None}]
      BY <2>1 DEF Event, PartStats
    <2>3. [g \in Guests |->
             IF g \in DOMAIN roster /\ e.part[g] # None THEN e.status[g] ELSE "none"]
            \in [Guests -> Statuses]
      BY DEF Event, Statuses
    <2> QED  BY <2>2, <2>3, Rostered DEF MergeAttendees
  <1> QED  BY <1>1, <1>2, <1>3 DEF MergeEventPatch

\* What the guests have to hear is planned from events, and is about events.
LEMMA Planned ==
  ASSUME NEW old \in Event, NEW new \in Event
  PROVE  LET plan == ReinviteOnUpdate(old, new)
         IN  /\ plan.new \in Event
             /\ plan.to \in SUBSET Guests
             /\ plan.pc \in {"cancel", "invite", "put"}
  <1>1. [new EXCEPT !.seq = old.seq + 1] \in Event
    BY DEF Event
  <1>2. \A e \in Event : ResetRecipientStatus(e) \in Event
    <2> SUFFICES ASSUME NEW e \in Event PROVE ResetRecipientStatus(e) \in Event
      OBVIOUS
    <2>1. [p \in People |-> IF p \in Recipients(e) THEN NeedsAction ELSE e.part[p]]
            \in [People -> PartStats \cup {None}]
      BY DEF Event, PartStats
    <2>2. e.status \in [Guests -> Statuses]
      BY DEF Event
    <2> QED  BY <2>1, <2>2, Rostered DEF ResetRecipientStatus
  <1>3. RemovedRecipients(old, new) \in SUBSET Guests
    BY DEF RemovedRecipients, Recipients
  <1> DEFINE removed == RemovedRecipients(old, new)
             changed == SignificantChange(old, new)
             again == changed \/ RosterAdded(old, new)
             next == [new EXCEPT !.seq = old.seq + 1]
  <1>4. /\ ReinviteOnUpdate(old, new).to = removed
        /\ ReinviteOnUpdate(old, new).new \in {new, next, ResetRecipientStatus(next)}
        /\ ReinviteOnUpdate(old, new).pc \in {"cancel", "invite", "put"}
    <2> HIDE DEF removed, changed, next
    <2>1. ReinviteOnUpdate(old, new) =
            [new |-> CASE removed = {} /\ ~again -> new
                       [] changed -> ResetRecipientStatus(next)
                       [] OTHER -> next,
             to |-> removed,
             pc |-> CASE removed # {} -> "cancel"
                      [] removed = {} /\ again -> "invite"
                      [] OTHER -> "put"]
      BY DEF ReinviteOnUpdate, removed, changed, next
    <2> HIDE DEF again
    <2> QED  BY <2>1
  <1> QED  BY <1>1, <1>2, <1>3, <1>4

\* Recording the outcome of a mail gives an event again.
LEMMA Recorded ==
  ASSUME NEW ev \in Event, NEW ok \in BOOLEAN
  PROVE  RecordSchedulingOutcome(ev, ok) \in Event
  <1>1. [g \in Guests |->
           IF g \in Recipients(ev) THEN IF ok THEN "sent" ELSE "failed" ELSE ev.status[g]]
          \in [Guests -> Statuses]
    BY DEF Event, Statuses
  <1>2. ev.part \in [People -> PartStats \cup {None}]
    BY DEF Event
  <1> QED  BY <1>1, <1>2, Rostered DEF RecordSchedulingOutcome

\* Scheduling mail has the SEQUENCE of an event and goes to guests.
LEMMA Mailed ==
  ASSUME NEW ev \in Event, NEW to \in SUBSET Guests
  PROVE  Requested(ev) \subseteq Notice /\ Withdrawal(ev, to) \subseteq Notice
  <1>1. Recipients(ev) \subseteq Guests
    BY DEF Recipients
  <1>2. ev.seq \in Nat /\ ev.when \in Whens
    BY DEF Event
  <1> QED  BY <1>1, <1>2 DEF Requested, Withdrawal, Mail, Notice

\* A read of the stored object gives an event and an ETag.
LEMMA Got == ASSUME Stored, obj # None PROVE GetEvent \in Event /\ obj.ver \in Nat
  BY ReadBack DEF Stored, GetEvent

\* A fresh object is a stored one.
LEMMA Put ==
  ASSUME NEW ev \in Event, vers \in Nat, obj' = Fresh(ev)
  PROVE  Stored'
  BY DEF Fresh, Stored

-----------------------------------------------------------------------------
(***************************************************************************)
(* One step of a request: what it leaves in req is a request, and what it  *)
(* leaves elsewhere has its type.                                          *)
(***************************************************************************)

\* A request moves to q, and the other requests stay.
LEMMA RequestStep ==
  ASSUME IInv, NEW r \in Requests, NEW q \in RequestType, Prepared(q),
         req' = [req EXCEPT ![r] = q]
  PROVE  /\ req' \in [Requests -> RequestType]
         /\ \A s \in Requests : Prepared(req'[s])
         /\ req'[r] = q
         /\ \A s \in Requests : s # r => req'[s] = req[s]
  <1>1. req \in [Requests -> RequestType] /\ \A s \in Requests : Prepared(req[s])
    BY DEF IInv, Shapes
  <1>2. req' \in [Requests -> RequestType] /\ req'[r] = q
    BY <1>1
  <1>3. \A s \in Requests : s # r => req'[s] = req[s]
    BY <1>1
  <1>4. \A s \in Requests : Prepared(req'[s])
    BY <1>1, <1>2, <1>3
  <1> QED  BY <1>2, <1>3, <1>4

\* The records of a request before it starts and after it ends have their type.
LEMMA Ends == Idle \in RequestType /\ Done \in RequestType /\ Prepared(Done) /\ Done.ifm = None
              /\ Done.pc = "done"
  BY DEF Idle, Done, RequestType, Pcs, Prepared

\* POST: the new object is an event, and so is what is mailed about it.
LEMMA CreateStep ==
  ASSUME IInv, NEW r \in Requests, MeCreateEvents(r)
  PROVE  IInv'
  <1>1. PICK when \in Whens, roster \in Rosters, native \in ServerSchedulesEvents :
          /\ Begin(r)
          /\ CreateEvent(GraphToEvent(when, roster))
          /\ req' = [req EXCEPT ![r] =
               IF ShouldSelfSchedule(GraphToEvent(when, roster), native)
               THEN [req[r] EXCEPT !.op = "create", !.pc = "invite", !.new = GraphToEvent(when, roster)]
               ELSE Done]
          /\ UNCHANGED <<dep, post, held, unsent>>
    BY DEF MeCreateEvents
  <1> DEFINE ev == GraphToEvent(when, roster)
             q == IF ShouldSelfSchedule(ev, native)
                  THEN [req[r] EXCEPT !.op = "create", !.pc = "invite", !.new = ev]
                  ELSE Done
  <1>2. ev \in Event
    BY Posted
  <1> HIDE DEF ev
  <1>3. q \in RequestType /\ Prepared(q)
    <2>1. req[r] \in RequestType
      BY DEF IInv, Shapes
    <2>2. [req[r] EXCEPT !.op = "create", !.pc = "invite", !.new = ev] \in RequestType
      BY <1>2, <2>1 DEF RequestType, Pcs
    <2>3. Prepared([req[r] EXCEPT !.op = "create", !.pc = "invite", !.new = ev])
      BY <1>2, <2>1 DEF Prepared, RequestType
    <2> QED  BY <2>2, <2>3, Ends
  <1>4. req' = [req EXCEPT ![r] = q]
    BY <1>1 DEF ev
  <1> HIDE DEF q
  <1>5. req' \in [Requests -> RequestType] /\ \A s \in Requests : Prepared(req'[s])
    BY <1>3, <1>4, RequestStep
  <1>6. Stored' /\ vers' \in Nat
    <2>1. vers \in Nat /\ vers' = vers + 1 /\ obj' = Fresh(ev)
      BY <1>1 DEF CreateEvent, IInv, Shapes, ev
    <2> QED  BY <1>2, <2>1, Put
  <1>7. torn' \in BOOLEAN
    BY <1>1 DEF Begin, IInv, Shapes
  <1> QED  BY <1>1, <1>5, <1>6, <1>7 DEF IInv, Shapes

\* PATCH: the merge and the plan are about the event that was read.
LEMMA UpdateStep ==
  ASSUME IInv, NEW r \in Requests, MeUpdateEvents(r)
  PROVE  /\ IInv'
         /\ req'[r].pc # "idle"
         /\ req'[r].ifm # None =>
              /\ req'[r].ifm \in 1..vers
              /\ req'[r].base \in Read /\ req'[r].base.ver = obj.ver /\ obj # None
         /\ \A s \in Requests : s # r => req'[s] = req[s]
         /\ obj' = obj /\ vers' = vers
  <1>1. PICK patch \in Patches, ifm \in (1..vers) \cup {None}, native \in ServerSchedulesEvents :
          LET merged == MergeEventPatch(GetEvent, patch)
              plan == IF dep.sched /\ ~native
                      THEN ReinviteOnUpdate(GetEvent, merged)
                      ELSE [new |-> merged, to |-> {}, pc |-> "put"]
          IN  /\ Begin(r)
              /\ obj # None
              /\ req' = [req EXCEPT ![r] =
                   [op |-> "patch", ifm |-> ifm, base |-> [ver |-> obj.ver, ev |-> GetEvent],
                    new |-> plan.new, to |-> plan.to, pc |-> plan.pc]]
              /\ UNCHANGED <<dep, obj, vers, post, held, unsent>>
    BY DEF MeUpdateEvents
  <1> DEFINE merged == MergeEventPatch(GetEvent, patch)
             plan == IF dep.sched /\ ~native
                     THEN ReinviteOnUpdate(GetEvent, merged)
                     ELSE [new |-> merged, to |-> {}, pc |-> "put"]
             base == [ver |-> obj.ver, ev |-> GetEvent]
             q == [op |-> "patch", ifm |-> ifm, base |-> base,
                   new |-> plan.new, to |-> plan.to, pc |-> plan.pc]
  <1>2. obj # None /\ GetEvent \in Event /\ base \in Read /\ base.ver = obj.ver
    BY <1>1, Got DEF IInv, Read
  <1>3. merged \in Event
    BY <1>2, Merged
  <1> HIDE DEF merged, base
  <1>4. plan.new \in Event /\ plan.to \in SUBSET Guests /\ plan.pc \in {"cancel", "invite", "put"}
    BY <1>2, <1>3, Planned
  <1>5. /\ req' = [req EXCEPT ![r] = q]
        /\ UNCHANGED <<dep, obj, vers, post, held, unsent>>
        /\ Begin(r)
    BY <1>1 DEF merged, base
  <1> HIDE DEF plan
  <1>6. vers \in Nat /\ ifm \in Nat \cup {None}
    BY DEF IInv, Shapes
  <1>7. q \in RequestType /\ Prepared(q)
    BY <1>2, <1>4, <1>6 DEF RequestType, Pcs, Prepared
  <1>8. q.ifm = ifm /\ q.base = base /\ q.pc # "idle"
    BY <1>4
  <1> HIDE DEF q
  <1>9. /\ req' \in [Requests -> RequestType]
        /\ \A s \in Requests : Prepared(req'[s])
        /\ req'[r] = q
        /\ \A s \in Requests : s # r => req'[s] = req[s]
    BY <1>5, <1>7, RequestStep
  <1>10. torn' \in BOOLEAN
    BY <1>5 DEF Begin, IInv, Shapes
  <1>11. IInv'
    BY <1>5, <1>9, <1>10 DEF IInv, Shapes, Stored
  <1> QED  BY <1>2, <1>5, <1>8, <1>9, <1>11

\* DELETE: the event is read for its guests.
LEMMA DeleteBegins ==
  ASSUME IInv, NEW r \in Requests, MeDeleteEvents(r)
  PROVE  IInv'
  <1>1. PICK read \in {None} \cup (IF obj = None THEN {}
                                  ELSE {[ver |-> obj.ver, ev |-> GetEvent]}) :
          /\ Begin(r)
          /\ req' = [req EXCEPT ![r] =
               [req[r] EXCEPT !.op = "delete", !.base = read, !.pc = "remove"]]
          /\ UNCHANGED <<dep, obj, vers, post, held, unsent>>
    BY DEF MeDeleteEvents
  <1>2. read \in Read \cup {None}
    <2>1. obj # None => [ver |-> obj.ver, ev |-> GetEvent] \in Read
      BY Got DEF IInv, Read
    <2> QED  BY <1>1, <2>1
  <1>3. req[r] \in RequestType
    BY DEF IInv, Shapes
  <1> DEFINE q == [req[r] EXCEPT !.op = "delete", !.base = read, !.pc = "remove"]
  <1>4. q \in RequestType /\ Prepared(q)
    BY <1>2, <1>3 DEF RequestType, Pcs, Prepared
  <1>5. req' = [req EXCEPT ![r] = q]
    BY <1>1
  <1> HIDE DEF q
  <1>6. req' \in [Requests -> RequestType] /\ \A s \in Requests : Prepared(req'[s])
    BY <1>4, <1>5, RequestStep
  <1>7. torn' \in BOOLEAN
    BY <1>1 DEF Begin, IInv, Shapes
  <1> QED  BY <1>1, <1>6, <1>7 DEF IInv, Shapes, Stored

\* An answer to an invitation is recorded on the event that was read.
LEMMA RespondStep ==
  ASSUME IInv, NEW r \in Requests, RespondToInvite(r)
  PROVE  IInv'
  <1>1. PICK answer \in Answers, sendResponse \in BOOLEAN, native \in ServerSchedulesEvents :
          /\ Begin(r)
          /\ obj # None
          /\ req' = [req EXCEPT ![r] =
               IF sendResponse /\ native /\ GetEvent.part[Me] # None
               THEN [req[r] EXCEPT !.op = "respond", !.pc = "put",
                       !.base = [ver |-> obj.ver, ev |-> GetEvent],
                       !.new = SetAttendeeStatus(GetEvent, answer)]
               ELSE Done]
          /\ UNCHANGED <<dep, obj, vers, post, held, unsent>>
    BY DEF RespondToInvite
  <1> DEFINE base == [ver |-> obj.ver, ev |-> GetEvent]
             ev == SetAttendeeStatus(GetEvent, answer)
             answered == [req[r] EXCEPT !.op = "respond", !.pc = "put", !.base = base, !.new = ev]
             q == IF sendResponse /\ native /\ GetEvent.part[Me] # None THEN answered ELSE Done
  <1>2. GetEvent \in Event /\ base \in Read
    BY <1>1, Got DEF IInv, Read
  <1>3. ev \in Event
    BY <1>2 DEF SetAttendeeStatus, Event, PartStats
  <1>4. req[r] \in RequestType
    BY DEF IInv, Shapes
  <1>5. req' = [req EXCEPT ![r] = q]
    BY <1>1
  <1> HIDE DEF ev, base
  <1>6. answered \in RequestType /\ Prepared(answered)
    BY <1>2, <1>3, <1>4 DEF RequestType, Pcs, Prepared
  <1>7. q \in RequestType /\ Prepared(q)
    BY <1>6, Ends
  <1> HIDE DEF q
  <1>8. req' \in [Requests -> RequestType] /\ \A s \in Requests : Prepared(req'[s])
    BY <1>5, <1>7, RequestStep
  <1>9. torn' \in BOOLEAN
    BY <1>1 DEF Begin, IInv, Shapes
  <1> QED  BY <1>1, <1>8, <1>9 DEF IInv, Shapes, Stored

\* The request mails its invitation; only its event and its place change.
LEMMA SendStep ==
  ASSUME IInv, NEW r \in Requests, SendRequest(r)
  PROVE  /\ IInv'
         /\ \A s \in Requests : s # r => req'[s] = req[s]
         /\ req'[r].pc = "put" /\ req'[r].ifm = req[r].ifm /\ req'[r].base = req[r].base
  <1>1. PICK ok \in BOOLEAN, out \in BOOLEAN :
          /\ req[r].pc = "invite"
          /\ post' = IF out THEN post \cup Requested(req[r].new) ELSE post
          /\ req' = [req EXCEPT ![r].new = RecordSchedulingOutcome(req[r].new, ok),
                                ![r].pc = "put"]
          /\ UNCHANGED <<dep, obj, vers, held, torn, unsent>>
    BY DEF SendRequest
  <1> DEFINE ev == RecordSchedulingOutcome(req[r].new, ok)
             q == [req[r] EXCEPT !.new = ev, !.pc = "put"]
  <1>2. req[r] \in RequestType /\ req[r].new \in Event
    BY <1>1 DEF IInv, Shapes, Prepared
  <1>3. ev \in Event /\ Requested(req[r].new) \subseteq Notice
    BY <1>2, Recorded, Mailed
  <1>4. req' = [req EXCEPT ![r] = q]
    BY <1>1 DEF IInv, Shapes
  <1> HIDE DEF ev
  <1>5. /\ q \in RequestType /\ Prepared(q)
        /\ q.pc = "put" /\ q.ifm = req[r].ifm /\ q.base = req[r].base
    BY <1>2, <1>3 DEF RequestType, Pcs, Prepared
  <1> HIDE DEF q
  <1>6. /\ req' \in [Requests -> RequestType] /\ \A s \in Requests : Prepared(req'[s])
        /\ req'[r] = q /\ \A s \in Requests : s # r => req'[s] = req[s]
    BY <1>4, <1>5, RequestStep
  <1>7. post' \subseteq Notice
    BY <1>1, <1>3 DEF IInv, Shapes
  <1>8. IInv'
    BY <1>1, <1>6, <1>7 DEF IInv, Shapes, Stored
  <1> QED  BY <1>5, <1>6, <1>8

\* The request mails its withdrawals.
LEMMA CancelStep ==
  ASSUME IInv, NEW r \in Requests, SendCancelTo(r)
  PROVE  /\ IInv'
         /\ \A s \in Requests : s # r => req'[s] = req[s]
         /\ req'[r].pc # "idle"
         /\ req'[r].ifm = None \/ (req'[r].ifm = req[r].ifm /\ req'[r].base = req[r].base)
  <1> DEFINE old == req[r].base.ev
             new == req[r].new
             again == SignificantChange(old, new) \/ RosterAdded(old, new)
             on == [req[r] EXCEPT !.pc = IF again THEN "invite" ELSE "put"]
             q == IF req[r].op = "delete" THEN Done ELSE on
  <1>1. PICK out \in BOOLEAN :
          /\ req[r].pc = "cancel"
          /\ post' = IF out THEN post \cup Withdrawal(old, req[r].to) ELSE post
          /\ unsent' = IF out THEN unsent \ req[r].to ELSE unsent \cup req[r].to
          /\ req' = [req EXCEPT ![r] = q]
          /\ UNCHANGED <<dep, obj, vers, held, torn>>
    BY DEF SendCancelTo
  <1>2. /\ req[r] \in RequestType /\ req[r].to \in SUBSET Guests
        /\ req[r].base \in Read
        /\ req[r].op # "delete" => req[r].new \in Event
    BY <1>1 DEF IInv, Shapes, Prepared, RequestType
  <1>3. old \in Event /\ Withdrawal(old, req[r].to) \subseteq Notice
    BY <1>2, Mailed DEF Read
  <1> HIDE DEF again
  <1>4. req[r].op # "delete" =>
          /\ on \in RequestType /\ Prepared(on) /\ on.pc # "idle"
          /\ on.ifm = req[r].ifm /\ on.base = req[r].base
    BY <1>2 DEF RequestType, Pcs, Prepared
  <1> HIDE DEF on
  <1>5. /\ q \in RequestType /\ Prepared(q) /\ q.pc # "idle"
        /\ q.ifm = None \/ (q.ifm = req[r].ifm /\ q.base = req[r].base)
    BY <1>4, Ends
  <1> HIDE DEF q
  <1>6. /\ req' \in [Requests -> RequestType] /\ \A s \in Requests : Prepared(req'[s])
        /\ req'[r] = q /\ \A s \in Requests : s # r => req'[s] = req[s]
    BY <1>1, <1>5, RequestStep
  <1>7. post' \subseteq Notice /\ unsent' \subseteq Guests
    BY <1>1, <1>2, <1>3 DEF IInv, Shapes
  <1>8. IInv'
    BY <1>1, <1>6, <1>7 DEF IInv, Shapes, Stored
  <1> QED  BY <1>5, <1>6, <1>8

\* A request is answered: nothing of it is left.
LEMMA AnswerStep ==
  ASSUME IInv, NEW r \in Requests, req' = [req EXCEPT ![r] = Done],
         Stored', vers' \in Nat, torn' \in BOOLEAN,
         UNCHANGED <<dep, post, held, unsent>>
  PROVE  IInv'
  <1>1. req' \in [Requests -> RequestType] /\ \A s \in Requests : Prepared(req'[s])
    BY Ends, RequestStep
  <1> QED  BY <1>1 DEF IInv, Shapes

\* A write stores an event under the next ETag.
LEMMA WriteStep ==
  ASSUME IInv, NEW r \in Requests, UpdateEventIfMatch(r) \/ UpdateEvent(r)
  PROVE  IInv'
  <1>1. /\ req[r].pc = "put" /\ vers' = vers + 1 /\ req' = [req EXCEPT ![r] = Done]
        /\ UNCHANGED <<dep, post, held, torn, unsent>>
    BY DEF UpdateEventIfMatch, UpdateEvent
  <1>2. req[r].new \in Event /\ vers \in Nat /\ vers' \in Nat /\ torn' \in BOOLEAN
    BY <1>1 DEF IInv, Shapes, Prepared
  <1>3. CASE UpdateEventIfMatch(r)
    <2>1. Stored'
      BY <1>2, <1>3, Put DEF UpdateEventIfMatch
    <2> QED  BY <1>1, <1>2, <2>1, AnswerStep
  <1>4. CASE UpdateEvent(r)
    <2>1. Writable /\ obj' = Fresh(Written(req[r].new))
      BY <1>4 DEF UpdateEvent
    <2>2. obj # None => obj.ics.seq \in Nat
      <3>1. \A ev \in Event : EventToICal(ev).seq \in Nat
        BY DEF EventToICal, Event
      <3> QED  BY <3>1 DEF IInv, Stored
    <2>3. Written(req[r].new) \in Event
      BY <1>2, <2>1, <2>2 DEF Written, Writable, Event
    <2>4. Stored'
      BY <1>2, <2>1, <2>3, Put
    <2> QED  BY <1>1, <1>2, <2>4, AnswerStep
  <1> QED  BY <1>3, <1>4

\* The object is removed; its guests are to hear of it.
LEMMA RemoveStep ==
  ASSUME IInv, NEW r \in Requests, DeleteEvent(r)
  PROVE  /\ IInv'
         /\ \A s \in Requests : s # r => req'[s] = req[s]
         /\ req'[r].pc # "idle"
         /\ req'[r].ifm = None \/ (req'[r].ifm = req[r].ifm /\ req'[r].base = req[r].base)
  <1> DEFINE Sends(read) == [req[r] EXCEPT !.pc = "cancel", !.to = Recipients(read.ev)]
  <1>1. PICK native \in ServerSchedulesEvents, read \in {req[r].base, None} :
          /\ req[r].pc = "remove"
          /\ obj' = None
          /\ req' = [req EXCEPT ![r] =
               IF read # None /\ ShouldSelfSchedule(read.ev, native) THEN Sends(read) ELSE Done]
          /\ unsent' = IF read = None THEN Guests ELSE unsent
          /\ UNCHANGED <<dep, vers, post, held, torn>>
    BY DEF DeleteEvent
  <1> DEFINE on == Sends(read)
             q == IF read # None /\ ShouldSelfSchedule(read.ev, native) THEN on ELSE Done
  <1>2. req[r] \in RequestType /\ Recipients(read.ev) \in SUBSET Guests /\ req[r].op = "delete"
    BY <1>1 DEF IInv, Shapes, Recipients, Prepared
  <1>3. read # None => /\ on \in RequestType /\ Prepared(on) /\ on.pc # "idle"
                       /\ on.ifm = req[r].ifm /\ on.base = req[r].base
    BY <1>1, <1>2 DEF RequestType, Pcs, Prepared
  <1>4. req' = [req EXCEPT ![r] = q]
    BY <1>1
  <1> HIDE DEF on, Sends
  <1>5. /\ q \in RequestType /\ Prepared(q) /\ q.pc # "idle"
        /\ q.ifm = None \/ (q.ifm = req[r].ifm /\ q.base = req[r].base)
    BY <1>3, Ends
  <1> HIDE DEF q
  <1>6. /\ req' \in [Requests -> RequestType] /\ \A s \in Requests : Prepared(req'[s])
        /\ req'[r] = q /\ \A s \in Requests : s # r => req'[s] = req[s]
    BY <1>4, <1>5, RequestStep
  <1>7. Stored' /\ unsent' \subseteq Guests
    BY <1>1 DEF IInv, Shapes, Stored
  <1>8. IInv'
    BY <1>1, <1>6, <1>7 DEF IInv, Shapes
  <1> QED  BY <1>5, <1>6, <1>8

\* A delivery of mail keeps the types.
LEMMA DeliverStep ==
  ASSUME IInv, Deliver
  PROVE  IInv'
  <1>1. PICK m \in post :
          /\ post' = post \ {m}
          /\ held' = [held EXCEPT ![m.to] =
               IF m.seq > @.seq \/ (m.method = "CANCEL" /\ m.seq = @.seq)
               THEN [seq |-> m.seq, when |-> m.when] ELSE @]
          /\ UNCHANGED <<dep, obj, vers, req, torn, unsent>>
    BY DEF Deliver
  <1>2. m \in Notice /\ post' \subseteq Notice
    BY <1>1 DEF IInv, Shapes
  <1>3. [seq |-> m.seq, when |-> m.when] \in [seq: Int, when: Whens \cup {None}] /\ m.to \in Guests
    BY <1>2 DEF Notice
  <1>4. held' \in [Guests -> [seq: Int, when: Whens \cup {None}]]
    BY <1>1, <1>3 DEF IInv, Shapes
  <1> QED  BY <1>1, <1>2, <1>4 DEF IInv, Shapes, Stored

\* A write by another client keeps the types.
LEMMA OtherStep ==
  ASSUME IInv, OtherClient
  PROVE  IInv'
  <1>1. PICK p \in People, answer \in Answers :
          /\ obj # None
          /\ obj' = Fresh([GetEvent EXCEPT !.part[p] = answer])
          /\ vers' = vers + 1
          /\ torn' = (torn \/ \E q \in Requests : Open(q))
          /\ UNCHANGED <<dep, req, post, held, unsent>>
    BY DEF OtherClient
  <1> DEFINE ev == [GetEvent EXCEPT !.part[p] = answer]
  <1>2. GetEvent \in Event
    BY <1>1, Got DEF IInv
  <1>3. ev \in Event
    BY <1>2 DEF Event, PartStats
  <1>4. vers \in Nat /\ vers' \in Nat /\ torn' \in BOOLEAN
    BY <1>1 DEF IInv, Shapes
  <1>5. obj' = Fresh(ev)
    BY <1>1
  <1> HIDE DEF ev
  <1>6. Stored'
    BY <1>3, <1>4, <1>5, Put
  <1> QED  BY <1>1, <1>4, <1>6 DEF IInv, Shapes

-----------------------------------------------------------------------------
(***************************************************************************)
(* The invariants.                                                         *)
(***************************************************************************)

\* The invariants hold before the first request.
LEMMA InitInv == Init => IInv /\ Ordered
  <1> SUFFICES ASSUME Init PROVE IInv /\ Ordered
    OBVIOUS
  <1>1. req = [r \in Requests |-> Idle] /\ Idle \in RequestType /\ Prepared(Idle)
        /\ Idle.ifm = None
    BY Ends DEF Init, Idle, Prepared
  <1>2. CASE obj = None /\ vers = 0 /\ held = [g \in Guests |-> [seq |-> -1, when |-> None]]
    <2>1. held \in [Guests -> [seq: Int, when: Whens \cup {None}]] /\ vers \in Nat
      BY <1>2
    <2>2. Stored
      BY <1>2 DEF Stored
    <2>3. IInv
      BY <1>1, <2>1, <2>2 DEF Init, IInv, Shapes
    <2>4. Ordered
      BY <1>1, <1>2 DEF Ordered
    <2> QED  BY <2>3, <2>4
  <1>3. CASE \E w \in Whens :
          /\ vers = 1
          /\ obj = [ver |-> 1,
                    ics |-> EventToICal(
                      [seq |-> 0, when |-> w,
                       part |-> [p \in People |-> NeedsAction],
                       status |-> [g \in Guests |-> "sent"]])]
          /\ held = [g \in Guests |-> [seq |-> 0, when |-> w]]
    <2>1. PICK w \in Whens :
          /\ vers = 1
          /\ obj = [ver |-> 1,
                    ics |-> EventToICal(
                      [seq |-> 0, when |-> w,
                       part |-> [p \in People |-> NeedsAction],
                       status |-> [g \in Guests |-> "sent"]])]
          /\ held = [g \in Guests |-> [seq |-> 0, when |-> w]]
      BY <1>3
    <2>2. [seq |-> 0, when |-> w, part |-> [p \in People |-> NeedsAction],
           status |-> [g \in Guests |-> "sent"]] \in Event
      BY DEF Event, PartStats, Statuses
    <2>3. Stored /\ obj.ver = vers
      BY <2>1, <2>2 DEF Stored
    <2>4. held \in [Guests -> [seq: Int, when: Whens \cup {None}]] /\ vers \in Nat
      BY <2>1
    <2>5. IInv
      BY <1>1, <2>3, <2>4 DEF Init, IInv, Shapes
    <2>6. Ordered
      BY <1>1, <2>3 DEF Ordered
    <2> QED  BY <2>5, <2>6
  <1> QED  BY <1>2, <1>3 DEF Init

\* Each step keeps the types.
LEMMA NextInv == IInv /\ [Next]_vars => IInv'
  <1> SUFFICES ASSUME IInv, [Next]_vars PROVE IInv'
    OBVIOUS
  <1>0. vers \in Nat /\ torn \in BOOLEAN /\ Stored
    BY DEF IInv, Shapes
  <1>1. ASSUME NEW r \in Requests, MeCreateEvents(r) PROVE IInv'
    BY <1>1, CreateStep
  <1>2. ASSUME NEW r \in Requests, MeUpdateEvents(r) PROVE IInv'
    BY <1>2, UpdateStep
  <1>3. ASSUME NEW r \in Requests, MeDeleteEvents(r) PROVE IInv'
    BY <1>3, DeleteBegins
  <1>4. ASSUME NEW r \in Requests, RespondToInvite(r) PROVE IInv'
    BY <1>4, RespondStep
  <1>5. ASSUME NEW r \in Requests, Refused(r) PROVE IInv'
    <2>1. Stored' /\ vers' \in Nat /\ torn' \in BOOLEAN
      BY <1>0, <1>5 DEF Refused, Begin, Stored
    <2> QED  BY <1>5, <2>1, AnswerStep DEF Refused
  <1>6. ASSUME NEW r \in Requests, SendRequest(r) PROVE IInv'
    BY <1>6, SendStep
  <1>7. ASSUME NEW r \in Requests, SendCancelTo(r) PROVE IInv'
    BY <1>7, CancelStep
  <1>8. ASSUME NEW r \in Requests, UpdateEventIfMatch(r) PROVE IInv'
    BY <1>8, WriteStep
  <1>9. ASSUME NEW r \in Requests, UpdateEvent(r) PROVE IInv'
    BY <1>9, WriteStep
  <1>10. ASSUME NEW r \in Requests, WriteFails(r) PROVE IInv'
    <2>1. Stored' /\ vers' \in Nat /\ torn' \in BOOLEAN
      BY <1>0, <1>10 DEF WriteFails, Stored
    <2> QED  BY <1>10, <2>1, AnswerStep DEF WriteFails
  <1>11. ASSUME NEW r \in Requests, DeleteEvent(r) PROVE IInv'
    BY <1>11, RemoveStep
  <1>12. ASSUME NEW r \in Requests, DeleteFails(r) PROVE IInv'
    <2>1. Stored' /\ vers' \in Nat /\ torn' \in BOOLEAN
      BY <1>0, <1>12 DEF DeleteFails, Stored
    <2> QED  BY <1>12, <2>1, AnswerStep DEF DeleteFails
  <1>13. CASE Deliver
    BY <1>13, DeliverStep
  <1>14. CASE OtherClient
    BY <1>14, OtherStep
  <1>15. CASE UNCHANGED vars
    BY <1>15 DEF vars, IInv, Stored, Shapes
  <1> QED  BY <1>1, <1>2, <1>3, <1>4, <1>5, <1>6, <1>7, <1>8, <1>9, <1>10, <1>11,
             <1>12, <1>13, <1>14, <1>15 DEF Next

\* ETags only grow, and a request under way keeps the ETag and the base it has.
LEMMA OrderedStep ==
  ASSUME IInv, Ordered, NEW r \in Requests, vers' \in Nat, vers <= vers',
         obj' # None => obj'.ver = vers',
         \A s \in Requests : s # r => req'[s] = req[s],
         req'[r].pc # "idle",
         req'[r].ifm = None \/ (req'[r].ifm = req[r].ifm /\ req'[r].base = req[r].base)
  PROVE  Ordered'
  <1>1. \A s \in Requests : req'[s].pc = "idle" => req'[s].ifm = None
    BY DEF Ordered
  <1>2. vers \in Nat /\ \A s \in Requests : req[s] \in RequestType
    BY DEF IInv, Shapes
  <1>3. ASSUME NEW s \in Requests, req'[s].ifm # None
        PROVE  req'[s].base \in Read /\ req'[s].ifm <= req'[s].base.ver /\ req'[s].base.ver <= vers'
    <2>1. req'[s].ifm = req[s].ifm /\ req'[s].base = req[s].base
      BY <1>3
    <2>2. req[s].base \in Read /\ req[s].ifm <= req[s].base.ver /\ req[s].base.ver <= vers
      BY <1>3, <2>1 DEF Ordered
    <2>3. req[s].base.ver \in Nat
      BY <2>2 DEF Read
    <2>4. req[s].base.ver <= vers'
      BY <1>2, <2>2, <2>3
    <2> QED  BY <2>1, <2>2, <2>4
  <1> QED  BY <1>1, <1>3 DEF Ordered

\* Each step keeps the order of the ETags.
LEMMA NextOrdered == IInv /\ Ordered /\ [Next]_vars => Ordered'
  <1> SUFFICES ASSUME IInv, Ordered, [Next]_vars PROVE Ordered'
    OBVIOUS
  <1>0. vers \in Nat /\ req \in [Requests -> RequestType] /\ (obj # None => obj.ver = vers)
    BY DEF IInv, Shapes, Ordered
  <1>a. \A ev : Fresh(ev).ver = vers + 1
    BY DEF Fresh
  <1>b. ASSUME NEW r \in Requests, req' = [req EXCEPT ![r] = Done]
        PROVE  /\ \A s \in Requests : s # r => req'[s] = req[s]
               /\ req'[r].pc # "idle" /\ req'[r].ifm = None
    BY <1>0, <1>b, Ends
  <1>1. ASSUME NEW r \in Requests, MeCreateEvents(r) PROVE Ordered'
    <2>1. vers' = vers + 1 /\ obj'.ver = vers' /\ req[r].pc = "idle"
      BY <1>1, <1>a DEF MeCreateEvents, CreateEvent, Begin
    <2>2. req[r].ifm = None /\ req[r] \in RequestType
      BY <1>0, <2>1 DEF Ordered
    <2>3. PICK ev : req' = [req EXCEPT ![r] = Done] \/
                    req' = [req EXCEPT ![r] =
                      [req[r] EXCEPT !.op = "create", !.pc = "invite", !.new = ev]]
      BY <1>1 DEF MeCreateEvents
    <2>4. \A s \in Requests : s # r => req'[s] = req[s]
      BY <1>0, <2>3
    <2>5. req'[r].ifm = None /\ req'[r].pc # "idle"
      <3>1. CASE req' = [req EXCEPT ![r] = Done]
        BY <1>b, <3>1
      <3>2. CASE req' # [req EXCEPT ![r] = Done]
        <4> DEFINE q == [req[r] EXCEPT !.op = "create", !.pc = "invite", !.new = ev]
        <4>1. req'[r] = q
          BY <1>0, <2>3, <3>2
        <4>2. q.ifm = req[r].ifm /\ q.pc # "idle"
          BY <2>2 DEF RequestType
        <4> QED  BY <2>2, <4>1, <4>2
      <3> QED  BY <3>1, <3>2
    <2> QED  BY <1>0, <2>1, <2>4, <2>5, OrderedStep
  <1>2. ASSUME NEW r \in Requests, MeUpdateEvents(r) PROVE Ordered'
    <2>1. /\ req'[r].ifm # None =>
               /\ req'[r].ifm \in 1..vers
               /\ req'[r].base \in Read /\ req'[r].base.ver = obj.ver /\ obj # None
          /\ \A s \in Requests : s # r => req'[s] = req[s]
          /\ obj' = obj /\ vers' = vers /\ req'[r].pc # "idle"
      BY <1>2, UpdateStep
    <2>2. req'[r].ifm # None => /\ req'[r].base \in Read
                               /\ req'[r].ifm <= req'[r].base.ver
                               /\ req'[r].base.ver <= vers
      BY <1>0, <2>1
    <2> QED  BY <1>0, <2>1, <2>2 DEF Ordered
  <1>3. ASSUME NEW r \in Requests, MeDeleteEvents(r) PROVE Ordered'
    <2>1. req[r].pc = "idle" /\ obj' = obj /\ vers' = vers
      BY <1>3 DEF MeDeleteEvents, Begin
    <2>2. req[r].ifm = None /\ req[r] \in RequestType
      BY <1>0, <2>1 DEF Ordered
    <2>3. PICK read : req' = [req EXCEPT ![r] =
                        [req[r] EXCEPT !.op = "delete", !.base = read, !.pc = "remove"]]
      BY <1>3 DEF MeDeleteEvents
    <2>4. \A s \in Requests : s # r => req'[s] = req[s]
      BY <1>0, <2>3
    <2>5. req'[r].ifm = None /\ req'[r].pc # "idle"
      BY <1>0, <2>2, <2>3 DEF RequestType
    <2> QED  BY <1>0, <2>1, <2>4, <2>5, OrderedStep
  <1>4. ASSUME NEW r \in Requests, RespondToInvite(r) PROVE Ordered'
    <2>1. req[r].pc = "idle" /\ obj' = obj /\ vers' = vers
      BY <1>4 DEF RespondToInvite, Begin
    <2>2. req[r].ifm = None /\ req[r] \in RequestType
      BY <1>0, <2>1 DEF Ordered
    <2>3. PICK base, ev : req' = [req EXCEPT ![r] = Done] \/
                          req' = [req EXCEPT ![r] =
                            [req[r] EXCEPT !.op = "respond", !.pc = "put", !.base = base, !.new = ev]]
      BY <1>4 DEF RespondToInvite
    <2>4. \A s \in Requests : s # r => req'[s] = req[s]
      BY <1>0, <2>3
    <2>5. req'[r].ifm = None /\ req'[r].pc # "idle"
      <3>1. CASE req' = [req EXCEPT ![r] = Done]
        BY <1>b, <3>1
      <3>2. CASE req' # [req EXCEPT ![r] = Done]
        <4> DEFINE q == [req[r] EXCEPT !.op = "respond", !.pc = "put", !.base = base, !.new = ev]
        <4>1. req'[r] = q
          BY <1>0, <2>3, <3>2
        <4>2. q.ifm = req[r].ifm /\ q.pc # "idle"
          BY <2>2 DEF RequestType
        <4> QED  BY <2>2, <4>1, <4>2
      <3> QED  BY <3>1, <3>2
    <2> QED  BY <1>0, <2>1, <2>4, <2>5, OrderedStep
  <1>5. ASSUME NEW r \in Requests, Refused(r) \/ WriteFails(r) \/ DeleteFails(r) PROVE Ordered'
    <2>1. obj' = obj /\ vers' = vers /\ req' = [req EXCEPT ![r] = Done]
      BY <1>5 DEF Refused, WriteFails, DeleteFails
    <2>2. /\ \A s \in Requests : s # r => req'[s] = req[s]
          /\ req'[r].pc # "idle" /\ req'[r].ifm = None
      BY <1>b, <2>1
    <2>3. vers' \in Nat /\ vers <= vers' /\ (obj' # None => obj'.ver = vers')
      BY <1>0, <2>1
    <2> QED  BY <2>2, <2>3, OrderedStep
  <1>6. ASSUME NEW r \in Requests, SendRequest(r) PROVE Ordered'
    <2>1. obj' = obj /\ vers' = vers
      BY <1>6 DEF SendRequest
    <2> QED  BY <1>0, <1>6, <2>1, SendStep, OrderedStep
  <1>7. ASSUME NEW r \in Requests, SendCancelTo(r) PROVE Ordered'
    <2>1. obj' = obj /\ vers' = vers
      BY <1>7 DEF SendCancelTo
    <2> QED  BY <1>0, <1>7, <2>1, CancelStep, OrderedStep
  <1>8. ASSUME NEW r \in Requests, UpdateEventIfMatch(r) \/ UpdateEvent(r) PROVE Ordered'
    <2>1. vers' = vers + 1 /\ obj'.ver = vers' /\ req' = [req EXCEPT ![r] = Done]
      BY <1>8, <1>a DEF UpdateEventIfMatch, UpdateEvent
    <2>2. /\ \A s \in Requests : s # r => req'[s] = req[s]
          /\ req'[r].pc # "idle" /\ req'[r].ifm = None
      BY <1>b, <2>1
    <2>3. vers' \in Nat /\ vers <= vers' /\ (obj' # None => obj'.ver = vers')
      BY <1>0, <2>1
    <2> QED  BY <2>2, <2>3, OrderedStep
  <1>9. ASSUME NEW r \in Requests, DeleteEvent(r) PROVE Ordered'
    <2>1. obj' = None /\ vers' = vers
      BY <1>9 DEF DeleteEvent
    <2> QED  BY <1>0, <1>9, <2>1, RemoveStep, OrderedStep
  <1>10. CASE Deliver
    BY <1>10 DEF Deliver, Ordered
  <1>11. CASE OtherClient
    <2>1. vers' = vers + 1 /\ obj'.ver = vers' /\ req' = req
      BY <1>11, <1>a DEF OtherClient
    <2>2. \A r \in Requests : req[r].ifm # None => req[r].base.ver \in Nat /\ req[r].base.ver <= vers
      BY DEF Ordered, Read
    <2> QED  BY <1>0, <2>1, <2>2 DEF Ordered
  <1>12. CASE UNCHANGED vars
    BY <1>12 DEF vars, Ordered
  <1> QED  BY <1>1, <1>2, <1>3, <1>4, <1>5, <1>6, <1>7, <1>8, <1>9, <1>10, <1>11, <1>12 DEF Next

-----------------------------------------------------------------------------

\* A request that ends its write and changes the object has written it: the
\* others leave it where it is, and the other actions leave the object alone.
LEMMA OnlyWriteChanges ==
  ASSUME IInv, Next, NEW r \in Requests,
         req[r].pc = "put", req'[r].pc = "done", Conditional(r), obj' # obj
  PROVE  UpdateEventIfMatch(r)
  <1>0. req \in [Requests -> RequestType]
    BY DEF IInv, Shapes
  <1>1. ~(Deliver \/ OtherClient)
    BY DEF Deliver, OtherClient
  <1>2. PICK s \in Requests :
          MeCreateEvents(s) \/ UpdateEventIfMatch(s) \/ UpdateEvent(s) \/ DeleteEvent(s)
    BY <1>1 DEF Next, MeUpdateEvents, MeDeleteEvents, RespondToInvite, Refused, SendRequest,
                SendCancelTo, WriteFails, DeleteFails
  <1>3. s = r
    <2>1. PICK q : req' = [req EXCEPT ![s] = q]
      BY <1>2 DEF MeCreateEvents, UpdateEventIfMatch, UpdateEvent, DeleteEvent
    <2>2. s # r => req'[r] = req[r]
      BY <1>0, <2>1
    <2> QED  BY <2>2
  <1> QED  BY <1>2, <1>3 DEF MeCreateEvents, Begin, UpdateEvent, DeleteEvent

\* Types and order hold throughout.
LEMMA Invariant == Spec => [](IInv /\ Ordered)
  BY InitInv, NextInv, NextOrdered, PTL DEF Spec

\* The stored event, as it is read back, the mail and the guests' calendars
\* keep their types through every handler (graphToEvent, mergeEventPatch,
\* reinviteOnUpdate, recordSchedulingOutcome, eventToICal, mapEvent).
THEOREM Typed == Spec => []TypeOK
  <1>1. IInv => TypeOK
    BY Got DEF IInv, Shapes, TypeOK, RequestType, Pcs, Notice, Read
  <1> QED  BY <1>1, Invariant, PTL

\* A PATCH with If-Match replaces the very object its merge started from, with
\* any number of requests and other clients writing between its calls
\* (updateEvent and UpdateEventIfMatch).
THEOREM LosesNothing == Spec => NoLostUpdate
  <1> DEFINE Replaces == \A r \in Requests :
       (req[r].pc = "put" /\ req'[r].pc = "done" /\ Conditional(r) /\ obj' # obj)
         => obj # None /\ obj.ver = req[r].base.ver
  <1>1. IInv /\ Ordered /\ [Next]_vars => [Replaces]_vars
    <2> SUFFICES ASSUME IInv, Ordered, Next, NEW r \in Requests,
                        req[r].pc = "put", req'[r].pc = "done", Conditional(r), obj' # obj
                 PROVE  obj # None /\ obj.ver = req[r].base.ver
      OBVIOUS
    <2>1. UpdateEventIfMatch(r)
      BY OnlyWriteChanges
    <2>2. obj # None /\ obj.ver = req[r].ifm /\ req[r].ifm # None
      BY <2>1 DEF UpdateEventIfMatch, Matches, Conditional
    <2>3. req[r].base \in Read /\ req[r].ifm <= req[r].base.ver /\ req[r].base.ver <= vers
      BY <2>2 DEF Ordered
    <2>4. obj.ver = vers /\ vers \in Nat /\ req[r].base.ver \in Nat
      BY <2>2, <2>3 DEF Ordered, IInv, Shapes, Read
    <2> QED  BY <2>2, <2>3, <2>4
  <1> QED  BY <1>1, Invariant, PTL DEF Spec, NoLostUpdate

-----------------------------------------------------------------------------
(***************************************************************************)
(* What the guests' calendars come to.                                     *)
(*                                                                         *)
(* The predicates below are about mail p under way, calendars h and guests *)
(* u whose CANCEL was not delivered.  Each says what the calendars will    *)
(* show once all of p is delivered, in whatever order.                     *)
(***************************************************************************)

Calendars == [Guests -> [seq: Int, when: Whens \cup {None}]]

\* Nobody has, or will get, word of revision n or of a later one.
Below(n, p, h) == (\A g \in Guests : h[g].seq < n) /\ \A m \in p : m.seq < n

\* Revision s is the last that guest g hears of, and it says w.
Latest(g, s, w, p, h) ==
  /\ h[g].seq <= s
  /\ h[g].seq = s => h[g].when = w
  /\ \A m \in p : m.to = g => /\ m.seq <= s
                              /\ m.seq = s => m.method = "REQUEST" /\ m.when = w
  /\ h[g].seq = s \/ \E m \in p : m.to = g /\ m.seq = s

Reached(g, w, p, h) == \E s \in Int : Latest(g, s, w, p, h)

\* The last that guest g hears of the meeting is that it is not theirs.
Gone(g, p, h) ==
  \/ /\ h[g].when = None
     /\ \A m \in p : m.to = g => m.method = "CANCEL" \/ m.seq <= h[g].seq
  \/ \E c \in p : /\ c.to = g /\ c.method = "CANCEL" /\ h[g].seq <= c.seq
                  /\ \A m \in p : m.to = g => m.seq <= c.seq

\* The guests can be sent ev: its revision is news to all of them.
Ready(ev, p, h, u) ==
  /\ Below(ev.seq, p, h)
  /\ \A g \in Guests \ u : ev.part[g] = None => Gone(g, p, h)

\* What ev says of its guests is so.
Told(ev, p, h, u) ==
  /\ Below(ev.seq + 1, p, h)
  /\ \A g \in Guests : ev.part[g] # None /\ ev.status[g] = "sent" => Reached(g, ev.when, p, h)
  /\ \A g \in Guests \ u : ev.part[g] = None => Gone(g, p, h)

\* Two events that say the same of the guests.
Alike(a, b) ==
  /\ a.seq = b.seq /\ a.when = b.when
  /\ \A g \in Guests : /\ a.part[g] = None <=> b.part[g] = None
                       /\ b.part[g] # None => a.status[g] = b.status[g]

\* What is told of an event is told of one that agrees with it.
LEMMA ToldAlike ==
  ASSUME NEW a, NEW b, NEW p, NEW h, NEW u, Told(a, p, h, u), Alike(a, b)
  PROVE  Told(b, p, h, u)
  BY DEF Told, Alike

\* An event read back from its text agrees with the one written.
LEMMA KeptAlike ==
  ASSUME NEW ev \in Event
  PROVE  Alike(ev, MapEvent(EventToICal(ev)))
  <1> DEFINE kept == [g \in Guests |-> IF ev.part[g] # None THEN ev.status[g] ELSE "none"]
             back == [ev EXCEPT !.status = kept]
  <1>1. back.seq = ev.seq /\ back.when = ev.when /\ back.part = ev.part /\ back.status = kept
    BY DEF Event
  <1>2. Alike(ev, back)
    BY <1>1 DEF Alike
  <1> QED  BY <1>2, RoundTrip

\* One delivery: the calendar takes the notice or not.
Taken(m, h) ==
  [h EXCEPT ![m.to] =
     IF m.seq > @.seq \/ (m.method = "CANCEL" /\ m.seq = @.seq)
     THEN [seq |-> m.seq, when |-> m.when] ELSE @]

\* What a delivery does to the calendar of g.
LEMMA TakenIs ==
  ASSUME NEW h \in Calendars, NEW m \in Notice, NEW g \in Guests
  PROVE  LET k == Taken(m, h)[g]
         IN  /\ k.seq \in Int /\ h[g].seq \in Int /\ m.seq \in Int
             /\ m.to # g => k = h[g]
             /\ m.to = g /\ (m.seq > h[g].seq \/ (m.method = "CANCEL" /\ m.seq = h[g].seq))
                  => k.seq = m.seq /\ k.when = m.when
             /\ m.to = g /\ ~(m.seq > h[g].seq \/ (m.method = "CANCEL" /\ m.seq = h[g].seq))
                  => k = h[g]
  <1>1. h[g] \in [seq: Int, when: Whens \cup {None}] /\ m.seq \in Int
    BY DEF Calendars, Notice
  <1>2. m.to # g => Taken(m, h)[g] = h[g]
    BY DEF Taken, Calendars
  <1>3. m.to = g => Taken(m, h)[g] =
          IF m.seq > h[g].seq \/ (m.method = "CANCEL" /\ m.seq = h[g].seq)
          THEN [seq |-> m.seq, when |-> m.when] ELSE h[g]
    BY DEF Taken, Calendars
  <1> QED  BY <1>1, <1>2, <1>3

\* A delivery raises no SEQUENCE above those in flight.
LEMMA BelowDelivered ==
  ASSUME NEW p \in SUBSET Notice, NEW h \in Calendars, NEW m \in p, NEW n \in Int, Below(n, p, h)
  PROVE  Below(n, p \ {m}, Taken(m, h))
  <1>1. \A g \in Guests : Taken(m, h)[g].seq < n
    <2> SUFFICES ASSUME NEW g \in Guests PROVE Taken(m, h)[g].seq < n
      OBVIOUS
    <2>1. h[g].seq < n /\ m.seq < n /\ m \in Notice
      BY DEF Below
    <2> QED  BY <2>1, TakenIs
  <1> QED  BY <1>1 DEF Below

\* A delivery leaves the latest mail to a guest the same.
LEMMA LatestDelivered ==
  ASSUME NEW p \in SUBSET Notice, NEW h \in Calendars, NEW m \in p, NEW g \in Guests,
         NEW s \in Int, NEW w, Latest(g, s, w, p, h)
  PROVE  Latest(g, s, w, p \ {m}, Taken(m, h))
  <1> DEFINE k == Taken(m, h)[g]
  <1>0. m \in Notice /\ m.seq \in Int /\ h[g].seq \in Int /\ k.seq \in Int
    BY TakenIs
  <1>1. CASE m.to # g
    <2>1. k = h[g]
      BY <1>0, <1>1, TakenIs
    <2> QED  BY <1>1, <2>1 DEF Latest
  <1>2. CASE m.to = g
    <2>1. m.seq <= s /\ (m.seq = s => m.method = "REQUEST" /\ m.when = w)
      BY <1>2 DEF Latest
    <2>2. CASE h[g].seq = s
      <3>1. k = h[g]
        BY <1>0, <1>2, <2>1, <2>2, TakenIs
      <3> QED  BY <2>2, <3>1 DEF Latest
    <2>3. CASE h[g].seq # s
      <3>1. h[g].seq < s
        BY <1>0, <2>3 DEF Latest
      <3>2. CASE m.seq = s
        <4>1. k.seq = s /\ k.when = w
          BY <1>0, <1>2, <2>1, <3>1, <3>2, TakenIs
        <4> QED  BY <1>0, <4>1 DEF Latest
      <3>3. CASE m.seq # s
        <4>1. k.seq < s
          BY <1>0, <1>2, <2>1, <3>1, <3>3, TakenIs
        <4>2. PICK c \in p : c.to = g /\ c.seq = s
          BY <2>3 DEF Latest
        <4>3. c \in p \ {m}
          BY <3>3, <4>2
        <4> HIDE DEF k
        <4>4. k.seq <= s /\ k.seq # s
          BY <1>0, <4>1
        <4> QED  BY <4>2, <4>3, <4>4 DEF Latest, k
      <3> QED  BY <3>2, <3>3
    <2> QED  BY <2>2, <2>3
  <1> QED  BY <1>1, <1>2

\* A guest told of a withdrawal stays told when mail is delivered.
LEMMA GoneDelivered ==
  ASSUME NEW p \in SUBSET Notice, NEW h \in Calendars, NEW m \in p, NEW g \in Guests,
         Gone(g, p, h)
  PROVE  Gone(g, p \ {m}, Taken(m, h))
  <1> DEFINE k == Taken(m, h)[g]
  <1>0. m \in Notice /\ m.seq \in Int /\ h[g].seq \in Int /\ k.seq \in Int
        /\ \A c \in p : c.seq \in Int
    BY TakenIs DEF Notice
  <1>1. CASE m.to # g
    <2>1. k = h[g]
      BY <1>0, <1>1, TakenIs
    <2> QED  BY <1>1, <2>1 DEF Gone
  <1>2. CASE m.to = g /\ h[g].when = None
             /\ \A c \in p : c.to = g => c.method = "CANCEL" \/ c.seq <= h[g].seq
    <2>1. k.when = None /\ h[g].seq <= k.seq
      <3>1. m.method = "CANCEL" => m.when = None
        BY <1>0 DEF Notice
      <3>2. m.method = "CANCEL" \/ m.seq <= h[g].seq
        BY <1>2
      <3> QED  BY <1>0, <1>2, <3>1, <3>2, TakenIs
    <2> HIDE DEF k
    <2>2. \A c \in p \ {m} : c.to = g => c.method = "CANCEL" \/ c.seq <= k.seq
      BY <1>0, <1>2, <2>1
    <2> QED  BY <2>1, <2>2 DEF Gone, k
  <1>3. CASE m.to = g /\ \E c \in p : /\ c.to = g /\ c.method = "CANCEL" /\ h[g].seq <= c.seq
                                      /\ \A d \in p : d.to = g => d.seq <= c.seq
    <2>1. PICK c \in p : /\ c.to = g /\ c.method = "CANCEL" /\ h[g].seq <= c.seq
                         /\ \A d \in p : d.to = g => d.seq <= c.seq
      BY <1>3
    <2>2. CASE c = m
      <3>1. k.seq = m.seq /\ k.when = None
        <4>1. m.when = None
          BY <1>0, <2>1, <2>2 DEF Notice
        <4> QED  BY <1>0, <1>3, <2>1, <2>2, <4>1, TakenIs
      <3> HIDE DEF k
      <3>2. \A d \in p \ {m} : d.to = g => d.seq <= k.seq
        BY <2>1, <2>2, <3>1
      <3> QED  BY <3>1, <3>2 DEF Gone, k
    <2>3. CASE c # m
      <3>1. k.seq <= c.seq
        BY <1>0, <1>3, <2>1, TakenIs
      <3> HIDE DEF k
      <3>2. c \in p \ {m}
        BY <2>1, <2>3
      <3> QED  BY <2>1, <3>1, <3>2 DEF Gone, k
    <2> QED  BY <2>2, <2>3
  <1> QED  BY <1>1, <1>2, <1>3 DEF Gone

\* Mail that is not for g changes nothing for g.
LEMMA NotForGuest ==
  ASSUME NEW p, NEW h, NEW M, NEW g, \A m \in M : m.to # g
  PROVE  /\ Gone(g, p, h) => Gone(g, p \cup M, h)
         /\ \A w : Reached(g, w, p, h) => Reached(g, w, p \cup M, h)
  <1>1. Gone(g, p, h) => Gone(g, p \cup M, h)
    BY DEF Gone
  <1>2. ASSUME NEW w, NEW s \in Int, Latest(g, s, w, p, h)
        PROVE  Latest(g, s, w, p \cup M, h)
    BY <1>2 DEF Latest
  <1> QED  BY <1>1, <1>2 DEF Reached

-----------------------------------------------------------------------------
(***************************************************************************)
(* What the handlers' helpers do to that.                                  *)
(***************************************************************************)

\* Everyone it is for gets their letter.
LEMMA MailTo ==
  ASSUME NEW method, NEW seq, NEW when, NEW to, NEW g \in to
  PROVE  \E m \in Mail(method, seq, when, to) : m.to = g
  <1> DEFINE m == [method |-> method, seq |-> seq, when |-> when, to |-> g]
  <1>1. m \in Mail(method, seq, when, to)
    BY DEF Mail
  <1>2. m.to = g
    OBVIOUS
  <1> QED  BY <1>1, <1>2

\* A body does not touch the revision.
LEMMA MergedSeq ==
  ASSUME NEW ev \in Event, NEW patch \in Patches
  PROVE  MergeEventPatch(ev, patch).seq = ev.seq
  BY DEF MergeEventPatch, SetTimesInZone, MergeAttendees, SetEventAttendees, Event

\* A body that keeps an attendee keeps the SCHEDULE-STATUS.
LEMMA MergedStatus ==
  ASSUME NEW ev \in Event, NEW patch \in Patches, NEW g \in Guests,
         ev.part[g] # None, MergeEventPatch(ev, patch).part[g] # None
  PROVE  MergeEventPatch(ev, patch).status[g] = ev.status[g]
  <1> DEFINE timed == SetTimesInZone(ev, patch.when)
  <1>1. timed.part = ev.part /\ timed.status = ev.status /\ DOMAIN timed = DOMAIN ev
    BY DEF SetTimesInZone, Event
  <1>2. "part" \in DOMAIN timed /\ "status" \in DOMAIN timed /\ g \in People
    BY <1>1 DEF Event, People
  <1> HIDE DEF timed
  <1>3. CASE patch.roster = None
    BY <1>1, <1>3 DEF MergeEventPatch, timed
  <1>4. CASE patch.roster # None
    <2>1. MergeEventPatch(ev, patch) = MergeAttendees(timed, patch.roster)
      BY <1>4 DEF MergeEventPatch, timed
    <2> DEFINE roster == patch.roster
               part == [p \in People |->
                  CASE p \notin DOMAIN roster -> None
                    [] p \in DOMAIN roster /\ roster[p] # Unsaid -> roster[p]
                    [] p \in DOMAIN roster /\ roster[p] = Unsaid ->
                         IF timed.part[p] # None THEN timed.part[p] ELSE Unsaid]
               status == [q \in Guests |->
                  IF q \in DOMAIN roster /\ timed.part[q] # None THEN timed.status[q] ELSE "none"]
    <2>2. MergeAttendees(timed, roster) = [timed EXCEPT !.part = part, !.status = status]
      BY DEF MergeAttendees, SetEventAttendees
    <2>3. g \notin DOMAIN roster => part[g] = None
      BY <1>2
    <2>4. g \in DOMAIN roster => status[g] = ev.status[g]
      BY <1>1
    <2> HIDE DEF part, status
    <2>5. MergeAttendees(timed, roster).part = part /\ MergeAttendees(timed, roster).status = status
      BY <1>2, <2>2
    <2> QED  BY <2>1, <2>3, <2>4, <2>5
  <1> QED  BY <1>3, <1>4

\* An invitation with a new revision reaches whom SMTP took it for.
LEMMA SendTells ==
  ASSUME NEW ev \in Event, NEW p \in SUBSET Notice, NEW h \in Calendars, NEW u,
         Ready(ev, p, h, u),
         NEW ok \in BOOLEAN, NEW out \in BOOLEAN, Send(ok, out, Recipients(ev))
  PROVE  Told(RecordSchedulingOutcome(ev, ok), IF out THEN p \cup Requested(ev) ELSE p, h, u)
  <1> DEFINE p2 == IF out THEN p \cup Requested(ev) ELSE p
             new == RecordSchedulingOutcome(ev, ok)
  <1>0. /\ ev.seq \in Int /\ \A g \in Guests : h[g].seq \in Int
        /\ \A m \in p : m.seq \in Int
    BY DEF Event, Calendars, Notice
  <1>1. \A m \in Requested(ev) :
          m.method = "REQUEST" /\ m.seq = ev.seq /\ m.when = ev.when /\ m.to \in Recipients(ev)
    BY DEF Requested, Mail
  <1>2. \A g \in Recipients(ev) : \E m \in Requested(ev) : m.to = g
    BY MailTo DEF Requested
  <1>3. new.seq = ev.seq /\ new.when = ev.when /\ new.part = ev.part
        /\ \A g \in Recipients(ev) : new.status[g] = IF ok THEN "sent" ELSE "failed"
    BY DEF RecordSchedulingOutcome, SetEventAttendees, Event, Recipients
  <1>4. Below(ev.seq + 1, p2, h)
    BY <1>0, <1>1 DEF Ready, Below
  <1>5. ASSUME NEW g \in Guests, ev.part[g] # None, new.status[g] = "sent"
        PROVE  Reached(g, ev.when, p2, h)
    <2>1. g \in Recipients(ev)
      BY <1>5 DEF Recipients
    <2>2. ok /\ out
      BY <1>3, <1>5, <2>1 DEF Send
    <2>3. h[g].seq < ev.seq /\ \A m \in p : m.seq < ev.seq
      BY DEF Ready, Below
    <2>4. p2 = p \cup Requested(ev)
      BY <2>2
    <2> HIDE DEF p2, new
    <2>5. \A m \in p2 : m.seq <= ev.seq
                        /\ (m.seq = ev.seq => m.method = "REQUEST" /\ m.when = ev.when)
      BY <1>0, <1>1, <2>3, <2>4
    <2>6. \E m \in p2 : m.to = g /\ m.seq = ev.seq
      BY <1>1, <1>2, <2>1, <2>4
    <2>7. h[g].seq <= ev.seq /\ h[g].seq # ev.seq
      BY <1>0, <2>3
    <2>8. Latest(g, ev.seq, ev.when, p2, h)
      BY <2>5, <2>6, <2>7 DEF Latest
    <2> QED  BY <1>0, <2>8 DEF Reached
  <1>6. ASSUME NEW g \in Guests \ u, ev.part[g] = None
        PROVE  Gone(g, p2, h)
    <2>1. \A m \in Requested(ev) : m.to # g
      BY <1>1, <1>6 DEF Recipients
    <2> QED  BY <1>6, <2>1, NotForGuest DEF Ready
  <1> HIDE DEF p2, new
  <1>7. Told(new, p2, h, u)
    BY <1>3, <1>4, <1>5, <1>6 DEF Told
  <1> QED  BY <1>7 DEF p2, new

\* A withdrawal with the last revision ends what its addressees knew.
LEMMA WithdrawalTells ==
  ASSUME NEW old \in Event, NEW to \in SUBSET Guests,
         NEW p \in SUBSET Notice, NEW h \in Calendars, Below(old.seq + 1, p, h)
  PROVE  LET p2 == p \cup Withdrawal(old, to)
         IN  /\ Below(old.seq + 1, p2, h)
             /\ \A g \in to : Gone(g, p2, h)
             /\ \A g \in Guests \ to :
                  /\ Gone(g, p, h) => Gone(g, p2, h)
                  /\ \A w : Reached(g, w, p, h) => Reached(g, w, p2, h)
  <1> DEFINE p2 == p \cup Withdrawal(old, to)
  <1>0. /\ old.seq \in Int /\ \A g \in Guests : h[g].seq \in Int
        /\ \A m \in p : m.seq \in Int
    BY DEF Event, Calendars, Notice
  <1>1. \A m \in Withdrawal(old, to) : m.method = "CANCEL" /\ m.seq = old.seq /\ m.to \in to
    BY DEF Withdrawal, Mail
  <1>2. \A g \in to : \E m \in Withdrawal(old, to) : m.to = g
    BY MailTo DEF Withdrawal
  <1>3. \A m \in p2 : m.seq \in Int /\ m.seq < old.seq + 1 /\ m.seq <= old.seq
    BY <1>0, <1>1 DEF Below
  <1>4. \A g \in Guests : h[g].seq < old.seq + 1 /\ h[g].seq <= old.seq
    BY <1>0 DEF Below
  <1>5. ASSUME NEW g \in to
        PROVE  Gone(g, p2, h)
    <2>1. PICK c \in p2 : c.to = g /\ c.method = "CANCEL" /\ c.seq = old.seq
      BY <1>1, <1>2
    <2> HIDE DEF p2
    <2> QED  BY <1>3, <1>4, <2>1 DEF Gone
  <1>6. ASSUME NEW g \in Guests \ to
        PROVE  /\ Gone(g, p, h) => Gone(g, p2, h)
               /\ \A w : Reached(g, w, p, h) => Reached(g, w, p2, h)
    BY <1>1, NotForGuest
  <1>7. Below(old.seq + 1, p2, h)
    BY <1>3, <1>4 DEF Below
  <1> QED  BY <1>5, <1>6, <1>7

\* What a PATCH that drops guests has in hand while it mails their CANCEL.
Plan(old, new, to) ==
  /\ new.seq = old.seq + 1
  /\ to = Recipients(old) \ Recipients(new)
  /\ ~(SignificantChange(old, new) \/ RosterAdded(old, new)) =>
       \A g \in Recipients(new) : new.status[g] = old.status[g]

\* reinviteOnUpdate leaves each guest with the right word still to come.
LEMMA PlanTells ==
  ASSUME NEW old \in Event, NEW new \in Event, NEW p, NEW h, NEW u, Told(old, p, h, u),
         new.seq = old.seq,
         \A g \in Guests : old.part[g] # None /\ new.part[g] # None => new.status[g] = old.status[g]
  PROVE  LET plan == ReinviteOnUpdate(old, new)
         IN  /\ plan.pc = "invite" => Ready(plan.new, p, h, u)
             /\ plan.pc = "put" => Told(plan.new, p, h, u)
             /\ plan.pc = "cancel" => Plan(old, plan.new, plan.to)
  <1> DEFINE removed == RemovedRecipients(old, new)
             changed == SignificantChange(old, new)
             again == changed \/ RosterAdded(old, new)
             next == [new EXCEPT !.seq = old.seq + 1]
             reset == ResetRecipientStatus(next)
             plan == ReinviteOnUpdate(old, new)
             pnew == CASE removed = {} /\ ~again -> new [] changed -> reset [] OTHER -> next
             ppc == CASE removed # {} -> "cancel" [] removed = {} /\ again -> "invite" [] OTHER -> "put"
  <1>1. next \in Event /\ next.seq = old.seq + 1 /\ next.when = new.when
        /\ next.part = new.part /\ next.status = new.status
    BY DEF Event
  <1>2. reset.seq = next.seq /\ reset.when = next.when /\ reset.status = next.status
        /\ \A g \in Guests : reset.part[g] = None <=> next.part[g] = None
    <2> HIDE DEF next
    <2>1. reset = [next EXCEPT !.part = [q \in People |-> IF q \in Recipients(next) THEN NeedsAction
                                                         ELSE next.part[q]],
                               !.status = next.status]
      BY DEF ResetRecipientStatus, SetEventAttendees
    <2>2. \A g \in Guests : g \in People /\ (g \in Recipients(next) <=> next.part[g] # None)
      BY DEF Recipients, People
    <2>3. NeedsAction # None
      BY NoneApart DEF PartStats
    <2> HIDE DEF reset
    <2> QED  BY <1>1, <2>1, <2>2, <2>3 DEF Event
  <1>3. plan.new = pnew /\ plan.to = removed /\ plan.pc = ppc
    <2> HIDE DEF removed, changed, next, reset
    <2>1. plan = [new |-> pnew, to |-> removed, pc |-> ppc]
      BY DEF ReinviteOnUpdate, removed, changed, next, reset
    <2> HIDE DEF again, plan, pnew, ppc
    <2> QED  BY <2>1
  <1> HIDE DEF next, reset, plan
  <1>4. \A ev \in {next, reset} :
          /\ ev.seq = old.seq + 1 /\ ev.when = new.when /\ ev.status = new.status
          /\ \A g \in Guests : ev.part[g] = None <=> new.part[g] = None
    BY <1>1, <1>2
  <1>5. \A g \in Guests : g \in removed <=> old.part[g] # None /\ new.part[g] = None
    BY DEF RemovedRecipients, Recipients
  <1>6. ASSUME removed = {}, NEW g \in Guests, new.part[g] = None
        PROVE  old.part[g] = None
    BY <1>5, <1>6
  <1>7. ASSUME removed = {}, again
        PROVE  Ready(pnew, p, h, u) /\ ppc = "invite"
    <2>1. pnew \in {next, reset} /\ ppc = "invite"
      BY <1>7
    <2> HIDE DEF pnew, removed
    <2>2. pnew.seq = old.seq + 1 /\ \A g \in Guests : pnew.part[g] = None <=> new.part[g] = None
      BY <1>4, <2>1
    <2> QED  BY <1>6, <1>7, <2>1, <2>2 DEF Told, Ready
  <1>8. ASSUME removed = {}, ~again
        PROVE  Told(pnew, p, h, u) /\ ppc = "put"
    <2>1. pnew = new /\ ppc = "put" /\ new.when = old.when
      BY <1>8 DEF SignificantChange
    <2>2. \A g \in Guests : new.part[g] # None => old.part[g] # None
      BY <1>8 DEF RosterAdded, Recipients
    <2> HIDE DEF pnew, removed
    <2> QED  BY <1>6, <1>8, <2>1, <2>2 DEF Told
  <1>9. ASSUME removed # {}
        PROVE  Plan(old, pnew, removed) /\ ppc = "cancel"
    <2>1. pnew \in {next, reset} /\ ppc = "cancel"
      BY <1>9
    <2> HIDE DEF pnew
    <2>2. /\ pnew.seq = old.seq + 1 /\ pnew.when = new.when /\ pnew.status = new.status
          /\ \A g \in Guests : pnew.part[g] = None <=> new.part[g] = None
      BY <1>4, <2>1
    <2>3. Recipients(pnew) = Recipients(new)
      BY <2>2 DEF Recipients
    <2>4. removed = Recipients(old) \ Recipients(pnew)
      BY <2>3 DEF RemovedRecipients
    <2>5. ASSUME ~RosterAdded(old, pnew), NEW g \in Recipients(pnew)
          PROVE  pnew.status[g] = old.status[g]
      <3>1. g \in Guests /\ new.part[g] # None /\ old.part[g] # None
        BY <2>2, <2>5 DEF RosterAdded, Recipients
      <3> QED  BY <2>2, <3>1
    <2> QED  BY <2>1, <2>2, <2>4, <2>5 DEF Plan
  <1> HIDE DEF pnew, ppc, removed, again
  <1>10. /\ ppc = "invite" => Ready(pnew, p, h, u)
         /\ ppc = "put" => Told(pnew, p, h, u)
         /\ ppc = "cancel" => Plan(old, pnew, removed)
    BY <1>7, <1>8, <1>9
  <1> QED  BY <1>3, <1>10 DEF plan

-----------------------------------------------------------------------------
(***************************************************************************)
(* The invariant of requests that do not overlap, on the storage-only tier.*)
(***************************************************************************)

Calm == dep.sched /\ ~dep.native /\ ~torn

\* Between requests the stored object o tells the truth, or is gone for everyone.
Standing(o, p, h, u) ==
  IF o = None THEN \A g \in Guests \ u : Gone(g, p, h) ELSE Told(MapEvent(o.ics), p, h, u)

\* What request q relies on at each of its calls.
InStep(q, o, v, p, h, u) ==
  /\ q.pc = "invite" => v # 0 /\ Ready(q.new, p, h, u)
  /\ q.pc = "put" => Told(q.new, p, h, u)
  /\ q.pc = "remove" =>
       /\ Standing(o, p, h, u)
       /\ q.base # None => o # None /\ q.base.ev = MapEvent(o.ics)
  /\ q.pc = "cancel" /\ q.op = "delete" =>
       /\ v # 0 /\ o = None /\ Below(q.base.ev.seq + 1, p, h)
       /\ \A g \in Guests \ u : g \notin q.to => Gone(g, p, h)
  /\ q.pc = "cancel" /\ q.op # "delete" =>
       /\ v # 0 /\ Told(q.base.ev, p, h, u) /\ Plan(q.base.ev, q.new, q.to)

\* Before the meeting is created nobody has heard of it.
Unborn(v, o, p, h) ==
  v = 0 => o = None /\ Below(0, p, h) /\ \A g \in Guests : Gone(g, p, h)

Closed(q) == q.pc \in {"idle", "done"}

InTurn ==
  /\ \A r, s \in Requests : ~Closed(req[r]) /\ ~Closed(req[s]) => r = s
  /\ (\A r \in Requests : Closed(req[r])) => Standing(obj, post, held, unsent)
  /\ \A r \in Requests : InStep(req[r], obj, vers, post, held, unsent)
  /\ Unborn(vers, obj, post, held)

Honesty == Calm => InTurn

\* A request that is not under way relies on nothing.
LEMMA ClosedRelies ==
  ASSUME NEW q, Closed(q), NEW o, NEW v, NEW p, NEW h, NEW u
  PROVE  InStep(q, o, v, p, h, u)
  BY DEF Closed, InStep

\* A request that has ended claims nothing.
LEMMA DoneCloses == Closed(Done)
  BY Ends DEF Closed

\* A request moves to q while no other is under way.
LEMMA Turn ==
  ASSUME IInv, NEW r \in Requests, NEW q, req' = [req EXCEPT ![r] = q],
         \A s \in Requests : s # r => Closed(req[s]),
         Closed(q) => Standing(obj', post', held', unsent'),
         InStep(q, obj', vers', post', held', unsent'),
         Unborn(vers', obj', post', held')
  PROVE  InTurn'
  <1>1. req'[r] = q /\ \A s \in Requests : s # r => req'[s] = req[s]
    BY DEF IInv, Shapes
  <1>2. \A s \in Requests : s # r => Closed(req'[s])
    BY <1>1
  <1>3. \A a, b \in Requests : ~Closed(req'[a]) /\ ~Closed(req'[b]) => a = b
    BY <1>2
  <1>4. (\A s \in Requests : Closed(req'[s])) => Standing(obj', post', held', unsent')
    BY <1>1
  <1>5. \A s \in Requests : InStep(req'[s], obj', vers', post', held', unsent')
    BY <1>1, <1>2, ClosedRelies
  <1> QED  BY <1>3, <1>4, <1>5 DEF InTurn

\* A request that begins and leaves the regime unbroken begins alone.
LEMMA BeginsAlone ==
  ASSUME IInv, Honesty, Calm', UNCHANGED dep, NEW r \in Requests, Begin(r)
  PROVE  /\ Calm
         /\ Standing(obj, post, held, unsent)
         /\ Unborn(vers, obj, post, held)
         /\ \A s \in Requests : Closed(req[s])
  <1>1. ~torn /\ \A s \in Requests : ~Open(s)
    BY DEF Begin, Calm, IInv, Shapes
  <1>2. \A s \in Requests : Closed(req[s])
    BY <1>1 DEF Open, Closed
  <1>3. Calm
    BY <1>1 DEF Calm
  <1> QED  BY <1>2, <1>3 DEF Honesty, InTurn

\* A request that goes on is the only one under way.
LEMMA GoesAlone ==
  ASSUME Honesty, Calm', UNCHANGED <<dep, torn>>, NEW r \in Requests, ~Closed(req[r])
  PROVE  /\ Calm
         /\ InStep(req[r], obj, vers, post, held, unsent)
         /\ Unborn(vers, obj, post, held)
         /\ \A s \in Requests : s # r => Closed(req[s])
  <1>1. Calm
    BY DEF Calm
  <1> QED  BY <1>1 DEF Honesty, InTurn

\* On the storage-only tier no handler ever sees a server that schedules.
LEMMA NeverNative ==
  ASSUME Calm, NEW native \in ServerSchedulesEvents
  PROVE  ~native
  BY DEF Calm, ServerSchedulesEvents

\* The types of mail, calendars, requests and the stored event.
LEMMA World ==
  ASSUME IInv
  PROVE  /\ post \in SUBSET Notice /\ held \in Calendars /\ unsent \in SUBSET Guests
         /\ vers \in Nat /\ req \in [Requests -> RequestType]
         /\ obj # None => MapEvent(obj.ics) \in Event
  BY Got DEF IInv, Shapes, Calendars, GetEvent

\* What was told of an event can be read back from the object it is stored in.
LEMMA StoredStands ==
  ASSUME NEW ev \in Event, NEW p, NEW h, NEW u, Told(ev, p, h, u),
         NEW o, o # None, o.ics = EventToICal(ev)
  PROVE  Standing(o, p, h, u)
  BY KeptAlike, ToldAlike DEF Standing

\* What eventToICal writes has the form of a stored text.
LEMMA TextOf ==
  ASSUME NEW ev \in Event
  PROVE  EventToICal(ev) \in ICal
  <1> DEFINE listed == {q \in People : ev.part[q] # None}
             line(p) == [partstat |-> Param(ev.part[p], Unsaid),
                         schedule |-> IF p \in Guests THEN Param(ev.status[p], "none") ELSE None]
             lines == [p \in listed |-> line(p)]
  <1>1. \A p \in listed : line(p) \in Attendee
    BY DEF Event, Param, Attendee
  <1>2. lines \in [listed -> Attendee] /\ listed \in SUBSET People
    BY <1>1
  <1>3. lines \in UNION {[S -> Attendee] : S \in SUBSET People}
    BY <1>2
  <1>4. EventToICal(ev) = [seq |-> ev.seq, when |-> ev.when, attendee |-> lines]
    BY DEF EventToICal
  <1> HIDE DEF lines
  <1> QED  BY <1>3, <1>4 DEF ICal, Event

\* An object that is written is there, and holds the text of its event.
LEMMA FreshIs ==
  ASSUME NEW ev \in Event, vers \in Nat
  PROVE  Fresh(ev) # None /\ Fresh(ev).ics = EventToICal(ev)
  <1>1. Fresh(ev) = [ver |-> vers + 1, ics |-> EventToICal(ev)]
    BY DEF Fresh
  <1>2. Fresh(ev) \in [ver: Nat, ics: ICal]
    BY <1>1, TextOf
  <1> QED  BY <1>1, <1>2, MeetingsAssumption

-----------------------------------------------------------------------------
(***************************************************************************)
(* One lemma for each call of a request.                                   *)
(***************************************************************************)

\* A POST that begins keeps the invariant.
LEMMA CreateTells ==
  ASSUME IInv, Honesty, Calm', NEW r \in Requests, MeCreateEvents(r)
  PROVE  InTurn'
  <1>1. PICK when \in Whens, roster \in Rosters, native \in ServerSchedulesEvents :
          /\ Begin(r)
          /\ CreateEvent(GraphToEvent(when, roster))
          /\ req' = [req EXCEPT ![r] =
               IF ShouldSelfSchedule(GraphToEvent(when, roster), native)
               THEN [req[r] EXCEPT !.op = "create", !.pc = "invite", !.new = GraphToEvent(when, roster)]
               ELSE Done]
          /\ UNCHANGED <<dep, post, held, unsent>>
    BY DEF MeCreateEvents
  <1> DEFINE ev == GraphToEvent(when, roster)
             on == [req[r] EXCEPT !.op = "create", !.pc = "invite", !.new = ev]
             q == IF ShouldSelfSchedule(ev, native) THEN on ELSE Done
  <1>2. ev \in Event /\ ev.seq = 0 /\ \A g \in Guests : ev.status[g] = "none"
    BY Posted DEF GraphToEvent
  <1>3. /\ Calm /\ Unborn(vers, obj, post, held)
        /\ \A s \in Requests : Closed(req[s])
    BY <1>1, BeginsAlone
  <1> HIDE DEF ev
  <1>4. vers = 0 /\ vers' = 1 /\ obj' = Fresh(ev)
    BY <1>1 DEF CreateEvent, ev
  <1>5. Below(0, post, held) /\ \A g \in Guests : Gone(g, post, held)
    BY <1>3, <1>4 DEF Unborn
  <1>6. Ready(ev, post, held, unsent)
    BY <1>2, <1>5 DEF Ready
  <1>7. Told(ev, post, held, unsent)
    <2>1. Below(1, post, held)
      <3>1. (\A g \in Guests : held[g].seq \in Int) /\ \A m \in post : m.seq \in Int
        BY World DEF Calendars, Notice
      <3> QED  BY <1>5, <3>1 DEF Below
    <2> QED  BY <1>2, <1>5, <2>1 DEF Told
  <1>8. Standing(obj', post', held', unsent')
    BY <1>1, <1>2, <1>4, <1>7, FreshIs, StoredStands
  <1>9. InStep(q, obj', vers', post', held', unsent')
    <2>1. "pc" \in DOMAIN req[r] /\ "new" \in DOMAIN req[r]
      BY DEF IInv, Shapes, RequestType
    <2>2. on.pc = "invite" /\ on.new = ev
      BY <2>1
    <2> HIDE DEF on
    <2>3. InStep(on, obj', vers', post', held', unsent')
      BY <1>1, <1>4, <1>6, <2>2 DEF InStep
    <2> QED  BY <2>3, DoneCloses, ClosedRelies
  <1>10. req' = [req EXCEPT ![r] = q]
    BY <1>1 DEF ev
  <1>11. Unborn(vers', obj', post', held')
    BY <1>4 DEF Unborn
  <1> HIDE DEF q
  <1> QED  BY <1>3, <1>8, <1>9, <1>10, <1>11, Turn

\* A PATCH, accept or decline that begins keeps the invariant.
LEMMA UpdateTells ==
  ASSUME IInv, Honesty, Calm', NEW r \in Requests, MeUpdateEvents(r)
  PROVE  InTurn'
  <1>1. PICK patch \in Patches, ifm \in (1..vers) \cup {None}, native \in ServerSchedulesEvents :
          LET merged == MergeEventPatch(GetEvent, patch)
              plan == IF dep.sched /\ ~native
                      THEN ReinviteOnUpdate(GetEvent, merged)
                      ELSE [new |-> merged, to |-> {}, pc |-> "put"]
          IN  /\ Begin(r)
              /\ obj # None
              /\ req' = [req EXCEPT ![r] =
                   [op |-> "patch", ifm |-> ifm, base |-> [ver |-> obj.ver, ev |-> GetEvent],
                    new |-> plan.new, to |-> plan.to, pc |-> plan.pc]]
              /\ UNCHANGED <<dep, obj, vers, post, held, unsent>>
    BY DEF MeUpdateEvents
  <1>2. /\ Calm /\ Standing(obj, post, held, unsent) /\ Unborn(vers, obj, post, held)
        /\ \A s \in Requests : Closed(req[s])
    BY <1>1, BeginsAlone
  <1>3. ~native /\ dep.sched
    BY <1>2, NeverNative DEF Calm
  <1> DEFINE old == GetEvent
             merged == MergeEventPatch(old, patch)
             plan == ReinviteOnUpdate(old, merged)
             q == [op |-> "patch", ifm |-> ifm, base |-> [ver |-> obj.ver, ev |-> old],
                   new |-> plan.new, to |-> plan.to, pc |-> plan.pc]
  <1>4. /\ req' = [req EXCEPT ![r] = q] /\ obj # None
        /\ UNCHANGED <<dep, obj, vers, post, held, unsent>>
    BY <1>1, <1>3
  <1>5. old \in Event /\ Told(old, post, held, unsent) /\ vers # 0
    BY <1>2, <1>4, World DEF Standing, Unborn, GetEvent
  <1> HIDE DEF old
  <1>6. merged \in Event /\ merged.seq = old.seq
    BY <1>5, Merged, MergedSeq
  <1>7. \A g \in Guests : old.part[g] # None /\ merged.part[g] # None
                            => merged.status[g] = old.status[g]
    BY <1>5, MergedStatus
  <1> HIDE DEF merged
  <1>8. /\ plan.pc = "invite" => Ready(plan.new, post, held, unsent)
        /\ plan.pc = "put" => Told(plan.new, post, held, unsent)
        /\ plan.pc = "cancel" => Plan(old, plan.new, plan.to)
    BY <1>5, <1>6, <1>7, PlanTells
  <1>9. plan.pc \in {"cancel", "invite", "put"}
    BY <1>5, <1>6, Planned
  <1> HIDE DEF plan
  <1>10. q.pc = plan.pc /\ q.new = plan.new /\ q.to = plan.to /\ q.op = "patch" /\ q.base.ev = old
    OBVIOUS
  <1> HIDE DEF q
  <1>11. InStep(q, obj', vers', post', held', unsent')
    BY <1>4, <1>5, <1>8, <1>9, <1>10 DEF InStep
  <1>12. ~Closed(q)
    BY <1>9, <1>10 DEF Closed
  <1> QED  BY <1>2, <1>4, <1>11, <1>12, Turn

\* A DELETE that begins keeps the invariant.
LEMMA DeleteBeginsTells ==
  ASSUME IInv, Honesty, Calm', NEW r \in Requests, MeDeleteEvents(r)
  PROVE  InTurn'
  <1>1. PICK read \in {None} \cup (IF obj = None THEN {}
                                  ELSE {[ver |-> obj.ver, ev |-> GetEvent]}) :
          /\ Begin(r)
          /\ req' = [req EXCEPT ![r] =
               [req[r] EXCEPT !.op = "delete", !.base = read, !.pc = "remove"]]
          /\ UNCHANGED <<dep, obj, vers, post, held, unsent>>
    BY DEF MeDeleteEvents
  <1>2. /\ Standing(obj, post, held, unsent) /\ Unborn(vers, obj, post, held)
        /\ \A s \in Requests : Closed(req[s])
    BY <1>1, BeginsAlone
  <1>3. read # None => obj # None /\ read.ev = MapEvent(obj.ics)
    BY <1>1 DEF GetEvent
  <1> DEFINE q == [req[r] EXCEPT !.op = "delete", !.base = read, !.pc = "remove"]
  <1>4. q.pc = "remove" /\ q.base = read
    BY DEF IInv, Shapes, RequestType
  <1>5. req' = [req EXCEPT ![r] = q]
    BY <1>1
  <1> HIDE DEF q
  <1>6. InStep(q, obj', vers', post', held', unsent') /\ ~Closed(q)
    BY <1>1, <1>2, <1>3, <1>4 DEF InStep, Closed
  <1> QED  BY <1>1, <1>2, <1>5, <1>6, Turn

\* A request that is answered at once, or after it has failed to delete.
LEMMA AnswerTells ==
  ASSUME IInv, Honesty, Calm', NEW r \in Requests,
         RespondToInvite(r) \/ Refused(r) \/ DeleteFails(r)
  PROVE  InTurn'
  <1>1. /\ Standing(obj, post, held, unsent) /\ Unborn(vers, obj, post, held) /\ Calm
        /\ \A s \in Requests : s # r => Closed(req[s])
    <2>1. CASE DeleteFails(r)
      <3>1. req[r].pc = "remove" /\ UNCHANGED <<dep, torn>>
        BY <2>1 DEF DeleteFails
      <3>2. ~Closed(req[r])
        BY <3>1 DEF Closed
      <3> QED  BY <3>1, <3>2, GoesAlone DEF InStep
    <2>2. CASE RespondToInvite(r) \/ Refused(r)
      BY <2>2, BeginsAlone DEF RespondToInvite, Refused
    <2> QED  BY <2>1, <2>2
  <1>2. /\ req' = [req EXCEPT ![r] = Done]
        /\ UNCHANGED <<obj, vers, post, held, unsent>>
    BY <1>1, NeverNative DEF RespondToInvite, Refused, DeleteFails
  <1> QED  BY <1>1, <1>2, DoneCloses, ClosedRelies, Turn

\* The REQUEST mails, sent or refused, keep the invariant.
LEMMA SendRequestTells ==
  ASSUME IInv, Honesty, Calm', NEW r \in Requests, SendRequest(r)
  PROVE  InTurn'
  <1>1. PICK ok \in BOOLEAN, out \in BOOLEAN :
          /\ req[r].pc = "invite"
          /\ Send(ok, out, Recipients(req[r].new))
          /\ post' = IF out THEN post \cup Requested(req[r].new) ELSE post
          /\ req' = [req EXCEPT ![r].new = RecordSchedulingOutcome(req[r].new, ok),
                                ![r].pc = "put"]
          /\ UNCHANGED <<dep, obj, vers, held, torn, unsent>>
    BY DEF SendRequest
  <1> DEFINE ev == req[r].new
             new == RecordSchedulingOutcome(ev, ok)
             q == [req[r] EXCEPT !.new = new, !.pc = "put"]
  <1>2. ~Closed(req[r])
    BY <1>1 DEF Closed
  <1>3. /\ InStep(req[r], obj, vers, post, held, unsent) /\ Unborn(vers, obj, post, held)
        /\ \A s \in Requests : s # r => Closed(req[s])
    BY <1>1, <1>2, GoesAlone
  <1>4. ev \in Event /\ Ready(ev, post, held, unsent) /\ vers # 0
    BY <1>1, <1>3 DEF InStep, IInv, Shapes, Prepared
  <1>5. Told(new, post', held, unsent)
    BY <1>1, <1>4, World, SendTells
  <1>6. req' = [req EXCEPT ![r] = q]
    BY <1>1 DEF IInv, Shapes
  <1>7. q.pc = "put" /\ q.new = new
    BY DEF IInv, Shapes, RequestType
  <1> HIDE DEF q, new
  <1>8. InStep(q, obj', vers', post', held', unsent') /\ ~Closed(q)
    BY <1>1, <1>5, <1>7 DEF InStep, Closed
  <1>9. Unborn(vers', obj', post', held')
    BY <1>1, <1>4 DEF Unborn
  <1> QED  BY <1>3, <1>6, <1>8, <1>9, Turn

\* The CANCEL mails, sent or refused, keep the invariant.
LEMMA SendCancelTells ==
  ASSUME IInv, Honesty, Calm', NEW r \in Requests, SendCancelTo(r)
  PROVE  InTurn'
  <1> DEFINE old == req[r].base.ev
             new == req[r].new
             to == req[r].to
             again == SignificantChange(old, new) \/ RosterAdded(old, new)
             on == [req[r] EXCEPT !.pc = IF again THEN "invite" ELSE "put"]
             q == IF req[r].op = "delete" THEN Done ELSE on
  <1>1. PICK out \in BOOLEAN :
          /\ req[r].pc = "cancel"
          /\ post' = IF out THEN post \cup Withdrawal(old, to) ELSE post
          /\ unsent' = IF out THEN unsent \ to ELSE unsent \cup to
          /\ req' = [req EXCEPT ![r] = q]
          /\ UNCHANGED <<dep, obj, vers, held, torn>>
    BY DEF SendCancelTo
  <1>2. ~Closed(req[r])
    BY <1>1 DEF Closed
  <1>3. /\ InStep(req[r], obj, vers, post, held, unsent) /\ Unborn(vers, obj, post, held)
        /\ \A s \in Requests : s # r => Closed(req[s])
    BY <1>1, <1>2, GoesAlone
  <1>4. old \in Event /\ to \in SUBSET Guests /\ (req[r].op # "delete" => new \in Event)
    BY <1>1 DEF IInv, Shapes, Prepared, RequestType, Read
  <1>5. Below(old.seq + 1, post, held) /\ vers # 0
    BY <1>1, <1>3 DEF InStep, Told
  <1>6. on.pc = (IF again THEN "invite" ELSE "put") /\ on.new = new
    BY DEF IInv, Shapes, RequestType
  <1>7. post \in SUBSET Notice /\ held \in Calendars
    BY World
  <1> HIDE DEF old, new, to, on, again
  <1>8. /\ Below(old.seq + 1, post', held)
        /\ \A g \in to \ unsent' : Gone(g, post', held)
        /\ \A g \in Guests \ to :
             /\ Gone(g, post, held) => Gone(g, post', held)
             /\ \A w : Reached(g, w, post, held) => Reached(g, w, post', held)
    <2>1. CASE out
      BY <1>1, <1>4, <1>5, <1>7, <2>1, WithdrawalTells
    <2>2. CASE ~out
      BY <1>1, <1>5, <2>2
    <2> QED  BY <2>1, <2>2
  <1>9. \A g \in Guests \ to : g \notin unsent' => g \notin unsent
    BY <1>1
  <1>10. CASE req[r].op = "delete"
    <2>1. obj = None /\ \A g \in Guests \ unsent : g \notin to => Gone(g, post, held)
      BY <1>1, <1>3, <1>10 DEF InStep, to
    <2>2. \A g \in Guests \ unsent' : Gone(g, post', held)
      BY <1>8, <1>9, <2>1
    <2>3. Standing(obj', post', held', unsent') /\ q = Done
      BY <1>1, <1>10, <2>1, <2>2 DEF Standing
    <2>4. Unborn(vers', obj', post', held')
      BY <1>1, <1>5 DEF Unborn
    <2> QED  BY <1>1, <1>3, <2>3, <2>4, DoneCloses, ClosedRelies, Turn
  <1>11. CASE req[r].op # "delete"
    <2>1. Told(old, post, held, unsent) /\ Plan(old, new, to)
      BY <1>1, <1>3, <1>11 DEF InStep, old, new, to
    <2>2. ASSUME NEW g \in Guests \ unsent', new.part[g] = None
          PROVE  Gone(g, post', held)
      <3>1. g \notin to => old.part[g] = None
        BY <2>1, <2>2 DEF Plan, Recipients
      <3> QED  BY <1>8, <1>9, <2>1, <3>1 DEF Told
    <2>3. new.seq = old.seq + 1 /\ new.seq \in Int
      BY <1>4, <2>1 DEF Plan, Event
    <2>4. Ready(new, post', held, unsent')
      BY <1>8, <2>2, <2>3 DEF Ready
    <2>5. ASSUME ~again
          PROVE  Told(new, post', held, unsent')
      <3>1. Below(new.seq + 1, post', held)
        <4>1. (\A g \in Guests : held[g].seq \in Int) /\ \A m \in post' : m.seq \in Int
          <5>1. Withdrawal(old, to) \subseteq Notice
            BY <1>4, Mailed
          <5>2. post' \subseteq Notice
            BY <1>1, <1>7, <5>1
          <5> QED  BY <1>7, <5>2 DEF Calendars, Notice
        <4> QED  BY <1>8, <2>3, <4>1 DEF Below
      <3>2. ASSUME NEW g \in Guests, new.part[g] # None, new.status[g] = "sent"
            PROVE  Reached(g, new.when, post', held)
        <4>1. g \in Recipients(new) /\ new.when = old.when /\ g \in Recipients(old) /\ g \notin to
              /\ old.status[g] = "sent"
          BY <2>1, <2>5, <3>2 DEF Plan, again, SignificantChange, RosterAdded, Recipients
        <4>2. Reached(g, old.when, post, held)
          BY <2>1, <4>1 DEF Told, Recipients
        <4> QED  BY <1>8, <4>1, <4>2
      <3> QED  BY <2>2, <3>1, <3>2 DEF Told
    <2>6. q = on /\ ~Closed(on)
      BY <1>6, <1>11 DEF Closed
    <2>7. InStep(on, obj', vers', post', held', unsent')
      BY <1>1, <1>5, <1>6, <2>4, <2>5 DEF InStep
    <2>8. Unborn(vers', obj', post', held')
      BY <1>1, <1>5 DEF Unborn
    <2> QED  BY <1>1, <1>3, <2>6, <2>7, <2>8, Turn
  <1> QED  BY <1>10, <1>11

\* The write of the event keeps the invariant.
LEMMA WriteTells ==
  ASSUME IInv, Honesty, Calm', NEW r \in Requests, UpdateEventIfMatch(r) \/ UpdateEvent(r)
  PROVE  InTurn'
  <1> DEFINE ev == req[r].new
  <1>1. /\ req[r].pc = "put" /\ vers' = vers + 1 /\ req' = [req EXCEPT ![r] = Done]
        /\ UNCHANGED <<dep, post, held, torn, unsent>>
        /\ obj' = Fresh(ev) \/ obj' = Fresh(Written(ev))
    BY DEF UpdateEventIfMatch, UpdateEvent
  <1>2. ~Closed(req[r])
    BY <1>1 DEF Closed
  <1>3. /\ Calm /\ InStep(req[r], obj, vers, post, held, unsent)
        /\ \A s \in Requests : s # r => Closed(req[s])
    BY <1>1, <1>2, GoesAlone
  <1>4. ev \in Event /\ Told(ev, post, held, unsent) /\ vers \in Nat
    BY <1>1, <1>3 DEF InStep, IInv, Shapes, Prepared
  <1>5. dep.caldav
    BY <1>3, MeetingsAssumption DEF Calm, IInv, Shapes
  <1>6. obj' = Fresh(ev)
    BY <1>1, <1>5 DEF Written
  <1> HIDE DEF ev
  <1>7. Standing(obj', post', held', unsent')
    BY <1>1, <1>4, <1>6, FreshIs, StoredStands
  <1>8. Unborn(vers', obj', post', held')
    BY <1>1, <1>4 DEF Unborn
  <1> QED  BY <1>1, <1>3, <1>7, <1>8, DoneCloses, ClosedRelies, Turn

\* The removal of the event keeps the invariant.
LEMMA RemoveTells ==
  ASSUME IInv, Honesty, Calm', NEW r \in Requests, DeleteEvent(r)
  PROVE  InTurn'
  <1> DEFINE Sends(read) == [req[r] EXCEPT !.pc = "cancel", !.to = Recipients(read.ev)]
  <1>1. PICK native \in ServerSchedulesEvents, read \in {req[r].base, None} :
          /\ req[r].pc = "remove"
          /\ obj # None
          /\ obj' = None
          /\ req' = [req EXCEPT ![r] =
               IF read # None /\ ShouldSelfSchedule(read.ev, native) THEN Sends(read) ELSE Done]
          /\ unsent' = IF read = None THEN Guests ELSE unsent
          /\ UNCHANGED <<dep, vers, post, held, torn>>
    BY DEF DeleteEvent
  <1> DEFINE on == Sends(read)
  <1>2. ~Closed(req[r])
    BY <1>1 DEF Closed
  <1>3. /\ Calm /\ InStep(req[r], obj, vers, post, held, unsent) /\ Unborn(vers, obj, post, held)
        /\ \A s \in Requests : s # r => Closed(req[s])
    BY <1>1, <1>2, GoesAlone
  <1>4. /\ Standing(obj, post, held, unsent)
        /\ read # None => read.ev = MapEvent(obj.ics)
        /\ vers # 0
    BY <1>1, <1>3 DEF InStep, Unborn
  <1>5. Unborn(vers', obj', post', held')
    BY <1>1, <1>4 DEF Unborn
  <1>6. CASE read = None
    <2>1. Standing(obj', post', held', unsent') /\ req' = [req EXCEPT ![r] = Done]
      BY <1>1, <1>6 DEF Standing
    <2> QED  BY <1>3, <1>5, <2>1, DoneCloses, ClosedRelies, Turn
  <1>7. CASE read # None
    <2>1. Told(read.ev, post, held, unsent) /\ unsent' = unsent
      BY <1>1, <1>4, <1>7 DEF Standing
    <2>2. \A g \in Guests : g \notin Recipients(read.ev) => read.ev.part[g] = None
      BY DEF Recipients
    <2>3. CASE Recipients(read.ev) = {}
      <3>1. Standing(obj', post', held', unsent')
        BY <1>1, <2>1, <2>2, <2>3 DEF Standing, Told
      <3>2. req' = [req EXCEPT ![r] = Done]
        BY <1>1, <2>3 DEF ShouldSelfSchedule
      <3> QED  BY <1>3, <1>5, <3>1, <3>2, DoneCloses, ClosedRelies, Turn
    <2>4. CASE Recipients(read.ev) # {}
      <3>1. req' = [req EXCEPT ![r] = on]
        BY <1>1, <1>3, <1>7, <2>4, NeverNative DEF ShouldSelfSchedule, Calm
      <3>2. on.pc = "cancel" /\ on.to = Recipients(read.ev) /\ on.base = read /\ on.op = "delete"
        BY <1>1, <1>7 DEF IInv, Shapes, RequestType, Prepared
      <3> HIDE DEF on, Sends
      <3>3. InStep(on, obj', vers', post', held', unsent') /\ ~Closed(on)
        BY <1>1, <1>4, <2>1, <2>2, <3>2 DEF InStep, Closed, Told
      <3> QED  BY <1>3, <1>5, <3>1, <3>3, Turn
    <2> QED  BY <2>3, <2>4
  <1> QED  BY <1>6, <1>7

\* Whatever mail arrives next, the guests will come to know the same.
LEMMA ToldDelivered ==
  ASSUME NEW p \in SUBSET Notice, NEW h \in Calendars, NEW m \in p, NEW u, NEW ev,
         ev.seq \in Int, Told(ev, p, h, u)
  PROVE  Told(ev, p \ {m}, Taken(m, h), u)
  <1>1. Below(ev.seq + 1, p \ {m}, Taken(m, h))
    BY BelowDelivered DEF Told
  <1>2. ASSUME NEW g \in Guests, NEW w, Reached(g, w, p, h)
        PROVE  Reached(g, w, p \ {m}, Taken(m, h))
    BY <1>2, LatestDelivered DEF Reached
  <1>3. ASSUME NEW g \in Guests, Gone(g, p, h)
        PROVE  Gone(g, p \ {m}, Taken(m, h))
    BY <1>3, GoneDelivered
  <1> QED  BY <1>1, <1>2, <1>3 DEF Told

\* A delivery of mail keeps the invariant.
LEMMA DeliverTells ==
  ASSUME IInv, Honesty, Calm', Deliver
  PROVE  InTurn'
  <1>1. PICK m \in post :
          /\ post' = post \ {m}
          /\ held' = Taken(m, held)
          /\ UNCHANGED <<dep, obj, vers, req, torn, unsent>>
    BY DEF Deliver, Taken
  <1>2. InTurn
    BY <1>1 DEF Honesty, Calm
  <1>3. /\ post \in SUBSET Notice /\ held \in Calendars /\ req \in [Requests -> RequestType]
        /\ obj # None => MapEvent(obj.ics) \in Event
    BY World
  <1>4. \A g \in Guests : Gone(g, post, held) => Gone(g, post', held')
    BY <1>1, <1>3, GoneDelivered
  <1>5. \A n \in Int : Below(n, post, held) => Below(n, post', held')
    BY <1>1, <1>3, BelowDelivered
  <1>6. \A ev \in Event : Told(ev, post, held, unsent) => Told(ev, post', held', unsent)
    <2>1. \A ev \in Event : ev.seq \in Int
      BY DEF Event
    <2> QED  BY <1>1, <1>3, <2>1, ToldDelivered
  <1>7. \A ev \in Event : ev.seq \in Int /\ ev.seq + 1 \in Int
    BY DEF Event
  <1>8. Standing(obj, post, held, unsent) => Standing(obj, post', held', unsent)
    BY <1>3, <1>4, <1>6 DEF Standing
  <1>9. \A r \in Requests : InStep(req[r], obj, vers, post', held', unsent)
    <2> SUFFICES ASSUME NEW r \in Requests
                 PROVE  InStep(req[r], obj, vers, post', held', unsent)
      OBVIOUS
    <2> DEFINE q == req[r]
    <2>1. InStep(q, obj, vers, post, held, unsent)
      BY <1>2 DEF InTurn
    <2>2. Prepared(q)
      BY DEF IInv, Shapes
    <2>3. q.pc \in {"invite", "put"} => q.new \in Event
      BY <2>2 DEF Prepared
    <2>4. q.pc = "cancel" => q.base.ev \in Event
      BY <2>2 DEF Prepared, Read
    <2> HIDE DEF q
    <2>5. q.pc = "invite" => Ready(q.new, post', held', unsent)
      BY <1>4, <1>5, <1>7, <2>1, <2>3 DEF InStep, Ready
    <2>6. q.pc = "put" => Told(q.new, post', held', unsent)
      BY <1>6, <2>1, <2>3 DEF InStep
    <2>7. q.pc = "remove" => Standing(obj, post', held', unsent)
      BY <1>8, <2>1 DEF InStep
    <2>8. q.pc = "cancel" /\ q.op = "delete" =>
            /\ Below(q.base.ev.seq + 1, post', held')
            /\ \A g \in Guests \ unsent : g \notin q.to => Gone(g, post', held')
      BY <1>4, <1>5, <1>7, <2>1, <2>4 DEF InStep
    <2>9. q.pc = "cancel" /\ q.op # "delete" => Told(q.base.ev, post', held', unsent)
      BY <1>6, <2>1, <2>4 DEF InStep
    <2>10. InStep(q, obj, vers, post', held', unsent)
      BY <2>1, <2>5, <2>6, <2>7, <2>8, <2>9 DEF InStep
    <2> QED  BY <2>10 DEF q
  <1>10. Unborn(vers, obj, post', held')
    BY <1>2, <1>4, <1>5 DEF InTurn, Unborn
  <1> QED  BY <1>1, <1>2, <1>8, <1>9, <1>10 DEF InTurn

\* Another client's answer is none of the guests' business.
LEMMA OtherTells ==
  ASSUME IInv, Honesty, Calm', OtherClient
  PROVE  InTurn'
  <1>1. PICK p \in People, answer \in Answers :
          /\ obj # None
          /\ GetEvent.part[p] # None
          /\ obj' = Fresh([GetEvent EXCEPT !.part[p] = answer])
          /\ vers' = vers + 1
          /\ torn' = (torn \/ \E q \in Requests : Open(q))
          /\ UNCHANGED <<dep, req, post, held, unsent>>
    BY DEF OtherClient
  <1> DEFINE old == GetEvent
             ev == [old EXCEPT !.part[p] = answer]
  <1>2. old \in Event /\ vers \in Nat
    BY <1>1, World DEF GetEvent
  <1>3. ~torn /\ \A s \in Requests : ~Open(s)
    BY <1>1 DEF Calm, IInv, Shapes
  <1>4. \A s \in Requests : Closed(req[s])
    BY <1>3 DEF Open, Closed
  <1>5. InTurn
    BY <1>1, <1>3 DEF Honesty, Calm
  <1>6. Told(old, post, held, unsent)
    BY <1>1, <1>4, <1>5 DEF InTurn, Standing, GetEvent
  <1>7. obj' = Fresh(ev) /\ old.part[p] # None
    BY <1>1
  <1>8. answer # None
    BY NoneApart DEF PartStats
  <1> HIDE DEF old
  <1>9. ev \in Event
    BY <1>2 DEF Event, PartStats
  <1>10. Alike(old, ev)
    <2>1. ev.seq = old.seq /\ ev.when = old.when /\ ev.status = old.status
          /\ ev.part = [old.part EXCEPT ![p] = answer]
      BY <1>2 DEF Event
    <2>2. \A g \in Guests : ev.part[g] = None <=> old.part[g] = None
      BY <1>2, <1>7, <1>8, <2>1 DEF Event, People
    <2> QED  BY <2>1, <2>2 DEF Alike
  <1> HIDE DEF ev
  <1>11. Told(ev, post, held, unsent)
    BY <1>6, <1>10, ToldAlike
  <1>12. Standing(obj', post', held', unsent')
    BY <1>1, <1>2, <1>7, <1>9, <1>11, FreshIs, StoredStands
  <1>13. \A s \in Requests : Closed(req'[s]) /\ InStep(req'[s], obj', vers', post', held', unsent')
    BY <1>1, <1>4, ClosedRelies
  <1>14. Unborn(vers', obj', post', held')
    BY <1>1, <1>2 DEF Unborn
  <1> QED  BY <1>12, <1>13, <1>14 DEF InTurn

-----------------------------------------------------------------------------

\* The invariant holds before the first request.
LEMMA InitHonesty == Init => Honesty
  <1> SUFFICES ASSUME Init PROVE InTurn
    BY DEF Honesty
  <1>1. \A r \in Requests : Closed(req[r])
    BY DEF Init, Closed, Idle
  <1>2. \A r \in Requests : InStep(req[r], obj, vers, post, held, unsent)
    BY <1>1, ClosedRelies
  <1>3. CASE obj = None /\ vers = 0 /\ held = [g \in Guests |-> [seq |-> -1, when |-> None]]
    <2>1. post = {} /\ \A g \in Guests : held[g].seq = -1 /\ held[g].when = None
      BY <1>3 DEF Init
    <2>2. Below(0, post, held) /\ \A g \in Guests : Gone(g, post, held)
      BY <2>1 DEF Below, Gone
    <2>3. Standing(obj, post, held, unsent) /\ Unborn(vers, obj, post, held)
      BY <1>3, <2>2 DEF Standing, Unborn
    <2> QED  BY <1>1, <1>2, <2>3 DEF InTurn
  <1>4. CASE \E w \in Whens :
          /\ vers = 1
          /\ obj = [ver |-> 1,
                    ics |-> EventToICal(
                      [seq |-> 0, when |-> w,
                       part |-> [p \in People |-> NeedsAction],
                       status |-> [g \in Guests |-> "sent"]])]
          /\ held = [g \in Guests |-> [seq |-> 0, when |-> w]]
    <2>1. PICK w \in Whens :
          /\ vers = 1
          /\ obj = [ver |-> 1,
                    ics |-> EventToICal(
                      [seq |-> 0, when |-> w,
                       part |-> [p \in People |-> NeedsAction],
                       status |-> [g \in Guests |-> "sent"]])]
          /\ held = [g \in Guests |-> [seq |-> 0, when |-> w]]
      BY <1>4
    <2> DEFINE ev == [seq |-> 0, when |-> w, part |-> [p \in People |-> NeedsAction],
                      status |-> [g \in Guests |-> "sent"]]
    <2>2. ev \in Event /\ ev.seq = 0 /\ ev.when = w /\ \A g \in Guests : ev.part[g] # None
      BY NoneApart DEF Event, PartStats, Statuses, People
    <2>3. post = {} /\ \A g \in Guests : held[g].seq = 0 /\ held[g].when = w
      BY <2>1 DEF Init
    <2>4. obj.ics = EventToICal(ev) /\ obj # None
      <3>1. obj = [ver |-> 1, ics |-> EventToICal(ev)]
        BY <2>1
      <3> HIDE DEF ev
      <3>2. obj \in [ver: Nat, ics: ICal]
        BY <2>2, <3>1, TextOf
      <3> QED  BY <3>1, <3>2, MeetingsAssumption
    <2> HIDE DEF ev
    <2>5. \A g \in Guests : Latest(g, 0, w, post, held)
      BY <2>3 DEF Latest
    <2>6. Told(ev, post, held, unsent)
      <3>1. Below(1, post, held)
        BY <2>3 DEF Below
      <3> QED  BY <2>2, <2>5, <3>1 DEF Told, Reached
    <2>7. Standing(obj, post, held, unsent)
      BY <2>2, <2>4, <2>6, StoredStands
    <2>8. Unborn(vers, obj, post, held)
      BY <2>1 DEF Unborn
    <2> QED  BY <1>1, <1>2, <2>7, <2>8 DEF InTurn
  <1> QED  BY <1>3, <1>4 DEF Init

\* Each step keeps the invariant.
LEMMA NextHonesty == IInv /\ Honesty /\ [Next]_vars => Honesty'
  <1> SUFFICES ASSUME IInv, Honesty, [Next]_vars, Calm' PROVE InTurn'
    BY DEF Honesty
  <1>1. CASE UNCHANGED vars
    <2>1. UNCHANGED <<dep, obj, vers, req, post, held, torn, unsent>>
      BY <1>1 DEF vars
    <2>2. InTurn
      BY <2>1 DEF Honesty, Calm
    <2> QED  BY <2>1, <2>2 DEF InTurn
  <1>2. ASSUME NEW r \in Requests, WriteFails(r) PROVE FALSE
    BY <1>2 DEF WriteFails, Calm
  <1> QED  BY <1>1, <1>2, CreateTells, UpdateTells, DeleteBeginsTells, AnswerTells,
              SendRequestTells, SendCancelTells, WriteTells, RemoveTells, DeliverTells,
              OtherTells DEF Next

\* The invariant over mail in flight holds throughout.
LEMMA HonestyHolds == Spec => [](IInv /\ Honesty)
  BY InitInv, NextInv, InitHonesty, NextHonesty, PTL DEF Spec

\* With all mail delivered, what was to come has come.
LEMMA Arrived ==
  ASSUME Honesty, Settled, ~torn
  PROVE  /\ Standing(obj, post, held, unsent) /\ post = {}
         /\ \A g \in Guests : Gone(g, post, held) => held[g].when = None
         /\ \A g \in Guests : \A w : Reached(g, w, post, held) => held[g].when = w
         /\ Unborn(vers, obj, post, held)
  <1>1. post = {} /\ \A r \in Requests : Closed(req[r])
    BY DEF Settled, Open, Closed
  <1>2. InTurn
    BY DEF Settled, Honesty, Calm
  <1> QED  BY <1>1, <1>2 DEF InTurn, Gone, Reached, Latest

\* When requests do not overlap and no write fails, a guest whose
\* SCHEDULE-STATUS says that the invitation was sent ends up with the meeting's
\* present time, for any number of requests and guests and whatever SMTP loses,
\* delays or reorders (sendRequest, recordSchedulingOutcome, reinviteOnUpdate).
THEOREM StatusHonest == Spec => []Honest
  <1>1. Honesty => Honest
    <2> SUFFICES ASSUME Honesty, Settled, ~torn, obj # None,
                        NEW g \in Recipients(GetEvent), GetEvent.status[g] = "sent"
                 PROVE  Holds(g)
      BY DEF Honest
    <2>1. g \in Guests /\ GetEvent.part[g] # None
      BY DEF Recipients
    <2>2. Told(GetEvent, post, held, unsent)
      BY Arrived DEF Standing, GetEvent
    <2>3. Reached(g, GetEvent.when, post, held)
      BY <2>1, <2>2 DEF Told
    <2> QED  BY <2>1, <2>3, Arrived DEF Holds
  <1> QED  BY <1>1, HonestyHolds, PTL

\* Under the same conditions nobody keeps a meeting that was deleted, or that
\* they were dropped from, unless their CANCEL could not be submitted
\* (removedRecipients, cancelInvitations, sendCancelTo).
THEOREM MeetingWithdrawn == Spec => []Withdrawn
  <1>1. Honesty => Withdrawn
    <2> SUFFICES ASSUME Honesty, Settled, ~torn, NEW g \in Guests \ unsent,
                        obj = None \/ GetEvent.part[g] = None
                 PROVE  held[g].when = None
      BY DEF Withdrawn
    <2>1. Gone(g, post, held)
      BY Arrived DEF Standing, Told, GetEvent
    <2> QED  BY <2>1, Arrived
  <1> QED  BY <1>1, HonestyHolds, PTL

=============================================================================
