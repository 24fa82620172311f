------------------------------ MODULE Meetings ------------------------------
(***************************************************************************)
(* The event handlers of the Graph surface and the organizer half of the   *)
(* scheduling engine (internal/server/calendar_write.go and scheduling.go, *)
(* internal/itip, internal/scheduling, the CalDAV and JMAP writers), for   *)
(* one meeting.                                                            *)
(*                                                                         *)
(* A request is a sequence of remote calls: GET, PUT or DELETE against the *)
(* calendar server and SMTP submissions to the guests.  The handlers hold  *)
(* no lock, so between two calls any other request, and the user's other   *)
(* clients, may change the object.  Every action is one such call with the *)
(* computation up to the next one; the OPTIONS request that looks for      *)
(* RFC 6638 changes nothing and is folded into the step before it.         *)
(***************************************************************************)
EXTENDS Integers, FiniteSets

CONSTANTS
  Requests,     \* the HTTP requests; each is served once
  Guests,       \* addresses other than the mailbox's own
  Me,           \* the address of the mailbox
  Whens,        \* the start, end and place of the meeting, as one value
  Answers,      \* the participation states somebody can answer with
  Rosters,      \* the attendee lists of request bodies: address -> answer
  Deployments,  \* the servers considered: [sched, native, caldav: BOOLEAN]
  MaxVer,       \* bound: writes by the user's other clients stop here
  None          \* absent

People == Guests \cup {Me}

\* An attendee entry without PARTSTAT, and one that is waiting for an answer.
Unsaid == "unsaid"
NeedsAction == "needs-action"

PartStats == Answers \cup {Unsaid, NeedsAction}
Statuses == {"none", "sent", "failed"}

\* The text of a stored event: its ATTENDEE lines, each with two parameters
\* that may be missing.
Attendee == [partstat: PartStats \cup {None}, schedule: Statuses \cup {None}]
ICal == [seq: Nat, when: Whens, attendee: UNION {[S -> Attendee] : S \in SUBSET People}]

ASSUME MeetingsAssumption ==
  /\ Me \notin Guests
  /\ None \notin People \cup Whens \cup Nat \cup PartStats \cup Statuses
  /\ None \notin [ver: Nat, ics: ICal]
  /\ Rosters \subseteq UNION {[S -> Answers \cup {Unsaid}] : S \in SUBSET People}
  /\ MaxVer \in Nat
  /\ Deployments \subseteq [sched: BOOLEAN, native: BOOLEAN, caldav: BOOLEAN]
  /\ \A d \in Deployments : d.caldav \/ d.native

VARIABLES
  dep,    \* the deployment at hand
  obj,    \* the calendar object: None, or its ETag and its text
  vers,   \* the last ETag the calendar server gave out
  req,    \* the requests
  post,   \* scheduling mail accepted by SMTP and not yet delivered
  held,   \* what each guest's calendar knows of the meeting
  torn,   \* history: requests overlapped, or a write failed after its mail
  unsent  \* history: guests whose CANCEL was not delivered

vars == <<dep, obj, vers, req, post, held, torn, unsent>>

-----------------------------------------------------------------------------
(***************************************************************************)
(* Events.                                                                 *)
(***************************************************************************)

Event == [seq: Nat, when: Whens,
          part: [People -> PartStats \cup {None}], status: [Guests -> Statuses]]

\* The attendees a scheduling message goes to: everyone but the mailbox.
Recipients(ev) == {g \in Guests : ev.part[g] # None}

SignificantChange(old, new) == old.when # new.when

RemovedRecipients(old, new) == Recipients(old) \ Recipients(new)

RosterAdded(old, new) == Recipients(new) \ Recipients(old) # {}

\* The event a POST body describes.  It has revision 0 and no status yet.
GraphToEvent(when, roster) ==
  [seq |-> 0, when |-> when,
   part |-> [p \in People |-> IF p \in DOMAIN roster THEN roster[p] ELSE None],
   status |-> [g \in Guests |-> "none"]]

\* Only the roster is replaced; the rest of the event stays.
SetEventAttendees(ev, part, status) == [ev EXCEPT !.part = part, !.status = status]

\* A listed attendee keeps the stored answer unless the patch states one; who
\* is not listed is dropped.  An empty list is no list.
MergeAttendees(ev, roster) ==
  SetEventAttendees(ev,
    [p \in People |->
       CASE p \notin DOMAIN roster -> None
         [] p \in DOMAIN roster /\ roster[p] # Unsaid -> roster[p]
         [] p \in DOMAIN roster /\ roster[p] = Unsaid ->
              IF ev.part[p] # None THEN ev.part[p] ELSE Unsaid],
    [g \in Guests |->
       IF g \in DOMAIN roster /\ ev.part[g] # None THEN ev.status[g] ELSE "none"])

\* A start, an end or a place in the body; a side it leaves out keeps its instant
\* and the event its zone.
SetTimesInZone(ev, when) == IF when = None THEN ev ELSE [ev EXCEPT !.when = when]

\* The fields present in the body overlay the event that was read.
MergeEventPatch(ev, patch) ==
  LET timed == SetTimesInZone(ev, patch.when)
  IN  IF patch.roster = None THEN timed ELSE MergeAttendees(timed, patch.roster)

ResetRecipientStatus(ev) ==
  SetEventAttendees(ev,
    [p \in People |-> IF p \in Recipients(ev) THEN NeedsAction ELSE ev.part[p]],
    ev.status)

WrongRecordSchedulingOutcome(ev, ok) ==
  SetEventAttendees(ev, ev.part,
    [g \in Guests |-> IF g \in Recipients(ev) THEN "sent" ELSE ev.status[g]])

\* Every recipient carries the outcome of the submission as SCHEDULE-STATUS.
\* (The mailbox is also stamped as organizer, whoever it was before.)
RecordSchedulingOutcome(ev, ok) ==
  SetEventAttendees(ev, ev.part,
    [g \in Guests |->
       IF g \in Recipients(ev) THEN IF ok THEN "sent" ELSE "failed" ELSE ev.status[g]])

SetAttendeeStatus(ev, answer) == [ev EXCEPT !.part[Me] = answer]

\* What a handler learns from OPTIONS: a failed request counts as "no".
ServerSchedulesEvents == IF dep.caldav THEN {dep.native, FALSE} ELSE {dep.native}

\* Does the server itself mail the guests of ev, given what OPTIONS said?
ShouldSelfSchedule(ev, native) == dep.sched /\ Recipients(ev) # {} /\ ~native

-----------------------------------------------------------------------------
(***************************************************************************)
(* The calendar server and SMTP, as the handlers use them.                 *)
(***************************************************************************)

\* A parameter is written only when it has a value.
Param(value, unset) == IF value = unset THEN None ELSE value
Value(param, unset) == IF param = None THEN unset ELSE param

\* The stored form: one ATTENDEE line for each attendee, with PARTSTAT and
\* SCHEDULE-STATUS as its parameters (JMAP's participants hold the same two).
EventToICal(ev) ==
  [seq |-> ev.seq, when |-> ev.when,
   attendee |-> [p \in {q \in People : ev.part[q] # None} |->
     [partstat |-> Param(ev.part[p], Unsaid),
      schedule |-> IF p \in Guests THEN Param(ev.status[p], "none") ELSE None]]]

MapEvent(ics) ==
  LET listed == DOMAIN ics.attendee
  IN  [seq |-> ics.seq, when |-> ics.when,
       part |-> [p \in People |->
         IF p \in listed THEN Value(ics.attendee[p].partstat, Unsaid) ELSE None],
       status |-> [g \in Guests |->
         IF g \in listed THEN Value(ics.attendee[g].schedule, "none") ELSE "none"]]

\* What GetEvent returns.
GetEvent == MapEvent(obj.ics)

Fresh(ev) == [ver |-> vers + 1, ics |-> EventToICal(ev)]

\* A new UID names the object, so there is nothing to replace.
CreateEvent(ev) ==
  /\ vers = 0
  /\ obj' = Fresh(ev)
  /\ vers' = vers + 1

\* A conditional PUT succeeds only on the revision it names.
Matches(etag) == obj # None /\ obj.ver = etag

\* An unconditional CalDAV PUT always succeeds and creates what is missing; a
\* JMAP update needs the object and leaves the SEQUENCE to the server.
Writable == dep.caldav \/ obj # None

Written(ev) == IF dep.caldav THEN ev ELSE [ev EXCEPT !.seq = obj.ics.seq]

Mail(method, seq, when, to) ==
  {[method |-> method, seq |-> seq, when |-> when, to |-> g] : g \in to}

\* One SMTP transaction: all recipients or nobody.  An error after DATA leaves
\* the outcome open, and without a recipient there is nothing to send.
Send(ok, out, to) == (ok => out) /\ (out => to # {})

Requested(ev) == Mail("REQUEST", ev.seq, ev.when, Recipients(ev))

Withdrawal(ev, to) == Mail("CANCEL", ev.seq, None, to)

-----------------------------------------------------------------------------
(***************************************************************************)
(* The requests.                                                           *)
(***************************************************************************)

Idle == [op |-> "none", pc |-> "idle", ifm |-> None,
         base |-> None, new |-> None, to |-> {}]

Done == [Idle EXCEPT !.pc = "done"]

\* A body names a new time or place, a new list of attendees, both or neither;
\* an empty list cannot be told from none.
Patches == [when: Whens \cup {None},
            roster: {s \in Rosters : DOMAIN s # {}} \cup {None}]

Open(r) == req[r].pc \notin {"idle", "done"}

\* A request that begins while another one is under way may disturb it.
Begin(r) ==
  /\ req[r].pc = "idle"
  /\ torn' = (torn \/ \E q \in Requests : Open(q))

Init ==
  /\ dep \in Deployments
  /\ req = [r \in Requests |-> Idle]
  /\ post = {}
  /\ torn = FALSE
  /\ unsent = {}
  /\ \/ /\ obj = None
        /\ vers = 0
        /\ held = [g \in Guests |-> [seq |-> -1, when |-> None]]
     \/ \E w \in Whens :
          /\ vers = 1
          /\ obj = [ver |-> 1,
                    ics |-> EventToICal(
                      [seq |-> 0, when |-> w,
                       part |-> [p \in People |-> NeedsAction],
                       status |-> [g \in Guests |-> "sent"]])]
          /\ held = [g \in Guests |-> [seq |-> 0, when |-> w]]

\* POST /me/events: the object is created, and the guests are to be invited.
MeCreateEvents(r) ==
  \E when \in Whens, roster \in Rosters, native \in ServerSchedulesEvents :
    LET ev == GraphToEvent(when, roster)
    IN  /\ Begin(r)
        /\ CreateEvent(ev)
        /\ req' = [req EXCEPT ![r] =
             IF ShouldSelfSchedule(ev, native)
             THEN [@ EXCEPT !.op = "create", !.pc = "invite", !.new = ev]
             ELSE Done]
        /\ UNCHANGED <<dep, post, held, unsent>>

\* PATCH /me/events/{id}: the event is read, the body merged into it, and what
\* the guests have to hear is decided (ReinviteOnUpdate).  If-Match names an
\* ETag; a "*", which the code passes on and which any event matches, is not
\* modelled.
ReinviteOnUpdate(old, new) ==
  LET removed == RemovedRecipients(old, new)
      changed == SignificantChange(old, new)
      again == changed \/ RosterAdded(old, new)
      next == [new EXCEPT !.seq = old.seq + 1]
  IN  [new |-> CASE removed = {} /\ ~again -> new
                 [] changed -> ResetRecipientStatus(next)
                 [] OTHER -> next,
       to |-> removed,
       pc |-> CASE removed # {} -> "cancel"
                [] removed = {} /\ again -> "invite"
                [] OTHER -> "put"]

MeUpdateEvents(r) ==
  \E patch \in Patches, ifm \in (1..vers) \cup {None},
     native \in ServerSchedulesEvents :
    LET merged == MergeEventPatch(GetEvent, patch)
        plan == IF dep.sched /\ ~native
                THEN ReinviteOnUpdate(GetEvent, merged)
                ELSE [new |-> merged, to |-> {}, pc |-> "put"]
    IN  /\ Begin(r)
        /\ obj # None
        /\ req' = [req EXCEPT ![r] =
             [op |-> "patch", ifm |-> ifm, base |-> [ver |-> obj.ver, ev |-> GetEvent],
              new |-> plan.new, to |-> plan.to, pc |-> plan.pc]]
        /\ UNCHANGED <<dep, obj, vers, post, held, unsent>>

\* DELETE /me/events/{id}: the event is read for its guests; the read may fail.
MeDeleteEvents(r) ==
  \E read \in {None} \cup (IF obj = None THEN {}
                          ELSE {[ver |-> obj.ver, ev |-> GetEvent]}) :
    /\ Begin(r)
    /\ req' = [req EXCEPT ![r] =
         [@ EXCEPT !.op = "delete", !.base = read, !.pc = "remove"]]
    /\ UNCHANGED <<dep, obj, vers, post, held, unsent>>

\* POST /me/events/{id}/accept and its kin.  Without RFC 6638 the answer is
\* mailed to the organizer and the stored event stays as it is; with it the
\* answer is recorded on the event, for the server to send.
RespondToInvite(r) ==
  \E answer \in Answers, sendResponse \in BOOLEAN, native \in ServerSchedulesEvents :
    /\ Begin(r)
    /\ dep.sched
    /\ obj # None
    /\ req' = [req EXCEPT ![r] =
         IF sendResponse /\ native /\ GetEvent.part[Me] # None
         THEN [@ EXCEPT !.op = "respond", !.pc = "put", !.base = [ver |-> obj.ver, ev |-> GetEvent],
                        !.new = SetAttendeeStatus(GetEvent, answer)]
         ELSE Done]
    /\ UNCHANGED <<dep, obj, vers, post, held, unsent>>

\* A body that names an unknown time zone is answered with 400, an event that
\* cannot be read with an error, before anything is mailed or written.
Refused(r) ==
  /\ Begin(r)
  /\ req' = [req EXCEPT ![r] = Done]
  /\ UNCHANGED <<dep, obj, vers, post, held, unsent>>

\* The METHOD:REQUEST goes to the recipients; whatever goes wrong counts as a
\* failure and not as an error of the request.
SendRequest(r) ==
  \E ok, out \in BOOLEAN :
    LET ev == req[r].new
    IN  /\ req[r].pc = "invite"
        /\ Send(ok, out, Recipients(ev))
        /\ post' = IF out THEN post \cup Requested(ev) ELSE post
        /\ req' = [req EXCEPT ![r].new = RecordSchedulingOutcome(ev, ok),
                              ![r].pc = "put"]
        /\ UNCHANGED <<dep, obj, vers, held, torn, unsent>>

WrongSendCancelTo(r) ==
  /\ req[r].pc = "cancel"
  /\ req' = [req EXCEPT ![r] =
       IF req[r].op = "delete" THEN Done ELSE [@ EXCEPT !.pc = "put"]]
  /\ UNCHANGED <<dep, obj, vers, post, held, torn, unsent>>

\* The METHOD:CANCEL carries the SEQUENCE of the event as it was read.
SendCancelTo(r) ==
  \E out \in BOOLEAN :
    LET old == req[r].base.ev
        new == req[r].new
    IN  /\ req[r].pc = "cancel"
        /\ post' = IF out THEN post \cup Withdrawal(old, req[r].to) ELSE post
        /\ unsent' = IF out THEN unsent \ req[r].to ELSE unsent \cup req[r].to
        /\ req' = [req EXCEPT ![r] =
             IF req[r].op = "delete" THEN Done
             ELSE [@ EXCEPT !.pc =
                     IF SignificantChange(old, new) \/ RosterAdded(old, new)
                     THEN "invite" ELSE "put"]]
        /\ UNCHANGED <<dep, obj, vers, held, torn>>

Conditional(r) == req[r].ifm # None /\ dep.caldav

WrongUpdateEventIfMatch(r) ==
  /\ req[r].pc = "put"
  /\ Conditional(r)
  /\ obj # None
  /\ obj' = Fresh(req[r].new)
  /\ vers' = vers + 1
  /\ req' = [req EXCEPT ![r] = Done]
  /\ UNCHANGED <<dep, post, held, torn, unsent>>

UpdateEventIfMatch(r) ==
  /\ req[r].pc = "put"
  /\ Conditional(r)
  /\ Matches(req[r].ifm)
  /\ obj' = Fresh(req[r].new)
  /\ vers' = vers + 1
  /\ req' = [req EXCEPT ![r] = Done]
  /\ UNCHANGED <<dep, post, held, torn, unsent>>

UpdateEvent(r) ==
  /\ req[r].pc = "put"
  /\ ~Conditional(r)
  /\ Writable
  /\ obj' = Fresh(Written(req[r].new))
  /\ vers' = vers + 1
  /\ req' = [req EXCEPT ![r] = Done]
  /\ UNCHANGED <<dep, post, held, torn, unsent>>

\* The write is refused with 412, or fails: the mail is not taken back.
WriteFails(r) ==
  /\ req[r].pc = "put"
  /\ req' = [req EXCEPT ![r] = Done]
  /\ torn' = TRUE
  /\ UNCHANGED <<dep, obj, vers, post, held, unsent>>

\* The object is removed.  Nobody hears of it when the read had failed, or when
\* the answer to the DELETE is lost and the request ends with an error.
DeleteEvent(r) ==
  \E native \in ServerSchedulesEvents, read \in {req[r].base, None} :
    /\ req[r].pc = "remove"
    /\ obj # None
    /\ obj' = None
    /\ req' = [req EXCEPT ![r] =
         IF read # None /\ ShouldSelfSchedule(read.ev, native)
         THEN [@ EXCEPT !.pc = "cancel", !.to = Recipients(read.ev)]
         ELSE Done]
    /\ unsent' = IF read = None THEN Guests ELSE unsent
    /\ UNCHANGED <<dep, vers, post, held, torn>>

\* The object is gone already, or the server refuses: nobody hears of it.
DeleteFails(r) ==
  /\ req[r].pc = "remove"
  /\ req' = [req EXCEPT ![r] = Done]
  /\ UNCHANGED <<dep, obj, vers, post, held, torn, unsent>>

-----------------------------------------------------------------------------
(***************************************************************************)
(* The rest of the world.                                                  *)
(***************************************************************************)

\* Mail overtakes mail.  A guest's calendar takes a REQUEST with a higher
\* SEQUENCE, and a CANCEL unless it knows a later revision.
Deliver ==
  \E m \in post :
    /\ post' = post \ {m}
    /\ held' = [held EXCEPT ![m.to] =
         IF m.seq > @.seq \/ (m.method = "CANCEL" /\ m.seq = @.seq)
         THEN [seq |-> m.seq, when |-> m.when] ELSE @]
    /\ UNCHANGED <<dep, obj, vers, req, torn, unsent>>

\* The user's other client records the answer of an attendee.
OtherClient ==
  \E p \in People, answer \in Answers :
    /\ obj # None
    /\ vers < MaxVer
    /\ GetEvent.part[p] # None
    /\ obj' = Fresh([GetEvent EXCEPT !.part[p] = answer])
    /\ vers' = vers + 1
    /\ torn' = (torn \/ \E q \in Requests : Open(q))
    /\ UNCHANGED <<dep, req, post, held, unsent>>

Next ==
  \/ \E r \in Requests :
       \/ MeCreateEvents(r) \/ MeUpdateEvents(r) \/ MeDeleteEvents(r)
       \/ RespondToInvite(r) \/ Refused(r) \/ SendRequest(r) \/ SendCancelTo(r)
       \/ UpdateEventIfMatch(r) \/ UpdateEvent(r) \/ WriteFails(r)
       \/ DeleteEvent(r) \/ DeleteFails(r)
  \/ Deliver
  \/ OtherClient

Spec == Init /\ [][Next]_vars

-----------------------------------------------------------------------------
(***************************************************************************)
(* Properties.                                                             *)
(***************************************************************************)

\* The ETags, the stored event as it is read back, the guests' calendars and
\* the mail have the shapes the handlers of calendar_write.go expect.
TypeOK ==
  /\ dep \in Deployments
  /\ obj # None => obj.ver \in Nat /\ GetEvent \in Event
  /\ vers \in Nat
  /\ post \subseteq [method: {"REQUEST", "CANCEL"}, seq: Nat,
                     when: Whens \cup {None}, to: Guests]
  /\ held \in [Guests -> [seq: Int, when: Whens \cup {None}]]
  /\ torn \in BOOLEAN
  /\ unsent \subseteq Guests
  /\ \A r \in Requests :
       /\ req[r].pc \in {"idle", "invite", "cancel", "put", "remove", "done"}
       /\ req[r].base \in [ver: Nat, ev: Event] \cup {None}
       /\ req[r].new \in Event \cup {None}
       /\ req[r].ifm \in Nat \cup {None}

\* A PATCH with an ETag in If-Match never destroys a change: the object it
\* replaces is the very one its merge started from, although the GET, the mail
\* and the conditional PUT are separate calls and the ETag comes from the client
\* (updateEvent and UpdateEventIfMatch).
NoLostUpdate ==
  [][\A r \in Requests :
       (req[r].pc = "put" /\ req'[r].pc = "done" /\ Conditional(r) /\ obj' # obj)
         => obj # None /\ obj.ver = req[r].base.ver]_vars

\* Nothing is under way, and the storage-only tier is what the server drives.
Settled ==
  /\ dep.sched /\ ~dep.native
  /\ post = {}
  /\ \A r \in Requests : ~Open(r)

Holds(g) == held[g].when = GetEvent.when

\* When requests do not overlap and no write fails, SCHEDULE-STATUS tells the
\* truth: a guest marked as sent has the meeting's present time in its own
\* calendar, whatever SMTP lost, delayed or reordered (sendRequest,
\* recordSchedulingOutcome, reinviteOnUpdate).
Honest ==
  (Settled /\ ~torn /\ obj # None) =>
    \A g \in Recipients(GetEvent) : GetEvent.status[g] = "sent" => Holds(g)

\* Under the same conditions nobody keeps a meeting they were dropped from or
\* that was deleted, unless the CANCEL could not be submitted, or the DELETE
\* ended with an error after the server had carried it out (removedRecipients,
\* cancelInvitations, sendCancelTo).
Withdrawn ==
  (Settled /\ ~torn /\ vers > 0) =>
    \A g \in Guests \ unsent :
      (obj = None \/ GetEvent.part[g] = None) => held[g].when = None

\* What recordSchedulingOutcome says of the stored event: that it "reflects
\* delivery", also when a write was refused after its mail had gone out.
NoticeStands ==
  (Settled /\ obj # None) =>
    \A g \in Recipients(GetEvent) : GetEvent.status[g] = "sent" => Holds(g)

=============================================================================
