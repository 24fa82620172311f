----------------------------- MODULE Invitations -----------------------------
(***************************************************************************)
(* The inbound half of scheduling: schedrun.Run watches the inbox over     *)
(* IMAP IDLE, asks for what changed (Client.Delta, QRESYNC), fetches each  *)
(* message and turns invitations into tentative events (itip.ProcessRequest *)
(* over the CalDAV adapter).                                               *)
(*                                                                         *)
(* Three goroutines matter: Watch, the unilateral-data handler of the IMAP *)
(* client, and the drain goroutine that runs onChange; a channel of        *)
(* capacity one joins the last two.  Mail arrives, is flagged and is       *)
(* expunged while they run, and the user edits, answers and deletes the    *)
(* event through the API.  All invitations here are of one UID: events are *)
(* found and stored by UID, so different ones do not meet.                 *)
(*                                                                         *)
(* Wrong... definitions are mistaken variants, see ConnPool.               *)
(***************************************************************************)
EXTENDS Integers

CONSTANTS
  MaxMail,      \* bound on the messages that arrive
  MaxMod,       \* bound on the mod-sequence
  MaxValidity,  \* bound on how often the folder is recreated
  MaxSeq,       \* bound on the SEQUENCE that edits of the user count up to
  Edits,        \* requests of the user that may edit the event at the same time
  Seqs,         \* SEQUENCE values found in invitations, as sent
  Other,        \* a message that is no REQUEST, or cannot be parsed
  None          \* no value

\* UIDs, in the order of arrival.
Mail == 1 .. MaxMail

\* An invitation: its SEQUENCE, and whether it is about one occurrence
\* (RECURRENCE-ID) or about the whole series.
Invite == [seq : Seqs, inst : BOOLEAN]

\* What a token holds: UIDVALIDITY and mod-sequence.
Mark == [v : Nat, mod : Nat]

\* What SELECT tells: these, and how many messages have arrived.
SelectData == [v : Nat, mod : Nat, n : 0 .. MaxMail]

ASSUME InvitationConstants ==
  /\ MaxMail \in Nat
  /\ MaxMod \in Nat
  /\ MaxValidity \in Nat
  /\ MaxSeq \in Nat
  /\ Seqs \subseteq Int
  /\ None \notin Int \cup Invite \cup {Other}

VARIABLES
  \* the IMAP server
  body,     \* what each message is; None before it arrives
  mod,      \* MODSEQ of each message in the inbox; 0: not there
  top,      \* HIGHESTMODSEQ
  arrived,  \* the last UID given out
  validity, \* UIDVALIDITY
  \* the watch
  watch,    \* off, selected, ready (the handler is set), idle, ended
  news,     \* EXISTS or EXPUNGE not yet announced on the watch connection
  signal,   \* the channel holds a signal
  \* onChange
  pc,
  token,    \* the delta token, None before the baseline
  sel,      \* what SELECT told the Delta under way
  todo,     \* the messages of this delta still to be handled
  got,      \* the calendar object as WriteInstanceOverride read it
  \* the attendee's calendar
  obj,      \* the SEQUENCEs of the series and of the overridden occurrence
  edit,     \* per request of the user: the SEQUENCE it read; None: not under way
  \* history
  unseen,   \* messages changed since a delta last returned them
  due,      \* of these, the arrivals that IDLE announces
  done,     \* the invitations handled and not overridden by the user since
  known     \* per request of the user: done when it read the event

server == <<body, mod, top, arrived, validity>>
chan == <<watch, news, signal>>
user == <<edit, known>>
vars == <<server, chan, pc, token, sel, todo, got, obj, unseen, due, done, user>>

NoObject == [master |-> None, over |-> None]

Init ==
  /\ arrived \in 0 .. MaxMail
  /\ body \in [Mail -> Invite \cup {Other, None}]
  /\ \A m \in Mail : body[m] # None <=> m <= arrived
  /\ mod = [m \in Mail |-> IF m <= arrived THEN m ELSE 0]
  /\ top = arrived
  /\ validity = 0
  /\ watch = "off" /\ news = FALSE /\ signal = FALSE
  /\ pc = "select"
  /\ token = None
  /\ sel = None
  /\ todo = {}
  /\ got = NoObject
  /\ obj = NoObject
  /\ edit = [u \in Edits |-> None]
  /\ known = [u \in Edits |-> {}]
  /\ unseen = 1 .. arrived
  /\ due = {}
  /\ done = {}

-----------------------------------------------------------------------------
(* The IMAP server and the user (external).                                *)

Selected == watch \in {"selected", "ready", "idle"}

\* What is announced from here on reaches the channel.
Heard == watch \in {"ready", "idle"}

Arrive(b) ==
  LET m == arrived + 1
  IN /\ arrived < MaxMail /\ top < MaxMod
     /\ arrived' = m
     /\ top' = top + 1
     /\ body' = [body EXCEPT ![m] = b]
     /\ mod' = [mod EXCEPT ![m] = top + 1]
     /\ news' = (news \/ Selected)
     /\ unseen' = unseen \cup {m}
     /\ due' = IF Heard THEN due \cup {m} ELSE due
     /\ UNCHANGED <<validity, watch, signal, pc, token, sel, todo, got, obj, done, user>>

\* A flag changes: the mod-sequence advances, but neither EXISTS nor EXPUNGE is
\* sent.
Flag(m) ==
  /\ mod[m] # 0 /\ top < MaxMod
  /\ top' = top + 1
  /\ mod' = [mod EXCEPT ![m] = top + 1]
  /\ unseen' = unseen \cup {m}
  /\ UNCHANGED <<body, arrived, validity, chan, pc, token, sel, todo, got, obj, due, done, user>>

Expunge(m) ==
  /\ mod[m] # 0 /\ top < MaxMod
  /\ top' = top + 1
  /\ mod' = [mod EXCEPT ![m] = 0]
  /\ news' = (news \/ Selected)
  /\ unseen' = unseen \ {m}
  /\ due' = due \ {m}
  /\ UNCHANGED <<body, arrived, validity, watch, signal, pc, token, sel, todo, got, obj, done, user>>

\* The folder is deleted and recreated with the same messages in it: the idling
\* session ends, the other one finds out at its next SELECT.
Recreate ==
  /\ validity < MaxValidity
  /\ validity' = validity + 1
  /\ watch' = IF Selected THEN "ended" ELSE watch
  /\ UNCHANGED <<body, mod, top, arrived, news, signal, pc, token, sel, todo, got, obj,
                 unseen, due, done, user>>

\* A PATCH of the event, or an answer to the invitation, reads the series.
UserRead(u) ==
  /\ edit[u] = None /\ obj.master # None
  /\ edit' = [edit EXCEPT ![u] = obj.master]
  /\ known' = [known EXCEPT ![u] = done]
  /\ UNCHANGED <<server, chan, pc, token, sel, todo, got, obj, unseen, due, done>>

UserEnds(u) ==
  /\ edit' = [edit EXCEPT ![u] = None]
  /\ known' = [known EXCEPT ![u] = {}]

\* It writes what it made of what it read, without a precondition: one VEVENT with
\* the SEQUENCE that was read, or the next one where MeUpdateEvents takes the user
\* for the organizer of what changed.  What was handled in between is overridden.
\* (With If-Match the write is refused then.)
UserWrite(u) ==
  /\ edit[u] # None
  /\ \E q \in {edit[u], edit[u] + 1} : q <= MaxSeq /\ obj' = [master |-> q, over |-> None]
  /\ done' = done \cap known[u]
  /\ UserEnds(u)
  /\ UNCHANGED <<server, chan, pc, token, sel, todo, got, unseen, due>>

\* The write is refused or fails.
UserGiveUp(u) ==
  /\ edit[u] # None
  /\ UserEnds(u)
  /\ UNCHANGED <<server, chan, pc, token, sel, todo, got, obj, unseen, due, done>>

\* The user deletes the event from the calendar.
UserDelete ==
  /\ obj # NoObject
  /\ obj' = NoObject
  /\ done' = {}
  /\ UNCHANGED <<server, chan, pc, token, sel, todo, got, unseen, due, user>>

-----------------------------------------------------------------------------
(* Client.Watch                                                            *)

\* The baseline is taken; SELECT on the watch connection.
WatchSelect ==
  /\ watch = "off" /\ token # None
  /\ watch' = "selected"
  /\ UNCHANGED <<server, news, signal, pc, token, sel, todo, got, obj, unseen, due, done, user>>

\* The handler is set and the drain goroutine started.
setUnilateral ==
  /\ watch = "selected"
  /\ watch' = "ready"
  /\ UNCHANGED <<server, news, signal, pc, token, sel, todo, got, obj, unseen, due, done, user>>

Idle ==
  /\ watch = "ready"
  /\ watch' = "idle"
  /\ UNCHANGED <<server, news, signal, pc, token, sel, todo, got, obj, unseen, due, done, user>>

\* SELECT, IDLE or the connection fails, or the context is cancelled: Watch
\* returns, and with it Run.
WatchEnd ==
  /\ watch # "ended" /\ token # None
  /\ watch' = "ended"
  /\ UNCHANGED <<server, news, signal, pc, token, sel, todo, got, obj, unseen, due, done, user>>

\* (The mistaken variant is a channel without a buffer.)
WrongNotify ==
  /\ Heard /\ news
  /\ news' = FALSE
  /\ signal' = (pc = "wait")
  /\ UNCHANGED <<server, watch, pc, token, sel, todo, got, obj, unseen, due, done, user>>

\* The server announces the change; a signal that is already pending stands for
\* it too.
Notify ==
  /\ Heard /\ news
  /\ news' = FALSE
  /\ signal' = TRUE
  /\ UNCHANGED <<server, watch, pc, token, sel, todo, got, obj, unseen, due, done, user>>

\* An announcement before the handler is set goes nowhere.
Unheard ==
  /\ watch = "selected" /\ news
  /\ news' = FALSE
  /\ UNCHANGED <<server, watch, signal, pc, token, sel, todo, got, obj, unseen, due, done, user>>

\* The drain goroutine takes a signal and calls onChange.
Drain ==
  /\ pc = "wait" /\ signal
  /\ signal' = FALSE
  /\ pc' = "select"
  /\ UNCHANGED <<server, watch, news, token, sel, todo, got, obj, unseen, due, done, user>>

\* The select of the drain goroutine may as well see that Watch has returned.
DrainStop ==
  /\ pc = "wait" /\ watch = "ended"
  /\ pc' = "stopped"
  /\ UNCHANGED <<server, chan, token, sel, todo, got, obj, unseen, due, done, user>>

-----------------------------------------------------------------------------
(* Client.Delta, for the baseline and in onChange.                         *)

\* SELECT (CONDSTORE): UIDVALIDITY, HIGHESTMODSEQ and the messages that exist.
Select ==
  /\ pc = "select"
  /\ sel' = [v |-> validity, mod |-> top, n |-> arrived]
  /\ pc' = "fetch"
  /\ UNCHANGED <<server, chan, token, todo, got, obj, unseen, due, done, user>>

\* The baseline fails and Run returns; a later sync keeps the old token and waits
\* for the next signal.
DeltaFail ==
  /\ pc \in {"select", "fetch"}
  /\ pc' = IF token = None THEN "stopped" ELSE "wait"
  /\ sel' = None
  /\ due' = {}
  /\ UNCHANGED <<server, chan, token, todo, got, obj, unseen, done, user>>

\* The baseline, or the folder was recreated: everything is asked for.
Full == token = None \/ token.v # sel.v

\* CHANGEDSINCE.
Since == IF Full THEN 0 ELSE token.mod

\* The last message that FETCH covers: those SELECT counted, or all by UID, and of
\* the ones that came after SELECT the session may know a few.
Reach == IF Full THEN {sel.n} ELSE sel.n .. arrived

Changed(n) == {m \in 1 .. n : mod[m] > Since}

WrongNextToken == [v |-> sel.v, mod |-> top]

NextToken == [v |-> sel.v, mod |-> sel.mod]

\* The baseline keeps the token only; onChange handles what it got.
Fetch(n) ==
  /\ pc = "fetch" /\ sel.v = validity
  /\ n \in Reach
  /\ token' = NextToken
  /\ todo' = IF token = None THEN {} ELSE Changed(n)
  /\ pc' = IF todo' = {} THEN "wait" ELSE "raw"
  /\ unseen' = unseen \ Changed(n)
  /\ due' = due \ Changed(n)
  /\ UNCHANGED <<server, chan, sel, got, obj, done, user>>

-----------------------------------------------------------------------------
(* The loop over the messages: newest first.                               *)

\* The message whose turn it is.
Newest(m) == m \in todo /\ \A k \in todo : k <= m

\* On to the next message.
Advance(m) ==
  /\ todo' = todo \ {m}
  /\ pc' = IF todo' = {} THEN "wait" ELSE "raw"
  /\ got' = NoObject

\* RawMessage succeeds if the message is still there under the same UIDVALIDITY.
\* What is no REQUEST is skipped.
Raw(m) ==
  /\ pc = "raw" /\ Newest(m)
  /\ mod[m] # 0 /\ sel.v = validity
  /\ IF body[m] = Other THEN Advance(m) ELSE pc' = "find" /\ UNCHANGED <<todo, got>>
  /\ UNCHANGED <<server, chan, token, sel, obj, unseen, due, done, user>>

\* A message whose fetch, lookup or write fails is reported and not tried again.
Skip(m) ==
  /\ pc \in {"raw", "find", "put", "get", "override"} /\ Newest(m)
  /\ Advance(m)
  /\ UNCHANGED <<server, chan, token, sel, obj, unseen, due, done, user>>

WrongSequenceToUint(s) == s

sequenceToUint(s) == IF s < 0 THEN 0 ELSE s

SeqOf(m) == sequenceToUint(body[m].seq)

\* An equal or lower SEQUENCE is a duplicate or stale.
WrongStale(m) == FALSE

Stale(m) == ~ body[m].inst /\ SeqOf(m) <= obj.master

\* FindEventByUID finds the series; an object without its master is skipped.
Found == obj.master # None

Handled(m) == done' = done \cup {m}

Find(m) ==
  /\ pc = "find" /\ Newest(m)
  /\ \/ /\ Found /\ body[m].inst
        /\ pc' = "get"
        /\ UNCHANGED <<todo, got, done>>
     \/ /\ Found /\ Stale(m)
        /\ Handled(m)
        /\ Advance(m)
     \/ /\ IF Found THEN ~ body[m].inst /\ ~ Stale(m) ELSE TRUE
        /\ pc' = "put"
        /\ UNCHANGED <<todo, got, done>>
  /\ UNCHANGED <<server, chan, token, sel, obj, unseen, due, user>>

\* CreateEvent or UpdateEvent: a PUT of one VEVENT to the object of the UID.
Put(m) ==
  /\ pc = "put" /\ Newest(m)
  /\ obj' = IF body[m].inst
            THEN [master |-> None, over |-> SeqOf(m)]
            ELSE [master |-> SeqOf(m), over |-> None]
  /\ Handled(m)
  /\ Advance(m)
  /\ UNCHANGED <<server, chan, token, sel, unseen, due, user>>

\* WriteInstanceOverride: GET, then PUT with the override added or replaced.
GetObject(m) ==
  /\ pc = "get" /\ Newest(m) /\ obj # NoObject
  /\ got' = obj
  /\ pc' = "override"
  /\ UNCHANGED <<server, chan, token, sel, todo, obj, unseen, due, done, user>>

PutOverride(m) ==
  /\ pc = "override" /\ Newest(m)
  /\ obj' = [got EXCEPT !.over = SeqOf(m)]
  /\ Handled(m)
  /\ Advance(m)
  /\ UNCHANGED <<server, chan, token, sel, unseen, due, user>>

-----------------------------------------------------------------------------

LoopStep ==
  \/ Drain \/ DrainStop
  \/ Select \/ DeltaFail
  \/ \E n \in 0 .. MaxMail : Fetch(n)
  \/ \E m \in Mail :
       Raw(m) \/ Skip(m) \/ Find(m) \/ Put(m) \/ GetObject(m) \/ PutOverride(m)

WatchStep == WatchSelect \/ setUnilateral \/ Idle

World ==
  \/ \E b \in Invite \cup {Other} : Arrive(b)
  \/ \E m \in Mail : Flag(m) \/ Expunge(m)
  \/ Recreate
  \/ Unheard
  \/ \E u \in Edits : UserRead(u) \/ UserWrite(u) \/ UserGiveUp(u)
  \/ UserDelete

Next == LoopStep \/ WatchStep \/ WatchEnd \/ Notify \/ World

Spec == Init /\ [][Next]_vars

\* The goroutines run, and a server announces what it has to announce to a client
\* that idles.  Nothing makes the watch end.
FairSpec ==
  /\ Spec
  /\ WF_vars(LoopStep)
  /\ WF_vars(WatchStep)
  /\ WF_vars(Notify)

-----------------------------------------------------------------------------
(* Properties.                                                             *)

Object == [master : Nat \cup {None}, over : Nat \cup {None}]

\* Every variable keeps its type: in particular no negative SEQUENCE, which the
\* wire allows, is stored.
TypeOK ==
  /\ body \in [Mail -> Invite \cup {Other, None}]
  /\ mod \in [Mail -> Nat]
  /\ top \in Nat
  /\ arrived \in 0 .. MaxMail
  /\ validity \in Nat
  /\ watch \in {"off", "selected", "ready", "idle", "ended"}
  /\ news \in BOOLEAN
  /\ signal \in BOOLEAN
  /\ pc \in {"wait", "select", "fetch", "raw", "find", "put", "get", "override", "stopped"}
  /\ token \in Mark \cup {None}
  /\ sel \in SelectData \cup {None}
  /\ todo \subseteq Mail
  /\ got \in Object
  /\ obj \in Object
  /\ unseen \subseteq Mail
  /\ due \subseteq unseen
  /\ done \subseteq Mail
  /\ edit \in [Edits -> Nat \cup {None}]
  /\ known \in [Edits -> SUBSET Mail]

\* The token never passes a message that no delta has returned since it changed,
\* although messages arrive and change between the SELECT that gives the token and
\* the FETCH that gives the messages.
NoneMissed ==
  token # None /\ token.v = validity => \A m \in unseen : mod[m] > token.mod

\* Whatever the order, the repetitions and the failures, the stored series is not
\* older than any invitation to it that was handled: a delta lists the newest
\* first, so the older one comes second.  Only the user takes it back: by deleting
\* the event, or by an edit that read the event before the invitation was handled
\* and wrote after (done).
SeriesLatest ==
  \A m \in done :
    ~ body[m].inst => obj.master # None /\ obj.master >= SeqOf(m)

\* A message that arrives once the watch has set its handler is returned by a delta
\* in the end, unless the watch ends or a sync fails, however the signal is
\* coalesced with others.
ArrivalSeen == \A m \in Mail : m \in due ~> m \notin due \/ watch = "ended"

=============================================================================
