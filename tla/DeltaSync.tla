----------------------------- MODULE DeltaSync -----------------------------
(***************************************************************************)
(* Delta queries: the handlers of /me/messages/delta, /me/events/delta and *)
(* /me/contacts/delta (internal/server/delta_tombstone.go) over the Delta  *)
(* methods of the six backends, and a client that mirrors one folder,      *)
(* calendar or address book with them.                                     *)
(*                                                                         *)
(* A Delta is several remote calls: one that says what changed since the   *)
(* client's token and names the next token, and one or more that fetch     *)
(* the changed items, while the folder goes on changing.  An action is one *)
(* remote call with the computation up to the next one.                    *)
(*                                                                         *)
(* The folder's history is a counter of changes: a token (MODSEQ, JMAP     *)
(* state, sync-token) is a value of it, 0 the empty token, and the version *)
(* of an item is the change that last touched it.                          *)
(***************************************************************************)
EXTENDS Integers

CONSTANTS
  Items,      \* the messages, events or contacts there may be
  MaxState    \* bound on the changes of the folder

ASSUME DeltaAssumption == MaxState \in Nat

VARIABLES
  backend,  \* which Delta serves the folder
  box,      \* where an item is: "none" (not yet), "here", "both" (here and in
            \* another folder, whose id sorts first), "away" or "gone"
  last,     \* the change that last touched an item
  now,      \* changes so far
  since,    \* tokens below it are of no use: changes forgotten, folder recreated
  mirror,   \* the client's copy: the version of each item, 0 for none
  link,     \* the token of the client's deltaLink
  call,     \* the request under way
  unsaid    \* history: items of the mirror that a full answer left out

deltaVars == <<backend, box, last, now, since, mirror, link, call, unsaid>>

Backends == {"imap", "jmap mail", "jmap calendar", "jmap contacts", "caldav", "carddav"}

Dav == {"caldav", "carddav"}

\* JMAP ids outlive a move to another folder, and an item may be in several;
\* IMAP and DAV give a new id.
Jmap == {"jmap mail", "jmap calendar", "jmap contacts"}

Here == {i \in Items : box[i] \in {"here", "both"}}
Gone == {i \in Items : box[i] = "gone"}

\* Whether an adapter takes an item to be in the folder: the JMAP calendar one
\* looks at the first of the event's calendars only.
Shown(i) == box[i] = "here" \/ (box[i] = "both" /\ backend # "jmap calendar")

\* The items touched after a token.
After(token) == {i \in Items : last[i] > token}

Nothing == [i \in Items |-> 0]

NoCall == [pc |-> "idle", full |-> FALSE, next |-> 0, todo |-> {},
           changed |-> Nothing, removed |-> {}]

DeltaInit ==
  /\ backend \in Backends
  /\ box \in [Items -> {"none", "here"}]
  /\ last = [i \in Items |-> IF box[i] = "here" THEN 1 ELSE 0]
  /\ now = 1
  /\ since \in {0, 1}
  /\ mirror = Nothing
  /\ link = 0
  /\ call = NoCall
  /\ unsaid = {}

-----------------------------------------------------------------------------
(***************************************************************************)
(* What changed, and the next token.                                       *)
(***************************************************************************)

\* The client GETs its deltaLink, and the first call answers.
Begin(full, next, todo, removed, pc) ==
  /\ call.pc = "idle"
  /\ call' = [pc |-> pc, full |-> full, next |-> next, todo |-> todo,
              changed |-> Nothing, removed |-> removed]
  /\ UNCHANGED <<backend, box, last, now, since, mirror, link, unsaid>>

\* Without a token, or with one of a folder since recreated, all is reported.
Initial == link = 0 \/ link < since

\* IMAP: SELECT tells UIDVALIDITY and the high MODSEQ.  A full answer is for
\* the messages the folder has now.
Select ==
  /\ backend = "imap"
  /\ Begin(Initial, now, IF Initial THEN Here ELSE Items, {}, "fetch")

\* Nothing to fetch, nothing asked.
Fetching(todo) == IF todo = {} THEN "answer" ELSE "fetch"

\* JMAP: one page of the account's changes, in any folder.  It ends at some
\* state up, and may name items that have changed again since.  The calendar
\* and contact adapters send the empty token like any other.
JmapChanges ==
  \E up \in link .. now, again \in SUBSET After(link) :
    LET page == After(link) \ After(up)
        todo == (page \ Gone) \cup again
    IN  /\ backend \in Jmap
        /\ backend = "jmap mail" => link # 0
        /\ since <= link
        /\ link < now => link < up
        /\ again \subseteq After(up)
        /\ Begin(FALSE, up, todo, page \cap Gone, Fetching(todo))

\* JMAP mail, initial sync or cannotCalculateChanges: the state is read first.
EmailState ==
  /\ backend = "jmap mail"
  /\ Initial
  /\ Begin(TRUE, now, {}, {}, "query")

\* ... and then the messages of the folder: all of them, from a server that
\* sets no limit of its own.
QueryEmailIDs ==
  /\ call.pc = "query"
  /\ call' = [call EXCEPT !.pc = Fetching(Here), !.todo = Here]
  /\ UNCHANGED <<backend, box, last, now, since, mirror, link, unsaid>>

\* CalDAV and CardDAV: sync-collection lists the hrefs.  The server refuses a
\* token it does not know any more, each time.
SyncCollection ==
  LET todo == Here \cap After(link)
  IN  /\ backend \in Dav
      /\ link = 0 \/ since <= link
      /\ Begin(link = 0, now, todo, IF link = 0 THEN {} ELSE Gone \cap After(link),
               Fetching(todo))

-----------------------------------------------------------------------------
(***************************************************************************)
(* The changed items themselves, as they are when they are fetched.        *)
(***************************************************************************)

\* The versions of the items found, on top of what was fetched before.
Fetched(found) == [i \in Items |-> IF i \in found THEN last[i] ELSE call.changed[i]]

WrongFetch(found, removed, left) ==
  /\ call.pc = "fetch"
  /\ call' = [call EXCEPT !.pc = Fetching(left), !.todo = left, !.next = now,
                          !.changed = Fetched(found), !.removed = removed]
  /\ UNCHANGED <<backend, box, last, now, since, mirror, link, unsaid>>

\* The next token stays the one of the first call.
Fetch(found, removed, left) ==
  /\ call.pc = "fetch"
  /\ call' = [call EXCEPT !.pc = Fetching(left), !.todo = left,
                          !.changed = Fetched(found), !.removed = removed]
  /\ UNCHANGED <<backend, box, last, now, since, mirror, link, unsaid>>

\* IMAP: UID FETCH 1:* (CHANGEDSINCE token VANISHED), or all of the messages
\* selected.  A folder that is recreated ends the session.
FetchDelta ==
  /\ backend = "imap"
  /\ since <= call.next
  /\ IF call.full
     THEN Fetch(call.todo \cap Here, {}, {})
     ELSE Fetch(Here \cap After(link), Gone \cap After(link), {})

\* JMAP (Email/get, CalendarEvent/get, ContactCard/get): what still exists; a
\* page of changes is narrowed to the folder.
GetEmails ==
  LET found == IF call.full THEN call.todo \ Gone ELSE {i \in call.todo : Shown(i)}
  IN  /\ backend \in Jmap
      /\ Fetch(found, call.removed, {})

\* CalDAV: one REPORT for all hrefs; those deleted meanwhile have no data.
MultiGetCalendar ==
  /\ backend = "caldav"
  /\ Fetch(call.todo \cap Here, call.removed, {})

\* CardDAV: one GET for each href; a card deleted meanwhile fails the delta.
GetAddressObject ==
  \E i \in call.todo \cap Here :
    /\ backend = "carddav"
    /\ Fetch({i}, call.removed, call.todo \ {i})

\* A call fails, or the answer is lost on its way: the client keeps its link.
DeltaFails ==
  /\ call.pc # "idle"
  /\ call' = NoCall
  /\ UNCHANGED <<backend, box, last, now, since, mirror, link, unsaid>>

\* The page lists the changed items and then the tombstones, and the client
\* applies it in that order and keeps the link.
WriteDelta ==
  /\ call.pc = "answer"
  /\ mirror' = [i \in Items |->
       IF i \in call.removed THEN 0
       ELSE IF call.changed[i] # 0 THEN call.changed[i] ELSE mirror[i]]
  /\ link' = call.next
  /\ unsaid' = {i \in Items : /\ mirror'[i] # 0
                              /\ call.changed[i] = 0
                              /\ i \in unsaid \/ call.full}
  /\ call' = NoCall
  /\ UNCHANGED <<backend, box, last, now, since>>

\* A user without a calendar or an address book: an empty page and no token.
NoCollection ==
  /\ call.pc = "idle"
  /\ backend \in Dav \cup {"jmap calendar", "jmap contacts"}
  /\ Here = {}
  /\ link' = 0
  /\ UNCHANGED <<backend, box, last, now, since, mirror, call, unsaid>>

-----------------------------------------------------------------------------
(***************************************************************************)
(* The folder changes.                                                     *)
(***************************************************************************)

\* An item is created, changed, moved, filed twice or deleted.  A DAV href may be used
\* again, and only JMAP knows of items in other folders.
ItemChanges ==
  \E i \in Items, to \in {"here", "both", "away", "gone"} :
    /\ now < MaxState
    /\ box[i] = "gone" => backend \in Dav /\ to = "here"
    /\ box[i] = "none" => to # "gone"
    /\ to \in {"both", "away"} => backend \in Jmap
    /\ box' = [box EXCEPT ![i] = to]
    /\ last' = [last EXCEPT ![i] = now + 1]
    /\ now' = now + 1
    /\ UNCHANGED <<backend, since, mirror, link, call, unsaid>>

\* An IMAP folder is deleted and made anew: UIDVALIDITY changes.
Recreate ==
  /\ now < MaxState
  /\ backend = "imap"
  /\ box' = [i \in Items |-> IF i \in Here THEN "gone" ELSE box[i]]
  /\ last' = [i \in Items |-> IF i \in Here THEN now + 1 ELSE last[i]]
  /\ now' = now + 1
  /\ since' = now + 1
  /\ UNCHANGED <<backend, mirror, link, call, unsaid>>

\* The server drops its record of changes up to now.
Forget ==
  /\ backend # "imap"
  /\ since' = now
  /\ UNCHANGED <<backend, box, last, now, mirror, link, call, unsaid>>

DeltaNext ==
  \/ Select \/ JmapChanges \/ EmailState \/ QueryEmailIDs \/ SyncCollection
  \/ FetchDelta \/ GetEmails \/ MultiGetCalendar \/ GetAddressObject
  \/ DeltaFails \/ WriteDelta \/ NoCollection
  \/ ItemChanges \/ Recreate \/ Forget

DeltaSpec == DeltaInit /\ [][DeltaNext]_deltaVars

-----------------------------------------------------------------------------
(***************************************************************************)
(* Properties.                                                             *)
(***************************************************************************)

\* A deltaLink stands for what the client has: of every item that has not
\* changed since the link's token the mirror holds that very version, and no
\* item that was deleted before it, however the folder changed between the
\* calls of a delta, whatever answers were lost, and however the changes were
\* paged.  Three exceptions are the code's own: a full answer to a client that
\* has a mirror names no deletions (unsaid); a message, event or contact that a
\* JMAP server moved to another folder drops out of the changes; and a JMAP
\* event that is also in a calendar with an earlier id is taken to be only
\* there, and never reported (toCalendarEvent; Client.Delta of each backend,
\* writeDelta).
Mirrored ==
  link # 0 =>
    \A i \in Items \ After(link) :
      /\ Shown(i) => mirror[i] = last[i]
      /\ box[i] \in {"none", "gone"} => mirror[i] = 0 \/ i \in unsaid

=============================================================================
