------------------------------ MODULE Sharing ------------------------------
(***************************************************************************)
(* Calendar sharing: the calendarPermissions handlers                      *)
(* (internal/server/calendar_permissions.go) over JMAP Sharing             *)
(* (internal/calendar/jmap/sharing.go), for one calendar.                  *)
(*                                                                         *)
(* All grants of a calendar are one map, shareWith, that Calendar/set      *)
(* replaces whole.  A request reads it, changes one entry and writes it    *)
(* back, without a condition on what it read: "concurrent writers are      *)
(* last-write-wins".  An action is one remote call.                        *)
(***************************************************************************)
EXTENDS Integers, FiniteSets

CONSTANTS
  Changes,    \* the HTTP requests that change grants; each is served once
  Grantees,   \* principals the calendar may be shared with
  Roles,      \* the Graph roles that bodies name
  OwnShares,  \* grants made by other clients: rights
  NoGrant     \* absent: no grant, no role

Flags == {"freeBusy", "items", "writeAll", "writeOwn", "private", "rsvp", "share", "delete"}

\* The rights that change a calendar or who sees it.
Writing == {"writeAll", "writeOwn", "private", "share", "delete"}

\* The roles the server knows; a body may name any other.
PermissionRole ==
  {"none", "freeBusyRead", "limitedRead", "read", "write", "custom",
   "delegateWithoutPrivateEventAccess", "delegateWithPrivateEventAccess"}

ASSUME SharingAssumption ==
  /\ OwnShares \subseteq SUBSET Flags
  /\ NoGrant \notin Roles \cup PermissionRole
  /\ \A rights \in SUBSET Flags : rights # NoGrant

VARIABLES
  share,    \* shareWith: the rights of each grantee, or NoGrant
  change,   \* the requests
  given     \* history: the rights to write that each grantee was ever given

shareVars == <<share, change, given>>

-----------------------------------------------------------------------------
(***************************************************************************)
(* Seven roles, eight flags: both translations lose something.             *)
(***************************************************************************)

Read == {"freeBusy", "items"}
Write == {"freeBusy", "items", "writeAll", "writeOwn", "rsvp", "delete"}

WrongRoleToRights(role) ==
  CASE role = "none" -> {}
    [] role = "freeBusyRead" -> {"freeBusy"}
    [] role = "limitedRead" -> Read
    [] role = "read" -> Read \cup {"rsvp"}
    [] role = "delegateWithPrivateEventAccess" -> Write \cup {"private"}
    [] OTHER -> Write

\* An unknown role, or none in the body of a create, grants no more than reading.
RoleToRights(role) ==
  CASE role = "none" -> {}
    [] role = "freeBusyRead" -> {"freeBusy"}
    [] role = "limitedRead" -> Read
    [] role = "read" -> Read \cup {"rsvp"}
    [] role \in {"write", "delegateWithoutPrivateEventAccess"} -> Write
    [] role = "delegateWithPrivateEventAccess" -> Write \cup {"private"}
    [] OTHER -> Read

RightsToRole(rights) ==
  CASE {"writeAll", "private"} \subseteq rights -> "delegateWithPrivateEventAccess"
    [] "writeAll" \in rights /\ "private" \notin rights -> "write"
    [] "writeAll" \notin rights /\ "items" \in rights -> "read"
    [] rights \cap {"writeAll", "items"} = {} /\ "freeBusy" \in rights -> "freeBusyRead"
    [] OTHER -> "none"

\* The grant of p, as a role: lists and lookups read the whole map.
GetCalendarPermission(p) == IF share[p] = NoGrant THEN NoGrant ELSE RightsToRole(share[p])

\* The role of the body, if it names one, overlays the role that was read.
MergeGraphPermission(old, role) == IF role = NoGrant THEN old ELSE role

-----------------------------------------------------------------------------
(***************************************************************************)
(* The requests.  Handlers resolve or look up the grantee and then call    *)
(* setShare, which reads the map once more, edits it and writes it.        *)
(***************************************************************************)

NoChange == [pc |-> "idle", to |-> NoGrant, rights |-> NoGrant, must |-> FALSE,
             next |-> NoGrant, gone |-> {}, clean |-> TRUE]

\* A grantee is named by address; the address may belong to nobody.
ResolvePrincipal == Grantees \cup {NoGrant}

Answer(pc) == [NoChange EXCEPT !.pc = pc]

Goto(c, new) == change' = [change EXCEPT ![c] = new]

\* What giving somebody a role lets them write, by the meaning Graph gives the
\* role: only three roles write, and any other name, known or not, gives nothing
\* (history: RoleToRights is checked against it).
Entitled(role) ==
  IF role = "delegateWithPrivateEventAccess" THEN {"writeAll", "writeOwn", "delete", "private"}
  ELSE IF role \in {"write", "delegateWithoutPrivateEventAccess"}
       THEN {"writeAll", "writeOwn", "delete"}
       ELSE {}

\* A PATCH that names no role asks for nothing, but rewrites the grant as the
\* nearest role: whoever could write everything may then delete as well.
Rewritten(rights) == IF "writeAll" \in rights THEN {"writeOwn", "delete"} ELSE {}

Gives(p, rights) == given' = [given EXCEPT ![p] = @ \cup rights]

ShareInit ==
  /\ share \in [Grantees -> OwnShares \cup {NoGrant}]
  /\ change = [c \in Changes |-> NoChange]
  /\ given = [p \in Grantees |-> IF share[p] = NoGrant THEN {} ELSE share[p] \cap Writing]

\* What the backend's Create, Update and Delete ask of setShare: the rights (none
\* revokes) and whether the grant must exist.
Ask(c, p, rights, must) ==
  Goto(c, [NoChange EXCEPT !.pc = "get", !.to = p, !.rights = rights, !.must = must])

\* POST .../calendarPermissions: the address is resolved to a principal.
CreateCalendarPermission(c) ==
  \E p \in ResolvePrincipal, role \in Roles \cup {NoGrant} :
    /\ change[c].pc = "idle"
    /\ IF p = NoGrant THEN Goto(c, Answer("error"))
                      ELSE Ask(c, p, RoleToRights(role), FALSE)
    /\ IF p = NoGrant THEN UNCHANGED given ELSE Gives(p, Entitled(role))
    /\ UNCHANGED share

\* PATCH .../calendarPermissions/{id}: the grant is read and the body merged.
UpdateCalendarPermission(c) ==
  \E p \in Grantees, role \in Roles \cup {NoGrant} :
    /\ change[c].pc = "idle"
    /\ IF GetCalendarPermission(p) = NoGrant THEN Goto(c, Answer("notFound"))
       ELSE Ask(c, p, RoleToRights(MergeGraphPermission(GetCalendarPermission(p), role)), TRUE)
    /\ IF share[p] = NoGrant THEN UNCHANGED given
       ELSE Gives(p, IF role = NoGrant THEN Rewritten(share[p]) ELSE Entitled(role))
    /\ UNCHANGED share

\* DELETE .../calendarPermissions/{id}.
DeleteCalendarPermission(c) ==
  \E p \in Grantees :
    /\ change[c].pc = "idle"
    /\ Ask(c, p, NoGrant, TRUE)
    /\ UNCHANGED <<share, given>>

WrongSetShare(c) ==
  LET to == change[c].to
  IN  /\ change[c].pc = "get"
      /\ Goto(c, [change[c] EXCEPT !.pc = "set", !.clean = TRUE,
                                   !.next = [share EXCEPT ![to] = change[c].rights]])
      /\ UNCHANGED <<share, given>>

\* setShare, first half: the map is read; an update or a revocation needs the
\* grant to be in it.
SetShare(c) ==
  LET to == change[c].to
  IN  /\ change[c].pc = "get"
      /\ Goto(c, IF change[c].must /\ share[to] = NoGrant THEN Answer("notFound")
                 ELSE [change[c] EXCEPT !.pc = "set", !.clean = TRUE,
                                        !.next = [share EXCEPT ![to] = change[c].rights]])
      /\ UNCHANGED <<share, given>>

\* Requests that read the map before this write hold an old one, with grants
\* that this write took away (history, for NoComeback and OneGrant).
Overtaken(c, new) ==
  [d \in Changes |->
     IF d # c /\ change[d].pc = "set"
     THEN [change[d] EXCEPT !.clean = FALSE,
             !.gone = @ \cup {p \in Grantees : share[p] # NoGrant /\ new[p] = NoGrant}]
     ELSE change[d]]

WrongCalendarSet(c) ==
  /\ change[c].pc = "set"
  /\ share' = [p \in Grantees |-> IF p = change[c].to THEN change[c].rights ELSE NoGrant]
  /\ \E pc \in {"ok", "error"} : change' = [Overtaken(c, share') EXCEPT ![c] = Answer(pc)]
  /\ UNCHANGED given

\* setShare, second half: the whole map is written back.  The answer may be
\* lost, or not be understood, after the server has taken the map.
CalendarSet(c) ==
  /\ change[c].pc = "set"
  /\ share' = change[c].next
  /\ \E pc \in {"ok", "error"} : change' = [Overtaken(c, share') EXCEPT ![c] = Answer(pc)]
  /\ UNCHANGED given

\* A call fails, and nothing is written.
CallFails(c) ==
  /\ change[c].pc \in {"get", "set"}
  /\ Goto(c, Answer("error"))
  /\ UNCHANGED <<share, given>>

\* The owner revokes a grant in another client.
OwnerRevokes ==
  \E p \in Grantees :
    /\ share[p] # NoGrant
    /\ share' = [share EXCEPT ![p] = NoGrant]
    /\ change' = [d \in Changes |->
         IF change[d].pc = "set"
         THEN [change[d] EXCEPT !.clean = FALSE, !.gone = @ \cup {p}] ELSE change[d]]
    /\ UNCHANGED given

ShareNext ==
  \/ \E c \in Changes :
       \/ CreateCalendarPermission(c) \/ UpdateCalendarPermission(c)
       \/ DeleteCalendarPermission(c) \/ SetShare(c) \/ CalendarSet(c) \/ CallFails(c)
  \/ OwnerRevokes

ShareSpec == ShareInit /\ [][ShareNext]_shareVars

-----------------------------------------------------------------------------
(***************************************************************************)
(* Properties.                                                             *)
(***************************************************************************)

\* Nobody holds a right to write, delete or share, or to see private events,
\* that was not given: by another client, or by a request naming a role that
\* means it, in whatever order the requests read, translate back and forth and
\* write back the grants of everybody (roleToRights: "never silently escalate an
\* unknown role to write").  The exception, which the code has: a PATCH without
\* a role gives who may write everything the rest of the role "write".
WriteAsked ==
  \A p \in Grantees : share[p] # NoGrant => share[p] \cap Writing \subseteq given[p]

\* A revocation is overruled only by a new grant or by a request that had read
\* the map before it: with nothing under way a revoked grant stays revoked.  A
\* PATCH does not bring one back, although it looked the grant up before
\* setShare (requireExisting: "the not-found check sees the same snapshot it
\* writes").
NoComeback ==
  [][\A p \in Grantees :
       (share[p] = NoGrant /\ share'[p] # NoGrant) =>
         \E c \in Changes :
           /\ change[c].pc = "set" /\ change'[c].pc \in {"ok", "error"}
           /\ \/ change[c].to = p /\ ~change[c].must
              \/ p \in change[c].gone]_shareVars

\* A request that nobody overtook changes the grant it names and no other,
\* although it writes everybody's; one that answers with an error has changed
\* that grant or nothing (setShare).
OneGrant ==
  [][\A c \in Changes :
       LET asked == [share EXCEPT ![change[c].to] = change[c].rights]
       IN  (change[c].pc = "set" /\ change'[c].pc \in {"ok", "error"} /\ change[c].clean) =>
             share' = asked \/ (change'[c].pc = "error" /\ share' = share)]_shareVars

=============================================================================
