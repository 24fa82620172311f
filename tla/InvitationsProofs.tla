------------------------- MODULE InvitationsProofs -------------------------
(***************************************************************************)
(* The inbound scheduling loop for any number of messages, mod-sequences,  *)
(* recreations of the folder and SEQUENCE values: type correctness, the    *)
(* delta token never passes an unreported message, and the stored series   *)
(* is never older than an invitation that was handled.                     *)
(***************************************************************************)
EXTENDS Invitations, TLAPS

\* Where an invitation has been recognised and is being handled.
Handling == {"find", "put", "get", "override"}

\* Only mail that has arrived is handled, and only invitations get past Raw.
PlaceInv ==
  /\ \A m \in Mail : m <= arrived => body[m] # None
  /\ \A m \in todo \cup done : m <= arrived
  /\ \A m \in done : body[m] \in Invite
  /\ \A u \in Edits : \A m \in known[u] : m <= arrived /\ body[m] \in Invite
  /\ pc \in Handling => \A m \in Mail : Newest(m) => body[m] \in Invite

\* The numbers the server has given out bound every token, and what SELECT told is
\* older than every message it did not count.
ServerInv ==
  /\ \A m \in Mail : mod[m] <= top /\ (m > arrived => mod[m] = 0)
  /\ \A m \in unseen : mod[m] > 0
  /\ token # None => token.v <= validity /\ token.mod <= top

SelectInv ==
  pc = "fetch" =>
    /\ sel \in SelectData
    /\ sel.v <= validity /\ sel.mod <= top /\ sel.n <= arrived
    /\ \A m \in Mail : m > sel.n /\ mod[m] # 0 => mod[m] > sel.mod

\* The decision taken by Find, or the object read by GetObject, still stands when
\* the PUT comes: nothing but the user comes between, who only shortens what the
\* series has to be newer than.
DecisionInv ==
  /\ pc = "put" =>
       \A m \in Mail : Newest(m) =>
         \A d \in done : ~ body[d].inst => ~ body[m].inst /\ SeqOf(d) <= SeqOf(m)
  /\ pc \in {"get", "override"} => \A m \in Mail : Newest(m) => body[m].inst
  /\ pc = "override" =>
       \A d \in done : ~ body[d].inst => got.master # None /\ got.master >= SeqOf(d)

\* What an edit of the user read is not older than what had been handled then.
EditInv ==
  \A u \in Edits : edit[u] # None =>
    \A d \in known[u] : ~ body[d].inst => edit[u] >= SeqOf(d)

-----------------------------------------------------------------------------
(* The operators.                                                          *)

\* A SEQUENCE as stored is a natural number, whatever was sent.
LEMMA SeqOfType ==
  ASSUME NEW m, body[m] \in Invite
  PROVE  SeqOf(m) \in Nat /\ body[m].inst \in BOOLEAN
<1>1. body[m].seq \in Int /\ body[m].inst \in BOOLEAN
  BY InvitationConstants DEF Invite
<1>. QED  BY <1>1 DEF SeqOf, sequenceToUint

\* The message whose turn it is is one of those to be handled.
LEMMA NewestIn ==
  ASSUME TypeOK, PlaceInv, NEW m \in Mail, Newest(m)
  PROVE  m \in todo /\ m <= arrived
BY DEF Newest, PlaceInv

\* Going on to the next message keeps the types and leaves the handling of this
\* one.
LEMMA AdvanceStep ==
  ASSUME TypeOK, NEW m \in Mail, Advance(m)
  PROVE  /\ todo' \subseteq todo
         /\ pc' \in {"wait", "raw"}
         /\ got' \in Object
BY DEF TypeOK, Advance, Object, NoObject

-----------------------------------------------------------------------------
(* Types, and who is handled.                                              *)

\* The initial state.
LEMMA InitPlaces == Init => TypeOK /\ PlaceInv
<1>. SUFFICES ASSUME Init PROVE TypeOK /\ PlaceInv
  OBVIOUS
<1>1. NoObject \in Object
  BY DEF NoObject, Object
<1>2. mod \in [Mail -> Nat] /\ 1 .. arrived \subseteq Mail
  BY InvitationConstants DEF Init, Mail
<1>3. top \in Nat /\ validity \in Nat
  BY InvitationConstants DEF Init
<1>4. news \in BOOLEAN /\ signal \in BOOLEAN
      /\ edit \in [Edits -> Nat \cup {None}] /\ known \in [Edits -> SUBSET Mail]
  BY DEF Init
<1>5. TypeOK
  BY <1>1, <1>2, <1>3, <1>4 DEF Init, TypeOK
<1>. QED  BY <1>5 DEF Init, PlaceInv, Handling

\* The server's and the user's steps: a new message gets a number nobody handles
\* yet, and no step takes a message away from body.
LEMMA WorldPlaces == TypeOK /\ PlaceInv /\ World => TypeOK' /\ PlaceInv'
<1>. SUFFICES ASSUME TypeOK, PlaceInv, World PROVE TypeOK' /\ PlaceInv'
  OBVIOUS
<1>1. ASSUME NEW b \in Invite \cup {Other}, Arrive(b) PROVE TypeOK' /\ PlaceInv'
  <2>1. arrived' = arrived + 1 /\ arrived' \in Mail /\ top' \in Nat
    BY <1>1, InvitationConstants DEF Arrive, TypeOK, Mail
  <2>2. /\ body' \in [Mail -> Invite \cup {Other, None}]
        /\ body'[arrived + 1] = b
        /\ \A m \in Mail \ {arrived + 1} : body'[m] = body[m]
    BY <1>1, <2>1 DEF Arrive, TypeOK
  <2>3. mod' \in [Mail -> Nat]
    BY <1>1, <2>1 DEF Arrive, TypeOK
  <2>4. news' \in BOOLEAN
    BY <1>1 DEF Arrive, TypeOK, Selected, Heard
  <2>5. unseen' \subseteq Mail /\ due' \subseteq unseen'
    BY <1>1, <2>1 DEF Arrive, TypeOK
  <2>6. UNCHANGED <<validity, watch, signal, pc, token, sel, todo, got, obj, done, edit, known>>
    BY <1>1 DEF Arrive, user
  <2>7. arrived' \in 0 .. MaxMail
    BY <2>1 DEF Mail
  <2>8. TypeOK'
    BY <2>1, <2>2, <2>3, <2>4, <2>5, <2>6, <2>7 DEF TypeOK
  <2>9. \A m \in todo \cup done : m \in Mail /\ m # arrived + 1 /\ m <= arrived
    BY DEF TypeOK, PlaceInv, Mail
  <2>10. \A m \in Mail : m <= arrived' => body'[m] # None
    <3>1. b # None
      BY InvitationConstants
    <3>2. \A m \in Mail : m <= arrived' => m = arrived + 1 \/ m <= arrived
      BY <2>1 DEF TypeOK, Mail
    <3>. QED  BY <2>2, <3>1, <3>2 DEF PlaceInv
  <2>11. \A m \in Mail : Newest(m)' => Newest(m) /\ m \in todo
    BY <2>6 DEF Newest
  <2>12. \A m \in todo' \cup done' : m <= arrived'
    BY <2>1, <2>6, <2>9 DEF TypeOK, Mail
  <2>13. \A u \in Edits : \A m \in known'[u] : m <= arrived' /\ body'[m] \in Invite
    <3>1. \A u \in Edits : \A m \in known[u] : m \in Mail /\ m # arrived + 1 /\ m <= arrived'
      BY <2>1 DEF TypeOK, PlaceInv, Mail
    <3>. QED  BY <2>2, <2>6, <3>1 DEF PlaceInv
  <2>. QED  BY <2>2, <2>6, <2>8, <2>9, <2>10, <2>11, <2>12, <2>13 DEF PlaceInv
<1>2. ASSUME NEW m \in Mail, Flag(m) PROVE TypeOK' /\ PlaceInv'
  <2>1. mod' \in [Mail -> Nat] /\ top' \in Nat
    BY <1>2 DEF Flag, TypeOK
  <2>. QED  BY <1>2, <2>1 DEF Flag, TypeOK, PlaceInv, chan, user, Newest
<1>3. ASSUME NEW m \in Mail, Expunge(m) PROVE TypeOK' /\ PlaceInv'
  <2>1. mod' \in [Mail -> Nat] /\ top' \in Nat
    BY <1>3 DEF Expunge, TypeOK
  <2>2. news' \in BOOLEAN
    BY <1>3 DEF Expunge, TypeOK, Selected
  <2>. QED  BY <1>3, <2>1, <2>2 DEF Expunge, TypeOK, PlaceInv, user, Newest
<1>4. CASE Recreate
  <2>1. watch' \in {"off", "selected", "ready", "idle", "ended"} /\ validity' \in Nat
    BY <1>4 DEF Recreate, TypeOK
  <2>. QED  BY <1>4, <2>1 DEF Recreate, TypeOK, PlaceInv, user, Newest
<1>5. CASE UserDelete
  <2>1. NoObject \in Object
    BY DEF NoObject, Object
  <2>. QED  BY <1>5, <2>1 DEF UserDelete, TypeOK, PlaceInv, server, chan, user, Newest
<1>6. ASSUME NEW u \in Edits, UserRead(u) PROVE TypeOK' /\ PlaceInv'
  <2>1. /\ edit' \in [Edits -> Nat \cup {None}] /\ known' \in [Edits -> SUBSET Mail]
        /\ \A v \in Edits : known'[v] = known[v] \/ known'[v] = done
    BY <1>6 DEF UserRead, TypeOK, Object
  <2>2. UNCHANGED <<server, chan, pc, token, sel, todo, got, obj, unseen, due, done>>
    BY <1>6 DEF UserRead
  <2>3. TypeOK'
    BY <2>1, <2>2 DEF TypeOK, server, chan
  <2>. QED  BY <2>1, <2>2, <2>3 DEF PlaceInv, server, Newest
<1>7. ASSUME NEW u \in Edits, UserWrite(u) \/ UserGiveUp(u) PROVE TypeOK' /\ PlaceInv'
  <2>1. /\ edit' \in [Edits -> Nat \cup {None}] /\ known' \in [Edits -> SUBSET Mail]
        /\ \A v \in Edits : known'[v] = known[v] \/ known'[v] = {}
    BY <1>7 DEF UserWrite, UserGiveUp, UserEnds, TypeOK
  <2>2. UNCHANGED <<server, chan, pc, token, sel, todo, got, unseen, due>>
    BY <1>7 DEF UserWrite, UserGiveUp
  <2>3. obj' \in Object
    BY <1>7 DEF UserWrite, UserGiveUp, TypeOK, Object
  <2>4. done' \subseteq done
    BY <1>7 DEF UserWrite, UserGiveUp
  <2>5. TypeOK'
    BY <2>1, <2>2, <2>3, <2>4 DEF TypeOK, server, chan
  <2>. QED  BY <2>1, <2>2, <2>4, <2>5 DEF PlaceInv, server, Newest
<1>8. CASE Unheard
  <2>1. news' \in BOOLEAN /\ UNCHANGED <<server, watch, signal, pc, token, sel, todo, got, obj,
                                          unseen, due, done, user>>
    BY <1>8 DEF Unheard
  <2>. QED  BY <2>1 DEF TypeOK, PlaceInv, server, user, Newest
<1>. QED  BY <1>1, <1>2, <1>3, <1>4, <1>5, <1>6, <1>7, <1>8 DEF World

\* The watch and the channel touch none of it.
LEMMA WatchPlaces ==
  TypeOK /\ PlaceInv /\ (WatchStep \/ WatchEnd \/ Notify) => TypeOK' /\ PlaceInv'
<1>. SUFFICES ASSUME TypeOK, PlaceInv, WatchStep \/ WatchEnd \/ Notify
              PROVE  TypeOK' /\ PlaceInv'
  OBVIOUS
<1>1. /\ watch' \in {"off", "selected", "ready", "idle", "ended"}
      /\ UNCHANGED <<server, pc, token, sel, todo, got, obj, unseen, due, done, user>>
  BY DEF WatchStep, WatchSelect, setUnilateral, Idle, WatchEnd, Notify, TypeOK
<1>2. news' \in BOOLEAN /\ signal' \in BOOLEAN
  BY DEF WatchStep, WatchSelect, setUnilateral, Idle, WatchEnd, Notify, TypeOK
<1>. QED  BY <1>1, <1>2 DEF server, user, TypeOK, PlaceInv, Newest

\* The delta: what it hands on has arrived.
LEMMA SyncPlaces ==
  ASSUME TypeOK, PlaceInv, SelectInv,
         Drain \/ DrainStop \/ Select \/ DeltaFail \/ \E n \in 0 .. MaxMail : Fetch(n)
  PROVE  TypeOK' /\ PlaceInv'
<1>1. CASE Drain \/ DrainStop
  <2>1. signal' \in BOOLEAN
    BY <1>1 DEF Drain, DrainStop, TypeOK, chan
  <2>. QED  BY <1>1, <2>1 DEF Drain, DrainStop, TypeOK, PlaceInv, Handling, server, chan, user
<1>2. CASE Select
  <2>1. sel' \in SelectData
    BY <1>2 DEF Select, SelectData, TypeOK
  <2>. QED  BY <1>2, <2>1 DEF Select, TypeOK, PlaceInv, Handling, server, chan, user
<1>3. CASE DeltaFail
  <2>1. pc' \in {"wait", "stopped"}
    BY <1>3 DEF DeltaFail
  <2>. QED  BY <1>3, <2>1 DEF DeltaFail, TypeOK, PlaceInv, Handling, server, chan, user
<1>4. ASSUME NEW n \in 0 .. MaxMail, Fetch(n) PROVE TypeOK' /\ PlaceInv'
  <2>1. sel \in SelectData /\ sel.n <= arrived
    BY <1>4 DEF Fetch, SelectInv
  <2>2. n <= arrived
    BY <1>4, <2>1 DEF Fetch, Reach, SelectData, TypeOK
  <2>3. NextToken \in Mark
    BY <2>1 DEF NextToken, Mark, SelectData
  <2>4. \A m \in Changed(n) : m \in Mail /\ m <= arrived
    BY <2>2, InvitationConstants DEF Changed, Mail, TypeOK
  <2>5. todo' \subseteq Mail /\ \A m \in todo' : m <= arrived
    BY <1>4, <2>4 DEF Fetch
  <2>6. pc' \in {"wait", "raw"}
    BY <1>4 DEF Fetch
  <2>7. unseen' \subseteq Mail /\ due' \subseteq unseen'
    BY <1>4 DEF Fetch, TypeOK
  <2>8. token' \in Mark /\ UNCHANGED <<server, chan, sel, got, obj, done, user>>
    BY <1>4, <2>3 DEF Fetch
  <2>. QED  BY <2>5, <2>6, <2>7, <2>8 DEF TypeOK, PlaceInv, Handling, server, chan, user
<1>. QED  BY <1>1, <1>2, <1>3, <1>4

\* The handling of one message: Raw lets only an invitation through, and the PUTs
\* store a SEQUENCE that is not negative.
LEMMA HandlePlaces ==
  ASSUME TypeOK, PlaceInv, NEW m \in Mail,
         Raw(m) \/ Skip(m) \/ Find(m) \/ Put(m) \/ GetObject(m) \/ PutOverride(m)
  PROVE  TypeOK' /\ PlaceInv'
<1>1. /\ Newest(m) /\ m \in todo /\ m <= arrived
      /\ UNCHANGED <<server, chan, token, sel, unseen, due, user>>
  BY NewestIn DEF Raw, Skip, Find, Put, GetObject, PutOverride
<1>2. \A k \in Mail : Newest(k) => k = m
  BY <1>1 DEF Newest, Mail
<1>3. ASSUME Advance(m), obj' \in Object, done' = done \/ (done' = done \cup {m} /\ body[m] \in Invite)
      PROVE  TypeOK' /\ PlaceInv'
  <2>1. todo' \subseteq todo /\ pc' \in {"wait", "raw"} /\ got' \in Object
    BY <1>3, AdvanceStep
  <2>2. done' \subseteq Mail
    BY <1>3 DEF TypeOK
  <2>3. TypeOK'
    BY <1>1, <1>3, <2>1, <2>2 DEF TypeOK, server, chan, user
  <2>. QED  BY <1>1, <1>3, <2>1, <2>3 DEF PlaceInv, Handling, server, user
<1>4. ASSUME body[m] \in Invite, pc' \in Handling, UNCHANGED <<todo, done, obj>>, got' \in Object
      PROVE  TypeOK' /\ PlaceInv'
  <2>1. TypeOK'
    BY <1>1, <1>4 DEF TypeOK, Handling, server, chan, user
  <2>2. \A k \in Mail : Newest(k)' => k = m
    BY <1>2, <1>4 DEF Newest
  <2>. QED  BY <1>1, <1>4, <2>1, <2>2 DEF PlaceInv, server, user
<1>5. pc \in Handling => body[m] \in Invite
  BY <1>1 DEF PlaceInv
<1>6. CASE Raw(m)
  <2>1. body[m] # None
    BY <1>1 DEF PlaceInv
  <2>2. body[m] = Other \/ body[m] \in Invite
    BY <2>1 DEF TypeOK
  <2>3. CASE body[m] = Other
    BY <1>3, <1>6, <2>3 DEF Raw, TypeOK
  <2>4. CASE body[m] # Other
    BY <1>4, <1>6, <2>2, <2>4 DEF Raw, TypeOK, Handling
  <2>. QED  BY <2>3, <2>4
<1>7. CASE Skip(m)
  BY <1>3, <1>7 DEF Skip, TypeOK
<1>8. CASE Find(m)
  <2>1. body[m] \in Invite /\ obj' = obj
    BY <1>5, <1>8 DEF Find, Handling
  <2>2. CASE Handled(m) /\ Advance(m)
    BY <1>3, <2>1, <2>2 DEF Handled, TypeOK
  <2>3. CASE pc' \in Handling /\ UNCHANGED <<todo, got, done>>
    BY <1>4, <2>1, <2>3 DEF TypeOK
  <2>. QED  BY <1>8, <2>2, <2>3 DEF Find, Handling
<1>9. CASE Put(m)
  <2>1. body[m] \in Invite
    BY <1>5, <1>9 DEF Put, Handling
  <2>2. obj' \in Object
    BY <1>9, <2>1, SeqOfType DEF Put, Object
  <2>. QED  BY <1>3, <1>9, <2>1, <2>2 DEF Put, Handled
<1>10. CASE GetObject(m)
  <2>1. body[m] \in Invite
    BY <1>5, <1>10 DEF GetObject, Handling
  <2>. QED  BY <1>4, <1>10, <2>1 DEF GetObject, Handling, TypeOK
<1>11. CASE PutOverride(m)
  <2>1. body[m] \in Invite
    BY <1>5, <1>11 DEF PutOverride, Handling
  <2>2. got \in Object /\ SeqOf(m) \in Nat
    BY <2>1, SeqOfType DEF TypeOK
  <2>3. [got EXCEPT !.over = SeqOf(m)] \in Object
    BY <2>2 DEF Object
  <2>. QED  BY <1>3, <1>11, <2>1, <2>3 DEF PutOverride, Handled
<1>. QED  BY <1>6, <1>7, <1>8, <1>9, <1>10, <1>11

-----------------------------------------------------------------------------
(* The delta token.                                                        *)

\* Types, places and the facts about the mod-sequences, together.
SyncInv == TypeOK /\ PlaceInv /\ ServerInv /\ SelectInv /\ NoneMissed

\* The initial state.
LEMMA InitSync == Init => SyncInv
<1>. SUFFICES ASSUME Init PROVE ServerInv /\ SelectInv /\ NoneMissed
  BY InitPlaces DEF SyncInv
<1>1. \A m \in Mail : mod[m] = IF m <= arrived THEN m ELSE 0
  BY DEF Init
<1>2. \A m \in unseen : m \in Mail /\ m <= arrived /\ m > 0
  BY InvitationConstants DEF Init, Mail
<1>3. arrived \in Nat /\ top = arrived /\ token = None /\ pc = "select"
  BY InvitationConstants DEF Init
<1>4. ServerInv
  BY <1>1, <1>2, <1>3 DEF ServerInv, Mail
<1>. QED  BY <1>3, <1>4 DEF SelectInv, NoneMissed

\* The server's steps: a message that changes gets a mod-sequence above every
\* token and every SELECT; a recreated folder outdates the token.
LEMMA WorldSync == SyncInv /\ World => ServerInv' /\ SelectInv' /\ NoneMissed'
<1>. SUFFICES ASSUME SyncInv, World PROVE ServerInv' /\ SelectInv' /\ NoneMissed'
  OBVIOUS
<1>. USE DEF SyncInv
<1>0. /\ top \in Nat /\ arrived \in Nat /\ validity \in Nat
      /\ mod \in [Mail -> Nat]
      /\ token # None => token.v \in Nat /\ token.mod \in Nat
      /\ sel \in SelectData => sel.v \in Nat /\ sel.mod \in Nat /\ sel.n \in Nat
      /\ \A m \in Mail : m \in Nat
      /\ unseen \subseteq Mail
  BY InvitationConstants DEF TypeOK, Mark, SelectData, Mail
<1>1. ASSUME NEW m \in Mail, top' = top + 1, mod' = [mod EXCEPT ![m] = top + 1],
             m <= arrived', arrived <= arrived', arrived' \in Nat,
             unseen' = unseen \cup {m}, UNCHANGED <<validity, pc, token, sel>>
      PROVE  ServerInv' /\ SelectInv' /\ NoneMissed'
  <2>1. mod'[m] = top + 1 /\ \A k \in Mail \ {m} : mod'[k] = mod[k]
    BY <1>0, <1>1
  <2>2. ServerInv'
    <3>1. \A k \in Mail : mod'[k] <= top' /\ (k > arrived' => mod'[k] = 0)
      BY <1>0, <1>1, <2>1 DEF ServerInv
    <3>2. \A k \in unseen' : mod'[k] > 0
      BY <1>0, <1>1, <2>1 DEF ServerInv
    <3>. QED  BY <1>0, <1>1, <3>1, <3>2 DEF ServerInv
  <2>3. SelectInv'
    BY <1>0, <1>1, <2>1 DEF SelectInv
  <2>4. NoneMissed'
    BY <1>0, <1>1, <2>1 DEF NoneMissed, ServerInv
  <2>. QED  BY <2>2, <2>3, <2>4
<1>2. ASSUME NEW b \in Invite \cup {Other}, Arrive(b)
      PROVE  ServerInv' /\ SelectInv' /\ NoneMissed'
  <2>1. arrived + 1 \in Mail /\ arrived' = arrived + 1
    BY <1>0, <1>2, InvitationConstants DEF Arrive, Mail
  <2>2. /\ top' = top + 1 /\ mod' = [mod EXCEPT ![arrived + 1] = top + 1]
        /\ unseen' = unseen \cup {arrived + 1}
        /\ UNCHANGED <<validity, pc, token, sel>>
    BY <1>2 DEF Arrive
  <2>3. arrived + 1 <= arrived' /\ arrived <= arrived' /\ arrived' \in Nat
    BY <1>0, <2>1
  <2>. QED  BY <1>1, <2>1, <2>2, <2>3
<1>3. ASSUME NEW m \in Mail, Flag(m) PROVE ServerInv' /\ SelectInv' /\ NoneMissed'
  <2>1. m <= arrived
    BY <1>0, <1>3 DEF Flag, ServerInv
  <2>2. /\ top' = top + 1 /\ mod' = [mod EXCEPT ![m] = top + 1]
        /\ unseen' = unseen \cup {m}
        /\ UNCHANGED <<arrived, validity, pc, token, sel>>
    BY <1>3 DEF Flag
  <2>3. m <= arrived' /\ arrived <= arrived' /\ arrived' \in Nat
    BY <1>0, <2>1, <2>2
  <2>. QED  BY <1>1, <2>2, <2>3
<1>4. ASSUME NEW m \in Mail, Expunge(m) PROVE ServerInv' /\ SelectInv' /\ NoneMissed'
  <2>1. mod'[m] = 0 /\ \A k \in Mail \ {m} : mod'[k] = mod[k]
    BY <1>0, <1>4 DEF Expunge
  <2>2. /\ top' = top + 1 /\ unseen' = unseen \ {m}
        /\ UNCHANGED <<arrived, validity, pc, token, sel>>
    BY <1>4 DEF Expunge
  <2>3. ServerInv'
    BY <1>0, <2>1, <2>2 DEF ServerInv
  <2>4. SelectInv'
    BY <1>0, <2>1, <2>2 DEF SelectInv
  <2>. QED  BY <1>0, <2>1, <2>2, <2>3, <2>4 DEF NoneMissed
<1>5. CASE Recreate
  <2>1. /\ validity' = validity + 1
        /\ UNCHANGED <<mod, top, arrived, unseen, pc, token, sel>>
    BY <1>5 DEF Recreate
  <2>. QED  BY <1>0, <2>1 DEF ServerInv, SelectInv, NoneMissed
<1>6. CASE UserDelete \/ Unheard \/ \E u \in Edits : UserRead(u) \/ UserWrite(u) \/ UserGiveUp(u)
  <2>1. UNCHANGED <<mod, top, arrived, validity, unseen, pc, token, sel>>
    BY <1>6 DEF UserDelete, Unheard, UserRead, UserWrite, UserGiveUp, server
  <2>. QED  BY <2>1 DEF ServerInv, SelectInv, NoneMissed
<1>. QED  BY <1>2, <1>3, <1>4, <1>5, <1>6 DEF World

\* The FETCH: a message it does not return either is not changed since the old
\* token, or came after the SELECT whose mod-sequence becomes the new token.
LEMMA FetchSync ==
  ASSUME SyncInv, NEW n \in 0 .. MaxMail, Fetch(n)
  PROVE  ServerInv' /\ SelectInv' /\ NoneMissed'
<1>. USE DEF SyncInv
<1>1. /\ sel \in SelectData /\ sel.v = validity /\ sel.mod <= top
      /\ \A m \in Mail : m > sel.n /\ mod[m] # 0 => mod[m] > sel.mod
  BY DEF Fetch, SelectInv
<1>2. sel.mod \in Nat /\ sel.n \in Nat /\ n \in Nat /\ n >= sel.n
  BY <1>1 DEF Fetch, Reach, SelectData, TypeOK
<1>3. token' = [v |-> sel.v, mod |-> sel.mod] /\ token'.v = sel.v /\ token'.mod = sel.mod
  BY DEF Fetch, NextToken
<1>4. /\ unseen' = unseen \ Changed(n)
      /\ pc' # "fetch"
      /\ UNCHANGED <<mod, top, arrived, validity>>
  BY DEF Fetch, server
<1>5. ASSUME NEW m \in unseen \ Changed(n) PROVE mod[m] > sel.mod
  <2>1. m \in Mail /\ m \in Nat /\ m >= 1 /\ mod[m] \in Nat /\ mod[m] > 0
    BY InvitationConstants DEF TypeOK, ServerInv, Mail
  <2>2. mod[m] > Since
    <3>1. CASE Full
      BY <2>1, <3>1 DEF Since
    <3>2. CASE ~ Full
      BY <1>1, <3>2 DEF Full, Since, NoneMissed
    <3>. QED  BY <3>1, <3>2
  <2>3. m > n
    BY <1>2, <2>1, <2>2 DEF Changed
  <2>. QED  BY <1>1, <1>2, <2>1, <2>3
<1>6. NoneMissed'
  BY <1>3, <1>4, <1>5 DEF NoneMissed
<1>7. ServerInv'
  BY <1>1, <1>3, <1>4 DEF ServerInv, TypeOK
<1>. QED  BY <1>4, <1>6, <1>7 DEF SelectInv

\* Every step keeps it.
LEMMA NextSync == SyncInv /\ [Next]_vars => SyncInv'
<1>. SUFFICES ASSUME SyncInv, [Next]_vars PROVE SyncInv'
  OBVIOUS
<1>. USE DEF SyncInv
<1>1. ASSUME UNCHANGED <<mod, top, arrived, validity, unseen, token>>, pc' # "fetch" \/ UNCHANGED <<pc, sel>>
      PROVE  ServerInv' /\ SelectInv' /\ NoneMissed'
  BY <1>1 DEF ServerInv, SelectInv, NoneMissed
<1>2. CASE World
  BY <1>2, WorldPlaces, WorldSync
<1>3. CASE WatchStep \/ WatchEnd \/ Notify
  <2>1. UNCHANGED <<mod, top, arrived, validity, unseen, token, pc, sel>>
    BY <1>3 DEF WatchStep, WatchSelect, setUnilateral, Idle, WatchEnd, Notify, server
  <2>. QED  BY <1>1, <1>3, <2>1, WatchPlaces
<1>4. CASE Drain \/ DrainStop \/ DeltaFail
  <2>1. UNCHANGED <<mod, top, arrived, validity, unseen, token>> /\ pc' # "fetch"
    BY <1>4 DEF Drain, DrainStop, DeltaFail, server
  <2>. QED  BY <1>1, <1>4, <2>1, SyncPlaces
<1>5. CASE Select
  <2>1. /\ sel' = [v |-> validity, mod |-> top, n |-> arrived]
        /\ UNCHANGED <<mod, top, arrived, validity, unseen, token>>
    BY <1>5 DEF Select, server
  <2>2. sel' \in SelectData
    BY <2>1 DEF SelectData, TypeOK
  <2>3. \A m \in Mail : m > sel'.n => mod'[m] = 0
    BY <2>1 DEF ServerInv
  <2>4. SelectInv'
    BY <2>1, <2>2, <2>3 DEF SelectInv, TypeOK
  <2>5. ServerInv' /\ NoneMissed'
    BY <2>1 DEF ServerInv, NoneMissed
  <2>. QED  BY <1>5, <2>4, <2>5, SyncPlaces
<1>6. ASSUME NEW n \in 0 .. MaxMail, Fetch(n) PROVE SyncInv'
  BY <1>6, FetchSync, SyncPlaces
<1>7. ASSUME NEW m \in Mail,
             Raw(m) \/ Skip(m) \/ Find(m) \/ Put(m) \/ GetObject(m) \/ PutOverride(m)
      PROVE  SyncInv'
  <2>1. UNCHANGED <<mod, top, arrived, validity, unseen, token>>
    BY <1>7 DEF Raw, Skip, Find, Put, GetObject, PutOverride, server
  <2>2. pc' # "fetch"
    BY <1>7 DEF Raw, Skip, Find, Put, GetObject, PutOverride, Advance
  <2>. QED  BY <1>1, <1>7, <2>1, <2>2, HandlePlaces
<1>8. CASE UNCHANGED vars
  BY <1>8 DEF vars, server, chan, user, TypeOK, PlaceInv, ServerInv, SelectInv, NoneMissed, Newest
<1>. QED  BY <1>2, <1>3, <1>4, <1>5, <1>6, <1>7, <1>8 DEF Next, LoopStep

\* TypeOK holds for any constants: a SEQUENCE on the calendar is never negative,
\* although the wire allows it.
THEOREM TypeCorrect == Spec => []TypeOK
<1>1. SyncInv => TypeOK
  BY DEF SyncInv
<1>. QED  BY InitSync, NextSync, <1>1, PTL DEF Spec

\* However mail arrives and changes between the SELECT and the FETCH of a delta, its
\* token stays below every message that no delta has returned since it changed.
THEOREM TokenNeverPasses == Spec => []NoneMissed
<1>1. SyncInv => NoneMissed
  BY DEF SyncInv
<1>. QED  BY InitSync, NextSync, <1>1, PTL DEF Spec

-----------------------------------------------------------------------------
(* The stored series.                                                      *)

\* What the user's requests read keeps standing next to every other step.
LEMMA SameEdits ==
  ASSUME EditInv, TypeOK, PlaceInv, UNCHANGED user,
         \A m \in Mail : m <= arrived => body'[m] = body[m]
  PROVE  EditInv'
<1>1. \A u \in Edits : \A d \in known[u] : body'[d] = body[d]
  BY DEF TypeOK, PlaceInv
<1>2. \A u \in Edits : \A d \in known[u] : SeqOf(d)' = SeqOf(d)
  BY <1>1 DEF SeqOf, sequenceToUint
<1>. QED  BY <1>1, <1>2 DEF EditInv, user

\* A step that leaves the mail handled, the object, what was read and the place of
\* the handling alone keeps the decision and the series.
LEMMA SameDecision ==
  ASSUME DecisionInv, SeriesLatest, PlaceInv, TypeOK,
         UNCHANGED <<pc, todo, got, obj, done>>,
         \A m \in todo \cup done : body'[m] = body[m]
  PROVE  DecisionInv' /\ SeriesLatest'
<1>1. \A m \in todo \cup done : SeqOf(m)' = SeqOf(m)
  BY DEF SeqOf, sequenceToUint
<1>2. \A m \in Mail : Newest(m)' = Newest(m) /\ (Newest(m) => m \in todo)
  BY DEF Newest
<1>3. SeriesLatest'
  BY <1>1 DEF SeriesLatest
<1>4. (pc = "put" =>
        \A m \in Mail : Newest(m) =>
          \A d \in done : ~ body[d].inst => ~ body[m].inst /\ SeqOf(d) <= SeqOf(m))'
  BY <1>1, <1>2 DEF DecisionInv
<1>5. (pc \in {"get", "override"} => \A m \in Mail : Newest(m) => body[m].inst)'
  BY <1>2 DEF DecisionInv
<1>6. (pc = "override" =>
        \A d \in done : ~ body[d].inst => got.master # None /\ got.master >= SeqOf(d))'
  BY <1>1 DEF DecisionInv
<1>. QED  BY <1>3, <1>4, <1>5, <1>6 DEF DecisionInv

\* The handling of one message.  Find compares with the stored series, which covers
\* all that was handled; the PUTs write what the comparison allowed.
LEMMA HandleSeries ==
  ASSUME TypeOK, PlaceInv, DecisionInv, SeriesLatest, NEW m \in Mail,
         Raw(m) \/ Skip(m) \/ Find(m) \/ Put(m) \/ GetObject(m) \/ PutOverride(m)
  PROVE  DecisionInv' /\ SeriesLatest'
<1>1. Newest(m) /\ m \in todo /\ body' = body
  BY NewestIn DEF Raw, Skip, Find, Put, GetObject, PutOverride, server
<1>2. \A k \in Mail : Newest(k) => k = m
  BY <1>1 DEF Newest, Mail
<1>3. \A k : SeqOf(k)' = SeqOf(k)
  BY <1>1 DEF SeqOf, sequenceToUint
<1>4. /\ pc \in Handling => body[m] \in Invite /\ SeqOf(m) \in Nat /\ body[m].inst \in BOOLEAN
      /\ \A d \in done : body[d] \in Invite /\ SeqOf(d) \in Nat /\ body[d].inst \in BOOLEAN
  BY <1>1, SeqOfType DEF PlaceInv
<1>5. obj \in Object /\ got \in Object /\ obj.master \in Nat \cup {None} /\ got.master \in Nat \cup {None}
  BY DEF TypeOK, Object
<1>6. ASSUME Advance(m) PROVE DecisionInv'
  <2>1. pc' \in {"wait", "raw"}
    BY <1>6, AdvanceStep
  <2>. QED  BY <2>1 DEF DecisionInv
<1>7. CASE Raw(m)
  <2>1. obj' = obj /\ done' = done
    BY <1>7 DEF Raw
  <2>2. SeriesLatest'
    BY <1>1, <1>3, <2>1 DEF SeriesLatest
  <2>3. CASE Advance(m)
    BY <1>6, <2>2, <2>3
  <2>4. CASE pc' = "find"
    BY <2>2, <2>4 DEF DecisionInv
  <2>. QED  BY <1>7, <2>3, <2>4 DEF Raw
<1>8. CASE Skip(m)
  BY <1>1, <1>3, <1>6, <1>8 DEF Skip, SeriesLatest
<1>9. CASE Find(m)
  <2>1. obj' = obj /\ pc = "find"
    BY <1>9 DEF Find
  <2>2. CASE Found /\ Stale(m) /\ Handled(m) /\ Advance(m)
    <3>1. obj.master # None /\ obj.master >= SeqOf(m)
      BY <1>4, <1>5, <2>1, <2>2 DEF Found, Stale, Handling
    <3>2. SeriesLatest'
      BY <1>1, <1>3, <2>1, <2>2, <3>1 DEF SeriesLatest, Handled
    <3>. QED  BY <1>6, <2>2, <3>2
  <2>3. CASE pc' = "get" /\ body[m].inst /\ UNCHANGED <<todo, got, done>>
    <3>1. SeriesLatest'
      BY <1>1, <1>3, <2>1, <2>3 DEF SeriesLatest
    <3>2. \A k \in Mail : Newest(k)' => body'[k].inst
      BY <1>1, <1>2, <2>3 DEF Newest
    <3>. QED  BY <2>3, <3>1, <3>2 DEF DecisionInv
  <2>4. CASE /\ IF Found THEN ~ body[m].inst /\ ~ Stale(m) ELSE TRUE
             /\ pc' = "put"
             /\ UNCHANGED <<todo, got, done>>
    <3>1. SeriesLatest'
      BY <1>1, <1>3, <2>1, <2>4 DEF SeriesLatest
    <3>2. ASSUME NEW d \in done, ~ body[d].inst PROVE ~ body[m].inst /\ SeqOf(d) <= SeqOf(m)
      <4>1. obj.master # None /\ obj.master >= SeqOf(d)
        BY <3>2 DEF SeriesLatest
      <4>2. ~ body[m].inst /\ ~ (SeqOf(m) <= obj.master)
        BY <2>4, <4>1 DEF Found, Stale
      <4>3. SeqOf(m) \in Nat /\ SeqOf(d) \in Nat /\ obj.master \in Nat
        BY <1>4, <1>5, <2>1, <4>1 DEF Handling
      <4>. QED  BY <4>1, <4>2, <4>3
    <3>3. \A k \in Mail : Newest(k)' => k = m
      BY <1>2, <2>4 DEF Newest
    <3>. QED  BY <1>1, <1>3, <2>4, <3>1, <3>2, <3>3 DEF DecisionInv
  <2>. QED  BY <1>9, <2>2, <2>3, <2>4 DEF Find
<1>10. CASE Put(m)
  <2>1. \A d \in done : ~ body[d].inst => ~ body[m].inst /\ SeqOf(d) <= SeqOf(m)
    BY <1>1, <1>10 DEF Put, DecisionInv
  <2>2. SeqOf(m) \in Nat /\ SeqOf(m) # None
    BY <1>4, <1>10, InvitationConstants DEF Put, Handling
  <2>3. ~ body[m].inst => obj'.master = SeqOf(m)
    BY <1>10 DEF Put
  <2>4. \A d \in done \cup {m} : ~ body[d].inst => obj'.master # None /\ obj'.master >= SeqOf(d)
    BY <1>4, <2>1, <2>2, <2>3
  <2>5. done' = done \cup {m} /\ Advance(m)
    BY <1>10 DEF Put, Handled
  <2>. QED  BY <1>1, <1>3, <1>6, <2>4, <2>5 DEF SeriesLatest
<1>11. CASE GetObject(m)
  <2>1. got' = obj /\ pc' = "override" /\ UNCHANGED <<todo, obj, done>>
    BY <1>11 DEF GetObject
  <2>2. body[m].inst
    BY <1>1, <1>11 DEF GetObject, DecisionInv
  <2>3. \A k \in Mail : Newest(k)' => body'[k].inst
    BY <1>1, <1>2, <2>1, <2>2 DEF Newest
  <2>4. SeriesLatest'
    BY <1>1, <1>3, <2>1 DEF SeriesLatest
  <2>5. \A d \in done' : ~ body'[d].inst => got'.master # None /\ got'.master >= SeqOf(d)'
    BY <1>1, <1>3, <2>1 DEF SeriesLatest
  <2>. QED  BY <2>1, <2>3, <2>4, <2>5 DEF DecisionInv
<1>12. CASE PutOverride(m)
  <2>1. body[m].inst
    BY <1>1, <1>12 DEF PutOverride, DecisionInv
  <2>2. \A d \in done : ~ body[d].inst => got.master # None /\ got.master >= SeqOf(d)
    BY <1>12 DEF PutOverride, DecisionInv
  <2>3. obj'.master = got.master
    BY <1>5, <1>12 DEF PutOverride, Object
  <2>4. done' = done \cup {m} /\ Advance(m)
    BY <1>12 DEF PutOverride, Handled
  <2>. QED  BY <1>1, <1>3, <1>6, <2>1, <2>2, <2>3, <2>4 DEF SeriesLatest
<1>. QED  BY <1>7, <1>8, <1>9, <1>10, <1>11, <1>12

\* Every step keeps the decision and the series.
LEMMA NextSeries == SyncInv /\ EditInv /\ DecisionInv /\ SeriesLatest /\ [Next]_vars
                      => DecisionInv' /\ SeriesLatest'
<1>. SUFFICES ASSUME SyncInv, EditInv, DecisionInv, SeriesLatest, [Next]_vars
              PROVE  DecisionInv' /\ SeriesLatest'
  OBVIOUS
<1>. USE DEF SyncInv
<1>1. ASSUME NEW b \in Invite \cup {Other}, Arrive(b) PROVE DecisionInv' /\ SeriesLatest'
  <2>1. \A m \in todo \cup done : m \in Mail /\ m # arrived + 1
    BY DEF TypeOK, PlaceInv, Mail
  <2>2. body' = [body EXCEPT ![arrived + 1] = b] /\ UNCHANGED <<pc, todo, got, obj, done>>
    BY <1>1 DEF Arrive
  <2>3. \A m \in todo \cup done : body'[m] = body[m]
    BY <2>1, <2>2 DEF TypeOK
  <2>. QED  BY <2>2, <2>3, SameDecision
<1>2. CASE (\E m \in Mail : Flag(m) \/ Expunge(m)) \/ Recreate \/ Unheard
           \/ (\E u \in Edits : UserRead(u) \/ UserGiveUp(u))
           \/ WatchStep \/ WatchEnd \/ Notify \/ UNCHANGED vars
  <2>1. UNCHANGED <<body, pc, todo, got, obj, done>>
    BY <1>2 DEF Flag, Expunge, Recreate, Unheard, UserRead, UserGiveUp, WatchStep, WatchSelect,
                setUnilateral, Idle, WatchEnd, Notify, server, vars
  <2>. QED  BY <2>1, SameDecision
<1>3. CASE UserDelete
  <2>1. done' = {} /\ UNCHANGED <<body, pc, todo>>
    BY <1>3 DEF UserDelete, server
  <2>2. \A m \in Mail : Newest(m)' = Newest(m)
    BY <2>1 DEF Newest
  <2>. QED  BY <2>1, <2>2 DEF DecisionInv, SeriesLatest
<1>6. ASSUME NEW u \in Edits, UserWrite(u) PROVE DecisionInv' /\ SeriesLatest'
  <2>1. /\ done' = done \cap known[u] /\ edit[u] # None
        /\ UNCHANGED <<body, pc, todo, got>>
    BY <1>6 DEF UserWrite, server
  <2>2. PICK q \in {edit[u], edit[u] + 1} : obj' = [master |-> q, over |-> None]
    BY <1>6 DEF UserWrite
  <2>3. edit[u] \in Nat /\ q \in Nat /\ q >= edit[u] /\ q # None
    BY <2>1, <2>2, InvitationConstants DEF TypeOK
  <2>4. \A m \in Mail : Newest(m)' = Newest(m)
    BY <2>1 DEF Newest
  <2>5. \A m : SeqOf(m)' = SeqOf(m)
    BY <2>1 DEF SeqOf, sequenceToUint
  <2>6. \A d \in known[u] : SeqOf(d) \in Nat
    BY SeqOfType DEF PlaceInv
  <2>7. \A d \in known[u] : ~ body[d].inst => edit[u] >= SeqOf(d)
    BY <2>1 DEF EditInv
  <2>8. \A d \in known[u] : ~ body[d].inst => q >= SeqOf(d)
    BY <2>3, <2>6, <2>7
  <2>9. SeriesLatest'
    BY <2>1, <2>2, <2>3, <2>5, <2>8 DEF SeriesLatest
  <2>. QED  BY <2>1, <2>4, <2>5, <2>9 DEF DecisionInv
<1>4. CASE Drain \/ DrainStop \/ Select \/ DeltaFail \/ \E n \in 0 .. MaxMail : Fetch(n)
  <2>1. /\ UNCHANGED <<body, obj, done>>
        /\ pc' \in {"select", "stopped", "fetch", "wait", "raw"}
    BY <1>4 DEF Drain, DrainStop, Select, DeltaFail, Fetch, server
  <2>2. \A m \in done : SeqOf(m)' = SeqOf(m)
    BY <2>1 DEF SeqOf, sequenceToUint
  <2>. QED  BY <2>1, <2>2 DEF DecisionInv, SeriesLatest
<1>5. ASSUME NEW m \in Mail,
             Raw(m) \/ Skip(m) \/ Find(m) \/ Put(m) \/ GetObject(m) \/ PutOverride(m)
      PROVE  DecisionInv' /\ SeriesLatest'
  BY <1>5, HandleSeries
<1>. QED  BY <1>1, <1>2, <1>3, <1>4, <1>5, <1>6 DEF Next, LoopStep, World

\* A request of the user reads a series that is not older than what was handled.
LEMMA NextEdits == SyncInv /\ EditInv /\ SeriesLatest /\ [Next]_vars => EditInv'
<1>. SUFFICES ASSUME SyncInv, EditInv, SeriesLatest, [Next]_vars PROVE EditInv'
  OBVIOUS
<1>. USE DEF SyncInv
<1>1. ASSUME NEW u \in Edits, UserRead(u) \/ UserWrite(u) \/ UserGiveUp(u) PROVE EditInv'
  <2>1. \A m : SeqOf(m)' = SeqOf(m) /\ body' = body
    BY <1>1 DEF UserRead, UserWrite, UserGiveUp, server, SeqOf, sequenceToUint
  <2>2. \A v \in Edits \ {u} : edit'[v] = edit[v] /\ known'[v] = known[v]
    BY <1>1 DEF UserRead, UserWrite, UserGiveUp, UserEnds, TypeOK
  <2>3. edit'[u] = None \/ (edit'[u] = obj.master /\ known'[u] = done)
    BY <1>1 DEF UserRead, UserWrite, UserGiveUp, UserEnds, TypeOK
  <2>. QED  BY <2>1, <2>2, <2>3 DEF EditInv, SeriesLatest
<1>2. ASSUME NEW b \in Invite \cup {Other}, Arrive(b) PROVE EditInv'
  <2>1. \A m \in Mail : m <= arrived => body'[m] = body[m]
    BY <1>2 DEF Arrive, TypeOK, Mail
  <2>. QED  BY <1>2, <2>1, SameEdits DEF Arrive
<1>3. CASE \/ \E m \in Mail : Flag(m) \/ Expunge(m)
           \/ Recreate \/ Unheard \/ UserDelete \/ WatchStep \/ WatchEnd \/ Notify
           \/ UNCHANGED vars
  <2>1. UNCHANGED <<body, user>>
    BY <1>3 DEF Flag, Expunge, Recreate, Unheard, UserDelete, WatchStep, WatchSelect,
                setUnilateral, Idle, WatchEnd, Notify, server, vars
  <2>. QED  BY <2>1, SameEdits
<1>4. CASE LoopStep
  <2>1. UNCHANGED <<body, user>>
    BY <1>4 DEF LoopStep, Drain, DrainStop, Select, DeltaFail, Fetch, Raw, Skip, Find, Put,
                GetObject, PutOverride, server
  <2>. QED  BY <2>1, SameEdits
<1>. QED  BY <1>1, <1>2, <1>3, <1>4 DEF Next, World

\* Whatever the order in which deltas deliver invitations, the repetitions and the
\* failures, the stored series is at least as new as every one that was handled,
\* unless the user deleted it or an edit that had read the older one was written.
THEOREM SeriesNeverGoesBack == Spec => []SeriesLatest
<1>1. Init => EditInv /\ DecisionInv /\ SeriesLatest
  BY DEF Init, EditInv, DecisionInv, SeriesLatest
<1>. QED  BY InitSync, NextSync, <1>1, NextSeries, NextEdits, PTL DEF Spec

=============================================================================
