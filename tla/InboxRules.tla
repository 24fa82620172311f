----------------------------- MODULE InboxRules -----------------------------
(***************************************************************************)
(* Inbox rules: the messageRules handlers (internal/server/messagerules),  *)
(* the read-modify-write of one Sieve script (internal/mailfilter), the    *)
(* translation between rules and scripts (internal/sieve), and the two     *)
(* transports, ManageSieve (internal/mail/imap) and JMAP                   *)
(* (internal/sieve/jmap, internal/mail/jmap).                              *)
(*                                                                         *)
(* All rules of a mailbox live in one script, named "mailboxd".  A request *)
(* reads it, edits the list of rules and writes the whole script back, in  *)
(* separate remote calls and without a lock; the package says so           *)
(* ("last-write-wins whole-script rewrite").  An action is one remote call *)
(* with the computation up to the next one.                                *)
(***************************************************************************)
EXTENDS Integers, Sequences, FiniteSets, SequencesExt

CONSTANTS
  Requests,    \* the HTTP requests; each is served once
  Tests,       \* conditions the rule model can express
  OddTests,    \* conditions only a script written elsewhere has
  Effects,     \* the actions of a rule, as one value
  OddEffects,  \* actions only a script written elsewhere has
  Edits,       \* bodies: [seq, on, test, act], a member is None when absent
  Foreign,     \* scripts written elsewhere that may be found under our name
  Ids,         \* the rule ids that are asked for
  AllMail,     \* the condition that holds for every message
  NoEffect,    \* the empty list of actions
  None

Rule == [id: Nat, seq: Int, on: BOOLEAN, test: Tests, act: Effects]

\* A command of a script is a metadata comment, which holds a whole rule, or an
\* "if" that the mail server executes.
Command == [kind: {"comment"}, rule: Rule]
             \cup [kind: {"if"}, test: Tests \cup OddTests, act: Effects \cup OddEffects]

ASSUME RulesAssumption ==
  /\ AllMail \in Tests
  /\ NoEffect \in Effects
  /\ Tests \cap OddTests = {} /\ Effects \cap OddEffects = {}
  /\ None \notin Tests \cup OddTests \cup Effects \cup Int \cup BOOLEAN
  /\ None \notin {"absent", "present", "active"}
  /\ None \notin Seq(Command)
  /\ Edits \subseteq [seq: Int \cup {None}, on: BOOLEAN \cup {None},
                      test: Tests \cup {None}, act: Effects \cup {None}]
  /\ Ids \subseteq Nat

\* A script found under our name has no two comments of one id.
ASSUME ForeignAssumption ==
  /\ Foreign \subseteq Seq(Command)
  /\ \A s \in Foreign : \A i, j \in DOMAIN s :
       (s[i].kind = "comment" /\ s[j].kind = "comment" /\ s[i].rule.id = s[j].rule.id) => i = j

VARIABLES
  tier,     \* "managesieve" or "jmap"
  script,   \* the commands of the script "mailboxd", or None
  active,   \* the script the mail server runs: "mailboxd", "other" or None
  req       \* the requests

vars == <<tier, script, active, req>>

-----------------------------------------------------------------------------
(***************************************************************************)
(* Rules and scripts.                                                      *)
(***************************************************************************)

Comment(rule) == [kind |-> "comment", rule |-> rule]

BuildIf(rule) == [kind |-> "if", test |-> rule.test, act |-> rule.act]

\* The members of a finite set, laid out in an order: upto[i] are the members
\* that come no later than i.
Arranged(K, upto) == [k \in 1..Cardinality(K) |-> CHOOSE i \in K : Cardinality(upto[i]) = k]

\* What a loop over s keeps that appends the entries at the positions in K.
\* (SelectSeq takes an operator, about which nothing can be proved.)
Kept(s, K) ==
  LET at == Arranged(K, [i \in K |-> {j \in K : j <= i}])
  IN  [k \in 1..Cardinality(K) |-> s[at[k]]]

OfKind(s, kind) == Kept(s, {i \in DOMAIN s : s[i].kind = kind})

Comments(s) == OfKind(s, "comment")
Ifs(s) == OfKind(s, "if")

\* Rules in the order of Sequence; rules with the same one keep their order.
Ordered(rules) ==
  LET at == Arranged(DOMAIN rules,
              [i \in DOMAIN rules |-> {j \in DOMAIN rules :
                 \/ rules[j].seq < rules[i].seq
                 \/ rules[j].seq = rules[i].seq /\ j <= i}])
  IN  [k \in DOMAIN rules |-> rules[at[k]]]

Blank == [kind |-> "blank"]

\* Each rule has two places: its comment, and its "if" when it is enabled.
Places(rules) ==
  [k \in 1..(2 * Len(rules)) |->
     LET rule == rules[(k + 1) \div 2]
     IN  IF k % 2 = 1 THEN Comment(rule) ELSE IF rule.on THEN BuildIf(rule) ELSE Blank]

Filled(places) == Kept(places, {k \in DOMAIN places : places[k] # Blank})

WrongEncode(rules) == Filled(Places(rules))

Encode(rules) == Filled(Places(Ordered(rules)))

\* A test outside the model is dropped, which leaves a rule for all mail.
ConditionsFromTest(test) == IF test \in Tests THEN test ELSE AllMail

\* So are actions outside the model, which leaves a rule that does nothing.
ActionsFromCommands(act) == IF act \in Effects THEN act ELSE NoEffect

\* The rule an "if" of a foreign script becomes, numbered by its position.
IfToRule(c, k) ==
  [id |-> k, seq |-> k, on |-> TRUE,
   test |-> ConditionsFromTest(c.test), act |-> ActionsFromCommands(c.act)]

\* The comments are the rules; only a script without any is read by its "if"s.
WrongDecode(s) ==
  [k \in DOMAIN Ifs(s) |-> IfToRule(Ifs(s)[k], k)]

Decode(s) ==
  LET comments == Comments(s)
      ifs == Ifs(s)
  IN  IF comments # <<>> THEN [k \in DOMAIN comments |-> comments[k].rule]
                         ELSE [k \in DOMAIN ifs |-> IfToRule(ifs[k], k)]

\* The list of rules of a script; no script, no rules.
List(s) == IF s = None THEN <<>> ELSE Decode(s)

IdsOf(rules) == {rules[k].id : k \in DOMAIN rules}

\* The lowest unused id: an id is given again once its rule is deleted.
FreshID(rules) == Min((1..(Len(rules) + 1)) \ IdsOf(rules))

MaxSequence(rules) == Max({rules[k].seq : k \in DOMAIN rules} \cup {0})

Over(new, old) == IF new = None THEN old ELSE new

\* The members present in the body overlay the rule.
MergeGraphRule(rule, edit) ==
  [rule EXCEPT !.seq = Over(edit.seq, @), !.on = Over(edit.on, @),
               !.test = Over(edit.test, @), !.act = Over(edit.act, @)]

-----------------------------------------------------------------------------
(***************************************************************************)
(* The three edits of a list of rules (mailfilter).                        *)
(***************************************************************************)

\* A new rule starts from an empty one; without a Sequence it goes last.
Created(rules, blank, edit) ==
  LET rule == MergeGraphRule(blank, edit)
  IN  Append(rules, [rule EXCEPT !.id = FreshID(rules),
                                 !.seq = IF @ = 0 THEN MaxSequence(rules) + 1 ELSE @])

Updated(rules, id, rule) ==
  [k \in DOMAIN rules |-> IF rules[k].id = id THEN [rule EXCEPT !.id = id] ELSE rules[k]]

Deleted(rules, id) == Kept(rules, {k \in DOMAIN rules : rules[k].id # id})

-----------------------------------------------------------------------------
(***************************************************************************)
(* The requests.                                                           *)
(***************************************************************************)

Idle == [pc |-> "idle", op |-> "none", id |-> None, edit |-> None,
         rule |-> None, next |-> None, seen |-> None, clean |-> TRUE, off |-> FALSE]

\* The rules are kept over ManageSieve or over JMAP, with the same operations.
Tiers == {"managesieve", "jmap"}

\* What a read of the script of our name yields, whichever script is active.
Rules == List(script)

Ended(pc) == [Idle EXCEPT !.pc = pc]

Open(r) == req[r].pc \in {"list", "look", "put", "activate"}

EmptyRule == [id |-> 0, seq |-> 0, on |-> FALSE, test |-> AllMail, act |-> NoEffect]

\* After the list is edited the script is rewritten: ManageSieve puts it at
\* once, JMAP first looks for a script of that name.
Rewrite == IF tier = "jmap" THEN "look" ELSE "put"

Init ==
  /\ tier \in Tiers
  /\ script \in Foreign \cup {None}
  /\ active \in {"other", None} \cup (IF script # None THEN {"mailboxd"} ELSE {})
  /\ req = [r \in Requests |-> Idle]

\* POST .../messageRules: the script is read, the rule appended.
CreateRule(r) ==
  \E edit \in Edits :
    /\ req[r].pc = "idle"
    /\ req' = [req EXCEPT ![r] =
         [@ EXCEPT !.op = "create", !.pc = Rewrite, !.edit = edit,
                   !.next = Created(Rules, EmptyRule, edit)]]
    /\ UNCHANGED <<tier, script, active>>

\* PATCH .../messageRules/{id}, its first read: the body is merged into the
\* rule found.  An unknown id is answered with 404.
GetRule(r) ==
  \E edit \in Edits, id \in Ids :
    LET found == {k \in DOMAIN Rules : Rules[k].id = id}
    IN  /\ req[r].pc = "idle"
        /\ req' = [req EXCEPT ![r] =
             IF found = {} THEN Ended("not found")
             ELSE [@ EXCEPT !.op = "update", !.pc = "list", !.id = id, !.edit = edit,
                            !.rule = MergeGraphRule(Rules[Min(found)], edit)]]
        /\ UNCHANGED <<tier, script, active>>

\* Its second read: the rule of that id is replaced by the merged one.
UpdateRule(r) ==
  /\ req[r].pc = "list"
  /\ req' = [req EXCEPT ![r] =
       IF req[r].id \notin IdsOf(Rules) THEN Ended("not found")
       ELSE [@ EXCEPT !.pc = Rewrite,
                      !.next = Updated(Rules, req[r].id, req[r].rule)]]
  /\ UNCHANGED <<tier, script, active>>

\* DELETE .../messageRules/{id}.
DeleteRule(r) ==
  \E id \in Ids :
    /\ req[r].pc = "idle"
    /\ req' = [req EXCEPT ![r] =
         IF id \notin IdsOf(Rules) THEN Ended("not found")
         ELSE [@ EXCEPT !.op = "delete", !.pc = Rewrite, !.id = id,
                        !.next = Deleted(Rules, id)]]
    /\ UNCHANGED <<tier, script, active>>

\* JMAP, SetActiveContent: is there a script of our name, and is it active?
Look(r) ==
  /\ req[r].pc = "look"
  /\ req' = [req EXCEPT ![r].pc = "put",
                        ![r].seen = IF script = None THEN "absent"
                                    ELSE IF active = "mailboxd" THEN "active" ELSE "present"]
  /\ UNCHANGED <<tier, script, active>>

\* Other requests under way now hold an old list (history, for CleanWrite).
Disturb(r) ==
  [q \in Requests |-> IF q # r /\ Open(q)
                      THEN [req[q] EXCEPT !.clean = FALSE] ELSE req[q]]

WrongPutScript(r) ==
  /\ req[r].pc = "put"
  /\ script' = Encode(req[r].next)
  /\ req' = [Disturb(r) EXCEPT ![r] =
       IF tier = "jmap" /\ req[r].seen # "absent" THEN Ended("ok")
       ELSE [@ EXCEPT !.pc = "activate"]]
  /\ UNCHANGED <<tier, active>>

\* The script is stored.  JMAP leaves out the activation when it saw the
\* script active.
PutScript(r) ==
  /\ req[r].pc = "put"
  /\ req[r].seen = "absent" => script = None
  /\ script' = Encode(req[r].next)
  /\ req' = [Disturb(r) EXCEPT ![r] =
       IF req[r].seen = "active" THEN Ended("ok") ELSE [@ EXCEPT !.pc = "activate"]]
  /\ UNCHANGED <<tier, active>>

\* Activation is taken to do what it was asked: of its answer JMAP's Client.set
\* reads only that there is one.
Activate(r) ==
  /\ req[r].pc = "activate"
  /\ active' = "mailboxd"
  /\ req' = [req EXCEPT ![r] = Ended("ok")]
  /\ UNCHANGED <<tier, script>>

\* A call fails (JMAP refuses a second script of one name), and so does the
\* request; what an earlier call did stays.
Fail(r) ==
  /\ Open(r)
  /\ req' = [req EXCEPT ![r] = Ended("error")]
  /\ UNCHANGED <<tier, script, active>>

\* The user's mail client makes a script of its own the active one, which the
\* requests under way remember (history, for InForce).
OtherClient ==
  /\ active # "other"
  /\ active' = "other"
  /\ req' = [r \in Requests |-> IF Open(r) THEN [req[r] EXCEPT !.off = TRUE] ELSE req[r]]
  /\ UNCHANGED <<tier, script>>

Next ==
  \/ \E r \in Requests :
       \/ CreateRule(r) \/ GetRule(r) \/ UpdateRule(r) \/ DeleteRule(r)
       \/ Look(r) \/ PutScript(r) \/ Activate(r) \/ Fail(r)
  \/ OtherClient

Spec == Init /\ [][Next]_vars

-----------------------------------------------------------------------------
(***************************************************************************)
(* Properties.                                                             *)
(***************************************************************************)

\* What the mail server executes is what the API lists: the "if"s of a script
\* written here are the enabled rules, in the order of their Sequence, however
\* the requests interleave (Encode, Decode).
RunsWhatItLists ==
  (script # None /\ script \notin Foreign) =>
    LET rules == List(script)
        enabled == Kept(rules, {k \in DOMAIN rules : rules[k].on})
    IN  /\ Ifs(script) = [k \in DOMAIN enabled |-> BuildIf(enabled[k])]
        /\ \A i, j \in DOMAIN rules : i < j => rules[i].seq <= rules[j].seq
        /\ Cardinality(IdsOf(rules)) = Len(rules)

\* The rules of a script, by id.
ById(s) ==
  LET rules == List(s)
  IN  [id \in IdsOf(rules) |-> rules[CHOOSE k \in DOMAIN rules : rules[k].id = id]]

\* A request nobody wrote past does exactly what it was asked: a create adds
\* one rule under a new id, a PATCH changes the members it names of one rule,
\* a delete removes one rule, and every other rule, enabled or not, comes
\* through the decoding and encoding of the whole script unchanged
\* (mailfilter.Create, Update and Delete over Encode and Decode).
CleanWrite ==
  [][\A r \in Requests :
       (req[r].pc = "put" /\ req'[r].pc \in {"ok", "activate"} /\ req[r].clean) =>
         LET old == ById(script)
             new == ById(script')
             kept == DOMAIN old \ {req[r].id}
             edit == req[r].edit
         IN  /\ \A id \in kept : id \in DOMAIN new /\ new[id] = old[id]
             /\ CASE req[r].op = "create" ->
                       \E id \in DOMAIN new : DOMAIN new = DOMAIN old \cup {id}
                                              /\ id \notin DOMAIN old
                  [] req[r].op = "update" ->
                       /\ DOMAIN new = DOMAIN old
                       /\ new[req[r].id] = MergeGraphRule(old[req[r].id], edit)
                  [] req[r].op = "delete" -> DOMAIN new = kept]_vars

\* A request that is answered with success leaves the rules in force: ours is
\* the script the mail server runs, unless another client switched while the
\* request ran.  JMAP activates only when its look found the script inactive,
\* so this needs the look to notice a script that an earlier request stored
\* and failed to activate, or that was switched off (SetActiveContent).
InForce ==
  [][\A r \in Requests :
       (Open(r) /\ req'[r].pc = "ok") => active' = "mailboxd" \/ req[r].off]_vars

=============================================================================
