---------------------------- MODULE MCDocuments ----------------------------
(***************************************************************************)
(* The documents of a mailbox that requests read and write in several      *)
(* calls: the Sieve script (InboxRules), the grants of a calendar          *)
(* (Sharing), and a folder that a client mirrors (DeltaSync).  They share  *)
(* no state, so a behaviour changes one of them and the others are at      *)
(* rest.                                                                   *)
(***************************************************************************)
EXTENDS InboxRules, Sharing, DeltaSync

CONSTANTS r1, r2, r3, c1, c2, p1, p2, i1, i2, all, subject, exact, move, drop, reply

\* A full body without a Sequence, and one that moves a rule and switches it
\* off.
Bodies == {[seq |-> None, on |-> TRUE, test |-> subject, act |-> drop],
           [seq |-> 3, on |-> FALSE, test |-> None, act |-> None]}

\* Two rules, and none, from another program.
Found == {<<[kind |-> "if", test |-> subject, act |-> move],
            [kind |-> "if", test |-> exact, act |-> reply]>>, <<>>}

\* Grants other clients make: what a role stands for, and combinations no role
\* stands for.
Grants == {{"freeBusy", "items"}, {"freeBusy", "items", "writeOwn", "share"}, {"writeAll"}}

Symmetry == Permutations(Requests) \cup Permutations(Items)

VARIABLE document

allVars == <<document, vars, shareVars, deltaVars>>

ScriptAtRest == tier = "jmap" /\ script = None /\ active = None
SharesAtRest == share = [p \in Grantees |-> NoGrant]
FolderAtRest == backend = "imap" /\ Here = {} /\ since = 0

DocumentsInit ==
  /\ document \in {"script", "shares", "folder"}
  /\ Init
  /\ ShareInit
  /\ DeltaInit
  /\ document # "script" => ScriptAtRest
  /\ document # "shares" => SharesAtRest
  /\ document # "folder" => FolderAtRest

DocumentsNext ==
  /\ \/ document = "script" /\ Next /\ UNCHANGED <<shareVars, deltaVars>>
     \/ document = "shares" /\ ShareNext /\ UNCHANGED <<vars, deltaVars>>
     \/ document = "folder" /\ DeltaNext /\ UNCHANGED <<vars, shareVars>>
  /\ UNCHANGED document

DocumentsSpec == DocumentsInit /\ [][DocumentsNext]_allVars

=============================================================================
