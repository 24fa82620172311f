------------------------------ MODULE MCBatch -------------------------------
(***************************************************************************)
(* Instance of Batch for TLC.                                              *)
(***************************************************************************)
EXTENDS Batch, TLC

CONSTANTS a, b, c, d

\* Up to two sub-requests with any ids, missing and repeated ones included, and
\* any dependencies, unknown ones included.
Small ==
  LET R == [id : {a, b, NoId}, dependsOn : SUBSET {a, b, c}, parses : BOOLEAN]
  IN {<<>>} \cup {<<x>> : x \in R} \cup {<<x, y>> : x, y \in R}

Sub(i, deps, ok) == [id |-> i, dependsOn |-> deps, parses |-> ok]

\* Every dependency graph on three sub-requests, with at most one that cannot be
\* parsed.
Graphs3 ==
  {<<Sub(a, p, x # a), Sub(b, q, x # b), Sub(c, r, x # c)>> :
     p, q, r \in SUBSET {a, b, c}, x \in {a, b, c, NoId}}

\* Those on four in which the first may depend on any, and each other one on at
\* most one: long chains and cycles, trees and diamonds.
Graphs4 ==
  LET One == {{}} \cup {{x} : x \in {a, b, c, d}}
  IN {<<Sub(a, p, TRUE), Sub(b, q, TRUE), Sub(c, r, TRUE), Sub(d, s, TRUE)>> :
        p \in SUBSET {a, b, c, d}, q, r, s \in One}

\* One sub-request too many.
TooMany == {[i \in 1 .. maxBatchRequests + 1 |-> Sub(a, {}, TRUE)]}

AllBodies == Small \cup Graphs3 \cup Graphs4 \cup TooMany

=============================================================================
