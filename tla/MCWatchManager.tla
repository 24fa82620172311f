--------------------------- MODULE MCWatchManager ---------------------------
(***************************************************************************)
(* Instances of WatchManager for TLC.                                      *)
(***************************************************************************)
EXTENDS WatchManager, TLC

CONSTANTS h1, h2, o1, o2, s1, s2, messages, events, Messages

\* Every spelling names itself, except the one that differs in case.
CaseFold == [n \in Names |-> IF n = Messages THEN messages ELSE n]

Symmetry ==
  Permutations(Handlers) \cup Permutations(Owners) \cup Permutations(SubIds)

=============================================================================
