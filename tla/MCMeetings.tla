----------------------------- MODULE MCMeetings -----------------------------
(***************************************************************************)
(* Instances of Meetings for TLC.                                          *)
(***************************************************************************)
EXTENDS Meetings, TLC

CONSTANTS r1, r2, r3, g1, g2

\* A storage-only CalDAV server, one that schedules, and a JMAP server.
Tiers == {[sched |-> TRUE, native |-> FALSE, caldav |-> TRUE],
          [sched |-> TRUE, native |-> TRUE, caldav |-> TRUE],
          [sched |-> TRUE, native |-> TRUE, caldav |-> FALSE]}

\* Bodies list the mailbox alone, both guests, or one of them with an answer.
Lists == {<<>>, [p \in {Me} |-> Unsaid],
          [p \in {Me, g1, g2} |-> Unsaid],
          [p \in {g1} |-> Unsaid], [p \in {g2} |-> Unsaid],
          [p \in {g1, g2} |-> IF p = g1 THEN "accepted" ELSE Unsaid],
          [p \in {g1, g2} |-> IF p = g2 THEN "accepted" ELSE Unsaid]}

Symmetry == Permutations(Requests) \cup Permutations(Guests)

=============================================================================
