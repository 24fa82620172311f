----------------------------- MODULE MCConnPool -----------------------------
(***************************************************************************)
(* Instances of ConnPool for TLC.                                          *)
(***************************************************************************)
EXTENDS ConnPool

CONSTANTS r1, r2, p1, p2, c1, c2

=============================================================================
