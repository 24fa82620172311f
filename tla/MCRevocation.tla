---------------------------- MODULE MCRevocation ----------------------------
(***************************************************************************)
(* Instance of Revocation for TLC.                                         *)
(***************************************************************************)
EXTENDS Revocation

CONSTANTS r1, d1, d2, u1, u2, j1

=============================================================================
