---------------------------- MODULE MCInvitations ----------------------------
(***************************************************************************)
(* Instance of Invitations for TLC.                                        *)
(***************************************************************************)
EXTENDS Invitations

CONSTANT u

SomeSeqs == {-1, 1}

=============================================================================
