---------------------------- MODULE MCNotifyLoop ----------------------------
(***************************************************************************)
(* Instances of NotifyLoop for TLC.                                        *)
(***************************************************************************)
EXTENDS NotifyLoop

CONSTANTS s1, s2

=============================================================================
