---------------------------- MODULE MCTokenCache ----------------------------
(***************************************************************************)
(* Instance of TokenCache for TLC.                                         *)
(***************************************************************************)
EXTENDS TokenCache, TLC

CONSTANTS r1, r2, p1, p2, t1, t2, mail, calendar

OwnerOf == (t1 :> p1) @@ (t2 :> p2)

\* One principal needs both backends, the other shares one of them with it.
AsksOf == {<<t1, calendar>>, <<t1, mail>>, <<t2, calendar>>}

Symmetry == Permutations(Requests)

=============================================================================
