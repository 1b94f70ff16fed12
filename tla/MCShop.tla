------------------------------- MODULE MCShop -------------------------------
(***************************************************************************)
(* BackOffice on small instances.  Orders (none of them legacy) and cards  *)
(* are interchangeable: no definition orders them or names one of them.    *)
(***************************************************************************)
EXTENDS BackOffice, TLC

RowSymmetry == Permutations(Orders \ Legacy) \cup Permutations(Cards)
=============================================================================
