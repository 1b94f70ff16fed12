------------------------------- MODULE MCLocks -------------------------------
(***************************************************************************)
(* Locks on small instances: the first goods is sold by the card, all      *)
(* other goods by hand.                                                    *)
(***************************************************************************)
EXTENDS Locks, TLC

CONSTANT CardedGoods

MCCardGoods == [c \in Cards |-> CardedGoods]
LockSymmetry == Permutations(Txs) \cup Permutations(Orders) \cup Permutations(Cards)
=============================================================================
