---------------------------- MODULE MCShopCache ----------------------------
(***************************************************************************)
(* Instances of ShopCache for TLC.                                         *)
(***************************************************************************)
EXTENDS ShopCache, TLC

AllFaults == {"refused", "dbFailed", "commitLost", "crash"}

Symmetry == Permutations(Readers) \cup Permutations(Writers)
=============================================================================
