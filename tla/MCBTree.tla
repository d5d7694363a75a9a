------------------------------ MODULE MCBTree ------------------------------
(* Instances of BTree for TLC. *)
EXTENDS BTree, TLC

Symmetry == Permutations(Value)
=============================================================================
