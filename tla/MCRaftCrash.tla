---------------------------- MODULE MCRaftCrash ----------------------------
(* Instances of RaftCrash for TLC. *)
EXTENDS RaftCrash, TLC

CONSTANTS n1, n2, n3, v1, v2

MCID == [n \in Server |-> CASE n = n1 -> 1 [] n = n2 -> 2 [] n = n3 -> 3]

Symmetry == Permutations(Server) \cup Permutations(Value)
=============================================================================
