----------------------------- MODULE MCRecovery -----------------------------
(* Instances of Recovery for TLC. *)
EXTENDS Recovery

\* Nothing in a node looks into a command.
Symmetry == Permutations(Command)
=============================================================================
