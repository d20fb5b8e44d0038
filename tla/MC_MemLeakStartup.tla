-------------------------- MODULE MC_MemLeakStartup --------------------------
(* Instances of MemLeakStartup for TLC. *)
EXTENDS MemLeakStartup, TLC

Symmetry == Permutations(Clbks)
=============================================================================
