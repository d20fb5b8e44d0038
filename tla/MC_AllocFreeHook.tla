--------------------------- MODULE MC_AllocFreeHook ---------------------------
(* Instances of AllocFreeHook for TLC. *)
EXTENDS AllocFreeHook, TLC

Symmetry == Permutations(CLibBlocks)
=============================================================================
