--------------------------- MODULE MC_MemLeakInvest ---------------------------
(* Instances of MemLeakInvest for TLC. *)
EXTENDS MemLeakInvest, TLC

Symmetry == Permutations(Threads) \cup Permutations(Addrs) \cup Permutations(Stacks)
=============================================================================
