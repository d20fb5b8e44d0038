----------------------------- MODULE MC_StackCalcs -----------------------------
(* Instances of StackCalcs: callers leave their own frame out, which of one  *)
(* backtrace leaves two frames and of the other nothing.                     *)
EXTENDS StackCalcs

MC_Backtraces == {<<7, 3, 5>>, <<7>>}
================================================================================
