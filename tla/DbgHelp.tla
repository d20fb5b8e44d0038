-------------------------------- MODULE DbgHelp --------------------------------
(***************************************************************************)
(* How stacks are resolved on Windows,                                     *)
(* src/core/stack_calcs/progs_invest_stack_calcs_windows.cpp: through      *)
(* DbgHelp, whose functions must not run in two threads at once, between   *)
(* an initializer that loads the symbols and an exit handler that drops    *)
(* them, unlocks and destroys the mutex while other threads still resolve. *)
(*                                                                         *)
(* A definition whose name ends in _Wrong is not part of the model: it is  *)
(* the definition after it with a mistake, which the property named in its *)
(* comment tells from the right one.  The steps are put together by        *)
(* WindowsLibrary.                                                         *)
(***************************************************************************)
EXTENDS WindowsProcess

CONSTANTS
    MaxFrames    \* bound: frames of the stack that is printed

ASSUME MaxFramesAssumption == MaxFrames \in Nat \ {0}
ASSUME MutexAssumption == Threads \cap {"uncreated", "free", "destroyed"} = {}

VARIABLES
    process,     \* whether s_currentProcess is set
    dbgMutex,    \* holder of s_mutex_for_dbg_functions, or what it is without
    symbols,     \* whether DbgHelp has the symbols of the process
    look         \* where each thread is, see Looks

dbgVars == <<process, dbgMutex, symbols, look>>

(* A thread's place, and the frames that it still has to resolve:           *)
(*   "waiting"    before the lock in ItemResolved                           *)
(*   "inside"     in the three look-ups                                     *)
(*   "loading"    in SymInitialize                                          *)
(*   "closing"    before the lock in the exit handler                       *)
(*   "unloading"  in SymCleanup                                             *)
(*   "destroying" after the unlock that follows                             *)
Looks == [pc : {"out", "waiting", "inside", "loading", "closing", "unloading",
                "destroying"},
          left : 0..MaxFrames]
Out == [pc |-> "out", left |-> 0]

LookTo(t, l) == look' = [look EXCEPT ![t] = l]
Inside(t) == look[t].pc \in {"inside", "loading", "unloading"}

(* DbgHelpInTurn: a thread does not wait. *)
DbgMutexFree_Wrong == dbgMutex # "destroyed"
DbgMutexFree == dbgMutex = "free"

(* ExitEnds: the mutex is not given back. *)
Unlocked_Wrong(t) == dbgMutex
Unlocked(t) == IF dbgMutex = t THEN "free" ELSE dbgMutex

DbgInit ==
    /\ process = FALSE
    /\ dbgMutex = "uncreated"
    /\ symbols = FALSE
    /\ look = [t \in Threads |-> Out]

-----------------------------------------------------------------------------
(* StackInvestInitializationRoutineInline, to the call of SymInitialize. *)
StartStacks(t) ==
    /\ ~process
    /\ dbgMutex' = t
    /\ process' = TRUE
    /\ LookTo(t, [Out EXCEPT !.pc = "loading"])
    /\ UNCHANGED symbols

(* SymInitialize answers; a failure ends the program. *)
SymbolsLoaded(t) ==
    /\ look[t].pc = "loading"
    /\ dbgMutex' = Unlocked(t)
    /\ LookTo(t, Out)
    /\ \/ /\ symbols' = TRUE
          /\ handlers' = Append(handlers, "stacks")
          /\ UNCHANGED <<process, life>>
       \/ /\ process' = FALSE
          /\ life' = "exiting"
          /\ UNCHANGED <<symbols, handlers>>

(* ProgramsInvestigatorStackItemResolved of one frame (n = 1), or           *)
(* ProgramsInvestigatorStackPrint of n frames, which resolves one by one.   *)
Resolve(t, n) ==
    /\ LookTo(t, [pc |-> "waiting", left |-> n])
    /\ UNCHANGED <<process, dbgMutex, symbols>>

(* TypeOK: the loop runs once more. *)
AfterFrame_Wrong(n) == IF n = 0 THEN Out ELSE [pc |-> "waiting", left |-> n - 1]
AfterFrame(n) == IF n = 1 THEN Out ELSE [pc |-> "waiting", left |-> n - 1]

(* There is no memory for the item, and the frame is left out. *)
NoItem(t) ==
    /\ look[t].pc = "waiting"
    /\ LookTo(t, AfterFrame(look[t].left))
    /\ UNCHANGED <<process, dbgMutex, symbols, handlers, life>>

(* The lock.  One that is not there any more keeps nobody out, or crashes.  *)
Lock(t) ==
    /\ look[t].pc = "waiting"
    /\ \/ /\ DbgMutexFree
          /\ dbgMutex' = t
          /\ LookTo(t, [look[t] EXCEPT !.pc = "inside"])
          /\ UNCHANGED life
       \/ /\ dbgMutex = "destroyed"
          /\ LookTo(t, [look[t] EXCEPT !.pc = "inside"])
          /\ UNCHANGED <<dbgMutex, life>>
       \/ /\ dbgMutex = "destroyed"
          /\ life' = "crashed"
          /\ UNCHANGED <<dbgMutex, look>>
    /\ UNCHANGED <<process, symbols, handlers>>

(* The function, the source line and the module are looked up; what is not  *)
(* found gets the unknown name.  Then the unlock.                           *)
LookUp(t) ==
    /\ look[t].pc = "inside"
    /\ dbgMutex' = Unlocked(t)
    /\ LookTo(t, AfterFrame(look[t].left))
    /\ UNCHANGED <<process, symbols, handlers, life>>

(* StackInvestCleanupRoutine. *)
EndStacks(t) ==
    /\ LookTo(t, [Out EXCEPT !.pc = IF process THEN "closing" ELSE "destroying"])
    /\ UNCHANGED <<process, dbgMutex, symbols>>

LockToClose(t) ==
    /\ look[t].pc = "closing"
    /\ DbgMutexFree
    /\ dbgMutex' = t
    /\ LookTo(t, [Out EXCEPT !.pc = "unloading"])
    /\ UNCHANGED <<process, symbols, handlers, life>>

SymbolsDropped(t) ==
    /\ look[t].pc = "unloading"
    /\ symbols' = FALSE
    /\ dbgMutex' = Unlocked(t)
    /\ LookTo(t, [Out EXCEPT !.pc = "destroying"])
    /\ UNCHANGED <<process, handlers, life>>

DestroyMutex(t) ==
    /\ look[t].pc = "destroying"
    /\ process' = FALSE
    /\ dbgMutex' = "destroyed"
    /\ LookTo(t, Out)
    /\ UNCHANGED <<symbols, handlers, life>>

-----------------------------------------------------------------------------
(* The steps of a thread that is inside this component. *)
InStacks(t) ==
    \/ SymbolsLoaded(t) \/ NoItem(t) \/ Lock(t) \/ LookUp(t)
    \/ LockToClose(t) \/ SymbolsDropped(t) \/ DestroyMutex(t)
================================================================================
