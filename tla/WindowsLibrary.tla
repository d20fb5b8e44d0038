---------------------------- MODULE WindowsLibrary ----------------------------
(***************************************************************************)
(* The library in a Windows process, from its initializers to the last     *)
(* exit handler: the import-table hooks (HookWindows) and the resolution   *)
(* of stacks (DbgHelp), with the investigator as a client of the hooks.    *)
(*                                                                         *)
(* The initializers of the source files run in the order in which they     *)
(* were linked, which the code does not fix: in any order.  The            *)
(* investigator is initialised by its initializer or by a later call.      *)
(***************************************************************************)
EXTENDS HookWindows, DbgHelp

VARIABLES
    pending      \* initializers that have not run

vars == <<life, handlers, calls, pending, hookVars, dbgVars>>

Init ==
    /\ ProcessInit
    /\ HooksInit
    /\ DbgInit
    /\ pending = {"hooks", "stacks", "investigator"}

Idle(t) == call[t].pc = "app" /\ look[t].pc = "out"

-----------------------------------------------------------------------------
(* The initial thread before main, and the initialisation of the            *)
(* investigator whenever it comes.                                          *)

HooksStart ==
    /\ life = "starting" /\ Idle(Main) /\ "hooks" \in pending
    /\ pending' = pending \ {"hooks"}
    /\ Enter(Main, "hooks")
    /\ UNCHANGED <<life, handlers, calls, dbgVars>>

StacksStart ==
    /\ life = "starting" /\ Idle(Main) /\ "stacks" \in pending
    /\ pending' = pending \ {"stacks"}
    /\ StartStacks(Main)
    /\ UNCHANGED <<life, handlers, calls, hookVars>>

(* ProgsInvestMemLeakIestInitInline asks for its thread-local block under   *)
(* key 0, which nobody gave it, and unless it finds one there allocates it  *)
(* with AllocFreeHookCLibCalloc: through a null pointer as long as the      *)
(* hooks are not initialised.                                               *)
InvestigatorStart ==
    /\ life \in {"starting", "running"} /\ Idle(Main) /\ "investigator" \in pending
    /\ pending' = pending \ {"investigator"}
    /\ \/ /\ Enter(Main, "investigator")
          /\ UNCHANGED life
       \/ /\ original = "null"
          /\ life' = "crashed"
          /\ UNCHANGED hookVars
    /\ UNCHANGED <<handlers, calls, dbgVars>>

MainStarts ==
    /\ life = "starting" /\ Idle(Main) /\ pending \subseteq {"investigator"}
    /\ life' = "running"
    /\ UNCHANGED <<handlers, calls, pending, hookVars, dbgVars>>

-----------------------------------------------------------------------------
(* Calls of the program, one at a time in each thread.                      *)

LoadPlugin(t) ==
    /\ Alive /\ Idle(t) /\ Calls(t)
    /\ \E c \in DOMAIN imports, m \in Plugins :
          LoadLibrary(t, c, m) \/ CinternalLoadLibrary(t, c, m)
    /\ UNCHANGED <<life, handlers, pending, dbgVars>>

SetFunction(t) ==
    /\ Alive /\ Idle(t) /\ Calls(t)
    /\ inited \/ t \in Initialisers
    /\ Enter(t, "set")
    /\ UNCHANGED <<life, handlers, pending, dbgVars>>

(* The mutex of DbgHelp exists once the initializers have run. *)
ResolveStack(t) ==
    /\ life \in {"running", "exiting"} /\ Idle(t) /\ Calls(t)
    /\ \E n \in 1..MaxFrames : Resolve(t, n)
    /\ UNCHANGED <<life, handlers, pending, hookVars>>

-----------------------------------------------------------------------------
(* The end: the handlers, last one first, and then the process is gone.     *)

ExitStarts ==
    /\ life = "running" /\ Idle(Main)
    /\ life' = "exiting"
    /\ UNCHANGED <<handlers, calls, pending, hookVars, dbgVars>>

RunHandler ==
    /\ life = "exiting" /\ Idle(Main) /\ handlers # <<>>
    /\ handlers' = SubSeq(handlers, 1, Len(handlers) - 1)
    /\ LET h == handlers[Len(handlers)] IN
          \/ h = "hooks" /\ CleanUp(Main) /\ UNCHANGED dbgVars
          \/ h = "investigator" /\ Enter(Main, "investEnd") /\ UNCHANGED dbgVars
          \/ h = "stacks" /\ EndStacks(Main) /\ UNCHANGED hookVars
    /\ UNCHANGED <<life, calls, pending>>

ProcessOver ==
    /\ life = "exiting" /\ Idle(Main) /\ handlers = <<>>
    /\ life' = "over"
    /\ UNCHANGED <<handlers, calls, pending, hookVars, dbgVars>>

-----------------------------------------------------------------------------
Continue(t) ==
    /\ Alive
    /\ \/ InHooks(t) /\ UNCHANGED <<life, calls, pending, dbgVars>>
       \/ InStacks(t) /\ UNCHANGED <<calls, pending, hookVars>>

Exit == RunHandler \/ ProcessOver

Next ==
    \/ HooksStart \/ StacksStart \/ InvestigatorStart \/ MainStarts
    \/ ExitStarts \/ Exit
    \/ \E t \in Threads :
          Continue(t) \/ LoadPlugin(t) \/ SetFunction(t) \/ ResolveStack(t)

(* Threads inside the library go on, and exit runs its handlers.            *)
FairSpec == Init /\ [][Next]_vars /\ WF_vars(Exit) /\ \A t \in Threads : WF_vars(Continue(t))

-----------------------------------------------------------------------------
(* Type invariant. *)
TypeOK ==
    /\ life \in {"starting", "running", "exiting", "over", "crashed"}
    /\ handlers \in Seq({"hooks", "stacks", "investigator"})
    /\ calls \in 0..MaxCalls
    /\ pending \subseteq {"hooks", "stacks", "investigator"}
    /\ Initial \subseteq DOMAIN imports /\ DOMAIN imports \subseteq Modules
    /\ imports \in [DOMAIN imports -> Entry]
    /\ inited \in BOOLEAN
    /\ original \in {"null", "clib", "hook"}
    /\ loadOriginal \in {"null", "system", "hook"}
    /\ g \in {"null", "clib", "hook", "user"}
    /\ saved \in {"null", "clib", "hook", "user"}
    /\ call \in [Threads -> Frames]
    /\ asked \subseteq Modules /\ late \subseteq Modules
    /\ process \in BOOLEAN /\ symbols \in BOOLEAN
    /\ dbgMutex \in Threads \cup {"uncreated", "free", "destroyed"}
    /\ look \in [Threads -> Looks]
    /\ \A t \in Threads : look[t].pc \in {"waiting", "inside"} <=> look[t].left > 0

(* An entry that was taken over leads somewhere: never to a null pointer,   *)
(* and never back to the hook, which would call itself for ever.  This      *)
(* survives initialisation in any order, the clean-up, the initialisation   *)
(* that the investigator's own clean-up repeats after it, and loads that    *)
(* go on meanwhile.                                                         *)
DispatchOK ==
    \A m \in DOMAIN imports :
        /\ imports[m].alloc = "hook" => g \in {"clib", "user"} /\ original = "clib"
        /\ imports[m].load = "hook" => loadOriginal = "system"

(* While the hooks are up every module from the start is patched, and so are *)
(* the allocation functions of every module that a hooked LoadLibrary has   *)
(* returned, whatever was loaded while the tables were written.  It does    *)
(* not say that every module loaded later is: LoadLibrary of such a module  *)
(* stays as the loader made it (PatchLoaded), and what it loads itself, or  *)
(* brings along, is never patched.                                          *)
LoadedModulesPatched ==
    inited /\ (\A t \in Threads : call[t].pc \notin Restoring) =>
        /\ \A m \in Initial : imports[m] = [alloc |-> "hook", load |-> "hook"]
        /\ \A m \in asked : imports[m].alloc = "hook"

(* The process ends with every import entry as the loader made it, except   *)
(* in a module that another thread was loading through the hooks while they *)
(* were taken down: also when the hooks are initialised once more by the    *)
(* last handlers, and when SymInitialize fails and ends the program early.  *)
RestoredAtExit ==
    life = "over" =>
        \A m \in DOMAIN imports \ late : imports[m] = Untouched

(* DbgHelp is single threaded: until the mutex is destroyed only its holder *)
(* is in a function of DbgHelp, and before the exit begins nobody looks a   *)
(* name up without the symbols.                                             *)
DbgHelpInTurn ==
    dbgMutex # "destroyed" => \A t \in Threads :
        /\ Inside(t) => dbgMutex = t
        /\ look[t].pc = "inside" /\ life = "running" => process /\ symbols

(* A program that exits comes to its end: no handler waits for ever, and    *)
(* handlers that register handlers come to an end too.                      *)
ExitEnds == life = "exiting" ~> life \in {"over", "crashed"}
===============================================================================
