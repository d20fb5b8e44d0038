------------------------------ MODULE HookWindows ------------------------------
(***************************************************************************)
(* The allocation hooks on Windows,                                        *)
(* src/core/alloc_free_hook/progs_invest_alloc_free_hook_windows.cpp.  A   *)
(* module of the process calls malloc or LoadLibrary through an entry of   *)
(* its import table, and the hooks take these entries over, in one module  *)
(* after the other, while other threads load more modules.                 *)
(*                                                                         *)
(* malloc stands for the four functions of the C library, which are always *)
(* replaced together, and LoadLibraryA for its four variants.  "clib" and  *)
(* "system" are the originals, "hook" is AllocFreeHookMalloc in one kind   *)
(* of entry and CinternalLoadLibraryA in the other, "user" a function that *)
(* was given to AllocFreeHookSetMallocFnc.                                 *)
(*                                                                         *)
(* A definition whose name ends in _Wrong is not part of the model: it is  *)
(* the definition after it with a mistake, which the property named in its *)
(* comment tells from the right one.  The steps are put together by        *)
(* WindowsLibrary.                                                         *)
(***************************************************************************)
EXTENDS WindowsProcess

CONSTANTS
    Own,         \* the module that contains the library
    Initial,     \* modules that are there from the start
    Plugins,     \* modules that the program loads by name
    Deps,        \* the modules that come with a plug-in
    Initialisers \* threads whose call may be the one that initialises

ASSUME ModulesAssumption ==
    /\ Own \in Initial /\ Plugins \cap Initial = {}
    /\ \A p \in Plugins : p \notin Deps[p]
ASSUME InitialisersAssumption == Main \in Initialisers /\ Initialisers \subseteq Threads

NoModule == "none"
Modules == Initial \cup Plugins \cup UNION {Deps[p] : p \in Plugins}

ASSUME NoModuleAssumption == NoModule \notin Modules

VARIABLES
    imports,       \* the import entries of each loaded module
    inited,        \* s_nIsInited
    original,      \* s_malloc_c_lib
    loadOriginal,  \* s_loadlibA_st_lib
    g,             \* g_malloc
    saved,         \* s_mallocInitial of the investigator
    call,          \* where each thread is in the hooks, see Frames
    asked,         \* history: modules that a hooked LoadLibrary has returned
    late           \* history: modules patched by a load that began before the
                   \* hooks were taken down, and ended after

hookVars == <<imports, inited, original, loadOriginal, g, saved, call, asked,
              late>>

Entry == [alloc : {"clib", "hook"}, load : {"system", "hook"}]
Untouched == [alloc |-> "clib", load |-> "system"]

-----------------------------------------------------------------------------
(* struct SCInternalReplaceFunctionData: entries of one kind that lead to   *)
(* "from" are made to lead to "to".                                         *)
Replace(e, data) ==
    IF e[data.func] = data.from THEN [e EXCEPT ![data.func] = data.to] ELSE e

(* LoadedModulesPatched: looks for the function that the hooks lead to. *)
PrepareData_Wrong(c) == [func |-> "alloc", from |-> g, to |-> "hook"]

(* ReplaceAllocFreeFunctionsPrepareInline. *)
PrepareData(c) == [func |-> "alloc", from |-> c, to |-> "hook"]

PatchLoadData == [func |-> "load", from |-> loadOriginal, to |-> "hook"]
RestoreLoadData == [func |-> "load", from |-> "hook", to |-> loadOriginal]
RestoreAllocData == [func |-> "alloc", from |-> "hook", to |-> original]

NoData == [func |-> "alloc", from |-> "null", to |-> "null"]

(* A thread's place in the hooks:                                           *)
(*   "take"     alloc_free_hook_initialize_inline has found s_nIsInited 0   *)
(*   a pass     CInternalReplaceFunctionsAllModules, the modules in todo    *)
(*              are still to come                                           *)
(*   "register" the tables are patched, s_nIsInited is still 0              *)
(*   "body"     what the caller (op) does after the initialisation          *)
(*   "load"     in CinternalLoadLibraryA, before the module is loaded       *)
(*   "patch"    in CinternalLoadLibraryA, after it                          *)
Patching == {"patchAlloc", "patchLoad"}
Restoring == {"restoreLoad", "restoreAlloc"}

Funcs == {"null", "clib", "system", "hook", "user"}

Frames == [pc : Patching \cup Restoring \cup {"app", "take", "register", "body",
                                              "load", "patch"},
           op : {"none", "hooks", "set", "investigator", "investEnd", "load", "clean"},
           todo : SUBSET Modules,
           data : [func : {"alloc", "load"}, from : Funcs, to : Funcs],
           mod : Modules \cup {NoModule},
           early : BOOLEAN]

Away == [pc |-> "app", op |-> "none", todo |-> {}, data |-> NoData,
         mod |-> NoModule, early |-> FALSE]

Goto(t, frame) == call' = [call EXCEPT ![t] = frame]

(* CInternalReplaceFunctionsAllModules takes the list of loaded modules. *)
StartPass(t, pass, data) ==
    Goto(t, [call[t] EXCEPT !.pc = pass, !.todo = DOMAIN imports, !.data = data])

HooksInit ==
    /\ imports = [m \in Initial |-> Untouched]
    /\ inited = FALSE
    /\ original = "null"
    /\ loadOriginal = "null"
    /\ g = "null"
    /\ saved = "null"
    /\ call = [t \in Threads |-> Away]
    /\ asked = {}
    /\ late = {}

-----------------------------------------------------------------------------
(* alloc_free_hook_initialize_inline.  The flag is tested first and set     *)
(* last, and nothing locks.                                                 *)

(* DispatchOK: it is not tested. *)
AlreadyInited_Wrong == FALSE
AlreadyInited == inited

Enter(t, op) ==
    /\ Goto(t, [Away EXCEPT !.pc = IF AlreadyInited THEN "body" ELSE "take", !.op = op])
    /\ UNCHANGED <<imports, inited, original, loadOriginal, g, saved, asked, late>>

(* &malloc is what the import entry of the library's own module leads to. *)
TakeOriginals(t) ==
    /\ call[t].pc = "take"
    /\ original' = imports[Own].alloc
    /\ loadOriginal' = imports[Own].load
    /\ g' = imports[Own].alloc
    /\ StartPass(t, "patchAlloc", PrepareData(imports[Own].alloc))
    /\ UNCHANGED <<imports, inited, saved, asked, late, handlers>>

(* One module of a pass, in any order. *)
ReplaceInModule(t) ==
    /\ call[t].pc \in Patching \cup Restoring
    /\ \E m \in call[t].todo :
          /\ imports' = [imports EXCEPT ![m] = Replace(@, call[t].data)]
          /\ Goto(t, [call[t] EXCEPT !.todo = @ \ {m}])
    /\ UNCHANGED <<inited, original, loadOriginal, g, saved, asked, late, handlers>>

(* The end of a pass: to the next one, or to what follows the last.  After  *)
(* the last pass of alloc_free_hook_cleanup s_nIsInited is 0 again.         *)
NextPass(t) ==
    /\ call[t].todo = {}
    /\ \/ /\ call[t].pc = "patchAlloc"
          /\ StartPass(t, "patchLoad", PatchLoadData)
          /\ UNCHANGED inited
       \/ /\ call[t].pc = "patchLoad"
          /\ Goto(t, [call[t] EXCEPT !.pc = "register"])
          /\ UNCHANGED inited
       \/ /\ call[t].pc = "restoreLoad"
          /\ StartPass(t, "restoreAlloc", RestoreAllocData)
          /\ UNCHANGED inited
       \/ /\ call[t].pc = "restoreAlloc"
          /\ Goto(t, Away)
          /\ inited' = FALSE
    /\ UNCHANGED <<imports, original, loadOriginal, g, saved, asked, late, handlers>>

(* RestoredAtExit: only the initializer registers the clean-up. *)
Registered_Wrong == handlers
Registered == Append(handlers, "hooks")

Register(t) ==
    /\ call[t].pc = "register"
    /\ handlers' = Registered
    /\ inited' = TRUE
    /\ Goto(t, [call[t] EXCEPT !.pc = "body"])
    /\ UNCHANGED <<imports, original, loadOriginal, g, saved, asked, late>>

-----------------------------------------------------------------------------
(* What the functions do that initialise first.                             *)

(* The initializer of the hooks registers the clean-up once more. *)
HooksInitializer(t) ==
    /\ call[t].op = "hooks"
    /\ handlers' = Append(handlers, "hooks")
    /\ UNCHANGED <<g, saved>>

(* AllocFreeHookSetMallocFnc. *)
SetMallocFnc(t) ==
    /\ call[t].op = "set"
    /\ g' = "user"
    /\ UNCHANGED <<handlers, saved>>

(* ProgsInvestMemLeakIestInitInline saves the function and sets its own. *)
InvestigatorInit(t) ==
    /\ call[t].op = "investigator"
    /\ saved' = g
    /\ handlers' = Append(handlers, "investigator")
    /\ g' = "user"

(* programs_investigator_mem_leak_invest_clean gives it back. *)
InvestigatorClean(t) ==
    /\ call[t].op = "investEnd"
    /\ g' = saved
    /\ UNCHANGED <<handlers, saved>>

Body(t) ==
    /\ call[t].pc = "body"
    /\ HooksInitializer(t) \/ SetMallocFnc(t) \/ InvestigatorInit(t) \/ InvestigatorClean(t)
    /\ Goto(t, Away)
    /\ UNCHANGED <<imports, inited, original, loadOriginal, asked, late>>

(* alloc_free_hook_cleanup. *)
CleanUp(t) ==
    /\ IF inited
       THEN StartPass(t, "restoreLoad", RestoreLoadData)
       ELSE UNCHANGED call
    /\ UNCHANGED <<imports, inited, original, loadOriginal, g, saved, asked, late>>

-----------------------------------------------------------------------------
(* The hooks are in place, or on their way, and not being taken down. *)
Initialising == \E t \in Threads : call[t].pc \in Patching \cup {"register"}
HooksUp ==
    /\ inited \/ Initialising
    /\ \A t \in Threads : call[t].pc # "restoreAlloc"

(* The loader, external: a plug-in comes with the modules it depends on,    *)
(* and one that is loaded already is only returned.                         *)
Load(m) ==
    imports' = [n \in DOMAIN imports \cup {m} \cup Deps[m] |->
                   IF n \in DOMAIN imports THEN imports[n] ELSE Untouched]

(* Code of module c asks for plug-in m; the entry of c is not taken over. *)
LoadLibrary(t, c, m) ==
    /\ imports[c].load = "system"
    /\ Load(m)
    /\ UNCHANGED <<inited, original, loadOriginal, g, saved, call, asked, late>>

(* It is: CinternalLoadLibraryA. *)
CinternalLoadLibrary(t, c, m) ==
    /\ imports[c].load = "hook"
    /\ Goto(t, [Away EXCEPT !.pc = "load", !.op = "load", !.mod = m, !.early = HooksUp])
    /\ UNCHANGED <<imports, inited, original, loadOriginal, g, saved, asked, late>>

RealLoad(t) ==
    /\ call[t].pc = "load"
    /\ \/ /\ Load(call[t].mod)
          /\ Goto(t, [call[t] EXCEPT !.pc = "patch"])
       \/ /\ Goto(t, Away)
          /\ UNCHANGED imports
    /\ UNCHANGED <<inited, original, loadOriginal, g, saved, asked, late, handlers>>

(* CInternalReplaceFunctionsForModule: the allocation functions of the one  *)
(* module that was asked for, and not its LoadLibrary.                      *)
PatchLoaded(t) ==
    LET m == call[t].mod IN
    /\ call[t].pc = "patch"
    /\ imports' = [imports EXCEPT ![m] = Replace(@, PrepareData(original))]
    /\ asked' = asked \cup {m}
    /\ late' = IF call[t].early /\ ~HooksUp THEN late \cup {m} ELSE late
    /\ Goto(t, Away)
    /\ UNCHANGED <<inited, original, loadOriginal, g, saved, handlers>>

-----------------------------------------------------------------------------
(* The steps of a thread that is inside the hooks. *)
InHooks(t) ==
    \/ TakeOriginals(t) \/ ReplaceInModule(t) \/ NextPass(t) \/ Register(t)
    \/ Body(t) \/ RealLoad(t) \/ PatchLoaded(t)
================================================================================
