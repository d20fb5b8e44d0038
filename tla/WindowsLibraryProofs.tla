-------------------------- MODULE WindowsLibraryProofs --------------------------
(***************************************************************************)
(* Theorems about WindowsLibrary, for any number of threads, of modules    *)
(* that are loaded, of calls and of frames.  Those about the import tables *)
(* are for a process in which one thread, the initial one, initialises the *)
(* hooks; the types and the use of DbgHelp need no such thing.             *)
(***************************************************************************)
EXTENDS WindowsLibrary, SequenceTheorems, TLAPS

USE MainAssumption, MaxCallsAssumption, MaxFramesAssumption

-----------------------------------------------------------------------------
(* The types.  What a pass puts into the import tables is the hook or an    *)
(* original, and the originals are taken before the first pass.             *)
Handlers == {"hooks", "stacks", "investigator"}

Fits(data) ==
    /\ data.func = "alloc" => data.to \in {"clib", "hook"}
    /\ data.func = "load" => data.to \in {"system", "hook"}

Taken == original # "null" /\ loadOriginal # "null"

FrameFits(f) ==
    /\ f.pc \in Patching \cup Restoring => Fits(f.data)
    /\ f.pc \in {"load", "patch"} => f.mod \in Plugins

NeedsOriginals(f) == f.pc \in Patching \cup Restoring \cup {"register"}

ImportsOK ==
    /\ Initial \subseteq DOMAIN imports /\ DOMAIN imports \subseteq Modules
    /\ imports \in [DOMAIN imports -> Entry]

ValuesOK ==
    /\ original \in {"null", "clib", "hook"}
    /\ loadOriginal \in {"null", "system", "hook"}
    /\ g \in {"null", "clib", "hook", "user"}
    /\ saved \in {"null", "clib", "hook", "user"}
    /\ asked \subseteq Modules /\ late \subseteq Modules

FramesOK ==
    /\ inited \in BOOLEAN
    /\ inited => Taken
    /\ call \in [Threads -> Frames]
    /\ \A t \in Threads : FrameFits(call[t])
    /\ \A t \in Threads : NeedsOriginals(call[t]) => Taken

HookTypes == ImportsOK /\ ValuesOK /\ FramesOK

LEMMA AwayFrame ==
    /\ Away \in Frames /\ FrameFits(Away) /\ ~NeedsOriginals(Away)
    /\ Away.pc = "app" /\ Away.todo = {} /\ Away.op = "none" /\ Away.mod = NoModule
BY DEF Away, Frames, NoData, Funcs, FrameFits, NeedsOriginals, Patching, Restoring

(* What the ways to move do to the frames: of one thread, and typed.        *)
OnlyFrame(t) ==
    /\ call' \in [Threads -> Frames]
    /\ \A u \in Threads : u # t => call'[u] = call[u]

LEMMA GotoFrame ==
    ASSUME call \in [Threads -> Frames], NEW t \in Threads, NEW f \in Frames, Goto(t, f)
    PROVE  OnlyFrame(t) /\ call'[t] = f
BY DEF Goto, OnlyFrame

LEMMA ToAway ==
    ASSUME FramesOK, NEW t \in Threads, Goto(t, Away)
    PROVE  OnlyFrame(t) /\ call'[t] = Away
BY AwayFrame, GotoFrame DEF FramesOK

LEMMA ToPass ==
    ASSUME FramesOK, ImportsOK, NEW t \in Threads, NEW pass \in Patching \cup Restoring,
           NEW data \in [func : {"alloc", "load"}, from : Funcs, to : Funcs],
           StartPass(t, pass, data)
    PROVE  /\ OnlyFrame(t)
           /\ call'[t].pc = pass /\ call'[t].todo = DOMAIN imports /\ call'[t].data = data
           /\ call'[t].op = call[t].op
<1>0. PICK f : f = [call[t] EXCEPT !.pc = pass, !.todo = DOMAIN imports, !.data = data]
  OBVIOUS
<1>1. call[t] \in Frames /\ DOMAIN imports \in SUBSET Modules
  BY DEF ImportsOK, FramesOK
<1>2. /\ f \in Frames /\ f.pc = pass /\ f.todo = DOMAIN imports /\ f.data = data
      /\ f.op = call[t].op
  BY <1>0, <1>1 DEF Frames
<1>3. Goto(t, f)
  BY <1>0 DEF StartPass
<1> QED
  BY <1>2, <1>3, GotoFrame DEF FramesOK

LEMMA ToPlace ==
    ASSUME FramesOK, NEW t \in Threads, NEW p \in {"register", "body", "patch"},
           Goto(t, [call[t] EXCEPT !.pc = p])
    PROVE  /\ OnlyFrame(t) /\ call'[t].pc = p /\ call'[t].op = call[t].op
           /\ call'[t].mod = call[t].mod /\ call'[t].early = call[t].early
<1>0. PICK f : f = [call[t] EXCEPT !.pc = p]
  OBVIOUS
<1>1. call[t] \in Frames
  BY DEF FramesOK
<1>2. /\ f \in Frames /\ f.pc = p /\ f.op = call[t].op
      /\ f.mod = call[t].mod /\ f.early = call[t].early
  BY <1>0, <1>1 DEF Frames
<1> QED
  BY <1>0, <1>2, GotoFrame DEF FramesOK

LEMMA ToFewer ==
    ASSUME FramesOK, NEW t \in Threads, NEW m, Goto(t, [call[t] EXCEPT !.todo = @ \ {m}])
    PROVE  /\ OnlyFrame(t) /\ call'[t].pc = call[t].pc /\ call'[t].op = call[t].op
           /\ call'[t].data = call[t].data /\ call'[t].todo = call[t].todo \ {m}
           /\ call'[t].mod = call[t].mod
<1>0. PICK f : f = [call[t] EXCEPT !.todo = @ \ {m}]
  OBVIOUS
<1>1. call[t] \in Frames
  BY DEF FramesOK
<1>2. /\ f \in Frames /\ f.pc = call[t].pc /\ f.op = call[t].op
      /\ f.data = call[t].data /\ f.todo = call[t].todo \ {m} /\ f.mod = call[t].mod
  BY <1>0, <1>1 DEF Frames
<1> QED
  BY <1>0, <1>2, GotoFrame DEF FramesOK

LEMMA ToEntry ==
    ASSUME FramesOK, NEW t \in Threads,
           NEW op \in {"hooks", "set", "investigator", "investEnd"}, Enter(t, op)
    PROVE  /\ OnlyFrame(t) /\ call'[t].op = op
           /\ call'[t].pc = IF inited THEN "body" ELSE "take"
<1>0. PICK f : f = [Away EXCEPT !.pc = IF AlreadyInited THEN "body" ELSE "take", !.op = op]
  OBVIOUS
<1>1. f \in Frames /\ f.pc = (IF inited THEN "body" ELSE "take") /\ f.op = op
  BY <1>0, AwayFrame DEF Frames, AlreadyInited
<1> QED
  BY <1>0, <1>1, GotoFrame DEF FramesOK, Enter

LEMMA ToLoad ==
    ASSUME FramesOK, NEW t \in Threads, NEW c, NEW m \in Plugins, CinternalLoadLibrary(t, c, m)
    PROVE  /\ OnlyFrame(t) /\ call'[t].pc = "load" /\ call'[t].op = "load"
           /\ call'[t].mod = m /\ call'[t].early = HooksUp
<1>0. PICK f : f = [Away EXCEPT !.pc = "load", !.op = "load", !.mod = m, !.early = HooksUp]
  OBVIOUS
<1>1. HooksUp \in BOOLEAN
  BY DEF HooksUp, Initialising, FramesOK
<1>2. f \in Frames /\ f.pc = "load" /\ f.op = "load" /\ f.mod = m /\ f.early = HooksUp
  BY <1>0, <1>1, AwayFrame DEF Frames, Modules
<1> QED
  BY <1>0, <1>2, GotoFrame DEF FramesOK, CinternalLoadLibrary

LEMMA FrameStep ==
    ASSUME HookTypes, NEW t \in Threads, OnlyFrame(t), FrameFits(call'[t]),
           ImportsOK', ValuesOK', Taken => Taken', NeedsOriginals(call'[t]) => Taken',
           inited' \in BOOLEAN, inited' => Taken'
    PROVE  HookTypes'
<1>1. \A u \in Threads : FrameFits(call'[u]) /\ (NeedsOriginals(call'[u]) => Taken')
  BY DEF HookTypes, FramesOK, OnlyFrame
<1>2. FramesOK'
  BY <1>1 DEF FramesOK, OnlyFrame
<1> QED
  BY <1>2 DEF HookTypes

-----------------------------------------------------------------------------
(* What one module's entries become. *)
LEMMA ReplaceAlloc ==
    ASSUME NEW e \in Entry, NEW d, d.func = "alloc", d.to \in {"clib", "hook"}
    PROVE  /\ Replace(e, d) \in Entry
           /\ Replace(e, d).load = e.load
           /\ Replace(e, d).alloc = IF e.alloc = d.from THEN d.to ELSE e.alloc
BY DEF Replace, Entry

LEMMA ReplaceLoad ==
    ASSUME NEW e \in Entry, NEW d, d.func = "load", d.to \in {"system", "hook"}
    PROVE  /\ Replace(e, d) \in Entry
           /\ Replace(e, d).alloc = e.alloc
           /\ Replace(e, d).load = IF e.load = d.from THEN d.to ELSE e.load
BY DEF Replace, Entry

LEMMA ImportAt ==
    ASSUME ImportsOK, NEW m, NEW e, m \in DOMAIN imports => e \in Entry,
           imports' = [imports EXCEPT ![m] = e]
    PROVE  /\ ImportsOK' /\ DOMAIN imports' = DOMAIN imports
           /\ m \in DOMAIN imports => imports'[m] = e
           /\ \A n \in DOMAIN imports : n # m => imports'[n] = imports[n]
BY DEF ImportsOK

LEMMA LoadAt ==
    ASSUME ImportsOK, NEW m \in Plugins, Load(m)
    PROVE  /\ ImportsOK'
           /\ DOMAIN imports \subseteq DOMAIN imports' /\ m \in DOMAIN imports'
           /\ \A n \in DOMAIN imports : imports'[n] = imports[n]
           /\ \A n \in DOMAIN imports' : n \notin DOMAIN imports => imports'[n] = Untouched
<1>1. DOMAIN imports' = DOMAIN imports \cup {m} \cup Deps[m]
  BY DEF Load
<1>2. \A n \in DOMAIN imports' :
         imports'[n] = IF n \in DOMAIN imports THEN imports[n] ELSE Untouched
  BY DEF Load
<1>3. Untouched \in Entry
  BY DEF Untouched, Entry
<1>4. {m} \cup Deps[m] \subseteq Modules
  BY DEF Modules
<1>5. imports' = [n \in DOMAIN imports' |-> imports'[n]]
  BY <1>1 DEF Load
<1>6. \A n \in DOMAIN imports' : imports'[n] \in Entry
  BY <1>2, <1>3 DEF ImportsOK
<1>7. imports' \in [DOMAIN imports' -> Entry]
  BY <1>5, <1>6
<1> QED
  BY <1>1, <1>2, <1>4, <1>7 DEF ImportsOK

-----------------------------------------------------------------------------
(* The steps inside the hooks keep the types. *)
LEMMA EnterKeeps ==
    ASSUME HookTypes, NEW t \in Threads,
           NEW op \in {"hooks", "set", "investigator", "investEnd"}, Enter(t, op)
    PROVE  HookTypes'
<1>1. OnlyFrame(t) /\ call'[t].pc \in {"take", "body"}
  BY ToEntry DEF HookTypes
<1>2. FrameFits(call'[t]) /\ ~NeedsOriginals(call'[t])
  BY <1>1 DEF FrameFits, NeedsOriginals, Patching, Restoring
<1>3. ImportsOK' /\ ValuesOK' /\ (Taken <=> Taken') /\ inited' = inited
  BY DEF HookTypes, Enter, ImportsOK, ValuesOK, Taken
<1> QED
  BY <1>1, <1>2, <1>3, FrameStep DEF HookTypes, FramesOK

LEMMA PassKeeps ==
    ASSUME HookTypes, NEW t \in Threads, NEW pass \in Patching \cup Restoring,
           NEW data \in [func : {"alloc", "load"}, from : Funcs, to : Funcs], Fits(data),
           StartPass(t, pass, data), UNCHANGED <<imports, inited>>, ValuesOK', Taken'
    PROVE  HookTypes'
<1>1. OnlyFrame(t) /\ call'[t].pc = pass /\ call'[t].data = data
  BY ToPass DEF HookTypes
<1>2. FrameFits(call'[t])
  BY <1>1 DEF FrameFits, Patching, Restoring
<1>3. ImportsOK' /\ inited' \in BOOLEAN
  BY DEF HookTypes, ImportsOK, FramesOK
<1> QED
  BY <1>1, <1>2, <1>3, FrameStep

(* A thread that leaves. *)
LEMMA LeaveKeeps ==
    ASSUME HookTypes, NEW t \in Threads, Goto(t, Away), ImportsOK', ValuesOK',
           Taken <=> Taken', inited' \in BOOLEAN, inited' => Taken'
    PROVE  HookTypes'
BY ToAway, AwayFrame, FrameStep DEF HookTypes

LEMMA HooksKeep ==
    ASSUME HookTypes, NEW t \in Threads, InHooks(t)
    PROVE  HookTypes'
<1> USE ModulesAssumption
<1>1. CASE TakeOriginals(t)
  <2>1. imports[Own].alloc \in {"clib", "hook"} /\ imports[Own].load \in {"system", "hook"}
    BY DEF HookTypes, ImportsOK, Entry
  <2>2. ValuesOK' /\ Taken'
    BY <1>1, <2>1 DEF TakeOriginals, HookTypes, ValuesOK, Taken
  <2>3. /\ PrepareData(imports[Own].alloc) \in [func : {"alloc", "load"}, from : Funcs, to : Funcs]
        /\ Fits(PrepareData(imports[Own].alloc))
    BY <2>1 DEF PrepareData, Funcs, Fits
  <2>4. "patchAlloc" \in Patching \cup Restoring
    BY DEF Patching
  <2> QED
    BY <1>1, <2>2, <2>3, <2>4, PassKeeps DEF TakeOriginals
<1>2. CASE ReplaceInModule(t)
  <2>1. PICK m \in call[t].todo : /\ imports' = [imports EXCEPT ![m] = Replace(@, call[t].data)]
                                  /\ Goto(t, [call[t] EXCEPT !.todo = @ \ {m}])
    BY <1>2 DEF ReplaceInModule
  <2>2. /\ OnlyFrame(t) /\ call'[t].pc = call[t].pc /\ call'[t].data = call[t].data
        /\ call'[t].mod = call[t].mod
    BY <2>1, ToFewer DEF HookTypes
  <2>3. Fits(call[t].data) /\ call[t].data.func \in {"alloc", "load"} /\ call[t] \in Frames
    BY <1>2 DEF ReplaceInModule, HookTypes, FramesOK, FrameFits, Frames
  <2>4. ASSUME m \in DOMAIN imports PROVE Replace(imports[m], call[t].data) \in Entry
    <3>1. imports[m] \in Entry
      BY <2>4 DEF HookTypes, ImportsOK
    <3> QED
      BY <2>3, <3>1, ReplaceAlloc, ReplaceLoad DEF Fits
  <2>5. ImportsOK'
    BY <2>1, <2>4, ImportAt DEF HookTypes
  <2>6. FrameFits(call'[t]) /\ (NeedsOriginals(call'[t]) => Taken)
    BY <2>2 DEF HookTypes, FramesOK, FrameFits, NeedsOriginals
  <2>7. ValuesOK' /\ (Taken <=> Taken') /\ inited' = inited
    BY <1>2 DEF ReplaceInModule, HookTypes, ValuesOK, Taken
  <2> QED
    BY <2>2, <2>5, <2>6, <2>7, FrameStep DEF HookTypes, FramesOK
<1>3. CASE NextPass(t)
  <2>1. ImportsOK' /\ ValuesOK' /\ (Taken <=> Taken')
    BY <1>3 DEF NextPass, HookTypes, ImportsOK, ValuesOK, Taken
  <2>2. CASE call[t].pc = "patchAlloc" /\ StartPass(t, "patchLoad", PatchLoadData) /\ UNCHANGED inited
    <3>1. Taken
      BY <2>2 DEF HookTypes, FramesOK, NeedsOriginals, Patching
    <3>2. /\ PatchLoadData \in [func : {"alloc", "load"}, from : Funcs, to : Funcs]
          /\ Fits(PatchLoadData) /\ "patchLoad" \in Patching \cup Restoring
      BY DEF PatchLoadData, Funcs, Fits, Patching, HookTypes, ValuesOK
    <3> QED
      BY <1>3, <2>1, <2>2, <3>1, <3>2, PassKeeps DEF NextPass
  <2>3. CASE /\ call[t].pc = "patchLoad" /\ Goto(t, [call[t] EXCEPT !.pc = "register"])
             /\ UNCHANGED inited
    <3>1. OnlyFrame(t) /\ call'[t].pc = "register" /\ Taken
      BY <2>3, ToPlace DEF HookTypes, FramesOK, NeedsOriginals, Patching
    <3>2. FrameFits(call'[t])
      BY <3>1 DEF FrameFits, Patching, Restoring
    <3> QED
      BY <2>1, <2>3, <3>1, <3>2, FrameStep DEF HookTypes, FramesOK
  <2>4. CASE /\ call[t].pc = "restoreLoad" /\ StartPass(t, "restoreAlloc", RestoreAllocData)
             /\ UNCHANGED inited
    <3>1. Taken
      BY <2>4 DEF HookTypes, FramesOK, NeedsOriginals, Restoring
    <3>2. /\ RestoreAllocData \in [func : {"alloc", "load"}, from : Funcs, to : Funcs]
          /\ Fits(RestoreAllocData) /\ "restoreAlloc" \in Patching \cup Restoring
      BY <3>1 DEF RestoreAllocData, Funcs, Fits, Restoring, HookTypes, ValuesOK, Taken
    <3> QED
      BY <1>3, <2>1, <2>4, <3>1, <3>2, PassKeeps DEF NextPass
  <2>5. CASE call[t].pc = "restoreAlloc" /\ Goto(t, Away) /\ inited' = FALSE
    BY <2>1, <2>5, LeaveKeeps
  <2> QED
    BY <1>3, <2>2, <2>3, <2>4, <2>5 DEF NextPass
<1>4. CASE Register(t)
  <2>1. ImportsOK' /\ ValuesOK' /\ (Taken <=> Taken') /\ inited' = TRUE
    BY <1>4 DEF Register, HookTypes, ImportsOK, ValuesOK, Taken
  <2>2. OnlyFrame(t) /\ call'[t].pc = "body" /\ Taken
    BY <1>4, ToPlace DEF Register, HookTypes, FramesOK, NeedsOriginals
  <2>3. FrameFits(call'[t])
    BY <2>2 DEF FrameFits, Patching, Restoring
  <2> QED
    BY <2>1, <2>2, <2>3, FrameStep
<1>5. CASE Body(t)
  <2>1. ImportsOK' /\ ValuesOK' /\ (Taken <=> Taken') /\ inited' = inited
    BY <1>5 DEF Body, HooksInitializer, SetMallocFnc, InvestigatorInit, InvestigatorClean,
                HookTypes, ImportsOK, ValuesOK, Taken
  <2> QED
    BY <1>5, <2>1, LeaveKeeps DEF Body, HookTypes, FramesOK
<1>6. CASE RealLoad(t)
  <2>1. ValuesOK' /\ (Taken <=> Taken') /\ inited' = inited
    BY <1>6 DEF RealLoad, HookTypes, ValuesOK, Taken
  <2>2. call[t].mod \in Plugins
    BY <1>6 DEF RealLoad, HookTypes, FramesOK, FrameFits
  <2>3. CASE Load(call[t].mod) /\ Goto(t, [call[t] EXCEPT !.pc = "patch"])
    <3>1. OnlyFrame(t) /\ call'[t].pc = "patch" /\ call'[t].mod = call[t].mod
      BY <2>3, ToPlace DEF HookTypes
    <3>2. FrameFits(call'[t]) /\ ~NeedsOriginals(call'[t])
      BY <2>2, <3>1 DEF FrameFits, NeedsOriginals, Patching, Restoring
    <3>3. ImportsOK'
      BY <2>2, <2>3, LoadAt DEF HookTypes
    <3> QED
      BY <2>1, <3>1, <3>2, <3>3, FrameStep DEF HookTypes, FramesOK
  <2>4. CASE Goto(t, Away) /\ UNCHANGED imports
    <3>1. ImportsOK'
      BY <2>4 DEF HookTypes, ImportsOK
    <3> QED
      BY <2>1, <2>4, <3>1, LeaveKeeps DEF HookTypes, FramesOK
  <2> QED
    BY <1>6, <2>3, <2>4 DEF RealLoad
<1>7. CASE PatchLoaded(t)
  <2> DEFINE m == call[t].mod
  <2>1. m \in Modules
    BY <1>7 DEF PatchLoaded, HookTypes, FramesOK, FrameFits, Modules
  <2>2. m \in DOMAIN imports => Replace(imports[m], PrepareData(original)) \in Entry
    BY ReplaceAlloc DEF PrepareData, HookTypes, ImportsOK
  <2>3. imports' = [imports EXCEPT ![m] = Replace(imports[m], PrepareData(original))]
    BY <1>7 DEF PatchLoaded
  <2>4. ImportsOK'
    BY <2>2, <2>3, ImportAt DEF HookTypes
  <2>5. ValuesOK' /\ (Taken <=> Taken') /\ inited' = inited
    BY <1>7, <2>1 DEF PatchLoaded, HookTypes, ValuesOK, Taken
  <2> QED
    BY <1>7, <2>4, <2>5, LeaveKeeps DEF PatchLoaded, HookTypes, FramesOK
<1> QED
  BY <1>1, <1>2, <1>3, <1>4, <1>5, <1>6, <1>7 DEF InHooks

LEMMA CleanUpKeeps ==
    ASSUME HookTypes, NEW t \in Threads, CleanUp(t)
    PROVE  HookTypes'
<1>1. CASE inited /\ StartPass(t, "restoreLoad", RestoreLoadData)
  <2>1. Taken /\ Taken' /\ ValuesOK' /\ UNCHANGED <<imports, inited>>
    BY <1>1 DEF CleanUp, HookTypes, FramesOK, ValuesOK, Taken
  <2>2. /\ RestoreLoadData \in [func : {"alloc", "load"}, from : Funcs, to : Funcs]
        /\ Fits(RestoreLoadData) /\ "restoreLoad" \in Patching \cup Restoring
    BY <2>1 DEF RestoreLoadData, Funcs, Fits, Restoring, HookTypes, ValuesOK, Taken
  <2> QED
    BY <1>1, <2>1, <2>2, PassKeeps
<1>2. CASE UNCHANGED hookVars
  BY <1>2 DEF hookVars, HookTypes, ImportsOK, ValuesOK, FramesOK, Taken
<1> QED
  BY <1>1, <1>2 DEF CleanUp, hookVars

LEMMA LoadsKeep ==
    ASSUME HookTypes, NEW t \in Threads, NEW c, NEW m \in Plugins,
           LoadLibrary(t, c, m) \/ CinternalLoadLibrary(t, c, m)
    PROVE  HookTypes'
<1>1. ValuesOK' /\ (Taken <=> Taken') /\ inited' = inited
  BY DEF LoadLibrary, CinternalLoadLibrary, HookTypes, ValuesOK, Taken
<1>2. CASE LoadLibrary(t, c, m)
  <2>1. ImportsOK' /\ call' = call
    BY <1>2, LoadAt DEF LoadLibrary, HookTypes
  <2> QED
    BY <1>1, <2>1 DEF HookTypes, FramesOK
<1>3. CASE CinternalLoadLibrary(t, c, m)
  <2>1. OnlyFrame(t) /\ call'[t].pc = "load" /\ call'[t].mod = m
    BY <1>3, ToLoad DEF HookTypes
  <2>2. FrameFits(call'[t]) /\ ~NeedsOriginals(call'[t])
    BY <2>1 DEF FrameFits, NeedsOriginals, Patching, Restoring
  <2>3. ImportsOK'
    BY <1>3 DEF CinternalLoadLibrary, HookTypes, ImportsOK
  <2> QED
    BY <1>1, <2>1, <2>2, <2>3, FrameStep DEF HookTypes, FramesOK
<1> QED
  BY <1>2, <1>3

(* How the hooks and the rest of the process move together. *)
HookMoves ==
    \/ UNCHANGED hookVars
    \/ \E op \in {"hooks", "investigator", "investEnd"} : Enter(Main, op)
    \/ \E t \in Threads : Enter(t, "set")
    \/ \E t \in Threads, c \in DOMAIN imports, m \in Plugins :
          LoadLibrary(t, c, m) \/ CinternalLoadLibrary(t, c, m)
    \/ CleanUp(Main)
    \/ \E t \in Threads : InHooks(t)

LEMMA NextMovesHooks ==
    ASSUME [Next]_vars
    PROVE  HookMoves
<1>1. CASE UNCHANGED vars
  BY <1>1 DEF vars, HookMoves
<1>2. CASE HooksStart \/ InvestigatorStart
  BY <1>2, Zenon DEF HooksStart, InvestigatorStart, HookMoves
<1>3. CASE StacksStart \/ MainStarts \/ ExitStarts \/ ProcessOver
  BY <1>3, Zenon DEF StacksStart, MainStarts, ExitStarts, ProcessOver, HookMoves
<1>4. CASE RunHandler
  BY <1>4, Zenon DEF RunHandler, HookMoves
<1>5. ASSUME NEW t \in Threads,
             Continue(t) \/ LoadPlugin(t) \/ SetFunction(t) \/ ResolveStack(t)
      PROVE  HookMoves
  BY <1>5, Zenon DEF Continue, LoadPlugin, SetFunction, ResolveStack, HookMoves
<1> QED
  BY <1>1, <1>2, <1>3, <1>4, <1>5 DEF Next, Exit

LEMMA HookTypesHold == FairSpec => []HookTypes
<1>1. Init => HookTypes
  <2> SUFFICES ASSUME Init PROVE HookTypes
    OBVIOUS
  <2>1. ImportsOK
    BY DEF Init, HooksInit, ImportsOK, Modules, Untouched, Entry
  <2>2. ValuesOK
    BY DEF Init, HooksInit, ValuesOK
  <2>3. FramesOK
    BY AwayFrame DEF Init, HooksInit, FramesOK
  <2> QED
    BY <2>1, <2>2, <2>3 DEF HookTypes
<1>2. HookTypes /\ [Next]_vars => HookTypes'
  <2> SUFFICES ASSUME HookTypes, [Next]_vars PROVE HookTypes'
    OBVIOUS
  <2>1. CASE UNCHANGED hookVars
    BY <2>1 DEF hookVars, HookTypes, ImportsOK, ValuesOK, FramesOK, Taken
  <2> QED
    BY <2>1, NextMovesHooks, EnterKeeps, LoadsKeep, CleanUpKeeps, HooksKeep DEF HookMoves
<1> QED
  BY <1>1, <1>2, PTL DEF FairSpec

-----------------------------------------------------------------------------
(* DbgHelp: its types, and where its mutex and its symbols are.             *)
LookTypes ==
    /\ process \in BOOLEAN /\ symbols \in BOOLEAN
    /\ dbgMutex \in Threads \cup {"uncreated", "free", "destroyed"}
    /\ look \in [Threads -> Looks]
    /\ \A t \in Threads : look[t].pc \in {"waiting", "inside"} <=> look[t].left > 0

LEMMA LookStep ==
    ASSUME LookTypes, NEW t \in Threads, NEW l \in Looks, LookTo(t, l),
           l.pc \in {"waiting", "inside"} <=> l.left > 0,
           process' \in BOOLEAN, symbols' \in BOOLEAN,
           dbgMutex' \in Threads \cup {"uncreated", "free", "destroyed"}
    PROVE  LookTypes'
BY DEF LookTypes, LookTo

(* A place where no frames are left. *)
LEMMA OutAt ==
    ASSUME NEW p \in {"out", "loading", "closing", "unloading", "destroying"}
    PROVE  LET l == [Out EXCEPT !.pc = p]
           IN  l \in Looks /\ l.pc = p /\ l.left = 0
BY DEF Out, Looks

LEMMA OutIs == Out \in Looks /\ Out.pc = "out" /\ Out.left = 0
BY DEF Out, Looks

LEMMA AfterFrameIs ==
    ASSUME NEW n \in 1..MaxFrames
    PROVE  /\ AfterFrame(n) \in Looks /\ AfterFrame(n).pc \in {"out", "waiting"}
           /\ AfterFrame(n).pc \in {"waiting", "inside"} <=> AfterFrame(n).left > 0
BY DEF AfterFrame, Out, Looks

LEMMA UnlockedIs ==
    ASSUME LookTypes, NEW t
    PROVE  Unlocked(t) \in Threads \cup {"uncreated", "free", "destroyed"}
BY DEF LookTypes, Unlocked

LEMMA StacksKeepTypes ==
    ASSUME LookTypes, NEW t \in Threads, InStacks(t)
    PROVE  LookTypes'
<1>0. look[t] \in Looks /\ (look[t].pc \in {"waiting", "inside"} <=> look[t].left > 0)
  BY DEF LookTypes
<1>1. CASE SymbolsLoaded(t)
  <2>1. process' \in BOOLEAN /\ symbols' \in BOOLEAN
    BY <1>1 DEF SymbolsLoaded, LookTypes
  <2>2. dbgMutex' = Unlocked(t) /\ LookTo(t, Out)
    BY <1>1 DEF SymbolsLoaded
  <2> QED
    BY <2>1, <2>2, OutIs, UnlockedIs, LookStep
<1>2. CASE NoItem(t)
  <2>1. look[t].left \in 1..MaxFrames
    BY <1>0, <1>2 DEF NoItem, Looks
  <2> QED
    BY <1>2, <2>1, AfterFrameIs, LookStep DEF NoItem, LookTypes
<1>3. CASE Lock(t)
  <2>1. dbgMutex' \in Threads \cup {"uncreated", "free", "destroyed"}
    BY <1>3 DEF Lock, LookTypes
  <2>2. CASE LookTo(t, [look[t] EXCEPT !.pc = "inside"])
    <3>1. PICK l : l = [look[t] EXCEPT !.pc = "inside"]
      OBVIOUS
    <3>2. l \in Looks /\ l.pc = "inside" /\ l.left = look[t].left
      BY <1>0, <3>1 DEF Looks
    <3>3. l.left > 0
      BY <1>0, <1>3, <3>2 DEF Lock
    <3>4. LookTo(t, l)
      BY <2>2, <3>1
    <3> QED
      BY <1>3, <2>1, <3>2, <3>3, <3>4, LookStep DEF Lock, LookTypes
  <2>3. CASE UNCHANGED <<dbgMutex, look>>
    BY <1>3, <2>3 DEF Lock, LookTypes
  <2> QED
    BY <1>3, <2>2, <2>3 DEF Lock
<1>4. CASE LookUp(t)
  <2>1. look[t].left \in 1..MaxFrames
    BY <1>0, <1>4 DEF LookUp, Looks
  <2> QED
    BY <1>4, <2>1, AfterFrameIs, UnlockedIs, LookStep DEF LookUp, LookTypes
<1>5. CASE LockToClose(t)
  <2>1. PICK l : l = [Out EXCEPT !.pc = "unloading"]
    OBVIOUS
  <2>2. l \in Looks /\ l.pc = "unloading" /\ l.left = 0
    BY <2>1 DEF Out, Looks
  <2>3. LookTo(t, l)
    BY <1>5, <2>1 DEF LockToClose
  <2>4. /\ process' \in BOOLEAN /\ symbols' \in BOOLEAN
        /\ dbgMutex' \in Threads \cup {"uncreated", "free", "destroyed"}
    BY <1>5 DEF LockToClose, LookTypes
  <2> QED
    BY <2>2, <2>3, <2>4, LookStep
<1>6. CASE SymbolsDropped(t)
  <2>1. PICK l : l = [Out EXCEPT !.pc = "destroying"]
    OBVIOUS
  <2>2. l \in Looks /\ l.pc = "destroying" /\ l.left = 0
    BY <2>1 DEF Out, Looks
  <2>3. LookTo(t, l)
    BY <1>6, <2>1 DEF SymbolsDropped
  <2>4. /\ process' \in BOOLEAN /\ symbols' \in BOOLEAN
        /\ dbgMutex' \in Threads \cup {"uncreated", "free", "destroyed"}
    BY <1>6, UnlockedIs DEF SymbolsDropped, LookTypes
  <2> QED
    BY <2>2, <2>3, <2>4, LookStep
<1>7. CASE DestroyMutex(t)
  <2>1. LookTo(t, Out)
    BY <1>7 DEF DestroyMutex
  <2>2. /\ process' \in BOOLEAN /\ symbols' \in BOOLEAN
        /\ dbgMutex' \in Threads \cup {"uncreated", "free", "destroyed"}
    BY <1>7 DEF DestroyMutex, LookTypes
  <2> QED
    BY <2>1, <2>2, OutIs, LookStep
<1> QED
  BY <1>1, <1>2, <1>3, <1>4, <1>5, <1>6, <1>7 DEF InStacks

LEMMA StacksEntered ==
    ASSUME LookTypes, NEW t \in Threads,
           \/ StartStacks(t) \/ EndStacks(t)
           \/ \E n \in 1..MaxFrames : Resolve(t, n)
    PROVE  LookTypes'
<1>1. CASE StartStacks(t)
  <2>1. PICK l : l = [Out EXCEPT !.pc = "loading"]
    OBVIOUS
  <2>2. l \in Looks /\ l.pc = "loading" /\ l.left = 0
    BY <2>1 DEF Out, Looks
  <2>3. LookTo(t, l)
    BY <1>1, <2>1 DEF StartStacks
  <2>4. /\ process' \in BOOLEAN /\ symbols' \in BOOLEAN
        /\ dbgMutex' \in Threads \cup {"uncreated", "free", "destroyed"}
    BY <1>1 DEF StartStacks, LookTypes
  <2> QED
    BY <2>2, <2>3, <2>4, LookStep
<1>2. CASE EndStacks(t)
  <2>1. PICK l : l = [Out EXCEPT !.pc = IF process THEN "closing" ELSE "destroying"]
    OBVIOUS
  <2>2. l \in Looks /\ l.pc \in {"closing", "destroying"} /\ l.left = 0
    BY <2>1 DEF Out, Looks, LookTypes
  <2>3. LookTo(t, l)
    BY <1>2, <2>1 DEF EndStacks
  <2>4. /\ process' \in BOOLEAN /\ symbols' \in BOOLEAN
        /\ dbgMutex' \in Threads \cup {"uncreated", "free", "destroyed"}
    BY <1>2 DEF EndStacks, LookTypes
  <2> QED
    BY <2>2, <2>3, <2>4, LookStep
<1>3. ASSUME NEW n \in 1..MaxFrames, Resolve(t, n)
      PROVE  LookTypes'
  <2>1. PICK l : l = [pc |-> "waiting", left |-> n]
    OBVIOUS
  <2>2. l \in Looks /\ l.pc = "waiting" /\ l.left > 0
    BY <2>1 DEF Looks
  <2>3. LookTo(t, l)
    BY <1>3, <2>1 DEF Resolve
  <2>4. /\ process' \in BOOLEAN /\ symbols' \in BOOLEAN
        /\ dbgMutex' \in Threads \cup {"uncreated", "free", "destroyed"}
    BY <1>3 DEF Resolve, LookTypes
  <2> QED
    BY <2>2, <2>3, <2>4, LookStep
<1> QED
  BY <1>1, <1>2, <1>3

LookMoves ==
    \/ UNCHANGED dbgVars
    \/ StartStacks(Main) \/ EndStacks(Main)
    \/ \E t \in Threads : InStacks(t) \/ \E n \in 1..MaxFrames : Resolve(t, n)

LEMMA NextMovesLook ==
    ASSUME [Next]_vars
    PROVE  LookMoves
<1>1. CASE UNCHANGED vars
  BY <1>1 DEF vars, LookMoves
<1>2. CASE HooksStart \/ InvestigatorStart \/ StacksStart
  BY <1>2, Zenon DEF HooksStart, InvestigatorStart, StacksStart, LookMoves
<1>3. CASE MainStarts \/ ExitStarts \/ ProcessOver
  BY <1>3, Zenon DEF MainStarts, ExitStarts, ProcessOver, LookMoves
<1>4. CASE RunHandler
  BY <1>4, Zenon DEF RunHandler, LookMoves
<1>5. ASSUME NEW t \in Threads,
             Continue(t) \/ LoadPlugin(t) \/ SetFunction(t) \/ ResolveStack(t)
      PROVE  LookMoves
  BY <1>5, Zenon DEF Continue, LoadPlugin, SetFunction, ResolveStack, LookMoves
<1> QED
  BY <1>1, <1>2, <1>3, <1>4, <1>5 DEF Next, Exit

LEMMA LookTypesHold == FairSpec => []LookTypes
<1>1. Init => LookTypes
  <2> SUFFICES ASSUME Init PROVE LookTypes
    OBVIOUS
  <2>1. look \in [Threads -> Looks] /\ \A t \in Threads : look[t] = Out
    BY OutIs DEF Init, DbgInit
  <2>2. \A t \in Threads : look[t].pc \in {"waiting", "inside"} <=> look[t].left > 0
    <3>1. Out.pc \in {"waiting", "inside"} <=> Out.left > 0
      BY OutIs
    <3> QED
      BY <2>1, <3>1, Zenon
  <2> QED
    BY <2>1, <2>2 DEF Init, DbgInit, LookTypes
<1>2. LookTypes /\ [Next]_vars => LookTypes'
  <2> SUFFICES ASSUME LookTypes, [Next]_vars PROVE LookTypes'
    OBVIOUS
  <2>1. CASE UNCHANGED dbgVars
    BY <2>1 DEF dbgVars, LookTypes
  <2> QED
    BY <2>1, NextMovesLook, StacksKeepTypes, StacksEntered DEF LookMoves
<1> QED
  BY <1>1, <1>2, PTL DEF FairSpec

-----------------------------------------------------------------------------
(* The process: what is registered, and how far it is.                      *)
HandlerAdded == \E h \in Handlers : handlers' = Append(handlers, h)
HandlerTaken ==
    handlers # <<>> /\ handlers' = SubSeq(handlers, 1, Len(handlers) - 1)

Lives == {"starting", "running", "exiting", "over", "crashed"}

ProcessTypes ==
    /\ life \in Lives
    /\ handlers \in Seq(Handlers)
    /\ calls \in 0..MaxCalls
    /\ pending \subseteq Handlers

LEMMA HandlersKept ==
    ASSUME handlers \in Seq(Handlers),
           UNCHANGED handlers \/ HandlerAdded \/ HandlerTaken
    PROVE  handlers' \in Seq(Handlers)
<1>1. CASE HandlerAdded
  BY <1>1, AppendProperties DEF HandlerAdded
<1>2. CASE HandlerTaken
  BY <1>2 DEF HandlerTaken
<1> QED
  BY <1>1, <1>2

LEMMA HooksRegister ==
    ASSUME NEW t \in Threads, InHooks(t)
    PROVE  UNCHANGED handlers \/ HandlerAdded
<1>1. CASE Register(t)
  BY <1>1 DEF Register, Registered, HandlerAdded, Handlers
<1>2. CASE Body(t)
  BY <1>2 DEF Body, HooksInitializer, SetMallocFnc, InvestigatorInit, InvestigatorClean,
              HandlerAdded, Handlers
<1>3. CASE TakeOriginals(t) \/ ReplaceInModule(t) \/ NextPass(t) \/ RealLoad(t) \/ PatchLoaded(t)
  BY <1>3 DEF TakeOriginals, ReplaceInModule, NextPass, RealLoad, PatchLoaded
<1> QED
  BY <1>1, <1>2, <1>3 DEF InHooks

LEMMA StacksRegister ==
    ASSUME NEW t \in Threads, InStacks(t), life \in Lives
    PROVE  /\ UNCHANGED handlers \/ HandlerAdded
           /\ life' \in Lives
<1>1. CASE SymbolsLoaded(t)
  BY <1>1 DEF SymbolsLoaded, HandlerAdded, Handlers, Lives
<1>2. CASE Lock(t)
  BY <1>2 DEF Lock, Lives
<1>3. CASE NoItem(t) \/ LookUp(t) \/ LockToClose(t) \/ SymbolsDropped(t) \/ DestroyMutex(t)
  BY <1>3 DEF NoItem, LookUp, LockToClose, SymbolsDropped, DestroyMutex
<1> QED
  BY <1>1, <1>2, <1>3 DEF InStacks

LEMMA ProcessStep ==
    ASSUME ProcessTypes, life' \in Lives, UNCHANGED handlers \/ HandlerAdded \/ HandlerTaken,
           UNCHANGED calls \/ \E t \in Threads : Calls(t), pending' \subseteq Handlers
    PROVE  ProcessTypes'
<1>1. handlers' \in Seq(Handlers)
  BY HandlersKept DEF ProcessTypes
<1>2. calls' \in 0..MaxCalls
  BY DEF ProcessTypes, Calls
<1> QED
  BY <1>1, <1>2 DEF ProcessTypes

LEMMA ProcessTypesHold == FairSpec => []ProcessTypes
<1>1. Init => ProcessTypes
  BY DEF Init, ProcessInit, ProcessTypes, Lives, Handlers
<1>2. ProcessTypes /\ [Next]_vars => ProcessTypes'
  <2> SUFFICES ASSUME ProcessTypes, [Next]_vars PROVE ProcessTypes'
    OBVIOUS
  <2>0. life \in Lives /\ pending \subseteq Handlers
    BY DEF ProcessTypes
  <2>1. CASE UNCHANGED vars
    BY <2>1 DEF vars, ProcessTypes
  <2>2. CASE HooksStart
    <3>1. UNCHANGED <<life, handlers, calls>> /\ pending' \subseteq Handlers
      BY <2>0, <2>2 DEF HooksStart
    <3> QED
      BY <2>0, <3>1, ProcessStep
  <2>3. CASE StacksStart
    <3>1. UNCHANGED <<life, handlers, calls>> /\ pending' \subseteq Handlers
      BY <2>0, <2>3 DEF StacksStart
    <3> QED
      BY <2>0, <3>1, ProcessStep
  <2>4. CASE InvestigatorStart
    <3>1. life' \in Lives /\ UNCHANGED <<handlers, calls>> /\ pending' \subseteq Handlers
      BY <2>0, <2>4 DEF InvestigatorStart, Lives
    <3> QED
      BY <3>1, ProcessStep
  <2>5. CASE MainStarts \/ ExitStarts \/ ProcessOver
    <3>1. life' \in Lives /\ UNCHANGED <<handlers, calls, pending>>
      BY <2>5 DEF MainStarts, ExitStarts, ProcessOver, Lives
    <3> QED
      BY <2>0, <3>1, ProcessStep
  <2>6. CASE RunHandler
    <3>1. UNCHANGED <<life, calls, pending>> /\ HandlerTaken
      BY <2>6 DEF RunHandler, HandlerTaken
    <3> QED
      BY <2>0, <3>1, ProcessStep
  <2>7. ASSUME NEW t \in Threads, Continue(t)
        PROVE  ProcessTypes'
    <3>1. CASE InHooks(t) /\ UNCHANGED <<life, calls, pending, dbgVars>>
      BY <2>0, <3>1, HooksRegister, ProcessStep
    <3>2. CASE InStacks(t) /\ UNCHANGED <<calls, pending, hookVars>>
      BY <2>0, <3>2, StacksRegister, ProcessStep
    <3> QED
      BY <2>7, <3>1, <3>2 DEF Continue
  <2>8. ASSUME NEW t \in Threads, LoadPlugin(t) \/ SetFunction(t) \/ ResolveStack(t)
        PROVE  ProcessTypes'
    <3>1. UNCHANGED <<life, handlers, pending>> /\ Calls(t)
      BY <2>8 DEF LoadPlugin, SetFunction, ResolveStack
    <3> QED
      BY <2>0, <3>1, ProcessStep
  <2> QED
    BY <2>1, <2>2, <2>3, <2>4, <2>5, <2>6, <2>7, <2>8 DEF Next, Exit
<1> QED
  BY <1>1, <1>2, PTL DEF FairSpec

(* The tables, the frames of the threads, the handlers and what DbgHelp is  *)
(* asked keep to their types, whichever threads initialise: an entry never  *)
(* holds anything but an original or the hook.                              *)
THEOREM TypeCorrect == FairSpec => []TypeOK
<1>1. HookTypes /\ LookTypes /\ ProcessTypes => TypeOK
  BY DEF HookTypes, ImportsOK, ValuesOK, FramesOK, LookTypes, ProcessTypes, Lives, Handlers,
         TypeOK
<1> QED
  BY <1>1, HookTypesHold, LookTypesHold, ProcessTypesHold, PTL

-----------------------------------------------------------------------------
(* DbgHelp.  Before the initializer of the stacks nobody is there; it fails *)
(* or leaves the symbols behind, and they stay until exit has begun.        *)
DbgInv ==
    /\ dbgMutex # "destroyed" => \A t \in Threads : Inside(t) => dbgMutex = t
    /\ "stacks" \in pending =>
          /\ life \in {"starting", "crashed"} /\ dbgMutex = "uncreated"
          /\ \A t \in Threads : look[t].pc = "out"
    /\ \A t \in Threads : look[t].pc = "loading" =>
          /\ t = Main /\ life \in {"starting", "crashed"} /\ process
          /\ "stacks" \notin pending
    /\ \A t \in Threads : look[t].pc \in {"closing", "unloading", "destroying"} =>
          life \notin {"starting", "running"}
    /\ life \in {"starting", "running"} /\ "stacks" \notin pending
          /\ look[Main].pc # "loading" => process /\ symbols

LEMMA LookAt ==
    ASSUME LookTypes, NEW t \in Threads, NEW l, LookTo(t, l)
    PROVE  /\ look'[t] = l
           /\ \A u \in Threads : u # t => look'[u] = look[u]
BY DEF LookTypes, LookTo

(* Only where the places of DbgHelp, its mutex and the life are, matters.   *)
LEMMA DbgStill ==
    ASSUME DbgInv, UNCHANGED dbgVars,
           \/ life' = life \/ life' = "crashed"
           \/ life \in {"running", "exiting"} /\ life' \in {"exiting", "over"},
           "stacks" \in pending' <=> "stacks" \in pending
    PROVE  DbgInv'
<1>1. /\ process' = process /\ dbgMutex' = dbgMutex /\ symbols' = symbols /\ look' = look
      /\ \A t \in Threads : Inside(t)' <=> Inside(t)
  BY DEF dbgVars, Inside
<1>2. dbgMutex' # "destroyed" => \A t \in Threads : Inside(t)' => dbgMutex' = t
  BY <1>1 DEF DbgInv
<1>3. "stacks" \in pending' =>
          /\ life' \in {"starting", "crashed"} /\ dbgMutex' = "uncreated"
          /\ \A t \in Threads : look'[t].pc = "out"
  BY <1>1 DEF DbgInv
<1>4. \A t \in Threads : look'[t].pc = "loading" =>
          /\ t = Main /\ life' \in {"starting", "crashed"} /\ process'
          /\ "stacks" \notin pending'
  BY <1>1 DEF DbgInv
<1>5. \A t \in Threads : look'[t].pc \in {"closing", "unloading", "destroying"} =>
          life' \notin {"starting", "running"}
  BY <1>1 DEF DbgInv
<1>6. life' \in {"starting", "running"} /\ "stacks" \notin pending'
          /\ look'[Main].pc # "loading" => process' /\ symbols'
  BY <1>1 DEF DbgInv
<1> QED
  BY <1>2, <1>3, <1>4, <1>5, <1>6 DEF DbgInv

LEMMA StacksKeepDbg ==
    ASSUME LookTypes, DbgInv, NEW t \in Threads, InStacks(t), Alive, UNCHANGED pending
    PROVE  DbgInv'
<1> USE MutexAssumption
<1>0. "stacks" \notin pending
  BY DEF DbgInv, InStacks, SymbolsLoaded, NoItem, Lock, LookUp, LockToClose, SymbolsDropped,
         DestroyMutex
<1>1. CASE SymbolsLoaded(t)
  <2>1. t = Main /\ life = "starting" /\ process
    BY <1>1 DEF SymbolsLoaded, DbgInv, Alive
  <2>2. /\ look'[t] = Out /\ \A u \in Threads : u # t => look'[u] = look[u]
        /\ Out.pc = "out"
    BY <1>1, LookAt, OutIs DEF SymbolsLoaded
  <2>3. dbgMutex # "destroyed" => dbgMutex = t
    BY <1>1 DEF SymbolsLoaded, DbgInv, Inside
  <2>4. dbgMutex' = IF dbgMutex = t THEN "free" ELSE dbgMutex
    BY <1>1 DEF SymbolsLoaded, Unlocked
  <2>5. dbgMutex' # "destroyed" => \A u \in Threads : Inside(u)' => dbgMutex' = u
    BY <2>2, <2>3, <2>4 DEF DbgInv, Inside
  <2>6. \/ life' = life /\ process' = process /\ symbols'
        \/ life' = "exiting"
    BY <1>1 DEF SymbolsLoaded
  <2> QED
    BY <1>0, <2>1, <2>2, <2>5, <2>6 DEF DbgInv
<1>2. CASE NoItem(t)
  <2>1. look[t].left \in 1..MaxFrames
    BY <1>2 DEF NoItem, LookTypes, Looks
  <2>2. /\ look'[t].pc \in {"out", "waiting"}
        /\ \A u \in Threads : u # t => look'[u] = look[u]
    BY <1>2, <2>1, LookAt, AfterFrameIs DEF NoItem
  <2> QED
    BY <1>0, <1>2, <2>2 DEF NoItem, DbgInv, Inside
<1>3. CASE Lock(t)
  <2>1. CASE LookTo(t, [look[t] EXCEPT !.pc = "inside"])
    <3>1. /\ look'[t].pc = "inside" /\ look[t].pc = "waiting"
          /\ \A u \in Threads : u # t => look'[u] = look[u]
      BY <1>3, <2>1, LookAt DEF Lock, LookTypes, Looks
    <3>2. \/ dbgMutex = "free" /\ dbgMutex' = t
          \/ dbgMutex = "destroyed" /\ dbgMutex' = "destroyed"
      BY <1>3, <2>1, <3>1 DEF Lock, DbgMutexFree
    <3>3. life' = life /\ process' = process /\ symbols' = symbols
      BY <1>3, <2>1, <3>1 DEF Lock
    <3>4. dbgMutex' # "destroyed" => \A u \in Threads : Inside(u)' => dbgMutex' = u
      BY <3>1, <3>2 DEF DbgInv, Inside
    <3> QED
      BY <1>0, <3>1, <3>3, <3>4 DEF DbgInv
  <2>2. CASE life' = "crashed" /\ UNCHANGED <<dbgMutex, look>>
    BY <1>0, <1>3, <2>2, DbgStill DEF Lock, dbgVars
  <2> QED
    BY <1>3, <2>1, <2>2 DEF Lock
<1>4. CASE LookUp(t)
  <2>1. look[t].left \in 1..MaxFrames
    BY <1>4 DEF LookUp, LookTypes, Looks
  <2>2. /\ look'[t].pc \in {"out", "waiting"} /\ look[t].pc = "inside"
        /\ \A u \in Threads : u # t => look'[u] = look[u]
    BY <1>4, <2>1, LookAt, AfterFrameIs DEF LookUp
  <2>3. dbgMutex' = IF dbgMutex = t THEN "free" ELSE dbgMutex
    BY <1>4 DEF LookUp, Unlocked
  <2>4. dbgMutex' # "destroyed" => \A u \in Threads : Inside(u)' => dbgMutex' = u
    BY <2>2, <2>3 DEF DbgInv, Inside
  <2> QED
    BY <1>0, <1>4, <2>2, <2>4 DEF LookUp, DbgInv
<1>5. CASE LockToClose(t)
  <2>1. /\ look'[t].pc = "unloading" /\ look[t].pc = "closing"
        /\ \A u \in Threads : u # t => look'[u] = look[u]
    BY <1>5, LookAt DEF LockToClose, Out
  <2>2. dbgMutex = "free" /\ dbgMutex' = t
    BY <1>5 DEF LockToClose, DbgMutexFree
  <2>3. \A u \in Threads : Inside(u)' => dbgMutex' = u
    BY <2>1, <2>2 DEF DbgInv, Inside
  <2> QED
    BY <1>0, <1>5, <2>1, <2>3 DEF LockToClose, DbgInv
<1>6. CASE SymbolsDropped(t)
  <2>1. /\ look'[t].pc = "destroying" /\ look[t].pc = "unloading"
        /\ \A u \in Threads : u # t => look'[u] = look[u]
    BY <1>6, LookAt DEF SymbolsDropped, Out
  <2>2. dbgMutex' = IF dbgMutex = t THEN "free" ELSE dbgMutex
    BY <1>6 DEF SymbolsDropped, Unlocked
  <2>3. dbgMutex' # "destroyed" => \A u \in Threads : Inside(u)' => dbgMutex' = u
    BY <2>1, <2>2 DEF DbgInv, Inside
  <2>4. life \notin {"starting", "running"} /\ life' = life /\ process' = process
    BY <1>6, <2>1 DEF SymbolsDropped, DbgInv
  <2> QED
    BY <1>0, <2>1, <2>3, <2>4 DEF DbgInv
<1>7. CASE DestroyMutex(t)
  <2>1. /\ look'[t] = Out /\ Out.pc = "out" /\ look[t].pc = "destroying"
        /\ \A u \in Threads : u # t => look'[u] = look[u]
    BY <1>7, LookAt, OutIs DEF DestroyMutex
  <2>2. life = "exiting" /\ life' = life /\ dbgMutex' = "destroyed"
    BY <1>7, <2>1 DEF DestroyMutex, DbgInv, Alive
  <2> QED
    BY <1>0, <2>1, <2>2 DEF DbgInv
<1> QED
  BY <1>1, <1>2, <1>3, <1>4, <1>5, <1>6, <1>7 DEF InStacks

LEMMA DbgInvHolds == FairSpec => []DbgInv
<1>1. Init => DbgInv
  BY OutIs DEF Init, DbgInit, ProcessInit, DbgInv, Inside
<1>2. LookTypes /\ DbgInv /\ [Next]_vars => DbgInv'
  <2> SUFFICES ASSUME LookTypes, DbgInv, [Next]_vars PROVE DbgInv'
    OBVIOUS
  <2>1. CASE UNCHANGED vars
    <3>1. UNCHANGED dbgVars /\ life' = life /\ pending' = pending
      BY <2>1 DEF vars
    <3> QED
      BY <3>1, DbgStill
  <2>2. CASE HooksStart
    BY <2>2, DbgStill DEF HooksStart
  <2>3. CASE StacksStart
    <3>1. /\ life = "starting" /\ life' = life /\ dbgMutex' = Main /\ process' = TRUE
          /\ "stacks" \notin pending' /\ LookTo(Main, [Out EXCEPT !.pc = "loading"])
          /\ "stacks" \in pending
      BY <2>3 DEF StacksStart, StartStacks
    <3>2. /\ look'[Main].pc = "loading"
          /\ \A u \in Threads : u # Main => look'[u] = look[u]
      BY <3>1, LookAt DEF Out
    <3>3. \A u \in Threads : look[u].pc = "out"
      BY <3>1 DEF DbgInv
    <3> QED
      BY <3>1, <3>2, <3>3 DEF DbgInv, Inside
  <2>4. CASE InvestigatorStart
    BY <2>4, DbgStill DEF InvestigatorStart
  <2>5. CASE MainStarts
    <3>1. /\ life = "starting" /\ life' = "running" /\ "stacks" \notin pending
          /\ look[Main].pc = "out" /\ UNCHANGED <<dbgVars, pending>>
      BY <2>5 DEF MainStarts, Idle
    <3> QED
      BY <3>1 DEF DbgInv, dbgVars, Inside
  <2>6. CASE ExitStarts \/ ProcessOver
    BY <2>6, DbgStill DEF ExitStarts, ProcessOver, DbgInv
  <2>7. CASE RunHandler
    <3>1. life = "exiting" /\ UNCHANGED <<life, calls, pending>>
      BY <2>7 DEF RunHandler
    <3>2. CASE UNCHANGED dbgVars
      BY <3>1, <3>2, DbgStill
    <3>3. CASE EndStacks(Main)
      <4>1. /\ look'[Main].pc \in {"closing", "destroying"}
            /\ \A u \in Threads : u # Main => look'[u] = look[u]
        BY <3>3, LookAt DEF EndStacks, Out, LookTypes
      <4>2. UNCHANGED <<process, dbgMutex, symbols>>
        BY <3>3 DEF EndStacks
      <4> QED
        BY <3>1, <4>1, <4>2 DEF DbgInv, Inside
    <3> QED
      BY <2>7, <3>2, <3>3 DEF RunHandler
  <2>8. ASSUME NEW t \in Threads, Continue(t)
        PROVE  DbgInv'
    <3>1. CASE InHooks(t) /\ UNCHANGED <<life, calls, pending, dbgVars>>
      <4>1. UNCHANGED dbgVars /\ life' = life /\ pending' = pending
        BY <3>1
      <4> QED
        BY <4>1, DbgStill
    <3>2. CASE InStacks(t) /\ UNCHANGED <<calls, pending, hookVars>>
      BY <2>8, <3>2, StacksKeepDbg DEF Continue
    <3> QED
      BY <2>8, <3>1, <3>2 DEF Continue
  <2>9. ASSUME NEW t \in Threads, LoadPlugin(t) \/ SetFunction(t)
        PROVE  DbgInv'
    <3>1. UNCHANGED dbgVars /\ life' = life /\ pending' = pending
      BY <2>9 DEF LoadPlugin, SetFunction
    <3> QED
      BY <3>1, DbgStill
  <2>10. ASSUME NEW t \in Threads, ResolveStack(t)
         PROVE  DbgInv'
    <3>1. PICK n \in 1..MaxFrames : Resolve(t, n)
      BY <2>10 DEF ResolveStack
    <3>2. /\ look'[t].pc = "waiting" /\ look[t].pc = "out"
          /\ \A u \in Threads : u # t => look'[u] = look[u]
      BY <2>10, <3>1, LookAt DEF Resolve, ResolveStack, Idle
    <3>3. life \in {"running", "exiting"} /\ UNCHANGED <<life, pending, process, dbgMutex, symbols>>
      BY <2>10, <3>1 DEF Resolve, ResolveStack
    <3> QED
      BY <3>2, <3>3 DEF DbgInv, Inside
  <2> QED
    BY <2>1, <2>2, <2>3, <2>4, <2>5, <2>6, <2>7, <2>8, <2>9, <2>10 DEF Next, Exit
<1> QED
  BY <1>1, <1>2, LookTypesHold, PTL DEF FairSpec

(* Until its mutex is destroyed DbgHelp is used by one thread at a time,    *)
(* the one that holds it, and in a program that has not begun to exit the   *)
(* symbols are there: with any number of threads and frames.                *)
THEOREM DbgHelpInTurnHolds == FairSpec => []DbgHelpInTurn
<1>1. DbgInv => DbgHelpInTurn
  BY DEF DbgInv, DbgHelpInTurn
<1> QED
  BY <1>1, DbgInvHolds, PTL
-----------------------------------------------------------------------------
(* The import tables when only the initial thread initialises the hooks.    *)
(* Where it is in the hooks says what each module's entries lead to; the    *)
(* other threads only add modules, and patch those they have asked for.     *)
MainIn(places) == call[Main].pc \in places

(* The passes of the initial thread, with the data of each. *)
PassOf(func, from, to) == [func |-> func, from |-> from, to |-> to]

PassFits(f) ==
    /\ f.pc = "patchAlloc" => f.data = PassOf("alloc", "clib", "hook")
    /\ f.pc = "patchLoad" => f.data = PassOf("load", "system", "hook")
    /\ f.pc = "restoreLoad" => f.data = PassOf("load", "hook", "system")
    /\ f.pc = "restoreAlloc" => f.data = PassOf("alloc", "hook", "clib")

MainOK ==
    /\ PassFits(call[Main])
    /\ MainIn({"take", "register"} \cup Patching) => ~inited
    /\ MainIn({"body"} \cup Restoring) => inited
    /\ MainIn({"register"} \cup Patching \cup Restoring) => original = "clib"
    /\ life = "over" => MainIn({"app"}) /\ ~inited

(* The other threads are in a load or in the body of a setter. *)
OthersOK ==
    \A t \in Threads :
        /\ t # Main => call[t].pc \in {"app", "body", "load", "patch"}
        /\ call[t].pc = "body" => original = "clib"
        /\ call[t].pc = "body" /\ t # Main => call[t].op = "set"
        /\ call[t].pc \in {"load", "patch"} => original = "clib" /\ call[t].early
        /\ call[t].pc = "patch" => call[t].mod \in DOMAIN imports

Due(h) == \E i \in 1..Len(handlers) : handlers[i] = h

OriginalsOK ==
    /\ \/ original = "null" /\ loadOriginal = "null"
       \/ original = "clib" /\ loadOriginal = "system" /\ g \in {"clib", "user"}
    /\ original = "null" => \A m \in DOMAIN imports : imports[m] = Untouched
    /\ inited => original = "clib"
    /\ Due("investigator") \/ call[Main].op = "investEnd" => saved \in {"clib", "user"}

LoadDown == (~inited /\ ~MainIn({"patchLoad", "register"})) \/ MainIn({"restoreAlloc"})
LoadUp == MainIn({"register"}) \/ (inited /\ ~MainIn(Restoring))

LoadFits(m) ==
    /\ LoadDown => imports[m].load = "system"
    /\ MainIn({"restoreLoad"}) /\ m \notin call[Main].todo => imports[m].load = "system"
    /\ m \in Initial /\ LoadUp => imports[m].load = "hook"
    /\ m \in Initial /\ MainIn({"patchLoad"}) /\ m \notin call[Main].todo =>
          imports[m].load = "hook"

AllocDown == ~inited /\ ~MainIn({"register"} \cup Patching)
AllocUp == MainIn({"patchLoad", "register"}) \/ (inited /\ ~MainIn(Restoring))

AllocFits(m) ==
    /\ AllocDown /\ m \notin late => imports[m].alloc = "clib"
    /\ MainIn({"restoreAlloc"}) /\ m \notin call[Main].todo \cup late =>
          imports[m].alloc = "clib"
    /\ m \in Initial \cup asked /\ AllocUp => imports[m].alloc = "hook"
    /\ m \in Initial \cup asked /\ MainIn({"patchAlloc"}) /\ m \notin call[Main].todo =>
          imports[m].alloc = "hook"

HistoriesOK == late \subseteq Plugins /\ asked \subseteq DOMAIN imports

(* While the hooks are up their clean-up is registered. *)
CleanUpDue == inited /\ ~MainIn(Restoring) => Due("hooks")

HookInv ==
    /\ MainOK /\ OthersOK /\ OriginalsOK /\ HistoriesOK /\ CleanUpDue
    /\ \A m \in DOMAIN imports : LoadFits(m)
    /\ \A m \in DOMAIN imports : AllocFits(m)

(* Handlers that come and go, while the clean-up stays registered. *)
HandlersGo ==
    /\ Due("investigator")' => Due("investigator")
    /\ inited /\ Due("hooks") => Due("hooks")'

LEMMA DueAdded ==
    ASSUME handlers \in Seq(Handlers), NEW h \in Handlers, handlers' = Append(handlers, h)
    PROVE  \A k \in Handlers : Due(k)' <=> Due(k) \/ k = h
<1>1. /\ Len(handlers') = Len(handlers) + 1 /\ Len(handlers) \in Nat
      /\ \A i \in 1..Len(handlers) : handlers'[i] = handlers[i]
      /\ handlers'[Len(handlers) + 1] = h
  BY AppendProperties
<1>2. ASSUME NEW k \in Handlers, Due(k)' PROVE Due(k) \/ k = h
  <2>1. PICK i \in 1..Len(handlers') : handlers'[i] = k
    BY <1>2 DEF Due
  <2>2. i \in 1..Len(handlers) \/ i = Len(handlers) + 1
    BY <1>1
  <2> QED
    BY <1>1, <2>1, <2>2 DEF Due
<1>3. ASSUME NEW k \in Handlers, Due(k) PROVE Due(k)'
  <2>1. PICK i \in 1..Len(handlers) : handlers[i] = k
    BY <1>3 DEF Due
  <2>2. i \in 1..Len(handlers') /\ handlers'[i] = k
    BY <1>1, <2>1
  <2> QED
    BY <2>2 DEF Due
<1>4. Due(h)'
  <2>1. Len(handlers) + 1 \in 1..Len(handlers')
    BY <1>1
  <2> QED
    BY <1>1, <2>1 DEF Due
<1> QED
  BY <1>2, <1>3, <1>4

LEMMA DueTaken ==
    ASSUME handlers \in Seq(Handlers), HandlerTaken
    PROVE  \A k \in Handlers : /\ Due(k)' => Due(k)
                               /\ Due(k) => Due(k)' \/ handlers[Len(handlers)] = k
<1>0. Len(handlers) \in Nat \ {0}
  BY EmptySeq DEF HandlerTaken
<1>1. /\ Len(handlers) \in Nat \ {0} /\ Len(handlers') = Len(handlers) - 1
      /\ \A i \in 1..(Len(handlers) - 1) : handlers'[i] = handlers[i]
  <2> DEFINE n == Len(handlers) - 1
  <2>1. n \in Nat /\ n \in Int /\ 1 \in Int /\ \A i \in 1..n : handlers[i] \in Handlers
    BY <1>0, LenProperties
  <2>2. handlers' = SubSeq(handlers, 1, n)
    BY DEF HandlerTaken
  <2> HIDE DEF n
  <2>3. /\ Len(SubSeq(handlers, 1, n)) = IF 1 <= n THEN n - 1 + 1 ELSE 0
        /\ \A i \in 1..(n - 1 + 1) : SubSeq(handlers, 1, n)[i] = handlers[1 + i - 1]
    BY <2>1, SubSeqProperties
  <2>4. Len(handlers') = n /\ \A i \in 1..n : handlers'[i] = handlers[i]
    BY <2>1, <2>2, <2>3
  <2> QED
    BY <1>0, <2>4 DEF n
<1>2. ASSUME NEW k \in Handlers, Due(k)' PROVE Due(k)
  <2>1. PICK i \in 1..Len(handlers') : handlers'[i] = k
    BY <1>2 DEF Due
  <2>2. i \in 1..Len(handlers) /\ handlers[i] = k
    BY <1>1, <2>1
  <2> QED
    BY <2>2 DEF Due
<1>3. ASSUME NEW k \in Handlers, Due(k), handlers[Len(handlers)] # k PROVE Due(k)'
  <2>1. PICK i \in 1..Len(handlers) : handlers[i] = k
    BY <1>3 DEF Due
  <2>2. i \in 1..Len(handlers') /\ handlers'[i] = k
    BY <1>1, <1>3, <2>1
  <2> QED
    BY <2>2 DEF Due
<1> QED
  BY <1>2, <1>3

LEMMA DueSame ==
    ASSUME UNCHANGED handlers
    PROVE  HandlersGo /\ \A k \in Handlers : Due(k)' <=> Due(k)
BY DEF HandlersGo, Due

(* Steps that leave the initial thread where it is, or outside its passes,  *)
(* and every table: only modules may come.                                  *)
Outside == ~MainIn(Patching \cup Restoring \cup {"register"})
SamePhase == inited' = inited /\ (call'[Main] = call[Main] \/ (Outside /\ Outside'))

LEMMA LoadKept ==
    ASSUME SamePhase, NEW m, LoadFits(m), imports'[m].load = imports[m].load
    PROVE  LoadFits(m)'
BY DEF SamePhase, Outside, LoadFits, LoadDown, LoadUp, MainIn, Patching, Restoring

LEMMA AllocKept ==
    ASSUME SamePhase, NEW m, AllocFits(m), imports'[m].alloc = imports[m].alloc,
           m \in late => m \in late', m \in asked' => m \in asked
    PROVE  AllocFits(m)'
BY DEF SamePhase, Outside, AllocFits, AllocDown, AllocUp, MainIn, Patching, Restoring

LEMMA NewFits ==
    ASSUME NEW m, m \notin Initial, m \notin asked', imports'[m] = Untouched
    PROVE  LoadFits(m)' /\ AllocFits(m)'
BY DEF LoadFits, AllocFits, Untouched

LEMMA TablesKept ==
    ASSUME HookTypes, HookInv, SamePhase, UNCHANGED <<asked, late>>,
           DOMAIN imports \subseteq DOMAIN imports',
           \A n \in DOMAIN imports : imports'[n] = imports[n],
           \A n \in DOMAIN imports' : n \notin DOMAIN imports => imports'[n] = Untouched
    PROVE  /\ \A m \in DOMAIN imports' : LoadFits(m)'
           /\ \A m \in DOMAIN imports' : AllocFits(m)'
<1>1. ASSUME NEW m \in DOMAIN imports PROVE LoadFits(m)' /\ AllocFits(m)'
  BY <1>1, LoadKept, AllocKept DEF HookInv
<1>2. ASSUME NEW m \in DOMAIN imports', m \notin DOMAIN imports
      PROVE  LoadFits(m)' /\ AllocFits(m)'
  BY <1>2, NewFits DEF HookInv, HistoriesOK, HookTypes, ImportsOK
<1> QED
  BY <1>1, <1>2

(* Steps that do not touch the hooks. *)
LEMMA InvStill ==
    ASSUME HookInv, UNCHANGED hookVars, HandlersGo,
           life' = "over" => life = "over" \/ (MainIn({"app"}) /\ ~inited)
    PROVE  HookInv'
<1>1. /\ imports' = imports /\ inited' = inited /\ original' = original
      /\ loadOriginal' = loadOriginal /\ g' = g /\ saved' = saved /\ call' = call
      /\ asked' = asked /\ late' = late
  BY DEF hookVars
<1>2. MainOK'
  BY <1>1 DEF HookInv, MainOK, MainIn, PassFits
<1>3. OthersOK' /\ OriginalsOK' /\ HistoriesOK' /\ CleanUpDue'
  BY <1>1 DEF HookInv, OthersOK, OriginalsOK, HistoriesOK, CleanUpDue, HandlersGo, MainIn
<1>4. SamePhase
  BY <1>1 DEF SamePhase
<1>5. ASSUME NEW m \in DOMAIN imports PROVE LoadFits(m)' /\ AllocFits(m)'
  BY <1>1, <1>4, LoadKept, AllocKept DEF HookInv
<1> QED
  BY <1>1, <1>2, <1>3, <1>5 DEF HookInv
(* A thread that calls.  Other threads than the initial one call setters,   *)
(* and only when the hooks are initialised.                                 *)
LEMMA InvEnter ==
    ASSUME HookTypes, HookInv, HandlersGo, NEW t \in Threads, call[t].pc = "app",
           NEW op \in {"hooks", "set", "investigator", "investEnd"}, Enter(t, op),
           t # Main => inited /\ op = "set", life' # "over",
           op = "investEnd" => saved \in {"clib", "user"}
    PROVE  HookInv'
<1>1. /\ OnlyFrame(t) /\ call'[t].op = op
      /\ call'[t].pc = IF inited THEN "body" ELSE "take"
  BY ToEntry DEF HookTypes
<1>2. /\ imports' = imports /\ inited' = inited /\ original' = original
      /\ loadOriginal' = loadOriginal /\ g' = g /\ saved' = saved
      /\ asked' = asked /\ late' = late
  BY DEF Enter
<1>3. t # Main => call'[Main] = call[Main]
  BY <1>1 DEF OnlyFrame
<1>4. SamePhase
  BY <1>1, <1>2, <1>3 DEF SamePhase, Outside, MainIn, Patching, Restoring
<1>5. /\ \A m \in DOMAIN imports' : LoadFits(m)'
      /\ \A m \in DOMAIN imports' : AllocFits(m)'
  BY <1>2, <1>4, TablesKept
<1>6. MainOK'
  <2>1. CASE t = Main
    BY <1>1, <1>2, <2>1 DEF MainOK, MainIn, PassFits, Patching, Restoring
  <2>2. CASE t # Main
    BY <1>2, <1>3, <2>2 DEF HookInv, MainOK, MainIn, PassFits
  <2> QED
    BY <2>1, <2>2
<1>7. OthersOK'
  <2>1. inited => original = "clib"
    BY DEF HookInv, OriginalsOK
  <2> QED
    BY <1>1, <1>2, <2>1 DEF HookInv, OthersOK, OnlyFrame
<1>8. OriginalsOK'
  <2>1. call'[Main].op = "investEnd" => saved \in {"clib", "user"}
    BY <1>1, <1>3 DEF HookInv, OriginalsOK
  <2> QED
    BY <1>2, <2>1 DEF HookInv, OriginalsOK, HandlersGo
<1>9. HistoriesOK'
  BY <1>2 DEF HookInv, HistoriesOK
<1>10. CleanUpDue'
  BY <1>1, <1>2, <1>3 DEF HookInv, CleanUpDue, HandlersGo, MainIn, Restoring
<1> QED
  BY <1>5, <1>6, <1>7, <1>8, <1>9, <1>10 DEF HookInv

(* A taken-over LoadLibrary is called only while the hooks are up. *)
LEMMA UpWhenTaken ==
    ASSUME HookTypes, HookInv, NEW c \in DOMAIN imports, imports[c].load = "hook"
    PROVE  HooksUp /\ original = "clib"
<1>1. ~LoadDown
  BY DEF HookInv, LoadFits
<1>2. \A t \in Threads : call[t].pc # "restoreAlloc"
  BY <1>1 DEF HookInv, OthersOK, LoadDown, MainIn
<1>3. inited \/ Initialising
  BY <1>1 DEF LoadDown, MainIn, Initialising, Patching
<1>4. original = "clib"
  BY DEF HookInv, OriginalsOK, Untouched
<1> QED
  BY <1>2, <1>3, <1>4 DEF HooksUp

LEMMA InvLoads ==
    ASSUME HookTypes, HookInv, UNCHANGED handlers, NEW t \in Threads, call[t].pc = "app",
           NEW c \in DOMAIN imports, NEW m \in Plugins, life' # "over",
           LoadLibrary(t, c, m) \/ CinternalLoadLibrary(t, c, m)
    PROVE  HookInv'
<1>1. /\ inited' = inited /\ original' = original /\ loadOriginal' = loadOriginal
      /\ g' = g /\ saved' = saved /\ asked' = asked /\ late' = late
  BY DEF LoadLibrary, CinternalLoadLibrary
<1>2. /\ \A h \in Handlers : Due(h)' <=> Due(h)
      /\ "hooks" \in Handlers /\ "investigator" \in Handlers
  BY DueSame DEF Handlers
<1>3. CASE LoadLibrary(t, c, m)
  <2>1. /\ call' = call /\ DOMAIN imports \subseteq DOMAIN imports'
        /\ \A n \in DOMAIN imports : imports'[n] = imports[n]
        /\ \A n \in DOMAIN imports' : n \notin DOMAIN imports => imports'[n] = Untouched
    BY <1>3, LoadAt DEF LoadLibrary, HookTypes
  <2>2. SamePhase
    BY <1>1, <2>1 DEF SamePhase
  <2>3. /\ \A n \in DOMAIN imports' : LoadFits(n)'
        /\ \A n \in DOMAIN imports' : AllocFits(n)'
    BY <1>1, <2>1, <2>2, TablesKept
  <2>4. MainOK' /\ CleanUpDue'
    BY <1>1, <1>2, <2>1 DEF HookInv, MainOK, MainIn, PassFits, CleanUpDue
  <2>5. OthersOK' /\ HistoriesOK'
    BY <1>1, <2>1 DEF HookInv, OthersOK, HistoriesOK
  <2>6. OriginalsOK'
    <3>1. original = "null" => \A n \in DOMAIN imports' : imports'[n] = Untouched
      BY <2>1 DEF HookInv, OriginalsOK
    <3> QED
      BY <1>1, <1>2, <2>1, <3>1 DEF HookInv, OriginalsOK
  <2> QED
    BY <2>3, <2>4, <2>5, <2>6 DEF HookInv
<1>4. CASE CinternalLoadLibrary(t, c, m)
  <2>1. /\ OnlyFrame(t) /\ call'[t].pc = "load" /\ call'[t].op = "load"
        /\ call'[t].early = HooksUp
    BY <1>4, ToLoad DEF HookTypes
  <2>2. HooksUp /\ original = "clib"
    BY <1>4, UpWhenTaken DEF CinternalLoadLibrary
  <2>3. imports' = imports
    BY <1>4 DEF CinternalLoadLibrary
  <2>4. t # Main => call'[Main] = call[Main]
    BY <2>1 DEF OnlyFrame
  <2>5. SamePhase
    BY <1>1, <2>1, <2>4 DEF SamePhase, Outside, MainIn, Patching, Restoring
  <2>6. /\ \A n \in DOMAIN imports' : LoadFits(n)'
        /\ \A n \in DOMAIN imports' : AllocFits(n)'
    BY <1>1, <2>3, <2>5, TablesKept
  <2>7. MainOK'
    <3>1. CASE t = Main
      BY <1>1, <2>1, <3>1 DEF MainOK, MainIn, PassFits, Patching, Restoring
    <3>2. CASE t # Main
      BY <1>1, <2>4, <3>2 DEF HookInv, MainOK, MainIn, PassFits
    <3> QED
      BY <3>1, <3>2
  <2>8. CleanUpDue'
    BY <1>1, <1>2, <2>1, <2>4 DEF HookInv, CleanUpDue, MainIn, Restoring
  <2>9. OthersOK'
    BY <1>1, <2>1, <2>2, <2>3 DEF HookInv, OthersOK, OnlyFrame
  <2>10. OriginalsOK'
    BY <1>1, <1>2, <2>1, <2>3, <2>4 DEF HookInv, OriginalsOK
  <2>11. HistoriesOK'
    BY <1>1, <2>3 DEF HookInv, HistoriesOK
  <2> QED
    BY <2>6, <2>7, <2>8, <2>9, <2>10, <2>11 DEF HookInv
<1> QED
  BY <1>3, <1>4
(* The passes, all of them of the initial thread.                           *)
OthersStill == \A u \in Threads : u # Main => call'[u] = call[u]

LEMMA OthersKept ==
    ASSUME HookInv, OthersStill, original' = original \/ original' = "clib",
           DOMAIN imports \subseteq DOMAIN imports',
           ~MainIn({"body", "load", "patch"})' \/ (MainIn({"body"})' /\ original' = "clib")
    PROVE  OthersOK'
<1>1. call'[Main].pc \notin {"load", "patch"} /\ (call'[Main].pc = "body" => original' = "clib")
  BY DEF MainIn
<1>2. ASSUME NEW t \in Threads, t # Main
      PROVE  /\ call'[t].pc \in {"app", "body", "load", "patch"}
             /\ call'[t].pc = "body" => original' = "clib"
             /\ call'[t].pc = "body" => call'[t].op = "set"
             /\ call'[t].pc \in {"load", "patch"} => original' = "clib" /\ call'[t].early
             /\ call'[t].pc = "patch" => call'[t].mod \in DOMAIN imports'
  BY <1>2 DEF HookInv, OthersOK, OthersStill
<1> QED
  BY <1>1, <1>2 DEF OthersOK

LEMMA InvTake ==
    ASSUME HookTypes, HookInv, NEW t \in Threads, TakeOriginals(t), life' # "over"
    PROVE  HookInv'
<1>1. t = Main /\ call[Main].pc = "take" /\ ~inited
  BY DEF TakeOriginals, HookInv, OthersOK, MainOK, MainIn
<1>2. imports[Own].alloc = "clib" /\ imports[Own].load = "system"
  <2>1. Own \in DOMAIN imports /\ Own \notin late
    BY ModulesAssumption DEF HookTypes, ImportsOK, HookInv, HistoriesOK
  <2>2. AllocDown /\ LoadDown
    BY <1>1 DEF AllocDown, LoadDown, MainIn, Patching
  <2> QED
    BY <2>1, <2>2 DEF HookInv, AllocFits, LoadFits
<1>3. /\ original' = "clib" /\ loadOriginal' = "system" /\ g' = "clib"
      /\ StartPass(Main, "patchAlloc", PassOf("alloc", "clib", "hook"))
      /\ imports' = imports /\ inited' = inited /\ saved' = saved /\ asked' = asked
      /\ late' = late /\ handlers' = handlers
  BY <1>1, <1>2 DEF TakeOriginals, PrepareData, PassOf
<1>4. /\ OnlyFrame(Main) /\ call'[Main].pc = "patchAlloc"
      /\ call'[Main].todo = DOMAIN imports /\ call'[Main].op = call[Main].op
      /\ call'[Main].data = PassOf("alloc", "clib", "hook")
  BY <1>3, ToPass DEF HookTypes, PassOf, Funcs, Patching
<1>5. \A h \in Handlers : Due(h)' <=> Due(h)
  BY <1>3, DueSame
<1>6. MainOK'
  BY <1>1, <1>3, <1>4 DEF MainOK, MainIn, PassFits, Restoring
<1>7. OthersOK'
  BY <1>3, <1>4, OthersKept DEF OthersStill, OnlyFrame, MainIn
<1>8. OriginalsOK'
  BY <1>3, <1>4, <1>5 DEF HookInv, OriginalsOK, Handlers
<1>9. HistoriesOK' /\ CleanUpDue'
  BY <1>1, <1>3 DEF HookInv, HistoriesOK, CleanUpDue
<1>10. ASSUME NEW m \in DOMAIN imports PROVE LoadFits(m)' /\ AllocFits(m)'
  <2>1. imports[m].load = "system"
    BY <1>1 DEF HookInv, LoadFits, LoadDown, MainIn
  <2> QED
    BY <1>1, <1>3, <1>4, <2>1 DEF LoadFits, AllocFits, LoadDown, LoadUp, AllocDown, AllocUp,
                                  MainIn, Patching, Restoring
<1> QED
  BY <1>3, <1>6, <1>7, <1>8, <1>9, <1>10 DEF HookInv

LEMMA InvReplace ==
    ASSUME HookTypes, HookInv, NEW t \in Threads, ReplaceInModule(t), life' # "over"
    PROVE  HookInv'
<1>1. t = Main /\ MainIn(Patching \cup Restoring)
  BY DEF ReplaceInModule, HookInv, OthersOK, MainIn, Patching, Restoring
<1>2. PICK m \in call[Main].todo : /\ imports' = [imports EXCEPT ![m] = Replace(@, call[Main].data)]
                                   /\ Goto(Main, [call[Main] EXCEPT !.todo = @ \ {m}])
  BY <1>1 DEF ReplaceInModule
<1>3. /\ OnlyFrame(Main) /\ call'[Main].pc = call[Main].pc /\ call'[Main].op = call[Main].op
      /\ call'[Main].data = call[Main].data /\ call'[Main].todo = call[Main].todo \ {m}
      /\ call'[Main].mod = call[Main].mod
  BY <1>2, ToFewer DEF HookTypes
<1>4. /\ inited' = inited /\ original' = original /\ loadOriginal' = loadOriginal
      /\ g' = g /\ saved' = saved /\ asked' = asked /\ late' = late /\ handlers' = handlers
  BY DEF ReplaceInModule
<1>5. \A h \in Handlers : Due(h)' <=> Due(h)
  BY <1>4, DueSame
<1>6. original = "clib"
  BY <1>1 DEF HookInv, MainOK, MainIn, Patching, Restoring
<1>7. MainOK'
  BY <1>1, <1>3, <1>4 DEF HookInv, MainOK, MainIn, PassFits, Patching, Restoring
<1>8. DOMAIN imports' = DOMAIN imports /\ \A n \in DOMAIN imports : n # m => imports'[n] = imports[n]
  BY <1>2
<1>9. OthersOK'
  BY <1>1, <1>3, <1>4, <1>8, OthersKept DEF OthersStill, OnlyFrame, MainIn, Patching, Restoring
<1>10. OriginalsOK'
  BY <1>3, <1>4, <1>5, <1>6 DEF HookInv, OriginalsOK, Handlers
<1>11. HistoriesOK' /\ CleanUpDue'
  BY <1>3, <1>4, <1>5, <1>8 DEF HookInv, HistoriesOK, CleanUpDue, MainIn, Handlers
<1>12. ASSUME NEW n \in DOMAIN imports, n # m PROVE LoadFits(n)' /\ AllocFits(n)'
  <2>1. /\ imports'[n] = imports[n]
        /\ n \in call'[Main].todo <=> n \in call[Main].todo
    BY <1>3, <1>8, <1>12
  <2>2. LoadFits(n) /\ AllocFits(n)
    BY DEF HookInv
  <2>3. LoadFits(n)'
    BY <1>3, <1>4, <2>1, <2>2 DEF LoadFits, LoadDown, LoadUp, MainIn
  <2>4. AllocFits(n)'
    BY <1>3, <1>4, <2>1, <2>2 DEF AllocFits, AllocDown, AllocUp, MainIn
  <2> QED
    BY <2>3, <2>4
<1>13. ASSUME m \in DOMAIN imports PROVE LoadFits(m)' /\ AllocFits(m)'
  <2>1. imports[m] \in Entry /\ imports'[m] = Replace(imports[m], call[Main].data)
    BY <1>2, <1>13 DEF HookTypes, ImportsOK
  <2>2. LoadFits(m) /\ AllocFits(m) /\ PassFits(call[Main])
    BY <1>13 DEF HookInv, MainOK
  <2>3. CASE MainIn({"patchAlloc"})
    <3>1. imports'[m].load = imports[m].load /\ imports'[m].alloc = "hook"
      BY <2>1, <2>2, <2>3, ReplaceAlloc DEF PassFits, PassOf, MainIn, Entry
    <3> QED
      BY <1>3, <1>4, <2>2, <2>3, <3>1
      DEF LoadFits, AllocFits, LoadDown, LoadUp, AllocDown, AllocUp, MainIn, Patching, Restoring
  <2>4. CASE MainIn({"patchLoad"})
    <3>1. imports'[m].alloc = imports[m].alloc /\ imports'[m].load = "hook"
      BY <2>1, <2>2, <2>4, ReplaceLoad DEF PassFits, PassOf, MainIn, Entry
    <3> QED
      BY <1>3, <1>4, <2>2, <2>4, <3>1
      DEF LoadFits, AllocFits, LoadDown, LoadUp, AllocDown, AllocUp, MainIn, Patching, Restoring
  <2>5. CASE MainIn({"restoreLoad"})
    <3>1. imports'[m].alloc = imports[m].alloc /\ imports'[m].load = "system"
      BY <2>1, <2>2, <2>5, ReplaceLoad DEF PassFits, PassOf, MainIn, Entry
    <3> QED
      BY <1>3, <1>4, <2>2, <2>5, <3>1
      DEF LoadFits, AllocFits, LoadDown, LoadUp, AllocDown, AllocUp, MainIn, Patching, Restoring
  <2>6. CASE MainIn({"restoreAlloc"})
    <3>1. imports'[m].load = imports[m].load /\ imports'[m].alloc = "clib"
      BY <2>1, <2>2, <2>6, ReplaceAlloc DEF PassFits, PassOf, MainIn, Entry
    <3> QED
      BY <1>3, <1>4, <2>2, <2>6, <3>1
      DEF LoadFits, AllocFits, LoadDown, LoadUp, AllocDown, AllocUp, MainIn, Patching, Restoring
  <2> QED
    BY <1>1, <2>3, <2>4, <2>5, <2>6 DEF MainIn, Patching, Restoring
<1> QED
  BY <1>7, <1>8, <1>9, <1>10, <1>11, <1>12, <1>13 DEF HookInv
(* From one pass to the next, and out of the last one. *)
LEMMA InvNextPass ==
    ASSUME HookTypes, HookInv, NEW t \in Threads, NextPass(t), life' # "over"
    PROVE  HookInv'
<1>1. t = Main /\ MainIn(Patching \cup Restoring) /\ call[Main].todo = {}
  BY DEF NextPass, HookInv, OthersOK, MainIn, Patching, Restoring
<1>2. /\ imports' = imports /\ original' = original /\ loadOriginal' = loadOriginal
      /\ g' = g /\ saved' = saved /\ asked' = asked /\ late' = late /\ handlers' = handlers
  BY DEF NextPass
<1>3. \A h \in Handlers : Due(h)' <=> Due(h)
  BY <1>2, DueSame
<1>4. original = "clib" /\ loadOriginal = "system"
  BY <1>1 DEF HookInv, MainOK, OriginalsOK, MainIn, Patching, Restoring
<1>5. HistoriesOK'
  BY <1>2 DEF HookInv, HistoriesOK
<1>6. \A m \in DOMAIN imports : LoadFits(m) /\ AllocFits(m)
  BY DEF HookInv
<1>7. CASE /\ MainIn({"patchAlloc"}) /\ StartPass(Main, "patchLoad", PatchLoadData)
           /\ inited' = inited
  <2>1. PatchLoadData = PassOf("load", "system", "hook") /\ ~inited
    BY <1>4, <1>7 DEF PatchLoadData, PassOf, HookInv, MainOK, MainIn, Patching
  <2>2. /\ OnlyFrame(Main) /\ call'[Main].pc = "patchLoad"
        /\ call'[Main].todo = DOMAIN imports /\ call'[Main].op = call[Main].op
        /\ call'[Main].data = PassOf("load", "system", "hook")
    BY <1>7, <2>1, ToPass DEF HookTypes, PassOf, Funcs, Patching
  <2>3. MainOK'
    BY <1>2, <1>4, <1>7, <2>1, <2>2 DEF MainOK, MainIn, PassFits, Restoring
  <2>4. OthersOK'
    BY <1>2, <2>2, OthersKept DEF OthersStill, OnlyFrame, MainIn
  <2>5. OriginalsOK' /\ CleanUpDue'
    BY <1>2, <1>3, <1>4, <1>7, <2>1, <2>2 DEF HookInv, OriginalsOK, CleanUpDue, Handlers
  <2>6. ASSUME NEW m \in DOMAIN imports PROVE LoadFits(m)' /\ AllocFits(m)'
    BY <1>1, <1>2, <1>6, <1>7, <2>1, <2>2
    DEF LoadFits, AllocFits, LoadDown, LoadUp, AllocDown, AllocUp, MainIn, Patching, Restoring
  <2> QED
    BY <1>2, <1>5, <2>3, <2>4, <2>5, <2>6 DEF HookInv
<1>8. CASE /\ MainIn({"patchLoad"}) /\ Goto(Main, [call[Main] EXCEPT !.pc = "register"])
           /\ inited' = inited
  <2>1. /\ OnlyFrame(Main) /\ call'[Main].pc = "register" /\ call'[Main].op = call[Main].op
    BY <1>8, ToPlace DEF HookTypes
  <2>2. ~inited
    BY <1>8 DEF HookInv, MainOK, MainIn, Patching
  <2>3. MainOK'
    BY <1>2, <1>4, <1>8, <2>1, <2>2 DEF MainOK, MainIn, PassFits, Restoring
  <2>4. OthersOK'
    BY <1>2, <2>1, OthersKept DEF OthersStill, OnlyFrame, MainIn
  <2>5. OriginalsOK' /\ CleanUpDue'
    BY <1>2, <1>3, <1>4, <1>8, <2>1, <2>2 DEF HookInv, OriginalsOK, CleanUpDue, Handlers
  <2>6. ASSUME NEW m \in DOMAIN imports PROVE LoadFits(m)' /\ AllocFits(m)'
    BY <1>1, <1>2, <1>6, <1>8, <2>1, <2>2
    DEF LoadFits, AllocFits, LoadDown, LoadUp, AllocDown, AllocUp, MainIn, Patching, Restoring
  <2> QED
    BY <1>2, <1>5, <2>3, <2>4, <2>5, <2>6 DEF HookInv
<1>9. CASE /\ MainIn({"restoreLoad"}) /\ StartPass(Main, "restoreAlloc", RestoreAllocData)
           /\ inited' = inited
  <2>1. RestoreAllocData = PassOf("alloc", "hook", "clib") /\ inited
    BY <1>4, <1>9 DEF RestoreAllocData, PassOf, HookInv, MainOK, MainIn, Restoring
  <2>2. /\ OnlyFrame(Main) /\ call'[Main].pc = "restoreAlloc"
        /\ call'[Main].todo = DOMAIN imports /\ call'[Main].op = call[Main].op
        /\ call'[Main].data = PassOf("alloc", "hook", "clib")
    BY <1>9, <2>1, ToPass DEF HookTypes, PassOf, Funcs, Restoring
  <2>3. MainOK'
    BY <1>2, <1>4, <1>9, <2>1, <2>2 DEF MainOK, MainIn, PassFits, Patching, Restoring
  <2>4. OthersOK'
    BY <1>2, <2>2, OthersKept DEF OthersStill, OnlyFrame, MainIn
  <2>5. OriginalsOK' /\ CleanUpDue'
    BY <1>2, <1>3, <1>4, <1>9, <2>1, <2>2
    DEF HookInv, OriginalsOK, CleanUpDue, Handlers, MainIn, Restoring
  <2>6. ASSUME NEW m \in DOMAIN imports PROVE LoadFits(m)' /\ AllocFits(m)'
    BY <1>1, <1>2, <1>6, <1>9, <2>1, <2>2
    DEF LoadFits, AllocFits, LoadDown, LoadUp, AllocDown, AllocUp, MainIn, Patching, Restoring
  <2> QED
    BY <1>2, <1>5, <2>3, <2>4, <2>5, <2>6 DEF HookInv
<1>10. CASE /\ MainIn({"restoreAlloc"}) /\ Goto(Main, Away)
            /\ inited' = FALSE
  <2>1. /\ OnlyFrame(Main) /\ call'[Main].pc = "app" /\ call'[Main].op = "none"
    BY <1>10, ToAway, AwayFrame DEF HookTypes
  <2>2. MainOK'
    BY <1>10, <2>1 DEF MainOK, MainIn, PassFits, Patching, Restoring
  <2>3. OthersOK'
    BY <1>2, <2>1, OthersKept DEF OthersStill, OnlyFrame, MainIn
  <2>4. OriginalsOK' /\ CleanUpDue'
    BY <1>2, <1>3, <1>4, <1>10, <2>1 DEF HookInv, OriginalsOK, CleanUpDue, Handlers
  <2>5. ASSUME NEW m \in DOMAIN imports PROVE LoadFits(m)' /\ AllocFits(m)'
    <3>1. imports[m].load = "system" /\ (m \notin late => imports[m].alloc = "clib")
      BY <1>1, <1>6, <1>10 DEF LoadFits, AllocFits, LoadDown, MainIn
    <3> QED
      BY <1>2, <1>10, <2>1, <3>1 DEF LoadFits, AllocFits, LoadUp, AllocUp, MainIn, Restoring
  <2> QED
    BY <1>2, <1>5, <2>2, <2>3, <2>4, <2>5 DEF HookInv
<1> QED
  BY <1>1, <1>7, <1>8, <1>9, <1>10 DEF NextPass, MainIn

LEMMA InvRegister ==
    ASSUME HookTypes, HookInv, handlers \in Seq(Handlers), NEW t \in Threads, Register(t),
           life' # "over"
    PROVE  HookInv'
<1>1. t = Main /\ call[Main].pc = "register" /\ ~inited
  BY DEF Register, HookInv, OthersOK, MainOK, MainIn
<1>2. /\ imports' = imports /\ original' = original /\ loadOriginal' = loadOriginal
      /\ g' = g /\ saved' = saved /\ asked' = asked /\ late' = late /\ inited' = TRUE
  BY DEF Register
<1>3. Due("hooks")' /\ (Due("investigator")' <=> Due("investigator"))
  <2>1. handlers' = Append(handlers, "hooks") /\ "hooks" \in Handlers /\ "investigator" \in Handlers
    BY DEF Register, Registered, Handlers
  <2> QED
    BY <2>1, DueAdded
<1>4. OnlyFrame(Main) /\ call'[Main].pc = "body" /\ call'[Main].op = call[Main].op
  BY <1>1, ToPlace DEF Register, HookTypes
<1>5. original = "clib"
  BY <1>1 DEF HookInv, MainOK, MainIn
<1>6. MainOK'
  BY <1>2, <1>4 DEF MainOK, MainIn, PassFits, Patching, Restoring
<1>7. OthersOK'
  BY <1>2, <1>4, <1>5, OthersKept DEF OthersStill, OnlyFrame, MainIn
<1>8. OriginalsOK' /\ CleanUpDue' /\ HistoriesOK'
  BY <1>2, <1>3, <1>4, <1>5 DEF HookInv, OriginalsOK, CleanUpDue, HistoriesOK
<1>9. ASSUME NEW m \in DOMAIN imports PROVE LoadFits(m)' /\ AllocFits(m)'
  <2>1. LoadFits(m) /\ AllocFits(m)
    BY DEF HookInv
  <2> QED
    BY <1>1, <1>2, <1>4, <2>1
    DEF LoadFits, AllocFits, LoadDown, LoadUp, AllocDown, AllocUp, MainIn, Patching, Restoring
<1> QED
  BY <1>2, <1>6, <1>7, <1>8, <1>9 DEF HookInv

LEMMA InvCleanUp ==
    ASSUME HookTypes, HookInv, CleanUp(Main), call[Main].pc = "app", life' # "over",
           Due("investigator")' => Due("investigator")
    PROVE  HookInv'
<1>1. /\ imports' = imports /\ original' = original /\ loadOriginal' = loadOriginal
      /\ g' = g /\ saved' = saved /\ asked' = asked /\ late' = late /\ inited' = inited
  BY DEF CleanUp
<1>2. CASE ~inited
  <2>1. UNCHANGED hookVars /\ HandlersGo
    BY <1>1, <1>2 DEF CleanUp, hookVars, HandlersGo
  <2> QED
    BY <2>1, InvStill
<1>3. CASE inited
  <2>1. original = "clib" /\ loadOriginal = "system"
    BY <1>3 DEF HookInv, OriginalsOK
  <2>2. StartPass(Main, "restoreLoad", PassOf("load", "hook", "system"))
    BY <1>3, <2>1 DEF CleanUp, RestoreLoadData, PassOf
  <2>3. /\ OnlyFrame(Main) /\ call'[Main].pc = "restoreLoad"
        /\ call'[Main].todo = DOMAIN imports /\ call'[Main].op = call[Main].op
        /\ call'[Main].data = PassOf("load", "hook", "system")
    BY <2>2, ToPass DEF HookTypes, PassOf, Funcs, Restoring
  <2>4. MainOK'
    BY <1>1, <1>3, <2>1, <2>3 DEF MainOK, MainIn, PassFits, Patching, Restoring
  <2>5. OthersOK'
    BY <1>1, <2>3, OthersKept DEF OthersStill, OnlyFrame, MainIn
  <2>6. OriginalsOK' /\ CleanUpDue' /\ HistoriesOK'
    BY <1>1, <1>3, <2>1, <2>3
    DEF HookInv, OriginalsOK, CleanUpDue, HistoriesOK, MainIn, Restoring
  <2>7. ASSUME NEW m \in DOMAIN imports PROVE LoadFits(m)' /\ AllocFits(m)'
    BY <1>1, <1>3, <2>3
    DEF LoadFits, AllocFits, LoadDown, LoadUp, AllocDown, AllocUp, MainIn, Patching, Restoring
  <2> QED
    BY <1>1, <2>4, <2>5, <2>6, <2>7 DEF HookInv
<1> QED
  BY <1>2, <1>3
(* What the callers do once the hooks are there. *)
LEMMA InvBody ==
    ASSUME HookTypes, HookInv, handlers \in Seq(Handlers), NEW t \in Threads, Body(t),
           life' # "over"
    PROVE  HookInv'
<1>1. /\ imports' = imports /\ original' = original /\ loadOriginal' = loadOriginal
      /\ asked' = asked /\ late' = late /\ inited' = inited
  BY DEF Body
<1>2. OnlyFrame(t) /\ call'[t] = Away
  BY ToAway DEF Body, HookTypes
<1>3. t # Main => call'[Main] = call[Main] /\ call[t].op = "set"
  BY <1>2 DEF OnlyFrame, Body, HookInv, OthersOK
<1>4. call[t].pc = "body" /\ original = "clib" /\ loadOriginal = "system" /\ g \in {"clib", "user"}
  BY DEF Body, HookInv, OthersOK, OriginalsOK
<1>5. SamePhase
  BY <1>1, <1>2, <1>3, <1>4, AwayFrame DEF SamePhase, Outside, MainIn, Patching, Restoring
<1>6. /\ \A m \in DOMAIN imports' : LoadFits(m)'
      /\ \A m \in DOMAIN imports' : AllocFits(m)'
  BY <1>1, <1>5, TablesKept
<1>7. MainOK'
  <2>1. CASE t = Main
    BY <1>2, <2>1, AwayFrame DEF MainOK, MainIn, PassFits, Patching, Restoring, HookInv, Body
  <2>2. CASE t # Main
    BY <1>1, <1>3, <2>2 DEF HookInv, MainOK, MainIn, PassFits
  <2> QED
    BY <2>1, <2>2
<1>8. OthersOK'
  BY <1>1, <1>2, AwayFrame DEF HookInv, OthersOK, OnlyFrame
<1>9. HistoriesOK'
  BY <1>1 DEF HookInv, HistoriesOK
<1>10. call'[Main].op = "investEnd" => call[Main].op = "investEnd" /\ t # Main
  BY <1>2, <1>3, AwayFrame
<1>11. CASE HooksInitializer(t)
  <2>1. /\ handlers' = Append(handlers, "hooks") /\ g' = g /\ saved' = saved
        /\ "hooks" \in Handlers /\ "investigator" \in Handlers
    BY <1>11 DEF HooksInitializer, Handlers
  <2>2. Due("hooks")' /\ (Due("investigator")' <=> Due("investigator"))
    BY <2>1, DueAdded
  <2>3. OriginalsOK' /\ CleanUpDue'
    BY <1>1, <1>4, <1>10, <2>1, <2>2 DEF HookInv, OriginalsOK, CleanUpDue
  <2> QED
    BY <1>6, <1>7, <1>8, <1>9, <2>3 DEF HookInv
<1>12. CASE SetMallocFnc(t)
  <2>1. g' = "user" /\ handlers' = handlers /\ saved' = saved
    BY <1>12 DEF SetMallocFnc
  <2>2. (Due("hooks")' <=> Due("hooks")) /\ (Due("investigator")' <=> Due("investigator"))
    BY <2>1, DueSame DEF Handlers
  <2>3. inited /\ ~MainIn(Restoring)' => ~MainIn(Restoring)
    BY <1>2, <1>3, <1>4 DEF MainIn, Restoring
  <2>4. OriginalsOK' /\ CleanUpDue'
    BY <1>1, <1>4, <1>10, <2>1, <2>2, <2>3 DEF HookInv, OriginalsOK, CleanUpDue
  <2> QED
    BY <1>6, <1>7, <1>8, <1>9, <2>4 DEF HookInv
<1>13. CASE InvestigatorInit(t)
  <2>1. /\ g' = "user" /\ saved' = g /\ handlers' = Append(handlers, "investigator")
        /\ t = Main /\ "hooks" \in Handlers /\ "investigator" \in Handlers
    BY <1>3, <1>13 DEF InvestigatorInit, Handlers
  <2>2. Due("hooks") => Due("hooks")'
    BY <2>1, DueAdded
  <2>3. ~MainIn(Restoring)
    BY <1>4, <2>1 DEF MainIn, Restoring
  <2>4. OriginalsOK' /\ CleanUpDue'
    BY <1>1, <1>4, <2>1, <2>2, <2>3 DEF HookInv, OriginalsOK, CleanUpDue
  <2> QED
    BY <1>6, <1>7, <1>8, <1>9, <2>4 DEF HookInv
<1>14. CASE InvestigatorClean(t)
  <2>1. g' = saved /\ handlers' = handlers /\ saved' = saved /\ t = Main
    BY <1>3, <1>14 DEF InvestigatorClean
  <2>2. saved \in {"clib", "user"}
    BY <1>14, <2>1 DEF InvestigatorClean, HookInv, OriginalsOK
  <2>3. (Due("hooks")' <=> Due("hooks")) /\ (Due("investigator")' <=> Due("investigator"))
    BY <2>1, DueSame DEF Handlers
  <2>4. ~MainIn(Restoring)
    BY <1>4, <2>1 DEF MainIn, Restoring
  <2>5. OriginalsOK' /\ CleanUpDue'
    BY <1>1, <1>4, <2>1, <2>2, <2>3, <2>4 DEF HookInv, OriginalsOK, CleanUpDue
  <2> QED
    BY <1>6, <1>7, <1>8, <1>9, <2>5 DEF HookInv
<1> QED
  BY <1>11, <1>12, <1>13, <1>14 DEF Body

(* Loads of any thread go on while the tables are patched or restored. *)
LEMMA InvRealLoad ==
    ASSUME HookTypes, HookInv, NEW t \in Threads, RealLoad(t), life' # "over"
    PROVE  HookInv'
<1>1. /\ inited' = inited /\ original' = original /\ loadOriginal' = loadOriginal
      /\ g' = g /\ saved' = saved /\ asked' = asked /\ late' = late /\ handlers' = handlers
  BY DEF RealLoad
<1>2. /\ call[t].pc = "load" /\ original = "clib" /\ call[t].early /\ call[t].mod \in Plugins
  BY DEF RealLoad, HookInv, OthersOK, HookTypes, FramesOK, FrameFits
<1>3. /\ OnlyFrame(t) /\ DOMAIN imports \subseteq DOMAIN imports'
      /\ \A n \in DOMAIN imports : imports'[n] = imports[n]
      /\ \A n \in DOMAIN imports' : n \notin DOMAIN imports => imports'[n] = Untouched
      /\ \/ call'[t].pc = "app" /\ call'[t].op = "none"
         \/ /\ call'[t].pc = "patch" /\ call'[t].early /\ call'[t].op = call[t].op
            /\ call'[t].mod \in DOMAIN imports'
  <2>1. CASE Load(call[t].mod) /\ Goto(t, [call[t] EXCEPT !.pc = "patch"])
    <3>1. /\ OnlyFrame(t) /\ call'[t].pc = "patch" /\ call'[t].op = call[t].op
          /\ call'[t].mod = call[t].mod /\ call'[t].early = call[t].early
      BY <2>1, ToPlace DEF HookTypes
    <3>2. /\ DOMAIN imports \subseteq DOMAIN imports' /\ call[t].mod \in DOMAIN imports'
          /\ \A n \in DOMAIN imports : imports'[n] = imports[n]
          /\ \A n \in DOMAIN imports' : n \notin DOMAIN imports => imports'[n] = Untouched
      BY <1>2, <2>1, LoadAt DEF HookTypes
    <3> QED
      BY <1>2, <3>1, <3>2
  <2>2. CASE Goto(t, Away) /\ UNCHANGED imports
    BY <2>2, ToAway, AwayFrame DEF HookTypes
  <2> QED
    BY <2>1, <2>2 DEF RealLoad
<1>4. t # Main => call'[Main] = call[Main]
  BY <1>3 DEF OnlyFrame
<1>5. SamePhase
  BY <1>1, <1>2, <1>3, <1>4 DEF SamePhase, Outside, MainIn, Patching, Restoring
<1>6. /\ \A n \in DOMAIN imports' : LoadFits(n)'
      /\ \A n \in DOMAIN imports' : AllocFits(n)'
  BY <1>1, <1>3, <1>5, TablesKept
<1>7. MainOK'
  <2>1. CASE t = Main
    BY <1>1, <1>3, <2>1 DEF MainOK, MainIn, PassFits, Patching, Restoring
  <2>2. CASE t # Main
    BY <1>1, <1>4, <2>2 DEF HookInv, MainOK, MainIn, PassFits
  <2> QED
    BY <2>1, <2>2
<1>8. OthersOK'
  BY <1>1, <1>2, <1>3 DEF HookInv, OthersOK, OnlyFrame
<1>9. (Due("hooks")' <=> Due("hooks")) /\ (Due("investigator")' <=> Due("investigator"))
  BY <1>1, DueSame DEF Handlers
<1>10. CleanUpDue'
  BY <1>1, <1>2, <1>4, <1>9 DEF HookInv, CleanUpDue, MainIn, Restoring
<1>11. OriginalsOK'
  BY <1>1, <1>2, <1>3, <1>4, <1>9 DEF HookInv, OriginalsOK
<1>12. HistoriesOK'
  BY <1>1, <1>3 DEF HookInv, HistoriesOK
<1> QED
  BY <1>6, <1>7, <1>8, <1>10, <1>11, <1>12 DEF HookInv

(* The module that was asked for is patched; if the hooks went down since   *)
(* the call, it is one of the late ones.                                    *)
LEMMA InvPatchLoaded ==
    ASSUME HookTypes, HookInv, NEW t \in Threads, PatchLoaded(t), life' # "over"
    PROVE  HookInv'
<1>0. PICK m : m = call[t].mod
  OBVIOUS
<1>1. /\ inited' = inited /\ original' = original /\ loadOriginal' = loadOriginal
      /\ g' = g /\ saved' = saved /\ handlers' = handlers /\ asked' = asked \cup {m}
      /\ late' = IF call[t].early /\ ~HooksUp THEN late \cup {m} ELSE late
  BY <1>0 DEF PatchLoaded
<1>2. /\ call[t].pc = "patch" /\ original = "clib" /\ call[t].early /\ m \in Plugins
      /\ m \in DOMAIN imports /\ m \notin Initial
  BY <1>0, ModulesAssumption DEF PatchLoaded, HookInv, OthersOK, HookTypes, FramesOK, FrameFits
<1>3. OnlyFrame(t) /\ call'[t].pc = "app" /\ call'[t].op = "none"
  BY ToAway, AwayFrame DEF PatchLoaded, HookTypes
<1>4. /\ DOMAIN imports' = DOMAIN imports
      /\ \A n \in DOMAIN imports : n # m => imports'[n] = imports[n]
      /\ imports'[m].load = imports[m].load /\ imports'[m].alloc = "hook"
  <2>1. PrepareData("clib") = PassOf("alloc", "clib", "hook")
    BY DEF PrepareData, PassOf
  <2>2. imports[m] \in Entry
    BY <1>2 DEF HookTypes, ImportsOK
  <2>3. imports' = [imports EXCEPT ![m] = Replace(imports[m], PassOf("alloc", "clib", "hook"))]
    BY <1>0, <1>2, <2>1 DEF PatchLoaded
  <2>4. /\ Replace(imports[m], PassOf("alloc", "clib", "hook")).load = imports[m].load
        /\ Replace(imports[m], PassOf("alloc", "clib", "hook")).alloc = "hook"
    BY <2>2, ReplaceAlloc DEF PassOf, Entry
  <2> QED
    BY <1>2, <2>3, <2>4
<1>5. t # Main => call'[Main] = call[Main]
  BY <1>3 DEF OnlyFrame
<1>6. SamePhase
  BY <1>1, <1>2, <1>3, <1>5 DEF SamePhase, Outside, MainIn, Patching, Restoring
<1>7. ASSUME NEW n \in DOMAIN imports, n # m PROVE LoadFits(n)' /\ AllocFits(n)'
  <2>1. /\ imports'[n] = imports[n] /\ LoadFits(n) /\ AllocFits(n)
        /\ n \in late => n \in late'
        /\ n \in asked' => n \in asked
    BY <1>1, <1>4, <1>7 DEF HookInv
  <2> QED
    BY <1>6, <2>1, LoadKept, AllocKept
<1>8. LoadFits(m)'
  <2>1. LoadFits(m)
    BY <1>2 DEF HookInv
  <2> QED
    BY <1>4, <1>6, <2>1, LoadKept
<1>9. AllocFits(m)'
  <2>1. AllocDown \/ MainIn({"restoreAlloc"}) => ~HooksUp
    BY DEF HookInv, OthersOK, AllocDown, HooksUp, Initialising, MainIn, Patching
  <2>2. AllocDown \/ MainIn({"restoreAlloc"}) => m \in late'
    BY <1>1, <1>2, <2>1
  <2>3. AllocDown' \/ MainIn({"restoreAlloc"})' => AllocDown \/ MainIn({"restoreAlloc"})
    BY <1>6 DEF SamePhase, Outside, AllocDown, MainIn, Patching, Restoring
  <2> QED
    BY <1>4, <2>2, <2>3 DEF AllocFits
<1>10. MainOK'
  <2>1. CASE t = Main
    BY <1>1, <1>3, <2>1 DEF MainOK, MainIn, PassFits, Patching, Restoring
  <2>2. CASE t # Main
    BY <1>1, <1>5, <2>2 DEF HookInv, MainOK, MainIn, PassFits
  <2> QED
    BY <2>1, <2>2
<1>11. OthersOK'
  BY <1>1, <1>3, <1>4 DEF HookInv, OthersOK, OnlyFrame
<1>12. (Due("hooks")' <=> Due("hooks")) /\ (Due("investigator")' <=> Due("investigator"))
  BY <1>1, DueSame DEF Handlers
<1>13. CleanUpDue'
  BY <1>1, <1>2, <1>5, <1>12 DEF HookInv, CleanUpDue, MainIn, Restoring
<1>14. OriginalsOK'
  BY <1>1, <1>2, <1>3, <1>5, <1>12 DEF HookInv, OriginalsOK
<1>15. HistoriesOK'
  BY <1>1, <1>2, <1>4 DEF HookInv, HistoriesOK
<1> QED
  BY <1>4, <1>7, <1>8, <1>9, <1>10, <1>11, <1>13, <1>14, <1>15 DEF HookInv
LEMMA HookInvHolds ==
    ASSUME Initialisers = {Main}
    PROVE  FairSpec => []HookInv
<1>1. Init => HookInv
  <2> SUFFICES ASSUME Init PROVE HookInv
    OBVIOUS
  <2>1. /\ imports = [m \in Initial |-> Untouched] /\ ~inited /\ original = "null"
        /\ loadOriginal = "null" /\ asked = {} /\ late = {} /\ life = "starting"
        /\ \A t \in Threads : call[t] = Away
        /\ ~Due("investigator")
    BY DEF Init, HooksInit, ProcessInit, Due
  <2>2. MainOK /\ OthersOK /\ OriginalsOK /\ HistoriesOK /\ CleanUpDue
    BY <2>1, AwayFrame DEF MainOK, PassFits, OthersOK, OriginalsOK, HistoriesOK, CleanUpDue,
                           MainIn, Patching, Restoring
  <2>3. ASSUME NEW m \in DOMAIN imports PROVE LoadFits(m) /\ AllocFits(m)
    BY <2>1, AwayFrame DEF LoadFits, AllocFits, LoadUp, AllocUp, MainIn, Patching, Restoring,
                           Untouched
  <2> QED
    BY <2>2, <2>3 DEF HookInv
<1>2. HookTypes /\ ProcessTypes /\ HookInv /\ [Next]_vars => HookInv'
  <2> SUFFICES ASSUME HookTypes, ProcessTypes, HookInv, [Next]_vars PROVE HookInv'
    OBVIOUS
  <2>0. handlers \in Seq(Handlers)
    BY DEF ProcessTypes
  <2>1. CASE UNCHANGED vars
    <3>1. UNCHANGED hookVars /\ UNCHANGED handlers /\ life' = life
      BY <2>1 DEF vars
    <3> QED
      BY <3>1, DueSame, InvStill
  <2>2. CASE HooksStart
    <3>1. /\ Enter(Main, "hooks") /\ call[Main].pc = "app" /\ UNCHANGED handlers
          /\ life' # "over"
      BY <2>2 DEF HooksStart, Idle
    <3> QED
      BY <3>1, DueSame, InvEnter
  <2>3. CASE InvestigatorStart
    <3>1. call[Main].pc = "app" /\ UNCHANGED handlers /\ life' # "over"
      BY <2>3 DEF InvestigatorStart, Idle
    <3>2. CASE Enter(Main, "investigator")
      BY <3>1, <3>2, DueSame, InvEnter
    <3>3. CASE UNCHANGED hookVars
      BY <3>1, <3>3, DueSame, InvStill
    <3> QED
      BY <2>3, <3>2, <3>3 DEF InvestigatorStart
  <2>4. CASE StacksStart \/ MainStarts \/ ExitStarts
    <3>1. UNCHANGED hookVars /\ UNCHANGED handlers /\ life' # "over"
      BY <2>4 DEF StacksStart, MainStarts, ExitStarts, StartStacks
    <3> QED
      BY <3>1, DueSame, InvStill
  <2>5. CASE ProcessOver
    <3>1. UNCHANGED hookVars /\ UNCHANGED handlers /\ call[Main].pc = "app" /\ handlers = <<>>
      BY <2>5 DEF ProcessOver, Idle
    <3>2. ~inited
      BY <3>1 DEF HookInv, CleanUpDue, Due, MainIn, Restoring
    <3> QED
      BY <3>1, <3>2, DueSame, InvStill DEF MainIn
  <2>6. CASE RunHandler
    <3> DEFINE h == handlers[Len(handlers)]
    <3>1. call[Main].pc = "app" /\ HandlerTaken /\ life' # "over"
      BY <2>6 DEF RunHandler, HandlerTaken, Idle
    <3>2. /\ Due("investigator")' => Due("investigator")
          /\ Due("hooks") => Due("hooks")' \/ h = "hooks"
      BY <2>0, <3>1, DueTaken DEF Handlers
    <3>3. CASE h = "hooks" /\ CleanUp(Main)
      BY <3>1, <3>2, <3>3, InvCleanUp
    <3>4. CASE h = "investigator" /\ Enter(Main, "investEnd")
      <4>1. Len(handlers) \in 1..Len(handlers)
        BY <2>0, <3>1, EmptySeq DEF HandlerTaken
      <4>2. Due("investigator")
        BY <3>4, <4>1 DEF Due
      <4>3. saved \in {"clib", "user"} /\ HandlersGo
        BY <3>2, <3>4, <4>2 DEF HookInv, OriginalsOK, HandlersGo
      <4> QED
        BY <3>1, <3>4, <4>3, InvEnter
    <3>5. CASE h = "stacks" /\ UNCHANGED hookVars
      <4>1. HandlersGo
        BY <3>2, <3>5 DEF HandlersGo
      <4> QED
        BY <3>1, <3>5, <4>1, InvStill
    <3> QED
      BY <2>6, <3>3, <3>4, <3>5 DEF RunHandler
  <2>7. ASSUME NEW t \in Threads, Continue(t)
        PROVE  HookInv'
    <3>1. CASE InHooks(t) /\ UNCHANGED <<life, calls, pending, dbgVars>>
      <4>1. life' # "over"
        BY <2>7, <3>1 DEF Continue, Alive
      <4> QED
        BY <2>0, <3>1, <4>1, InvTake, InvReplace, InvNextPass, InvRegister, InvBody,
           InvRealLoad, InvPatchLoaded DEF InHooks
    <3>2. CASE InStacks(t) /\ UNCHANGED <<calls, pending, hookVars>>
      <4>1. UNCHANGED hookVars
        BY <3>2
      <4>2. life' # "over" /\ (UNCHANGED handlers \/ handlers' = Append(handlers, "stacks"))
        BY <2>7, <3>2 DEF Continue, Alive, InStacks, SymbolsLoaded, NoItem, Lock, LookUp,
                          LockToClose, SymbolsDropped, DestroyMutex
      <4>3. HandlersGo
        <5>1. CASE UNCHANGED handlers
          BY <5>1, DueSame
        <5>2. CASE handlers' = Append(handlers, "stacks")
          BY <2>0, <5>2, DueAdded DEF HandlersGo, Handlers
        <5> QED
          BY <4>2, <5>1, <5>2
      <4> QED
        BY <4>1, <4>2, <4>3, InvStill
    <3> QED
      BY <2>7, <3>1, <3>2 DEF Continue
  <2>8. ASSUME NEW t \in Threads, LoadPlugin(t)
        PROVE  HookInv'
    <3>1. UNCHANGED handlers /\ call[t].pc = "app" /\ life' # "over"
      BY <2>8 DEF LoadPlugin, Idle, Alive
    <3> QED
      BY <2>8, <3>1, InvLoads DEF LoadPlugin
  <2>9. ASSUME NEW t \in Threads, SetFunction(t)
        PROVE  HookInv'
    <3>1. /\ UNCHANGED handlers /\ call[t].pc = "app" /\ life' # "over" /\ Enter(t, "set")
          /\ t # Main => inited
      BY <2>9 DEF SetFunction, Idle, Alive
    <3> QED
      BY <3>1, DueSame, InvEnter
  <2>10. ASSUME NEW t \in Threads, ResolveStack(t)
         PROVE  HookInv'
    <3>1. UNCHANGED hookVars /\ UNCHANGED handlers /\ life' # "over"
      BY <2>10 DEF ResolveStack
    <3> QED
      BY <3>1, DueSame, InvStill
  <2> QED
    BY <2>1, <2>2, <2>3, <2>4, <2>5, <2>6, <2>7, <2>8, <2>9, <2>10 DEF Next, Exit
<1> QED
  BY <1>1, <1>2, HookTypesHold, ProcessTypesHold, PTL DEF FairSpec

(* An entry that was taken over never leads to a null pointer nor back to   *)
(* the hook, with any number of threads that load modules and set functions *)
(* meanwhile, when the initial thread is the one that initialises.          *)
THEOREM DispatchOKHolds ==
    ASSUME Initialisers = {Main}
    PROVE  FairSpec => []DispatchOK
<1>1. HookInv => DispatchOK
  BY DEF HookInv, OriginalsOK, DispatchOK, Untouched
<1>2. FairSpec => []HookInv
  BY HookInvHolds
<1> QED
  BY <1>1, <1>2, PTL

(* While the hooks are up, every module from the start and every one that   *)
(* the hooked LoadLibrary has returned is patched.                          *)
THEOREM LoadedModulesPatchedHolds ==
    ASSUME Initialisers = {Main}
    PROVE  FairSpec => []LoadedModulesPatched
<1>1. HookTypes /\ HookInv => LoadedModulesPatched
  <2> SUFFICES ASSUME HookTypes, HookInv, inited, \A t \in Threads : call[t].pc \notin Restoring
               PROVE  /\ \A m \in Initial : imports[m] = [alloc |-> "hook", load |-> "hook"]
                      /\ \A m \in asked : imports[m].alloc = "hook"
    BY DEF LoadedModulesPatched
  <2>1. LoadUp /\ AllocUp
    BY DEF LoadUp, AllocUp, MainIn
  <2>2. ASSUME NEW m \in Initial
        PROVE  imports[m] = [alloc |-> "hook", load |-> "hook"]
    <3>1. imports[m] \in Entry /\ imports[m].alloc = "hook" /\ imports[m].load = "hook"
      BY <2>1 DEF HookTypes, ImportsOK, HookInv, LoadFits, AllocFits
    <3> QED
      BY <3>1 DEF Entry
  <2>3. ASSUME NEW m \in asked
        PROVE  imports[m].alloc = "hook"
    BY <2>1 DEF HookInv, HistoriesOK, AllocFits
  <2> QED
    BY <2>2, <2>3
<1>2. FairSpec => []HookInv
  BY HookInvHolds
<1> QED
  BY <1>1, <1>2, HookTypesHold, PTL

(* The process ends with the entries as the loader made them, except in the *)
(* modules that were being loaded while the hooks were taken down.          *)
THEOREM RestoredAtExitHolds ==
    ASSUME Initialisers = {Main}
    PROVE  FairSpec => []RestoredAtExit
<1>1. HookTypes /\ HookInv => RestoredAtExit
  <2> SUFFICES ASSUME HookTypes, HookInv, life = "over", NEW m \in DOMAIN imports \ late
               PROVE  imports[m] = Untouched
    BY DEF RestoredAtExit
  <2>1. AllocDown /\ LoadDown
    BY DEF HookInv, MainOK, AllocDown, LoadDown, MainIn, Patching
  <2>2. imports[m] \in Entry /\ imports[m].alloc = "clib" /\ imports[m].load = "system"
    BY <2>1 DEF HookTypes, ImportsOK, HookInv, LoadFits, AllocFits
  <2> QED
    BY <2>2 DEF Entry, Untouched
<1>2. FairSpec => []HookInv
  BY HookInvHolds
<1> QED
  BY <1>1, <1>2, HookTypesHold, PTL
================================================================================
