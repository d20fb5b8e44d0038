---------------------------- MODULE MemLeakStartup ----------------------------
(***************************************************************************)
(* How the memory-leak investigator starts and is configured,              *)
(* src/core/mem_leak_invest/progs_invest_mem_leak_invest.cpp.  Every       *)
(* function of its interface begins with ProgsInvestMemLeakIestInitInline, *)
(* which installs the hooks one after the other while the other threads    *)
(* allocate, and goes on to change the callback, the threshold or the      *)
(* calling thread's skip counter, without a lock.                          *)
(*                                                                         *)
(* A definition whose name ends in _Wrong is not part of the model: it is  *)
(* the definition after it with a mistake, which the property named in its *)
(* comment tells from the right one.                                       *)
(*                                                                         *)
(* The hooks' bookkeeping is in MemLeakInvest; what matters of it here is  *)
(* what a hooked call finds: the functions saved from the slots, the       *)
(* mutex, the hashes and the TLS key, and the callback with its data.      *)
(***************************************************************************)
EXTENDS Integers, Sequences, SequencesExt

CONSTANTS
    Threads,
    Starters,      \* threads that may call the interface before it is active
    Clbks,         \* registrations: a callback and the data it comes with
    MaxAllocsDef,  \* PROGS_INVEST_MEM_LEAK_AN_MAX_ALLOC_DEF
    Thresholds,    \* values written through ProgsInvestMemLeakInvestSettingsPtr
    MaxCalls,      \* bound: calls of the interface in a behaviour
    NoThread, NoClbk, NoBlock

ASSUME StartersAssumption == Starters \subseteq Threads /\ NoThread \notin Threads
ASSUME ThresholdsAssumption == MaxAllocsDef \in Nat /\ Thresholds \subseteq Nat
ASSUME BlockAssumption == NoBlock \notin Int
ASSUME BoundsAssumption == MaxCalls \in Nat

Default == "default"       \* ProgsInvestMemLeakInvestDefaultClbk

(* The order in which the slots are written. *)
Order_Wrong == <<"free", "malloc", "calloc">>   \* TrackedIsRemovable: realloc is forgotten
Order == <<"free", "realloc", "malloc", "calloc">>
AllSlots == ToSet(Order)
Resources == {"mutex", "hashes", "tlsKey"}

(* Keys of thread-local storage: s_tlsData is 0 until a key is allocated.   *)
Keys == {0, 1}

Ops == [fn : {"register"}, clbk : Clbks] \cup [fn : {"settings"}, n : Thresholds]
          \cup [fn : {"skip", "unskip", "initOnly"}]

VARIABLES
    inited,      \* sbMemLeakInvestInited
    pc, op,      \* where each thread is, in which call of the interface
    mine,        \* the key under which an initialising thread took its block
    tlsData,     \* s_tlsData
    block,       \* useHook of each thread's block under each key, or NoBlock
    resources,   \* which of Resources exist
    saved,       \* where s_mallocInitial etc. lead
    slots,       \* dispatch slots that point at the investigator
    mutex,       \* holder of s_hashMutex
    hookActive,  \* s_bIsHookActive
    clbk, userData, maxAllocs,   \* s_eventClbk, s_pUserData, s_sett.maxAllocs
    calls,       \* calls of the interface so far
    registered,  \* history: the registration that completed last
    chosen,      \* history: the threshold written last
    skips,       \* history: skips of each thread not yet undone
    delivered    \* history: callback and data of the last event

vars == <<inited, pc, op, mine, tlsData, block, resources, saved, slots, mutex,
          hookActive, clbk, userData, maxAllocs, calls, registered, chosen,
          skips, delivered>>

settings == <<clbk, userData, maxAllocs>>
history == <<calls, registered, chosen, skips, delivered>>
world == <<tlsData, block, resources, saved, slots, mutex, hookActive>>

Goto(t, p) == pc' = [pc EXCEPT ![t] = p]

(* ProgsInvestMemLeakInvestGetTlsPtrInline: the block, made when missing.   *)
UseHook(k, t) == IF block[k][t] = NoBlock THEN 0 ELSE block[k][t]
SetUseHook(k, t, n) == block' = [block EXCEPT ![k][t] = n]

MutexFree(t) == mutex \in {NoThread, t}

-----------------------------------------------------------------------------
Init ==
    /\ inited = FALSE
    /\ pc = [t \in Threads |-> "app"]
    /\ op = [t \in Threads |-> [fn |-> "initOnly"]]
    /\ mine = [t \in Threads |-> 0]
    /\ tlsData = 0
    /\ block = [k \in Keys |-> [t \in Threads |-> NoBlock]]
    /\ resources = {}
    /\ saved = [f \in AllSlots |-> "nothing"]
    /\ slots = {}
    /\ mutex = NoThread
    /\ hookActive = FALSE
    /\ clbk = Default
    /\ userData = NoClbk
    /\ maxAllocs = 0
    /\ calls = 0
    /\ registered = NoClbk
    /\ chosen = MaxAllocsDef
    /\ skips = [t \in Threads |-> 0]
    /\ delivered = <<Default, NoClbk>>

(* SettingsStick, ReadyWhenHooked: the initialisation runs on every call. *)
AlreadyInited_Wrong == FALSE
AlreadyInited == inited

(* The first line of every function of the interface: a thread that finds   *)
(* the flag set goes straight on to the body.                               *)
CallApi(t, o) ==
    /\ pc[t] = "app"
    /\ t \in Starters \/ hookActive
    /\ calls < MaxCalls
    /\ o.fn = "unskip" => skips[t] > 0
    /\ calls' = calls + 1
    /\ op' = [op EXCEPT ![t] = o]
    /\ Goto(t, IF AlreadyInited THEN "body" ELSE "begin")
    /\ UNCHANGED <<inited, mine, world, settings, registered, chosen, skips, delivered>>

-----------------------------------------------------------------------------
(* ProgsInvestMemLeakIestInitInline, cut where another thread gets in.      *)

BeginInit(t) ==
    /\ pc[t] = "begin"
    /\ inited' = TRUE
    /\ mine' = [mine EXCEPT ![t] = tlsData]
    /\ SetUseHook(tlsData, t, UseHook(tlsData, t))
    /\ Goto(t, "reset")
    /\ UNCHANGED <<op, tlsData, resources, saved, slots, mutex, hookActive, settings, history>>

Reset(t) ==
    /\ pc[t] = "reset"
    /\ clbk' = Default
    /\ maxAllocs' = MaxAllocsDef
    /\ hookActive' = FALSE
    /\ Goto(t, "save")
    /\ UNCHANGED <<inited, op, mine, tlsData, block, resources, saved, slots, mutex,
                   userData, history>>

SaveSlots(t) ==
    /\ pc[t] = "save"
    /\ saved' = [f \in AllSlots |-> IF f \in slots THEN "investigator" ELSE "C library"]
    /\ Goto(t, "create")
    /\ UNCHANGED <<inited, op, mine, tlsData, block, resources, slots, mutex, hookActive,
                   settings, history>>

(* Mutex, hashes and key; the process exits if one cannot be had. *)
Create(t) ==
    /\ pc[t] = "create"
    /\ \/ /\ \E k \in Keys : tlsData' = k
          /\ resources' = Resources
          /\ mutex' = NoThread
          /\ Goto(t, "protect")
       \/ /\ pc' = [u \in Threads |-> "exited"]
          /\ UNCHANGED <<tlsData, resources, mutex>>
    /\ UNCHANGED <<inited, op, mine, block, saved, slots, hookActive, settings, history>>

(* pTls is the block taken at the beginning, under the key of then. *)
Protect(t) ==
    /\ pc[t] = "protect"
    /\ MutexFree(t)
    /\ SetUseHook(mine[t], t, 1)
    /\ mutex' = t
    /\ Goto(t, Order[1])
    /\ UNCHANGED <<inited, op, mine, tlsData, resources, saved, slots, hookActive,
                   settings, history>>

InstallSlot(t, i) ==
    /\ pc[t] = Order[i]
    /\ slots' = slots \cup {Order[i]}
    /\ Goto(t, IF i < Len(Order) THEN Order[i + 1] ELSE "unprotect")
    /\ UNCHANGED <<inited, op, mine, tlsData, block, resources, saved, mutex, hookActive,
                   settings, history>>

(* SkipsStick: useHook stays set. *)
Unprotect_Wrong(t) ==
    /\ pc[t] = "unprotect"
    /\ mutex' = NoThread
    /\ Goto(t, "activate")
    /\ UNCHANGED <<inited, op, mine, tlsData, block, resources, saved, slots, hookActive,
                   settings, history>>

Unprotect(t) ==
    /\ pc[t] = "unprotect"
    /\ mutex' = NoThread
    /\ SetUseHook(mine[t], t, 0)
    /\ Goto(t, "activate")
    /\ UNCHANGED <<inited, op, mine, tlsData, resources, saved, slots, hookActive,
                   settings, history>>

Activate(t) ==
    /\ pc[t] = "activate"
    /\ hookActive' = TRUE
    /\ Goto(t, "body")
    /\ UNCHANGED <<inited, op, mine, tlsData, block, resources, saved, slots, mutex,
                   settings, history>>

-----------------------------------------------------------------------------
(* The bodies. *)

InBody(t, fn) == pc[t] = "body" /\ op[t].fn = fn

InitOnly(t) ==
    /\ InBody(t, "initOnly")
    /\ Goto(t, "app")
    /\ UNCHANGED <<inited, op, mine, world, settings, history>>

(* TypeOK, EventPair: the callback so far becomes the data. *)
DataOf_Wrong(t) == clbk
DataOf(t) == op[t].clbk

(* ProgsInvestMemLeakInvestRegisterClbk writes the data, then the callback. *)
RegisterData(t) ==
    /\ InBody(t, "register")
    /\ userData' = DataOf(t)
    /\ Goto(t, "register")
    /\ UNCHANGED <<inited, op, mine, world, clbk, maxAllocs, history>>

RegisterClbk(t) ==
    /\ pc[t] = "register"
    /\ clbk' = op[t].clbk
    /\ registered' = op[t].clbk
    /\ Goto(t, "app")
    /\ UNCHANGED <<inited, op, mine, world, userData, maxAllocs, calls, chosen, skips,
                   delivered>>

WriteSettings(t) ==
    /\ InBody(t, "settings")
    /\ maxAllocs' = op[t].n
    /\ chosen' = op[t].n
    /\ Goto(t, "app")
    /\ UNCHANGED <<inited, op, mine, world, clbk, userData, calls, registered, skips,
                   delivered>>

(* ProgsInvestMemLeakInvestSkipThisStack and UnskipThisStack. *)
CountSkip(t, n) ==
    /\ SetUseHook(tlsData, t, UseHook(tlsData, t) + n)
    /\ skips' = [skips EXCEPT ![t] = @ + n]
    /\ Goto(t, "app")
    /\ UNCHANGED <<inited, op, mine, tlsData, resources, saved, slots, mutex, hookActive,
                   settings, calls, registered, chosen, delivered>>

Skip(t) == InBody(t, "skip") /\ CountSkip(t, 1)
Unskip(t) == InBody(t, "unskip") /\ CountSkip(t, -1)

-----------------------------------------------------------------------------
(* A hooked malloc of a thread that does not skip, up to the lock, and the  *)
(* event it may raise under it.                                             *)
HookedAlloc(t) ==
    /\ pc[t] = "app"
    /\ "malloc" \in slots
    /\ hookActive
    /\ UseHook(tlsData, t) < 1
    /\ SetUseHook(tlsData, t, 1)
    /\ Goto(t, "track")
    /\ UNCHANGED <<inited, op, mine, tlsData, resources, saved, slots, mutex, hookActive,
                   settings, history>>

Track(t) ==
    /\ pc[t] = "track"
    /\ MutexFree(t)
    /\ \/ delivered' = <<clbk, userData>>
       \/ UNCHANGED delivered
    /\ SetUseHook(tlsData, t, 0)
    /\ Goto(t, "app")
    /\ UNCHANGED <<inited, op, mine, tlsData, resources, saved, slots, mutex, hookActive,
                   settings, calls, registered, chosen, skips>>

Next ==
    \E t \in Threads :
        \/ \E o \in Ops : CallApi(t, o)
        \/ BeginInit(t) \/ Reset(t) \/ SaveSlots(t) \/ Create(t) \/ Protect(t)
        \/ \E i \in 1..Len(Order) : InstallSlot(t, i)
        \/ Unprotect(t) \/ Activate(t)
        \/ InitOnly(t) \/ RegisterData(t) \/ RegisterClbk(t) \/ WriteSettings(t)
        \/ Skip(t) \/ Unskip(t)
        \/ HookedAlloc(t) \/ Track(t)

Spec == Init /\ [][Next]_vars

-----------------------------------------------------------------------------
TypeOK ==
    /\ inited \in BOOLEAN
    /\ pc \in [Threads -> AllSlots \cup
                  {"app", "begin", "reset", "save", "create", "protect", "unprotect",
                   "activate", "body", "register", "track", "exited"}]
    /\ op \in [Threads -> Ops]
    /\ mine \in [Threads -> Keys]
    /\ tlsData \in Keys
    /\ block \in [Keys -> [Threads -> Int \cup {NoBlock}]]
    /\ resources \subseteq Resources
    /\ saved \in [AllSlots -> {"nothing", "C library", "investigator"}]
    /\ slots \subseteq AllSlots
    /\ mutex \in Threads \cup {NoThread}
    /\ hookActive \in BOOLEAN
    /\ clbk \in Clbks \cup {Default}
    /\ userData \in Clbks \cup {NoClbk}
    /\ maxAllocs \in Nat
    /\ calls \in 0..MaxCalls
    /\ registered \in Clbks \cup {NoClbk}
    /\ chosen \in Nat
    /\ skips \in [Threads -> Nat]
    /\ delivered \in (Clbks \cup {Default}) \X (Clbks \cup {NoClbk})

(* A thread enters a hook as soon as its slot is written: by then           *)
(* everything the hooks use exists, and no saved function is a hook itself. *)
ReadyWhenHooked ==
    slots # {} => resources = Resources /\ \A f \in AllSlots : saved[f] = "C library"

(* No allocation is tracked while a free or realloc of it would go by.      *)
TrackedIsRemovable ==
    \A t \in Threads : pc[t] = "track" => {"free", "realloc"} \subseteq slots

(* "Calling an investigator API such as RegisterClbk initializes it": what  *)
(* a call has set stays set until another call sets it.                     *)
Running(t) == pc[t] \notin {"track", "exited"}

SettingsStick ==
    /\ registered # NoClbk => clbk = registered
    /\ chosen # MaxAllocsDef => maxAllocs = chosen

(* Skip and Unskip count in the block that the hooks look at.               *)
SkipsStick ==
    hookActive => \A t \in Threads : Running(t) => UseHook(tlsData, t) = skips[t]

(* "userData is the application pointer passed to RegisterClbk": an event   *)
(* hands a callback the data it was registered with.                        *)
EventPair == delivered[1] # Default => delivered[2] = delivered[1]
=============================================================================
