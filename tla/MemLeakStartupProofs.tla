------------------------- MODULE MemLeakStartupProofs -------------------------
(***************************************************************************)
(* Theorems about MemLeakStartup: its types and what holds however many    *)
(* threads start the investigator, then what holds when one thread does.   *)
(***************************************************************************)
EXTENDS MemLeakStartup, TLAPS

-----------------------------------------------------------------------------
LEMMA OrderAt ==
    /\ Len(Order) = 4
    /\ Order[1] = "free" /\ Order[2] = "realloc" /\ Order[3] = "malloc" /\ Order[4] = "calloc"
BY DEF Order

LEMMA SlotNames == AllSlots = {"free", "realloc", "malloc", "calloc"}
BY DEF AllSlots, ToSet, Order

(* What one step of the installation does. *)
LEMMA InstallSlotAt ==
    ASSUME NEW t \in Threads, NEW i \in 1..Len(Order), InstallSlot(t, i)
    PROVE  \/ pc[t] = "free" /\ slots' = slots \cup {"free"} /\ Goto(t, "realloc")
           \/ pc[t] = "realloc" /\ slots' = slots \cup {"realloc"} /\ Goto(t, "malloc")
           \/ pc[t] = "malloc" /\ slots' = slots \cup {"malloc"} /\ Goto(t, "calloc")
           \/ pc[t] = "calloc" /\ slots' = slots \cup {"calloc"} /\ Goto(t, "unprotect")
<1>1. i \in {1, 2, 3, 4}
  BY OrderAt
<1> QED
  BY <1>1, OrderAt DEF InstallSlot

(* The places of a thread on its way to the body of the call. *)
Starting == {"begin", "reset", "save", "create", "protect", "free", "realloc", "malloc",
             "calloc", "unprotect", "activate"}

Places == Starting \cup {"app", "body", "register", "track", "exited"}

LEMMA GotoAt ==
    ASSUME NEW t \in Threads, NEW p \in Places, pc \in [Threads -> Places], Goto(t, p)
    PROVE  /\ pc' \in [Threads -> Places]
           /\ pc'[t] = p /\ \A u \in Threads : u # t => pc'[u] = pc[u]
BY DEF Goto

LEMMA PlaceNames ==
    /\ \A p \in Starting : p \in Places
    /\ "app" \in Places /\ "body" \in Places /\ "register" \in Places /\ "track" \in Places
    /\ "exited" \in Places /\ "begin" \in Places /\ "reset" \in Places /\ "save" \in Places
    /\ "create" \in Places /\ "protect" \in Places /\ "free" \in Places
    /\ "realloc" \in Places /\ "malloc" \in Places /\ "calloc" \in Places
    /\ "unprotect" \in Places /\ "activate" \in Places
BY DEF Places, Starting

(* TypeOK with the places of a thread in one set. *)
Types ==
    /\ pc \in [Threads -> Places]
    /\ op \in [Threads -> Ops]
    /\ mine \in [Threads -> Keys]
    /\ tlsData \in Keys
    /\ block \in [Keys -> [Threads -> Int \cup {NoBlock}]]
    /\ inited \in BOOLEAN
    /\ hookActive \in BOOLEAN
    /\ resources \subseteq Resources
    /\ slots \subseteq AllSlots
    /\ saved \in [AllSlots -> {"nothing", "C library", "investigator"}]
    /\ mutex \in Threads \cup {NoThread}
    /\ clbk \in Clbks \cup {Default}
    /\ userData \in Clbks \cup {NoClbk}
    /\ maxAllocs \in Nat
    /\ chosen \in Nat
    /\ calls \in 0..MaxCalls
    /\ registered \in Clbks \cup {NoClbk}
    /\ skips \in [Threads -> Nat]
    /\ delivered \in (Clbks \cup {Default}) \X (Clbks \cup {NoClbk})

LEMMA TypesAsTypeOK == Types <=> TypeOK
<1>1. AllSlots \cup {"app", "begin", "reset", "save", "create", "protect", "unprotect",
                     "activate", "body", "register", "track", "exited"} = Places
  BY SlotNames DEF Places, Starting
<1> QED
  BY <1>1 DEF TypeOK, Types

LEMMA UseHookType ==
    ASSUME Types, NEW k \in Keys, NEW t \in Threads
    PROVE  UseHook(k, t) \in Int
<1>1. block[k][t] \in Int \cup {NoBlock}
  BY DEF Types
<1> QED
  BY <1>1 DEF UseHook

LEMMA SetUseHookType ==
    ASSUME Types, NEW k \in Keys, NEW t \in Threads, NEW n \in Int, SetUseHook(k, t, n)
    PROVE  block' \in [Keys -> [Threads -> Int \cup {NoBlock}]]
BY DEF Types, SetUseHook

LEMMA OpsType ==
    ASSUME NEW o \in Ops
    PROVE  /\ o.fn = "register" => o.clbk \in Clbks
           /\ o.fn = "settings" => o.n \in Thresholds
BY DEF Ops

(* A call keeps the operation it was made for, and an unskip the skip that   *)
(* it undoes.                                                                *)
CallsOK ==
    \A u \in Threads :
        /\ pc[u] = "register" => op[u].fn = "register"
        /\ pc[u] \in Starting \cup {"body"} /\ op[u].fn = "unskip" => skips[u] > 0


LEMMA TypeStep == Types /\ CallsOK /\ [Next]_vars => Types' /\ CallsOK'
<1> SUFFICES ASSUME Types, CallsOK, [Next]_vars PROVE Types' /\ CallsOK'
  OBVIOUS
<1> USE SlotNames
<1>0. /\ pc \in [Threads -> Places] /\ op \in [Threads -> Ops] /\ skips \in [Threads -> Nat]
      /\ 0 \in Keys /\ 0 \in Int /\ 1 \in Int
  <2>1. 0 \in Keys /\ 0 \in Int /\ 1 \in Int
    BY DEF Keys
  <2> QED
    BY <2>1 DEF Types
<1>1. CASE UNCHANGED vars
  BY <1>1 DEF vars, world, settings, history, Types, CallsOK
<1>2. ASSUME NEW t \in Threads, NEW o \in Ops, CallApi(t, o) PROVE Types' /\ CallsOK'
  <2>pc. pc' \in [Threads -> Places]
    BY <1>0, <1>2, GotoAt, PlaceNames DEF CallApi
  <2>op. op' \in [Threads -> Ops]
    BY <1>0, <1>2 DEF CallApi
  <2>calls. calls' \in 0..MaxCalls
    <3>1. calls \in 0..MaxCalls
      BY DEF Types
    <3> QED
      BY <1>2, <3>1, BoundsAssumption DEF CallApi
  <2>1. Types'
    BY <2>pc, <2>op, <2>calls, <1>2 DEF CallApi, Types, world, settings
  <2>2. CallsOK'
    BY <1>0, <1>2 DEF CallApi, Goto, CallsOK, Starting
  <2> QED
    BY <2>1, <2>2
<1>3. ASSUME NEW t \in Threads, BeginInit(t) PROVE Types' /\ CallsOK'
  <2>1. tlsData \in Keys /\ block' \in [Keys -> [Threads -> Int \cup {NoBlock}]]
    BY <1>3, UseHookType, SetUseHookType DEF BeginInit, Types
  <2>pc. pc' \in [Threads -> Places]
    BY <1>0, <1>3, GotoAt, PlaceNames DEF BeginInit
  <2>2. Types'
    BY <2>pc, <1>3, <2>1 DEF BeginInit, Types, settings, history
  <2>3. CallsOK'
    BY <1>0, <1>3 DEF BeginInit, Goto, CallsOK, Starting, history
  <2> QED
    BY <2>2, <2>3
<1>4. ASSUME NEW t \in Threads, Reset(t) \/ SaveSlots(t) \/ Activate(t)
      PROVE  Types' /\ CallsOK'
  <2>pc. pc' \in [Threads -> Places]
    BY <1>0, <1>4, GotoAt, PlaceNames DEF Reset, SaveSlots, Activate
  <2>1. Types'
    BY <2>pc, <1>4, ThresholdsAssumption DEF Reset, SaveSlots, Activate, Types, settings, history
  <2>2. CallsOK'
    BY <1>0, <1>4 DEF Reset, SaveSlots, Activate, Goto, CallsOK, Starting, settings, history
  <2> QED
    BY <2>1, <2>2
<1>5. ASSUME NEW t \in Threads, Create(t) PROVE Types' /\ CallsOK'
  <2>pc. pc' \in [Threads -> Places]
    BY <1>0, <1>5, GotoAt, PlaceNames DEF Create
  <2>1. Types'
    BY <2>pc, <1>5 DEF Create, Types, settings, history
  <2>2. CallsOK'
    BY <1>0, <1>5 DEF Create, Goto, CallsOK, Starting, settings, history
  <2> QED
    BY <2>1, <2>2
<1>6. ASSUME NEW t \in Threads, Protect(t) \/ Unprotect(t) PROVE Types' /\ CallsOK'
  <2>1. mine[t] \in Keys /\ block' \in [Keys -> [Threads -> Int \cup {NoBlock}]]
    BY <1>0, <1>6, SetUseHookType DEF Protect, Unprotect, Types
  <2>pc. pc' \in [Threads -> Places]
    BY <1>0, <1>6, GotoAt, PlaceNames, OrderAt DEF Protect, Unprotect
  <2>2. Types'
    BY <2>pc, <1>6, <2>1 DEF Protect, Unprotect, Types, settings, history
  <2>3. CallsOK'
    BY <1>0, <1>6, OrderAt DEF Protect, Unprotect, Goto, CallsOK, Starting, history
  <2> QED
    BY <2>2, <2>3
<1>7. ASSUME NEW t \in Threads, NEW i \in 1..Len(Order), InstallSlot(t, i)
      PROVE  Types' /\ CallsOK'
  <2>1. UNCHANGED <<inited, op, mine, tlsData, block, resources, saved, mutex, hookActive,
                    settings, history>>
    BY <1>7 DEF InstallSlot
  <2>pc. pc' \in [Threads -> Places]
    BY <1>0, <1>7, GotoAt, PlaceNames, InstallSlotAt
  <2>slots. slots' \subseteq AllSlots
    BY <1>7, InstallSlotAt DEF Types
  <2>2. Types'
    BY <2>pc, <2>slots, <2>1 DEF Types, settings, history
  <2>3. CallsOK'
    BY <1>0, <1>7, <2>1, InstallSlotAt DEF Goto, CallsOK, Starting, history
  <2> QED
    BY <2>2, <2>3
<1>8. ASSUME NEW t \in Threads, InitOnly(t) \/ WriteSettings(t) PROVE Types' /\ CallsOK'
  <2>1. op[t].fn = "settings" => op[t].n \in Nat
    BY <1>0, OpsType, ThresholdsAssumption
  <2>pc. pc' \in [Threads -> Places]
    BY <1>0, <1>8, GotoAt, PlaceNames DEF InitOnly, WriteSettings, InBody
  <2>2. Types'
    BY <2>pc, <1>8, <2>1 DEF InitOnly, WriteSettings, InBody, Types, world, settings, history
  <2>3. CallsOK'
    BY <1>0, <1>8 DEF InitOnly, WriteSettings, InBody, Goto, CallsOK, Starting, history
  <2> QED
    BY <2>2, <2>3
<1>9. ASSUME NEW t \in Threads, RegisterData(t) \/ RegisterClbk(t) PROVE Types' /\ CallsOK'
  <2>1. op[t].clbk \in Clbks
    BY <1>0, <1>9, OpsType DEF RegisterData, RegisterClbk, InBody, CallsOK
  <2>pc. pc' \in [Threads -> Places]
    BY <1>0, <1>9, GotoAt, PlaceNames DEF RegisterData, RegisterClbk
  <2>2. Types'
    BY <2>pc, <1>9, <2>1 DEF RegisterData, DataOf, RegisterClbk, Types, world, settings, history
  <2>3. CallsOK'
    BY <1>0, <1>9 DEF RegisterData, RegisterClbk, InBody, Goto, CallsOK, Starting, history
  <2> QED
    BY <2>2, <2>3
<1>10. ASSUME NEW t \in Threads, NEW n \in {1, -1}, CountSkip(t, n), pc[t] = "body",
              n = -1 => skips[t] > 0
       PROVE  Types' /\ CallsOK'
  <2>n. n \in Int
    OBVIOUS
  <2>key. tlsData \in Keys
    BY DEF Types
  <2>1. tlsData \in Keys /\ UseHook(tlsData, t) + n \in Int
    BY <2>n, <2>key, UseHookType
  <2>2. block' \in [Keys -> [Threads -> Int \cup {NoBlock}]]
    BY <1>10, <2>1, SetUseHookType DEF CountSkip
  <2>3. skips' \in [Threads -> Nat]
    BY <1>0, <1>10 DEF CountSkip
  <2>pc. pc' \in [Threads -> Places]
    BY <1>0, <1>10, GotoAt, PlaceNames DEF CountSkip
  <2>4. Types'
    BY <2>pc, <1>10, <2>2, <2>3 DEF CountSkip, Types, settings
  <2>5. CallsOK'
    BY <1>0, <1>10 DEF CountSkip, Goto, CallsOK, Starting
  <2> QED
    BY <2>4, <2>5
<1>11. ASSUME NEW t \in Threads, Skip(t) PROVE Types' /\ CallsOK'
  BY <1>11, <1>10 DEF Skip, InBody
<1>12. ASSUME NEW t \in Threads, Unskip(t) PROVE Types' /\ CallsOK'
  <2>1. skips[t] > 0
    BY <1>12 DEF Unskip, InBody, CallsOK
  <2> QED
    BY <1>12, <1>10, <2>1 DEF Unskip, InBody
<1>13. ASSUME NEW t \in Threads, HookedAlloc(t) \/ Track(t) PROVE Types' /\ CallsOK'
  <2>1. tlsData \in Keys /\ block' \in [Keys -> [Threads -> Int \cup {NoBlock}]]
    BY <1>0, <1>13, SetUseHookType DEF HookedAlloc, Track, Types
  <2>pc. pc' \in [Threads -> Places]
    BY <1>0, <1>13, GotoAt, PlaceNames DEF HookedAlloc, Track
  <2>event. delivered' \in (Clbks \cup {Default}) \X (Clbks \cup {NoClbk})
    <3>1. /\ delivered \in (Clbks \cup {Default}) \X (Clbks \cup {NoClbk})
          /\ clbk \in Clbks \cup {Default} /\ userData \in Clbks \cup {NoClbk}
      BY DEF Types
    <3>2. delivered' = <<clbk, userData>> \/ delivered' = delivered
      BY <1>13 DEF HookedAlloc, Track, history
    <3> QED
      BY <3>1, <3>2
  <2>mutex. UNCHANGED <<inited, op, mine, tlsData, resources, saved, slots, mutex, hookActive,
                        settings, calls, registered, chosen, skips>>
    BY <1>13 DEF HookedAlloc, Track, history
  <2>2. Types'
    BY <2>pc, <2>event, <2>mutex, <2>1 DEF Types, settings
  <2>3. CallsOK'
    BY <1>0, <1>13 DEF HookedAlloc, Track, Goto, CallsOK, Starting, history
  <2> QED
    BY <2>2, <2>3
<1> QED
  BY <1>1, <1>2, <1>3, <1>4, <1>5, <1>6, <1>7, <1>8, <1>9, <1>11, <1>12, <1>13 DEF Next

(* TypeOK, and that a call keeps its operation: for any threads, however     *)
(* many of them start the investigator at once.                              *)
THEOREM TypeCorrect == Spec => [](TypeOK /\ CallsOK)
<1>1. Init => Types /\ CallsOK
  <2> SUFFICES ASSUME Init PROVE Types /\ CallsOK
    OBVIOUS
  <2>1. [fn |-> "initOnly"] \in Ops
    BY DEF Ops
  <2>key. tlsData \in Keys /\ mine \in [Threads -> Keys]
    BY DEF Init, Keys
  <2>block. block \in [Keys -> [Threads -> Int \cup {NoBlock}]] /\ skips \in [Threads -> Nat]
    BY DEF Init
  <2>event. delivered \in (Clbks \cup {Default}) \X (Clbks \cup {NoClbk})
    BY DEF Init
  <2>number. maxAllocs \in Nat /\ chosen \in Nat /\ calls \in 0..MaxCalls
    BY ThresholdsAssumption, BoundsAssumption DEF Init
  <2>2. Types
    BY <2>1, <2>key, <2>block, <2>event, <2>number, PlaceNames, SlotNames DEF Init, Types
  <2>3. CallsOK
    BY DEF Init, CallsOK, Starting
  <2> QED
    BY <2>2, <2>3
<1> QED
  BY <1>1, TypeStep, TypesAsTypeOK, PTL DEF Spec

-----------------------------------------------------------------------------
(* The slots are written in an order in which a block that can be tracked    *)
(* can be untracked, whoever writes them and however often.                  *)
RemovableOK ==
    /\ "malloc" \in slots => {"free", "realloc"} \subseteq slots
    /\ \A u \in Threads :
          /\ pc[u] = "realloc" => "free" \in slots
          /\ pc[u] \in {"malloc", "track"} => {"free", "realloc"} \subseteq slots

LEMMA RemovableStep == Types /\ RemovableOK /\ [Next]_vars => RemovableOK'
<1> SUFFICES ASSUME Types, RemovableOK, [Next]_vars PROVE RemovableOK'
  OBVIOUS
<1>0. pc \in [Threads -> Places]
  BY DEF Types
<1>go. ASSUME NEW t \in Threads, NEW p \in Places, Goto(t, p), slots' = slots,
              p \notin {"realloc", "malloc", "track"}
       PROVE  RemovableOK'
  BY <1>0, <1>go, GotoAt DEF RemovableOK
<1>1. CASE UNCHANGED vars
  BY <1>1 DEF vars, world, RemovableOK
<1>2. ASSUME NEW t \in Threads, NEW o \in Ops, CallApi(t, o) PROVE RemovableOK'
  BY <1>2, <1>go, PlaceNames DEF CallApi, world
<1>3. ASSUME NEW t \in Threads, BeginInit(t) \/ Reset(t) \/ SaveSlots(t) PROVE RemovableOK'
  BY <1>3, <1>go, PlaceNames DEF BeginInit, Reset, SaveSlots
<1>4. ASSUME NEW t \in Threads, Create(t) PROVE RemovableOK'
  <2>1. CASE Goto(t, "protect") /\ slots' = slots
    BY <2>1, <1>go, PlaceNames
  <2>2. CASE pc' = [u \in Threads |-> "exited"] /\ slots' = slots
    BY <2>2 DEF RemovableOK
  <2> QED
    BY <1>4, <2>1, <2>2 DEF Create
<1>5. ASSUME NEW t \in Threads, Protect(t) \/ Unprotect(t) \/ Activate(t) PROVE RemovableOK'
  BY <1>5, <1>go, PlaceNames, OrderAt DEF Protect, Unprotect, Activate
<1>6. ASSUME NEW t \in Threads, NEW i \in 1..Len(Order), InstallSlot(t, i) PROVE RemovableOK'
  BY <1>0, <1>6, InstallSlotAt, GotoAt, PlaceNames DEF RemovableOK
<1>7. ASSUME NEW t \in Threads,
             InitOnly(t) \/ RegisterData(t) \/ RegisterClbk(t) \/ WriteSettings(t)
      PROVE  RemovableOK'
  BY <1>7, <1>go, PlaceNames DEF InitOnly, RegisterData, RegisterClbk, WriteSettings, world
<1>8. ASSUME NEW t \in Threads, Skip(t) \/ Unskip(t) \/ Track(t) PROVE RemovableOK'
  BY <1>8, <1>go, PlaceNames DEF Skip, Unskip, CountSkip, Track
<1>9. ASSUME NEW t \in Threads, HookedAlloc(t) PROVE RemovableOK'
  <2>1. Goto(t, "track") /\ slots' = slots /\ "malloc" \in slots
    BY <1>9 DEF HookedAlloc
  <2> QED
    BY <1>0, <2>1, GotoAt, PlaceNames DEF RemovableOK
<1> QED
  BY <1>1, <1>2, <1>3, <1>4, <1>5, <1>6, <1>7, <1>8, <1>9 DEF Next

(* TrackedIsRemovable: no allocation is tracked before free and realloc lead *)
(* to the investigator, even if several threads install the hooks at once.   *)
THEOREM TrackedIsRemovableHolds == Spec => []TrackedIsRemovable
<1>1. Init => RemovableOK
  BY DEF Init, RemovableOK
<1>2. RemovableOK => TrackedIsRemovable
  BY DEF RemovableOK, TrackedIsRemovable
<1> QED
  BY <1>1, <1>2, RemovableStep, TypeCorrect, TypesAsTypeOK, PTL DEF Spec

-----------------------------------------------------------------------------
(* One registration, whoever makes it: by the time the callback is written   *)
(* its data has been, and nothing takes the data back.                       *)
PairOK(c) ==
    /\ clbk # Default => clbk = c /\ userData = c
    /\ \A u \in Threads : pc[u] = "register" => userData = c
    /\ delivered[1] # Default => delivered[2] = delivered[1]

LEMMA PairStep ==
    ASSUME NEW c, Clbks = {c}, Types, CallsOK, PairOK(c), [Next]_vars
    PROVE  PairOK(c)'
<1>0. pc \in [Threads -> Places] /\ op \in [Threads -> Ops]
  BY DEF Types
<1>go. ASSUME NEW t \in Threads, NEW p \in Places, Goto(t, p), p # "register",
              UNCHANGED <<userData, delivered>>, clbk' = clbk \/ clbk' = Default
       PROVE  PairOK(c)'
  BY <1>0, <1>go, GotoAt DEF PairOK
<1>1. CASE UNCHANGED vars
  BY <1>1 DEF vars, settings, history, PairOK
<1>2. ASSUME NEW t \in Threads, NEW o \in Ops, CallApi(t, o) PROVE PairOK(c)'
  BY <1>2, <1>go, PlaceNames DEF CallApi, settings
<1>3. ASSUME NEW t \in Threads, BeginInit(t) \/ Reset(t) \/ SaveSlots(t) PROVE PairOK(c)'
  BY <1>3, <1>go, PlaceNames DEF BeginInit, Reset, SaveSlots, settings, history
<1>4. ASSUME NEW t \in Threads, Create(t) PROVE PairOK(c)'
  <2>0. UNCHANGED <<clbk, userData, delivered>>
    BY <1>4 DEF Create, settings, history
  <2>1. CASE Goto(t, "protect")
    BY <2>0, <2>1, <1>go, PlaceNames
  <2>2. CASE pc' = [u \in Threads |-> "exited"]
    BY <2>0, <2>2 DEF PairOK
  <2> QED
    BY <1>4, <2>1, <2>2 DEF Create
<1>5. ASSUME NEW t \in Threads, Protect(t) \/ Unprotect(t) \/ Activate(t) PROVE PairOK(c)'
  BY <1>5, <1>go, PlaceNames, OrderAt DEF Protect, Unprotect, Activate, settings, history
<1>6. ASSUME NEW t \in Threads, NEW i \in 1..Len(Order), InstallSlot(t, i) PROVE PairOK(c)'
  <2>1. UNCHANGED <<clbk, userData, delivered>>
    BY <1>6 DEF InstallSlot, settings, history
  <2> QED
    BY <1>6, <2>1, <1>go, InstallSlotAt, PlaceNames
<1>7. ASSUME NEW t \in Threads, InitOnly(t) \/ WriteSettings(t) \/ Skip(t) \/ Unskip(t)
      PROVE  PairOK(c)'
  BY <1>7, <1>go, PlaceNames
     DEF InitOnly, WriteSettings, Skip, Unskip, CountSkip, settings, history
<1>8. ASSUME NEW t \in Threads, RegisterData(t) PROVE PairOK(c)'
  <2>1. op[t].clbk = c
    BY <1>0, <1>8, OpsType DEF RegisterData, InBody
  <2>2. Goto(t, "register") /\ userData' = c /\ UNCHANGED <<clbk, delivered>>
    BY <1>8, <2>1 DEF RegisterData, DataOf, history
  <2> QED
    BY <1>0, <2>2, GotoAt, PlaceNames DEF PairOK
<1>9. ASSUME NEW t \in Threads, RegisterClbk(t) PROVE PairOK(c)'
  <2>1. op[t].clbk = c /\ userData = c
    BY <1>0, <1>9, OpsType DEF RegisterClbk, CallsOK, PairOK
  <2>2. Goto(t, "app") /\ clbk' = c /\ UNCHANGED <<userData, delivered>>
    BY <1>9, <2>1 DEF RegisterClbk
  <2> QED
    BY <1>0, <2>1, <2>2, GotoAt, PlaceNames DEF PairOK
<1>10. ASSUME NEW t \in Threads, HookedAlloc(t) PROVE PairOK(c)'
  BY <1>10, <1>go, PlaceNames DEF HookedAlloc, settings, history
<1>11. ASSUME NEW t \in Threads, Track(t) PROVE PairOK(c)'
  <2>1. /\ Goto(t, "app") /\ UNCHANGED <<clbk, userData>>
        /\ delivered' = <<clbk, userData>> \/ delivered' = delivered
    BY <1>11 DEF Track, settings
  <2> QED
    BY <1>0, <2>1, GotoAt, PlaceNames DEF PairOK
<1> QED
  BY <1>1, <1>2, <1>3, <1>4, <1>5, <1>6, <1>7, <1>8, <1>9, <1>10, <1>11 DEF Next

(* EventPair: while a program only ever registers one callback with one      *)
(* data, an event hands it that data.  With two registrations it may not:    *)
(* the run callback_pair shows it.                                           *)
THEOREM EventPairHolds ==
    ASSUME NEW c, Clbks = {c}
    PROVE  Spec => []EventPair
<1>1. Init => PairOK(c)
  BY DEF Init, PairOK
<1>2. Types /\ CallsOK /\ PairOK(c) /\ [Next]_vars => PairOK(c)'
  BY PairStep
<1>3. PairOK(c) => EventPair
  BY DEF PairOK, EventPair
<1> QED
  BY <1>1, <1>2, <1>3, TypeCorrect, TypesAsTypeOK, PTL DEF Spec

-----------------------------------------------------------------------------
(* One thread starts the investigator.  Until it has set s_bIsHookActive no  *)
(* other thread does anything here; from then on no thread starts again.     *)
Saved == \A f \in AllSlots : saved[f] = "C library"
Ready == resources = Resources /\ Saved

StartOK(t) ==
    /\ hookActive =>
          /\ inited /\ Ready /\ slots = AllSlots
          /\ \A u \in Threads : pc[u] \notin Starting
    /\ ~hookActive =>
          /\ \A u \in Threads \ {t} : pc[u] \in {"app", "exited"}
          /\ pc[t] \in Starting \cup {"app", "exited"}
          /\ inited <=> pc[t] \notin {"app", "begin"}
          /\ pc[t] = "create" => Saved
          /\ pc[t] \in {"protect", "free", "realloc", "malloc", "calloc", "unprotect", "activate"}
                => Ready
          /\ slots = CASE pc[t] = "realloc" -> {"free"}
                       [] pc[t] = "malloc" -> {"free", "realloc"}
                       [] pc[t] = "calloc" -> {"free", "realloc", "malloc"}
                       [] pc[t] \in {"unprotect", "activate"} -> AllSlots
                       [] OTHER -> {}

(* A thread that calls is the starter, or the hooks are active. *)
LEMMA StarterOnly ==
    ASSUME NEW t, t \in Threads, StartOK(t), NEW u \in Threads
    PROVE  /\ pc[u] \in Starting => u = t /\ ~hookActive
           /\ pc[u] \in {"body", "register", "track"} => hookActive
BY DEF StartOK, Starting

LEMMA StartStep ==
    ASSUME NEW t, Starters = {t}, Types, StartOK(t), [Next]_vars
    PROVE  StartOK(t)'
<1>0. /\ pc \in [Threads -> Places] /\ t \in Threads /\ hookActive \in BOOLEAN
  BY StartersAssumption DEF Types
<1> USE SlotNames
<1>active. ASSUME NEW u \in Threads, NEW p \in Places, Goto(u, p), p \notin Starting, hookActive,
                  UNCHANGED <<inited, slots, resources, saved, hookActive>>
           PROVE  StartOK(t)'
  <2>1. pc'[u] = p /\ \A v \in Threads : v # u => pc'[v] = pc[v]
    BY <1>0, <1>active, GotoAt
  <2>2. \A v \in Threads : pc'[v] \notin Starting
    BY <1>active, <2>1 DEF StartOK
  <2>3. inited' /\ Ready' /\ slots' = AllSlots /\ hookActive'
    BY <1>active DEF StartOK, Ready, Saved
  <2> QED
    BY <2>2, <2>3 DEF StartOK
<1>1. CASE UNCHANGED vars
  BY <1>1 DEF vars, world, StartOK, Ready, Saved
<1>2. ASSUME NEW u \in Threads, NEW o \in Ops, CallApi(u, o) PROVE StartOK(t)'
  <2>1. /\ pc[u] = "app" /\ (u = t \/ hookActive)
        /\ Goto(u, IF inited THEN "body" ELSE "begin")
        /\ UNCHANGED <<inited, slots, resources, saved, hookActive>>
    BY <1>2 DEF CallApi, AlreadyInited, world
  <2>2. CASE hookActive
    <3>1. Goto(u, "body")
      BY <2>1, <2>2 DEF StartOK
    <3> QED
      BY <2>1, <2>2, <3>1, <1>active, PlaceNames DEF Starting
  <2>3. CASE ~hookActive
    <3>1. Goto(t, "begin") /\ u = t /\ ~inited
      BY <2>1, <2>3 DEF StartOK
    <3>2. pc'[t] = "begin" /\ \A v \in Threads : v # t => pc'[v] = pc[v]
      BY <1>0, <3>1, GotoAt, PlaceNames
    <3> QED
      BY <2>1, <2>3, <3>1, <3>2 DEF StartOK, Starting
  <2> QED
    BY <2>2, <2>3
<1>3. ASSUME NEW u \in Threads, BeginInit(u) PROVE StartOK(t)'
  <2>1. /\ pc[u] = "begin" /\ Goto(u, "reset") /\ inited' = TRUE
        /\ UNCHANGED <<slots, resources, saved, hookActive>>
    BY <1>3 DEF BeginInit
  <2>2. u = t /\ ~hookActive
    BY <1>0, <2>1, StarterOnly DEF Starting
  <2>3. pc'[t] = "reset" /\ \A v \in Threads : v # t => pc'[v] = pc[v]
    BY <1>0, <2>1, <2>2, GotoAt, PlaceNames
  <2> QED
    BY <2>1, <2>2, <2>3 DEF StartOK, Starting
<1>4. ASSUME NEW u \in Threads, Reset(u) PROVE StartOK(t)'
  <2>1. /\ pc[u] = "reset" /\ Goto(u, "save") /\ hookActive' = FALSE
        /\ UNCHANGED <<inited, slots, resources, saved>>
    BY <1>4 DEF Reset
  <2>2. u = t /\ ~hookActive
    BY <1>0, <2>1, StarterOnly DEF Starting
  <2>3. pc'[t] = "save" /\ \A v \in Threads : v # t => pc'[v] = pc[v]
    BY <1>0, <2>1, <2>2, GotoAt, PlaceNames
  <2> QED
    BY <2>1, <2>2, <2>3 DEF StartOK, Starting
<1>5. ASSUME NEW u \in Threads, SaveSlots(u) PROVE StartOK(t)'
  <2>1. /\ pc[u] = "save" /\ Goto(u, "create")
        /\ UNCHANGED <<inited, slots, resources, hookActive>>
    BY <1>5 DEF SaveSlots
  <2>2. u = t /\ ~hookActive
    BY <1>0, <2>1, StarterOnly DEF Starting
  <2>3. slots = {}
    BY <2>1, <2>2 DEF StartOK
  <2>4. Saved'
    BY <1>5, <2>3 DEF SaveSlots, Saved
  <2>5. pc'[t] = "create" /\ \A v \in Threads : v # t => pc'[v] = pc[v]
    BY <1>0, <2>1, <2>2, GotoAt, PlaceNames
  <2> QED
    BY <2>1, <2>2, <2>4, <2>5 DEF StartOK, Starting
<1>6. ASSUME NEW u \in Threads, Create(u) PROVE StartOK(t)'
  <2>1. pc[u] = "create" /\ UNCHANGED <<inited, slots, saved, hookActive>>
    BY <1>6 DEF Create
  <2>2. u = t /\ ~hookActive
    BY <1>0, <2>1, StarterOnly DEF Starting
  <2>3. Saved' /\ slots = {} /\ inited
    BY <2>1, <2>2 DEF StartOK, Saved
  <2>4. CASE Goto(u, "protect") /\ resources' = Resources
    <3>1. pc'[t] = "protect" /\ \A v \in Threads : v # t => pc'[v] = pc[v]
      BY <1>0, <2>2, <2>4, GotoAt, PlaceNames
    <3> QED
      BY <2>1, <2>2, <2>3, <2>4, <3>1 DEF StartOK, Starting, Ready
  <2>5. CASE pc' = [v \in Threads |-> "exited"]
    <3>1. \A v \in Threads : pc'[v] = "exited"
      BY <2>5
    <3> QED
      BY <1>0, <2>1, <2>2, <2>3, <3>1 DEF StartOK, Starting
  <2> QED
    BY <1>6, <2>4, <2>5 DEF Create
<1>7. ASSUME NEW u \in Threads, Protect(u) PROVE StartOK(t)'
  <2>1. /\ pc[u] = "protect" /\ Goto(u, "free")
        /\ UNCHANGED <<inited, slots, resources, saved, hookActive>>
    BY <1>7, OrderAt DEF Protect
  <2>2. u = t /\ ~hookActive
    BY <1>0, <2>1, StarterOnly DEF Starting
  <2>3. pc'[t] = "free" /\ \A v \in Threads : v # t => pc'[v] = pc[v]
    BY <1>0, <2>1, <2>2, GotoAt, PlaceNames
  <2> QED
    BY <2>1, <2>2, <2>3 DEF StartOK, Starting, Ready, Saved
<1>8. ASSUME NEW u \in Threads, NEW i \in 1..Len(Order), InstallSlot(u, i) PROVE StartOK(t)'
  <2>1. UNCHANGED <<inited, resources, saved, hookActive>>
    BY <1>8 DEF InstallSlot
  <2>2. pc[u] \in {"free", "realloc", "malloc", "calloc"}
    BY <1>8, InstallSlotAt
  <2>3. u = t /\ ~hookActive
    BY <1>0, <2>2, StarterOnly DEF Starting
  <2>4. \A v \in Threads : v # t => pc'[v] = pc[v]
    BY <1>0, <1>8, <2>3, InstallSlotAt, GotoAt, PlaceNames
  <2>5. \/ pc[t] = "free" /\ slots' = slots \cup {"free"} /\ pc'[t] = "realloc"
        \/ pc[t] = "realloc" /\ slots' = slots \cup {"realloc"} /\ pc'[t] = "malloc"
        \/ pc[t] = "malloc" /\ slots' = slots \cup {"malloc"} /\ pc'[t] = "calloc"
        \/ pc[t] = "calloc" /\ slots' = slots \cup {"calloc"} /\ pc'[t] = "unprotect"
    BY <1>0, <1>8, <2>3, InstallSlotAt, GotoAt, PlaceNames
  <2>6. Ready' /\ inited' /\ \A v \in Threads \ {t} : pc'[v] \in {"app", "exited"}
    BY <2>1, <2>2, <2>3, <2>4 DEF StartOK, Ready, Saved
  <2>7. CASE pc[t] = "free"
    BY <2>1, <2>3, <2>5, <2>6, <2>7 DEF StartOK, Starting
  <2>8. CASE pc[t] = "realloc"
    BY <2>1, <2>3, <2>5, <2>6, <2>8 DEF StartOK, Starting
  <2>9. CASE pc[t] = "malloc"
    BY <2>1, <2>3, <2>5, <2>6, <2>9 DEF StartOK, Starting
  <2>10. CASE pc[t] = "calloc"
    BY <2>1, <2>3, <2>5, <2>6, <2>10 DEF StartOK, Starting
  <2> QED
    BY <2>2, <2>3, <2>7, <2>8, <2>9, <2>10
<1>9. ASSUME NEW u \in Threads, Unprotect(u) PROVE StartOK(t)'
  <2>1. /\ pc[u] = "unprotect" /\ Goto(u, "activate")
        /\ UNCHANGED <<inited, slots, resources, saved, hookActive>>
    BY <1>9 DEF Unprotect
  <2>2. u = t /\ ~hookActive
    BY <1>0, <2>1, StarterOnly DEF Starting
  <2>3. pc'[t] = "activate" /\ \A v \in Threads : v # t => pc'[v] = pc[v]
    BY <1>0, <2>1, <2>2, GotoAt, PlaceNames
  <2> QED
    BY <2>1, <2>2, <2>3 DEF StartOK, Starting, Ready, Saved
<1>10. ASSUME NEW u \in Threads, Activate(u) PROVE StartOK(t)'
  <2>1. /\ pc[u] = "activate" /\ Goto(u, "body") /\ hookActive' = TRUE
        /\ UNCHANGED <<inited, slots, resources, saved>>
    BY <1>10 DEF Activate
  <2>2. u = t /\ ~hookActive
    BY <1>0, <2>1, StarterOnly DEF Starting
  <2>3. pc'[t] = "body" /\ \A v \in Threads : v # t => pc'[v] = pc[v]
    BY <1>0, <2>1, <2>2, GotoAt, PlaceNames
  <2> QED
    BY <2>1, <2>2, <2>3 DEF StartOK, Starting, Ready, Saved
<1>11. ASSUME NEW u \in Threads,
              \/ InitOnly(u) \/ RegisterData(u) \/ RegisterClbk(u) \/ WriteSettings(u)
              \/ Skip(u) \/ Unskip(u) \/ Track(u)
       PROVE  StartOK(t)'
  <2>1. /\ pc[u] \in {"body", "register", "track"} /\ (Goto(u, "app") \/ Goto(u, "register"))
        /\ UNCHANGED <<inited, slots, resources, saved, hookActive>>
    BY <1>11 DEF InitOnly, RegisterData, RegisterClbk, WriteSettings, Skip, Unskip, CountSkip,
                 Track, InBody, world
  <2>2. hookActive
    BY <1>0, <2>1, StarterOnly
  <2> QED
    BY <2>1, <2>2, <1>active, PlaceNames DEF Starting
<1>12. ASSUME NEW u \in Threads, HookedAlloc(u) PROVE StartOK(t)'
  BY <1>12, <1>active, PlaceNames DEF HookedAlloc, Starting
<1> QED
  BY <1>1, <1>2, <1>3, <1>4, <1>5, <1>6, <1>7, <1>8, <1>9, <1>10, <1>11, <1>12 DEF Next

LEMMA StartHolds ==
    ASSUME NEW t, Starters = {t}
    PROVE  Spec => []StartOK(t)
<1>1. Init => StartOK(t)
  BY StartersAssumption DEF Init, StartOK, Starting
<1>2. Types /\ StartOK(t) /\ [Next]_vars => StartOK(t)'
  BY StartStep
<1> QED
  BY <1>1, <1>2, TypeCorrect, TypesAsTypeOK, PTL DEF Spec

(* ReadyWhenHooked: if one thread starts the investigator, a hook that can   *)
(* be entered finds the mutex, the hashes and the TLS key, and the C library *)
(* behind every saved function.                                              *)
THEOREM ReadyWhenHookedHolds ==
    ASSUME NEW t, Starters = {t}
    PROVE  Spec => []ReadyWhenHooked
<1>1. StartOK(t) => ReadyWhenHooked
  BY DEF StartOK, ReadyWhenHooked, Ready, Saved
<1>2. Spec => []StartOK(t)
  BY StartHolds
<1> QED
  BY <1>1, <1>2, PTL

-----------------------------------------------------------------------------
(* What was set is set after the defaults are, and they are set once.        *)
SettingsOK ==
    /\ ~hookActive => registered = NoClbk /\ chosen = MaxAllocsDef
    /\ registered # NoClbk => clbk = registered
    /\ chosen # MaxAllocsDef => maxAllocs = chosen

LEMMA SettingsStep ==
    ASSUME NEW t, Starters = {t}, Types, StartOK(t), SettingsOK, [Next]_vars
    PROVE  SettingsOK'
<1>0. t \in Threads /\ hookActive \in BOOLEAN
  BY StartersAssumption DEF Types
<1>same. ASSUME UNCHANGED <<clbk, maxAllocs, registered, chosen>>, hookActive' = hookActive \/ hookActive'
         PROVE  SettingsOK'
  BY <1>same DEF SettingsOK
<1>1. CASE UNCHANGED vars
  BY <1>1, <1>same DEF vars, world, settings, history
<1>2. ASSUME NEW u \in Threads, NEW o \in Ops, CallApi(u, o) PROVE SettingsOK'
  BY <1>2, <1>same DEF CallApi, world, settings
<1>3. ASSUME NEW u \in Threads, Reset(u) PROVE SettingsOK'
  <2>1. ~hookActive
    BY <1>0, <1>3, StarterOnly DEF Reset, Starting
  <2>2. hookActive' = FALSE /\ UNCHANGED <<registered, chosen>>
    BY <1>3 DEF Reset, history
  <2> QED
    BY <2>1, <2>2 DEF SettingsOK
<1>4. ASSUME NEW u \in Threads,
             BeginInit(u) \/ SaveSlots(u) \/ Create(u) \/ Protect(u) \/ Unprotect(u) \/ Activate(u)
      PROVE  SettingsOK'
  BY <1>4, <1>same
     DEF BeginInit, SaveSlots, Create, Protect, Unprotect, Activate, settings, history
<1>5. ASSUME NEW u \in Threads, NEW i \in 1..Len(Order), InstallSlot(u, i) PROVE SettingsOK'
  BY <1>5, <1>same DEF InstallSlot, settings, history
<1>6. ASSUME NEW u \in Threads,
             \/ InitOnly(u) \/ RegisterData(u) \/ Skip(u) \/ Unskip(u) \/ HookedAlloc(u) \/ Track(u)
      PROVE  SettingsOK'
  BY <1>6, <1>same
     DEF InitOnly, RegisterData, Skip, Unskip, CountSkip, HookedAlloc, Track, world, settings,
         history
<1>7. ASSUME NEW u \in Threads, RegisterClbk(u) \/ WriteSettings(u) PROVE SettingsOK'
  <2>1. pc[u] \in {"body", "register"}
    BY <1>7 DEF RegisterClbk, WriteSettings, InBody
  <2>2. hookActive
    BY <1>0, <2>1, StarterOnly
  <2>3. /\ hookActive' = hookActive
        /\ \/ clbk' = registered' /\ UNCHANGED <<maxAllocs, chosen>>
           \/ maxAllocs' = chosen' /\ UNCHANGED <<clbk, registered>>
    BY <1>7 DEF RegisterClbk, WriteSettings, world
  <2> QED
    BY <2>2, <2>3 DEF SettingsOK
<1> QED
  BY <1>1, <1>2, <1>3, <1>4, <1>5, <1>6, <1>7 DEF Next

(* SettingsStick: if one thread starts the investigator, a callback that is  *)
(* registered and a threshold that is written stay until another call, while *)
(* every thread may register and write.                                      *)
THEOREM SettingsStickHolds ==
    ASSUME NEW t, Starters = {t}
    PROVE  Spec => []SettingsStick
<1>1. Init => SettingsOK
  BY DEF Init, SettingsOK
<1>2. Types /\ StartOK(t) /\ SettingsOK /\ [Next]_vars => SettingsOK'
  BY SettingsStep
<1>3. SettingsOK => SettingsStick
  BY DEF SettingsOK, SettingsStick
<1>4. Spec => []StartOK(t)
  BY StartHolds
<1> QED
  BY <1>1, <1>2, <1>3, <1>4, TypeCorrect, TypesAsTypeOK, PTL DEF Spec

-----------------------------------------------------------------------------
(* The skips of a thread are in the block that the hooks look at: while the  *)
(* starter protects itself no hook looks, and tracking takes a thread that   *)
(* does not skip and puts its block back.                                    *)
Protected(t, u, k) ==
    u = t /\ k = mine[t] /\ pc[t] \in {"free", "realloc", "malloc", "calloc", "unprotect"}

(* useHook in the block of thread u under key k. *)
HookIn(b, k, u) == IF b[k][u] = NoBlock THEN 0 ELSE b[k][u]

SkipsOK(t) ==
    /\ ~hookActive => \A u \in Threads :
          /\ skips[u] = 0
          /\ \A k \in Keys : HookIn(block, k, u) = 0 \/ Protected(t, u, k)
    /\ hookActive => \A u \in Threads : Running(u) => HookIn(block, tlsData, u) = skips[u]
    /\ \A u \in Threads : pc[u] = "track" => skips[u] = 0

LEMMA HookAfter ==
    ASSUME Types, NEW k \in Keys, NEW t \in Threads, NEW n \in Int, SetUseHook(k, t, n)
    PROVE  \A j \in Keys, u \in Threads :
              HookIn(block', j, u) = IF j = k /\ u = t THEN n ELSE HookIn(block, j, u)
<1>1. block \in [Keys -> [Threads -> Int \cup {NoBlock}]]
  BY DEF Types
<1>2. \A j \in Keys, u \in Threads : block'[j][u] = IF j = k /\ u = t THEN n ELSE block[j][u]
  BY <1>1 DEF SetUseHook
<1> QED
  BY <1>2, BlockAssumption DEF HookIn

LEMMA SkipsStep ==
    ASSUME NEW t, Starters = {t}, Types, StartOK(t), SkipsOK(t), [Next]_vars
    PROVE  SkipsOK(t)'
<1>0. /\ pc \in [Threads -> Places] /\ t \in Threads /\ hookActive \in BOOLEAN
      /\ tlsData \in Keys /\ mine \in [Threads -> Keys] /\ skips \in [Threads -> Nat]
  BY StartersAssumption DEF Types
<1>int. 0 \in Int /\ 1 \in Int
  OBVIOUS
<1>hook. \A k, u : UseHook(k, u) = HookIn(block, k, u)
  BY DEF UseHook, HookIn
(* Nothing of it changes. *)
<1>same. ASSUME NEW u \in Threads, NEW p \in Places, Goto(u, p),
                UNCHANGED <<tlsData, block, mine, skips, hookActive>>,
                pc[u] # "exited", p # "track", pc[u] # "track",
                hookActive \/ (pc[u] # "unprotect" /\ pc[u] \notin AllSlots)
         PROVE  SkipsOK(t)'
  <2>1. pc'[u] = p /\ \A v \in Threads : v # u => pc'[v] = pc[v]
    BY <1>0, <1>same, GotoAt
  <2>2. \A v \in Threads, k \in Keys : ~hookActive /\ Protected(t, v, k) => Protected(t, v, k)'
    BY <1>same, <2>1, SlotNames DEF Protected
  <2>3. \A v \in Threads : Running(v)' => Running(v)
    BY <1>same, <2>1 DEF Running
  <2>4. \A v \in Threads : pc'[v] = "track" => pc[v] = "track"
    BY <1>same, <2>1
  <2> QED
    BY <1>same, <2>2, <2>3, <2>4 DEF SkipsOK
<1>1. CASE UNCHANGED vars
  BY <1>1 DEF vars, world, history, SkipsOK, Protected, Running
<1>2. ASSUME NEW u \in Threads, NEW o \in Ops, CallApi(u, o) PROVE SkipsOK(t)'
  <2>1. /\ pc[u] = "app" /\ (Goto(u, "body") \/ Goto(u, "begin"))
        /\ UNCHANGED <<tlsData, block, mine, skips, hookActive>>
    BY <1>2 DEF CallApi, world
  <2> QED
    BY <2>1, <1>same, SlotNames, PlaceNames
<1>3. ASSUME NEW u \in Threads, BeginInit(u) PROVE SkipsOK(t)'
  <2>1. /\ pc[u] = "begin" /\ Goto(u, "reset") /\ UNCHANGED <<tlsData, skips, hookActive>>
        /\ SetUseHook(tlsData, u, HookIn(block, tlsData, u))
    BY <1>3, <1>hook DEF BeginInit, history
  <2>2. u = t /\ ~hookActive
    BY <1>0, <2>1, StarterOnly DEF Starting
  <2>3. \A v \in Threads, k \in Keys : HookIn(block, k, v) = 0
    BY <2>1, <2>2 DEF SkipsOK, Protected
  <2>4. SetUseHook(tlsData, u, 0)
    BY <1>0, <2>1, <2>3
  <2>5. \A v \in Threads, k \in Keys : HookIn(block', k, v) = 0
    BY <1>0, <1>int, <2>3, <2>4, HookAfter
  <2>6. \A v \in Threads : pc'[v] = "track" => pc[v] = "track"
    BY <1>0, <2>1, GotoAt, PlaceNames
  <2> QED
    BY <2>1, <2>2, <2>5, <2>6 DEF SkipsOK
<1>4. ASSUME NEW u \in Threads, Reset(u) \/ SaveSlots(u) PROVE SkipsOK(t)'
  <2>1. /\ pc[u] \in {"reset", "save"} /\ (Goto(u, "save") \/ Goto(u, "create"))
        /\ UNCHANGED <<tlsData, block, mine, skips>>
        /\ hookActive' = hookActive \/ hookActive' = FALSE
    BY <1>4 DEF Reset, SaveSlots, history
  <2>2. hookActive' = hookActive
    BY <1>0, <2>1, StarterOnly DEF Starting
  <2> QED
    BY <2>1, <2>2, <1>same, SlotNames, PlaceNames
<1>5. ASSUME NEW u \in Threads, Create(u) PROVE SkipsOK(t)'
  <2>1. pc[u] = "create" /\ UNCHANGED <<block, mine, skips, hookActive>>
    BY <1>5 DEF Create, history
  <2>2. u = t /\ ~hookActive
    BY <1>0, <2>1, StarterOnly DEF Starting
  <2>3. \A v \in Threads, k \in Keys : HookIn(block, k, v) = 0
    BY <2>1, <2>2 DEF SkipsOK, Protected
  <2>4. \A v \in Threads : pc'[v] = "track" => pc[v] = "track"
    BY <1>0, <1>5, GotoAt, PlaceNames DEF Create
  <2> QED
    BY <2>1, <2>2, <2>3, <2>4 DEF SkipsOK
<1>6. ASSUME NEW u \in Threads, Protect(u) PROVE SkipsOK(t)'
  <2>1. /\ pc[u] = "protect" /\ Goto(u, "free") /\ SetUseHook(mine[u], u, 1)
        /\ UNCHANGED <<mine, skips, hookActive>>
    BY <1>6, OrderAt DEF Protect, history
  <2>2. u = t /\ ~hookActive
    BY <1>0, <2>1, StarterOnly DEF Starting
  <2>3. \A v \in Threads, k \in Keys : HookIn(block, k, v) = 0
    BY <2>1, <2>2 DEF SkipsOK, Protected
  <2>4. \A v \in Threads, k \in Keys : HookIn(block', k, v) = 0 \/ (v = t /\ k = mine[t])
    BY <1>0, <1>int, <2>1, <2>2, <2>3, HookAfter
  <2>5. pc'[t] = "free" /\ \A v \in Threads : pc'[v] = "track" => pc[v] = "track"
    BY <1>0, <2>1, <2>2, GotoAt, PlaceNames
  <2> QED
    BY <2>1, <2>2, <2>4, <2>5 DEF SkipsOK, Protected
<1>7. ASSUME NEW u \in Threads, NEW i \in 1..Len(Order), InstallSlot(u, i) PROVE SkipsOK(t)'
  <2>1. UNCHANGED <<tlsData, block, mine, skips, hookActive>>
    BY <1>7 DEF InstallSlot, history
  <2>2. /\ pc[u] \in {"free", "realloc", "malloc", "calloc"}
        /\ pc'[u] \in {"realloc", "malloc", "calloc", "unprotect"}
        /\ \A v \in Threads : v # u => pc'[v] = pc[v]
    BY <1>0, <1>7, InstallSlotAt, GotoAt, PlaceNames
  <2>3. u = t /\ ~hookActive
    BY <1>0, <2>2, StarterOnly DEF Starting
  <2> QED
    BY <2>1, <2>2, <2>3 DEF SkipsOK, Protected
<1>8. ASSUME NEW u \in Threads, Unprotect(u) PROVE SkipsOK(t)'
  <2>1. /\ pc[u] = "unprotect" /\ Goto(u, "activate") /\ SetUseHook(mine[u], u, 0)
        /\ UNCHANGED <<mine, skips, hookActive>>
    BY <1>8 DEF Unprotect, history
  <2>2. u = t /\ ~hookActive
    BY <1>0, <2>1, StarterOnly DEF Starting
  <2>3. \A v \in Threads, k \in Keys : HookIn(block, k, v) = 0 \/ (v = t /\ k = mine[t])
    BY <2>2 DEF SkipsOK, Protected
  <2>4. \A v \in Threads, k \in Keys : HookIn(block', k, v) = 0
    BY <1>0, <1>int, <2>1, <2>2, <2>3, HookAfter
  <2>5. \A v \in Threads : pc'[v] = "track" => pc[v] = "track"
    BY <1>0, <2>1, <2>2, GotoAt, PlaceNames
  <2> QED
    BY <2>1, <2>2, <2>4, <2>5 DEF SkipsOK
<1>9. ASSUME NEW u \in Threads, Activate(u) PROVE SkipsOK(t)'
  <2>1. /\ pc[u] = "activate" /\ Goto(u, "body") /\ hookActive' = TRUE
        /\ UNCHANGED <<tlsData, block, skips>>
    BY <1>9 DEF Activate, history
  <2>2. u = t /\ ~hookActive
    BY <1>0, <2>1, StarterOnly DEF Starting
  <2>3. \A v \in Threads : HookIn(block, tlsData, v) = 0 /\ skips[v] = 0
    BY <1>0, <2>1, <2>2 DEF SkipsOK, Protected
  <2>4. \A v \in Threads : pc'[v] = "track" => pc[v] = "track"
    BY <1>0, <2>1, GotoAt, PlaceNames
  <2> QED
    BY <2>1, <2>3, <2>4 DEF SkipsOK
<1>10. ASSUME NEW u \in Threads,
              InitOnly(u) \/ RegisterData(u) \/ RegisterClbk(u) \/ WriteSettings(u)
       PROVE  SkipsOK(t)'
  <2>1. /\ pc[u] \in {"body", "register"} /\ (Goto(u, "app") \/ Goto(u, "register"))
        /\ UNCHANGED <<tlsData, block, mine, skips, hookActive>>
    BY <1>10 DEF InitOnly, RegisterData, RegisterClbk, WriteSettings, InBody, world, history
  <2> QED
    BY <2>1, <1>same, SlotNames, PlaceNames
<1>11. ASSUME NEW u \in Threads, NEW n \in Int, CountSkip(u, n), pc[u] = "body"
       PROVE  SkipsOK(t)'
  <2>1. hookActive /\ hookActive' = hookActive /\ tlsData' = tlsData
    BY <1>0, <1>11, StarterOnly DEF CountSkip
  <2>2. HookIn(block, tlsData, u) = skips[u] /\ skips[u] \in Int
    BY <1>0, <1>11, <2>1 DEF SkipsOK, Running
  <2>3. SetUseHook(tlsData, u, skips[u] + n) /\ skips[u] + n \in Int
    BY <1>11, <1>hook, <2>2 DEF CountSkip
  <2>4. \A v \in Threads : HookIn(block', tlsData, v) =
            IF v = u THEN skips[u] + n ELSE HookIn(block, tlsData, v)
    BY <1>0, <2>3, HookAfter
  <2>5. \A v \in Threads : skips'[v] = IF v = u THEN skips[u] + n ELSE skips[v]
    BY <1>0, <1>11 DEF CountSkip
  <2>6. pc'[u] = "app" /\ \A v \in Threads : v # u => pc'[v] = pc[v]
    BY <1>0, <1>11, GotoAt, PlaceNames DEF CountSkip
  <2>7. \A v \in Threads : Running(v)' => HookIn(block', tlsData, v) = skips'[v]
    BY <1>11, <2>1, <2>4, <2>5, <2>6 DEF SkipsOK, Running
  <2> QED
    BY <2>1, <2>5, <2>6, <2>7 DEF SkipsOK
<1>12. ASSUME NEW u \in Threads, Skip(u) \/ Unskip(u) PROVE SkipsOK(t)'
  <2>1. 1 \in Int /\ -1 \in Int
    OBVIOUS
  <2> QED
    BY <1>11, <1>12, <2>1 DEF Skip, Unskip, InBody
<1>13. ASSUME NEW u \in Threads, HookedAlloc(u) PROVE SkipsOK(t)'
  <2>1. /\ hookActive /\ hookActive' = hookActive /\ UNCHANGED <<tlsData, skips>>
        /\ pc[u] = "app" /\ HookIn(block, tlsData, u) < 1 /\ SetUseHook(tlsData, u, 1)
        /\ Goto(u, "track")
    BY <1>13, <1>hook DEF HookedAlloc, history
  <2>2. skips[u] = 0
    BY <1>0, <2>1 DEF SkipsOK, Running
  <2>3. \A v \in Threads : v # u => HookIn(block', tlsData, v) = HookIn(block, tlsData, v)
    BY <1>0, <1>int, <2>1, HookAfter
  <2>4. pc'[u] = "track" /\ \A v \in Threads : v # u => pc'[v] = pc[v]
    BY <1>0, <2>1, GotoAt, PlaceNames
  <2> QED
    BY <2>1, <2>2, <2>3, <2>4 DEF SkipsOK, Running
<1>14. ASSUME NEW u \in Threads, Track(u) PROVE SkipsOK(t)'
  <2>1. /\ hookActive' = hookActive /\ UNCHANGED <<tlsData, skips>>
        /\ pc[u] = "track" /\ SetUseHook(tlsData, u, 0) /\ Goto(u, "app")
    BY <1>14 DEF Track
  <2>2. skips[u] = 0 /\ hookActive
    BY <1>0, <2>1, StarterOnly DEF SkipsOK
  <2>3. \A v \in Threads : HookIn(block', tlsData, v) = IF v = u THEN 0 ELSE HookIn(block, tlsData, v)
    BY <1>0, <1>int, <2>1, HookAfter
  <2>4. pc'[u] = "app" /\ \A v \in Threads : v # u => pc'[v] = pc[v]
    BY <1>0, <2>1, GotoAt, PlaceNames
  <2> QED
    BY <2>1, <2>2, <2>3, <2>4 DEF SkipsOK, Running
<1> QED
  BY <1>1, <1>2, <1>3, <1>4, <1>5, <1>6, <1>7, <1>8, <1>9, <1>10, <1>12, <1>13, <1>14 DEF Next

(* SkipsStick: if one thread starts the investigator, what Skip and Unskip   *)
(* count is what the hooks of the thread read, although the initialisation   *)
(* takes its block under the key of before and puts it back under that key.  *)
THEOREM SkipsStickHolds ==
    ASSUME NEW t, Starters = {t}
    PROVE  Spec => []SkipsStick
<1>1. Init => SkipsOK(t)
  BY DEF Init, SkipsOK, HookIn
<1>2. Types /\ StartOK(t) /\ SkipsOK(t) /\ [Next]_vars => SkipsOK(t)'
  BY SkipsStep
<1>3. SkipsOK(t) => SkipsStick
  BY DEF SkipsOK, SkipsStick, UseHook, HookIn
<1>4. Spec => []StartOK(t)
  BY StartHolds
<1> QED
  BY <1>1, <1>2, <1>3, <1>4, TypeCorrect, TypesAsTypeOK, PTL DEF Spec

===============================================================================
