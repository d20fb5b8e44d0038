-------------------------- MODULE MemLeakInvestProofs --------------------------
(***************************************************************************)
(* Theorems about MemLeakInvest for every number of threads, addresses,    *)
(* stacks and sizes.                                                       *)
(***************************************************************************)
EXTENDS MemLeakInvest, FiniteSetTheorems, TLAPS

(* What a frame holds follows from where the call is. *)
FrameOK(f) ==
    /\ f.pc \in Tracking =>
          f.ptr \in Addrs /\ f.stack \in Stacks /\ f.size \in Sizes
    /\ f.pc \in {"free", "release"} => f.ptr \in Addrs
    /\ f.pc \in {"free", "move", "remove"} => f.old \in Addrs

FramesOK == \A t \in Threads : FrameOK(call[t])

-----------------------------------------------------------------------------
(* The book operators keep a book a book. *)
LEMMA AddByStackType ==
    ASSUME NEW b \in Books, NEW s \in Stacks
    PROVE  AddByStack(b, s) \in Books
<1>1. /\ b.hashByStack \in [Stacks -> Nat]
      /\ b.numberOfEvents \in Nat
      /\ b.allocsMaxUpToNow \in Nat
  BY DEF Books
<1> DEFINE h == [b.hashByStack EXCEPT ![s] = @ + 1]
           m == IF b.hashByStack[s] + 1 > b.allocsMaxUpToNow
                THEN b.hashByStack[s] + 1 ELSE b.allocsMaxUpToNow
           e == IF RaisesEvent(b, s) THEN b.numberOfEvents + 1 ELSE b.numberOfEvents
<1>2. h \in [Stacks -> Nat] /\ m \in Nat /\ e \in Nat
  BY <1>1
<1>3. AddByStack(b, s) = [b EXCEPT !.hashByStack = h, !.allocsMaxUpToNow = m,
                                   !.numberOfEvents = e]
  BY DEF AddByStack
<1> HIDE DEF h, m, e
<1> QED
  BY <1>2, <1>3 DEF Books

LEMMA SizeIsNat == \A n \in Sizes : n \in Nat
BY SizesAssumption

LEMMA AddByMemoryType ==
    ASSUME NEW b \in Books, NEW a \in Addrs, NEW s \in Stacks, NEW n \in Sizes
    PROVE  AddByMemory(b, a, s, n) \in Books
<1>1. /\ b.hashByMemory \in [Addrs -> Entries \cup {NoEntry}]
      /\ b.memoryAllocatedInBytes \in Int
      /\ b.allocatedItemsCount \in Int
  BY DEF Books
<1> DEFINE h == [b.hashByMemory EXCEPT ![a] = [stack |-> s, size |-> n]]
           m == b.memoryAllocatedInBytes + n
           c == b.allocatedItemsCount + 1
<1>2. [stack |-> s, size |-> n] \in Entries
  BY DEF Entries
<1>3. h \in [Addrs -> Entries \cup {NoEntry}]
  BY <1>1, <1>2
<1>4. m \in Int /\ c \in Int
  BY <1>1, SizeIsNat
<1>5. CASE b.hashByMemory[a] # NoEntry
  BY <1>5 DEF AddByMemory
<1>6. CASE b.hashByMemory[a] = NoEntry
  <2>1. AddByMemory(b, a, s, n) =
            [b EXCEPT !.hashByMemory = h, !.memoryAllocatedInBytes = m,
                      !.allocatedItemsCount = c]
    BY <1>6 DEF AddByMemory
  <2> HIDE DEF h, m, c
  <2> QED
    BY <2>1, <1>3, <1>4 DEF Books
<1> QED
  BY <1>5, <1>6

LEMMA RemMemoryType ==
    ASSUME NEW b \in Books, NEW a \in Addrs
    PROVE  RemMemory(b, a) \in Books
<1>1. CASE b.hashByMemory[a] = NoEntry
  BY <1>1 DEF RemMemory
<1>2. CASE b.hashByMemory[a] # NoEntry
  <2> DEFINE e == b.hashByMemory[a]
  <2>1. e \in Entries
    BY <1>2 DEF Books
  <2>2. e.stack \in Stacks /\ e.size \in Sizes
    BY <2>1 DEF Entries
  <2>3. e.size \in Int
    BY <2>2, SizeIsNat
  <2>4. /\ b.hashByStack \in [Stacks -> Nat]
        /\ b.hashByMemory \in [Addrs -> Entries \cup {NoEntry}]
        /\ b.memoryAllocatedInBytes \in Int
        /\ b.allocatedItemsCount \in Int
    BY DEF Books
  <2> DEFINE h == [b.hashByStack EXCEPT ![e.stack] = IF @ - 1 < 1 THEN 0 ELSE @ - 1]
             g == [b.hashByMemory EXCEPT ![a] = NoEntry]
             m == b.memoryAllocatedInBytes - e.size
             c == b.allocatedItemsCount - 1
  <2>5. RemMemory(b, a) =
            [b EXCEPT !.hashByStack = h, !.hashByMemory = g,
                      !.memoryAllocatedInBytes = m, !.allocatedItemsCount = c]
    BY <1>2 DEF CountDown, BytesOf, RemMemory
  <2> HIDE DEF e
  <2>6. h \in [Stacks -> Nat]
    BY <2>2, <2>4
  <2>7. g \in [Addrs -> Entries \cup {NoEntry}]
    BY <2>4
  <2>8. m \in Int /\ c \in Int
    BY <2>3, <2>4
  <2> HIDE DEF h, g, m, c
  <2> QED
    BY <2>5, <2>6, <2>7, <2>8 DEF Books
<1> QED
  BY <1>1, <1>2

(* int8_t arithmetic stays in int8_t. *)
LEMMA AsInt8Type ==
    ASSUME NEW n \in Int
    PROVE  AsInt8(n) \in Int8
BY DEF AsInt8, Int8

-----------------------------------------------------------------------------
(* Type correctness. *)
Slots == {"malloc", "calloc", "realloc", "free"}
TornValues == {"up", "unlocked", "misused"}

LEMMA TouchType ==
    ASSUME TypeOK, NEW b \in Books, Touch(b)
    PROVE  book' \in Books /\ torn' \in TornValues /\ slots' \subseteq Slots
BY DEF TypeOK, Touch, TornValues, Slots

LEMMA RemoveOnlyType ==
    ASSUME TypeOK, NEW a \in Addrs, RemoveOnly(a)
    PROVE  book' \in Books /\ torn' \in TornValues /\ slots' \subseteq Slots
<1>1. RemMemory(book, a) \in Books
  BY RemMemoryType DEF TypeOK
<1>2. CASE torn = "up" /\ EmptiesBook(book, a)
  BY <1>1, <1>2 DEF RemoveOnly, TypeOK, TornValues, Slots
<1>3. CASE ~(torn = "up" /\ EmptiesBook(book, a))
  <2>1. Touch(RemMemory(book, a))
    BY <1>3 DEF RemoveOnly
  <2> QED
    BY <1>1, <2>1, TouchType
<1> QED
  BY <1>2, <1>3

(* A thread's new frame and useHook keep both functions typed. *)
LEMMA GotoType ==
    ASSUME TypeOK, FramesOK, NEW t \in Threads, NEW f \in Frames, FrameOK(f), Goto(t, f)
    PROVE  call' \in [Threads -> Frames] /\ FramesOK'
BY DEF TypeOK, FramesOK, FrameOK, Goto

LEMMA SetHookType ==
    ASSUME TypeOK, NEW t \in Threads, NEW n \in Int8, SetHook(t, n)
    PROVE  useHook' \in [Threads -> Int8]
BY DEF TypeOK, SetHook

LEMMA IdleType == Idle \in Frames /\ FrameOK(Idle) /\ 0 \in Int8 /\ 1 \in Int8
BY DEF Idle, Frames, FrameOK, Tracking, Int8

LEMMA CountStackType ==
    ASSUME TypeOK, FramesOK, NEW t \in Threads, NEW b \in Books,
           call[t].pc \in {"add", "move"}, CountStack(t, b)
    PROVE  /\ book' \in Books /\ torn' \in TornValues /\ slots' \subseteq Slots
           /\ call' \in [Threads -> Frames] /\ FramesOK'
           /\ useHook' \in [Threads -> Int8]
           /\ mutex' \in Threads \cup {NoThread}
<1> DEFINE f == call[t]
<1>1. f \in Frames /\ FrameOK(f) /\ f.ptr \in Addrs /\ f.stack \in Stacks
  BY DEF TypeOK, FramesOK, FrameOK, Tracking
<1>2. AddByStack(b, f.stack) \in Books
  BY <1>1, AddByStackType
<1>3. ASSUME NEW pc \in {"callback", "store"}
      PROVE  [f EXCEPT !.pc = pc] \in Frames /\ FrameOK([f EXCEPT !.pc = pc])
  BY <1>1 DEF Frames, FrameOK, Tracking, TypeOK, FramesOK
<1>4. /\ [Idle EXCEPT !.pc = "release", !.ptr = f.ptr] \in Frames
      /\ FrameOK([Idle EXCEPT !.pc = "release", !.ptr = f.ptr])
  BY <1>1, IdleType DEF Frames, FrameOK, Tracking, Idle
<1>5. CASE /\ Touch(AddByStack(b, f.stack))
           /\ mutex' = t
           /\ Goto(t, [f EXCEPT !.pc = IF RaisesEvent(b, f.stack)
                                       THEN "callback" ELSE "store"])
           /\ UNCHANGED useHook
  <2>1. call' \in [Threads -> Frames] /\ FramesOK'
    BY <1>3, <1>5, GotoType
  <2>2. book' \in Books /\ torn' \in TornValues /\ slots' \subseteq Slots
    BY <1>2, <1>5, TouchType
  <2> QED
    BY <1>5, <2>1, <2>2 DEF TypeOK
<1>6. CASE /\ Touch(b)
           /\ Goto(t, [Idle EXCEPT !.pc = "release", !.ptr = f.ptr])
           /\ SetHook(t, f.saved)
           /\ UNCHANGED mutex
  <2>1. call' \in [Threads -> Frames] /\ FramesOK'
    BY <1>4, <1>6, GotoType
  <2>2. book' \in Books /\ torn' \in TornValues /\ slots' \subseteq Slots
    BY <1>6, TouchType
  <2>3. useHook' \in [Threads -> Int8]
    BY <1>1, <1>6, SetHookType DEF Frames
  <2> QED
    BY <1>6, <2>1, <2>2, <2>3 DEF TypeOK
<1> QED
  BY <1>5, <1>6 DEF CountStack

LEMMA TypeInit == Init => TypeOK /\ FramesOK
<1> SUFFICES ASSUME Init PROVE TypeOK /\ FramesOK
  OBVIOUS
<1>1. EmptyBook \in Books
  BY DEF EmptyBook, Books
<1>2. MaxAllocsDef \in Int
  BY ThresholdsAssumption
<1>3. TypeOK
  BY <1>1, <1>2, IdleType DEF Init, TypeOK
<1>4. FramesOK
  BY IdleType DEF Init, FramesOK
<1> QED
  BY <1>3, <1>4

LEMMA TypeStep == TypeOK /\ FramesOK /\ [Next]_vars => TypeOK' /\ FramesOK'
<1> SUFFICES ASSUME TypeOK, FramesOK, [Next]_vars
             PROVE  TypeOK' /\ FramesOK'
  OBVIOUS
<1> USE DEF Slots, TornValues
<1>0. ASSUME NEW t \in Threads
      PROVE  /\ call[t] \in Frames /\ FrameOK(call[t])
             /\ useHook[t] \in Int8 /\ skips[t] \in Nat
  BY DEF TypeOK, FramesOK
<1>1. CASE UNCHANGED vars
  BY <1>1 DEF vars, lifeVars, TypeOK, FramesOK, FrameOK
<1>2. ASSUME NEW t \in Threads, Skip(t) PROVE TypeOK' /\ FramesOK'
  <2>1. useHook[t] + 1 \in Int /\ skips[t] + 1 \in Nat
    BY <1>0 DEF Int8
  <2>2. AsInt8(useHook[t] + 1) \in Int8
    BY <2>1, AsInt8Type
  <2> QED
    BY <1>2, <2>1, <2>2 DEF Skip, SetHook, TypeOK, FramesOK, FrameOK, lifeVars
<1>3. ASSUME NEW t \in Threads, Unskip(t) PROVE TypeOK' /\ FramesOK'
  <2>1. useHook[t] - 1 \in Int /\ skips[t] - 1 \in Nat
    BY <1>0, <1>3 DEF Int8, Unskip
  <2>2. AsInt8(useHook[t] - 1) \in Int8
    BY <2>1, AsInt8Type
  <2> QED
    BY <1>3, <2>1, <2>2 DEF Unskip, SetHook, TypeOK, FramesOK, FrameOK, lifeVars
<1>4. ASSUME NEW t \in Threads, SetMaxAllocs(t) PROVE TypeOK' /\ FramesOK'
  BY <1>4, ThresholdsAssumption DEF SetMaxAllocs, TypeOK, FramesOK, FrameOK, lifeVars
<1>5. ASSUME NEW t \in Threads, NEW a \in Addrs, AllocIgnored(t, a) \/ CallbackAlloc(t, a)
      PROVE  TypeOK' /\ FramesOK'
  BY <1>5 DEF AllocIgnored, CallbackAlloc, TypeOK, FramesOK, FrameOK, lifeVars
<1>6. ASSUME NEW t \in Threads, NEW a \in Addrs, NEW s \in Stacks, NEW n \in Sizes,
             AllocTracked(t, a, s, n)
      PROVE  TypeOK' /\ FramesOK'
  <2> DEFINE f == [Idle EXCEPT !.pc = "add", !.ptr = a, !.stack = s,
                               !.size = n, !.saved = useHook[t]]
             g == [Idle EXCEPT !.pc = "release", !.ptr = a]
  <2>1. /\ f \in Frames /\ FrameOK(f)
        /\ g \in Frames /\ FrameOK(g)
    BY <1>0, IdleType DEF Frames, FrameOK, Tracking, Idle
  <2>2. Goto(t, f) \/ Goto(t, g)
    BY <1>6 DEF AllocTracked
  <2>3. call' \in [Threads -> Frames] /\ FramesOK'
    BY <2>1, <2>2, GotoType
  <2>4. useHook' \in [Threads -> Int8]
    BY <1>6, IdleType DEF AllocTracked, SetHook, TypeOK
  <2> QED
    BY <1>6, <2>3, <2>4 DEF AllocTracked, TypeOK, lifeVars
<1>7. ASSUME NEW t \in Threads, AddMemory(t) PROVE TypeOK' /\ FramesOK'
  <2>1. CountStack(t, book) /\ call[t].pc \in {"add", "move"} /\ book \in Books
    BY <1>7 DEF AddMemory, TypeOK
  <2>2. /\ book' \in Books /\ torn' \in TornValues /\ slots' \subseteq Slots
        /\ call' \in [Threads -> Frames] /\ FramesOK'
        /\ useHook' \in [Threads -> Int8]
        /\ mutex' \in Threads \cup {NoThread}
    BY <2>1, CountStackType
  <2> QED
    BY <1>7, <2>2 DEF AddMemory, TypeOK
<1>8. ASSUME NEW t \in Threads, StoreMemory(t) PROVE TypeOK' /\ FramesOK'
  <2> DEFINE f == call[t]
             g == [Idle EXCEPT !.pc = "release", !.ptr = f.ptr]
  <2>1. f.ptr \in Addrs /\ f.stack \in Stacks /\ f.size \in Sizes /\ f.saved \in Int8
    BY <1>0, <1>8 DEF StoreMemory, FrameOK, Frames, Tracking
  <2>2. g \in Frames /\ FrameOK(g)
    BY <2>1, IdleType DEF Frames, FrameOK, Tracking, Idle
  <2>3. AddByMemory(book, f.ptr, f.stack, f.size) \in Books /\ book \in Books
    BY <2>1, AddByMemoryType DEF TypeOK
  <2>4. book' \in Books /\ torn' \in TornValues /\ slots' \subseteq Slots
    BY <1>8, <2>3, TouchType DEF StoreMemory
  <2>5. call' \in [Threads -> Frames] /\ FramesOK'
    BY <1>8, <2>2, IdleType, GotoType DEF StoreMemory
  <2>6. useHook' \in [Threads -> Int8]
    BY <1>8, <2>1, SetHookType DEF Restored, StoreMemory
  <2>7. held' \subseteq Addrs /\ charged' \in [Addrs -> Stacks \cup {NoStack}]
    BY <1>8, <2>1 DEF StoreMemory, TypeOK
  <2> QED
    BY <1>8, <2>4, <2>5, <2>6, <2>7 DEF Unlocked, StoreMemory, TypeOK
<1>9. ASSUME NEW t \in Threads, Release(t) PROVE TypeOK' /\ FramesOK'
  <2>1. call' \in [Threads -> Frames] /\ FramesOK'
    BY <1>9, IdleType, GotoType DEF Release
  <2> QED
    BY <1>9, <2>1 DEF Release, TypeOK, lifeVars
<1>10. ASSUME NEW t \in Threads, NEW a \in Addrs, Free(t, a) PROVE TypeOK' /\ FramesOK'
  <2> DEFINE f == [Idle EXCEPT !.pc = "free", !.old = a, !.ptr = a]
             g == [Idle EXCEPT !.pc = "release", !.ptr = a]
  <2>1. /\ f \in Frames /\ FrameOK(f)
        /\ g \in Frames /\ FrameOK(g)
    BY IdleType DEF Frames, FrameOK, Tracking, Idle
  <2>2. call' \in [Threads -> Frames] /\ FramesOK'
    BY <1>10, <2>1, GotoType DEF FreeFrame, Free
  <2> QED
    BY <1>10, <2>2 DEF Free, TypeOK, lifeVars
<1>11. ASSUME NEW t \in Threads, FreeRemove(t) PROVE TypeOK' /\ FramesOK'
  <2> DEFINE a == call[t].old
             g == [Idle EXCEPT !.pc = "release", !.ptr = call[t].ptr]
  <2>1. a \in Addrs /\ call[t].ptr \in Addrs
    BY <1>0, <1>11 DEF FreeRemove, FrameOK
  <2>2. g \in Frames /\ FrameOK(g)
    BY <2>1, IdleType DEF Frames, FrameOK, Tracking, Idle
  <2>3. book' \in Books /\ torn' \in TornValues /\ slots' \subseteq Slots
    BY <1>11, <2>1, RemoveOnlyType DEF FreeRemove
  <2>4. call' \in [Threads -> Frames] /\ FramesOK'
    BY <1>11, <2>2, GotoType DEF FreeRemove
  <2> QED
    BY <1>11, <2>3, <2>4 DEF FreeRemove, TypeOK
<1>12. ASSUME NEW t \in Threads, NEW a \in Addrs, NEW b \in Addrs, NEW s \in Stacks,
              NEW n \in Sizes, ReallocMoves(t, a, b, s, n)
       PROVE  TypeOK' /\ FramesOK'
  <2> DEFINE f == [Idle EXCEPT !.pc = "move", !.old = a, !.ptr = b, !.stack = s,
                               !.size = n, !.saved = useHook[t]]
             g == [Idle EXCEPT !.pc = "release", !.ptr = b]
             h == [Idle EXCEPT !.pc = "remove", !.old = a, !.ptr = b]
  <2>1. /\ f \in Frames /\ FrameOK(f)
        /\ g \in Frames /\ FrameOK(g)
        /\ h \in Frames /\ FrameOK(h)
    BY <1>0, IdleType DEF Frames, FrameOK, Tracking, Idle
  <2>2. Goto(t, f) \/ Goto(t, g) \/ Goto(t, h) \/ UNCHANGED call
    BY <1>12 DEF ReallocMoves
  <2>3. call' \in [Threads -> Frames] /\ FramesOK'
    <3>1. CASE UNCHANGED call
      BY <3>1 DEF TypeOK, FramesOK, FrameOK
    <3> QED
      BY <2>1, <2>2, <3>1, GotoType
  <2>4. useHook' \in [Threads -> Int8]
    BY <1>12, IdleType DEF ReallocMoves, SetHook, TypeOK
  <2> QED
    BY <1>12, <2>3, <2>4 DEF ReallocMoves, TypeOK, lifeVars
<1>13. ASSUME NEW t \in Threads, NEW a \in Addrs, ReallocNull(t, a)
       PROVE  TypeOK' /\ FramesOK'
  <2> DEFINE f == [Idle EXCEPT !.pc = "remove", !.old = a]
             g == [Idle EXCEPT !.pc = "remove", !.old = a, !.ptr = a]
  <2>1. /\ f \in Frames /\ FrameOK(f)
        /\ g \in Frames /\ FrameOK(g)
    BY IdleType DEF Frames, FrameOK, Tracking, Idle
  <2>2. call' \in [Threads -> Frames] /\ FramesOK'
    BY <1>13, <2>1, GotoType DEF ReallocNull
  <2> QED
    BY <1>13, <2>2 DEF ReallocNull, TypeOK, lifeVars
<1>14. ASSUME NEW t \in Threads, RemoveAndAddMemory(t) PROVE TypeOK' /\ FramesOK'
  <2> DEFINE a == call[t].old
             g == [Idle EXCEPT !.pc = "release", !.ptr = call[t].ptr]
  <2>1. /\ a \in Addrs /\ call[t].ptr \in Addrs /\ call[t].saved \in Int8
        /\ call[t].pc \in {"add", "move"}
    BY <1>0, <1>14 DEF RemoveAndAddMemory, FrameOK, Frames, Tracking
  <2>2. g \in Frames /\ FrameOK(g)
    BY <2>1, IdleType DEF Frames, FrameOK, Tracking, Idle
  <2>3. RemMemory(book, a) \in Books
    BY <2>1, RemMemoryType DEF TypeOK
  <2>4. /\ book' \in Books /\ torn' \in TornValues /\ slots' \subseteq Slots
        /\ call' \in [Threads -> Frames] /\ FramesOK'
        /\ useHook' \in [Threads -> Int8]
        /\ mutex' \in Threads \cup {NoThread}
    <3>1. CASE torn = "up" /\ EmptiesBook(book, a)
      <4>1. Goto(t, g) /\ SetHook(t, call[t].saved)
        BY <1>14, <3>1 DEF RemoveAndAddMemory
      <4>2. call' \in [Threads -> Frames] /\ FramesOK' /\ useHook' \in [Threads -> Int8]
        BY <2>1, <2>2, <4>1, GotoType, SetHookType
      <4> QED
        BY <1>14, <2>3, <3>1, <4>2 DEF RemoveAndAddMemory, TypeOK
    <3>2. CASE ~(torn = "up" /\ EmptiesBook(book, a))
      <4>1. CountStack(t, RemMemory(book, a))
        BY <1>14, <3>2 DEF RemoveAndAddMemory
      <4> QED
        BY <2>1, <2>3, <4>1, CountStackType
    <3> QED
      BY <3>1, <3>2
  <2> QED
    BY <1>14, <2>4 DEF RemoveAndAddMemory, TypeOK
<1>15. ASSUME NEW t \in Threads, ReallocRemove(t) PROVE TypeOK' /\ FramesOK'
  <2>1. call[t].old \in Addrs /\ call[t].ptr \in Addrs \cup {NoAddr}
    BY <1>0, <1>15 DEF ReallocRemove, FrameOK, Frames
  <2>2. book' \in Books /\ torn' \in TornValues /\ slots' \subseteq Slots
    BY <1>15, <2>1, RemoveOnlyType DEF ReallocRemove
  <2>3. call' \in [Threads -> Frames] /\ FramesOK'
    BY <1>15, IdleType, GotoType DEF ReallocRemove
  <2> QED
    BY <1>15, <2>1, <2>2, <2>3 DEF Returned, ReallocRemove, TypeOK
<1>16. ASSUME NEW t \in Threads, NEW a \in Addrs, CallbackFree(t, a)
       PROVE  TypeOK' /\ FramesOK'
  <2>1. book' \in Books /\ torn' \in TornValues /\ slots' \subseteq Slots
    <3>1. CASE "free" \in slots
      BY <1>16, <3>1, RemoveOnlyType DEF CallbackFree
    <3>2. CASE "free" \notin slots
      BY <1>16, <3>2 DEF CallbackFree, TypeOK
    <3> QED
      BY <3>1, <3>2
  <2> QED
    BY <1>16, <2>1 DEF CallbackFree, TypeOK, FramesOK, FrameOK
<1>17. ASSUME NEW t \in Threads, NEW a \in Addrs, NEW b \in Addrs, NEW s \in Stacks,
              NEW n \in Sizes, CallbackRealloc(t, a, b, s, n)
       PROVE  TypeOK' /\ FramesOK'
  <2>1. AddByMemory(AddByStack(RemMemory(book, a), s), b, s, n) \in Books
    BY RemMemoryType, AddByStackType, AddByMemoryType DEF TypeOK
  <2>2. /\ book' \in Books /\ torn' \in TornValues /\ slots' \subseteq Slots
        /\ charged' \in [Addrs -> Stacks \cup {NoStack}]
    <3>1. CASE hookActive
      <4>1. Touch(AddByMemory(AddByStack(RemMemory(book, a), s), b, s, n))
        BY <1>17, <3>1 DEF CallbackRealloc
      <4> QED
        BY <1>17, <2>1, <3>1, <4>1, TouchType DEF CallbackRealloc, TypeOK
    <3>2. CASE ~hookActive /\ "realloc" \in slots
      <4>1. RemoveOnly(a)
        BY <1>17, <3>2 DEF CallbackRealloc
      <4> QED
        BY <1>17, <3>2, <4>1, RemoveOnlyType DEF CallbackRealloc, TypeOK
    <3>3. CASE ~hookActive /\ "realloc" \notin slots
      BY <1>17, <3>3 DEF CallbackRealloc, TypeOK
    <3> QED
      BY <3>1, <3>2, <3>3
  <2> QED
    BY <1>17, <2>2 DEF CallbackRealloc, TypeOK, FramesOK, FrameOK
<1>18. ASSUME NEW t \in Threads, CallbackReturn(t) PROVE TypeOK' /\ FramesOK'
  <2> DEFINE g == [call[t] EXCEPT !.pc = "store"]
  <2>1. g \in Frames /\ FrameOK(g)
    BY <1>0, <1>18 DEF CallbackReturn, Frames, FrameOK, Tracking
  <2>2. call' \in [Threads -> Frames] /\ FramesOK'
    BY <1>18, <2>1, GotoType DEF CallbackReturn
  <2> QED
    BY <1>18, <2>2 DEF CallbackReturn, TypeOK, lifeVars
<1>19. ASSUME NEW t \in Threads, ExitStarts(t) PROVE TypeOK' /\ FramesOK'
  <2> DEFINE g == [Idle EXCEPT !.pc = "clean"]
  <2>1. g \in Frames /\ FrameOK(g)
    BY IdleType DEF Frames, FrameOK, Tracking, Idle
  <2>2. call' \in [Threads -> Frames] /\ FramesOK'
    <3>1. CASE UNCHANGED call
      BY <3>1 DEF TypeOK, FramesOK, FrameOK
    <3> QED
      BY <1>19, <2>1, <3>1, GotoType DEF ExitStarts
  <2>3. useHook' \in [Threads -> Int8]
    BY <1>19, IdleType, SetHookType DEF ExitStarts
  <2> QED
    BY <1>19, <2>2, <2>3 DEF ExitStarts, TypeOK
<1>20. ASSUME NEW t \in Threads, Clean(t) PROVE TypeOK' /\ FramesOK'
  <2>1. call' \in [Threads -> Frames] /\ FramesOK' /\ useHook' \in [Threads -> Int8]
    BY <1>20, IdleType, GotoType, SetHookType DEF Clean
  <2> QED
    BY <1>20, <2>1 DEF Clean, TypeOK
<1>21. ASSUME NEW t \in Threads, HookClean(t) PROVE TypeOK' /\ FramesOK'
  BY <1>21 DEF HookClean, TypeOK, FramesOK, FrameOK
<1> QED
  BY <1>1, <1>2, <1>3, <1>4, <1>5, <1>6, <1>7, <1>8, <1>9, <1>10, <1>11, <1>12, <1>13,
     <1>14, <1>15, <1>16, <1>17, <1>18, <1>19, <1>20, <1>21 DEF Next, Finish

(* Every variable keeps its type, and every frame the fields its pc needs.  *)
THEOREM TypeCorrect == Spec => [](TypeOK /\ FramesOK)
BY TypeInit, TypeStep, PTL DEF Spec

-----------------------------------------------------------------------------
(* Mutual exclusion and the book.  A step either leaves every thread's place relative to  *)
(* the critical section and the mutex alone, or one thread enters, or the    *)
(* holder leaves.                                                            *)
SectionSame ==
    /\ mutex' = mutex
    /\ \A u \in Threads : /\ InSection(u)' = InSection(u)
                          /\ InSection(u) => call'[u].stack = call[u].stack

Enters(t) ==
    /\ MutexFree(t) /\ ~InSection(t)
    /\ mutex' = t
    /\ InSection(t)'
    /\ call'[t].stack = call[t].stack
    /\ \A u \in Threads \ {t} : call'[u] = call[u]

Leaves(t) ==
    /\ InSection(t)
    /\ mutex' = NoThread
    /\ ~InSection(t)'
    /\ \A u \in Threads \ {t} : call'[u] = call[u]

LEMMA RemoveOnlyBook ==
    ASSUME NEW a \in Addrs, RemoveOnly(a)
    PROVE  book' = RemMemory(book, a)
BY DEF RemoveOnly, Touch

(* A frame of a thread that was and stays outside the section.               *)
LEMMA GotoOutside ==
    ASSUME TypeOK, NEW t \in Threads, NEW f, Goto(t, f), mutex' = mutex,
           ~InSection(t), f.pc \notin {"callback", "store"}
    PROVE  SectionSame
BY DEF TypeOK, Goto, SectionSame, InSection

LEMMA CallSame ==
    ASSUME UNCHANGED <<mutex, call>>
    PROVE  SectionSame
BY DEF SectionSame, InSection

LEMMA CountStackSection ==
    ASSUME TypeOK, NEW t \in Threads, NEW b, MutexFree(t), ~InSection(t), CountStack(t, b)
    PROVE  \/ SectionSame /\ book' = b
           \/ Enters(t) /\ book' = AddByStack(b, call[t].stack)
<1> DEFINE f == call[t]
<1>1. f \in Frames
  BY DEF TypeOK
<1>2. CASE /\ Touch(AddByStack(b, f.stack))
           /\ mutex' = t
           /\ Goto(t, [f EXCEPT !.pc = IF RaisesEvent(b, f.stack)
                                       THEN "callback" ELSE "store"])
  <2>1. call'[t] = [f EXCEPT !.pc = IF RaisesEvent(b, f.stack)
                                    THEN "callback" ELSE "store"]
    BY <1>2 DEF Goto, TypeOK
  <2>2. InSection(t)' /\ call'[t].stack = f.stack
    BY <1>1, <2>1 DEF Frames, InSection
  <2>3. \A u \in Threads \ {t} : call'[u] = call[u]
    BY <1>2 DEF Goto, TypeOK
  <2> QED
    BY <1>2, <2>2, <2>3 DEF Enters, Touch
<1>3. CASE /\ Touch(b)
           /\ Goto(t, [Idle EXCEPT !.pc = "release", !.ptr = f.ptr])
           /\ mutex' = mutex
  BY <1>3, GotoOutside DEF Touch, Idle
<1> QED
  BY <1>2, <1>3 DEF CountStack

(* Which of the three every action of Next is, with what it does to the book. *)
Sections ==
    \/ SectionSame /\ book' = book
    \/ \E a \in Addrs : SectionSame /\ book' = RemMemory(book, a)
    \/ \E a, b \in Addrs, s \in Stacks, n \in Sizes :
          SectionSame /\ book' = AddByMemory(AddByStack(RemMemory(book, a), s), b, s, n)
    \/ \E t \in Threads :
          /\ Enters(t)
          /\ call[t].stack \in Stacks
          /\ \/ book' = AddByStack(book, call[t].stack)
             \/ \E a \in Addrs : book' = AddByStack(RemMemory(book, a), call[t].stack)
    \/ \E t \in Threads :
          /\ Leaves(t)
          /\ call[t].ptr \in Addrs /\ call[t].stack \in Stacks /\ call[t].size \in Sizes
          /\ \/ book' = AddByMemory(book, call[t].ptr, call[t].stack, call[t].size)
             \/ book' = book

LEMMA SectionMoves == TypeOK /\ FramesOK /\ [Next]_vars => Sections
<1> SUFFICES ASSUME TypeOK, FramesOK, [Next]_vars PROVE Sections
  OBVIOUS
<1>0. ASSUME NEW t \in Threads PROVE FrameOK(call[t])
  BY DEF FramesOK
<1> USE DEF Idle
<1>1. CASE UNCHANGED vars
  BY <1>1, CallSame DEF vars, Sections
<1>2. ASSUME NEW t \in Threads, AddMemory(t) PROVE Sections
  <2>1. /\ MutexFree(t) /\ ~InSection(t) /\ CountStack(t, book)
        /\ call[t].stack \in Stacks
    BY <1>0, <1>2 DEF AddMemory, FrameOK, Tracking, InSection
  <2> QED
    BY <2>1, CountStackSection DEF Sections
<1>3. ASSUME NEW t \in Threads, RemoveAndAddMemory(t) PROVE Sections
  <2> DEFINE a == call[t].old
  <2>1. /\ MutexFree(t) /\ ~InSection(t)
        /\ call[t].stack \in Stacks /\ a \in Addrs
    BY <1>0, <1>3 DEF RemoveAndAddMemory, FrameOK, Tracking, InSection
  <2>2. CASE torn = "up" /\ EmptiesBook(book, a)
    <3>1. SectionSame /\ book' = RemMemory(book, a)
      BY <1>3, <2>1, <2>2, GotoOutside DEF RemoveAndAddMemory
    <3> QED
      BY <2>1, <3>1 DEF Sections
  <2>3. CASE ~(torn = "up" /\ EmptiesBook(book, a))
    <3>1. CountStack(t, RemMemory(book, a))
      BY <1>3, <2>3 DEF RemoveAndAddMemory
    <3> QED
      BY <2>1, <3>1, CountStackSection DEF Sections
  <2> QED
    BY <2>2, <2>3
<1>4. ASSUME NEW t \in Threads, StoreMemory(t) PROVE Sections
  <2>1. call[t].ptr \in Addrs /\ call[t].stack \in Stacks /\ call[t].size \in Sizes
    BY <1>0, <1>4 DEF StoreMemory, FrameOK, Tracking
  <2>2. Leaves(t)
    <3>1. PICK f : Goto(t, f) /\ f.pc \in {"app", "release"}
      <4> DEFINE g == [Idle EXCEPT !.pc = "release", !.ptr = call[t].ptr]
      <4>1. Goto(t, Idle) \/ Goto(t, g)
        BY <1>4 DEF StoreMemory
      <4>2. Idle.pc = "app" /\ g.pc = "release"
        OBVIOUS
      <4> HIDE DEF g, Idle
      <4> QED
        BY <4>1, <4>2
    <3>2. call'[t] = f /\ \A u \in Threads \ {t} : call'[u] = call[u]
      BY <3>1 DEF Goto, TypeOK
    <3> QED
      BY <1>4, <3>1, <3>2 DEF Unlocked, StoreMemory, Leaves, InSection
  <2>3. \/ book' = AddByMemory(book, call[t].ptr, call[t].stack, call[t].size)
        \/ book' = book
    BY <1>4 DEF StoreMemory, Touch
  <2> QED
    BY <2>1, <2>2, <2>3 DEF Sections
<1>5. ASSUME NEW t \in Threads, FreeRemove(t) \/ ReallocRemove(t) PROVE Sections
  <2>1. call[t].old \in Addrs
    BY <1>0, <1>5 DEF FreeRemove, ReallocRemove, FrameOK
  <2>2. book' = RemMemory(book, call[t].old)
    BY <1>5, <2>1, RemoveOnlyBook DEF FreeRemove, ReallocRemove
  <2>3. SectionSame
    BY <1>5, GotoOutside DEF FreeRemove, ReallocRemove, InSection
  <2> QED
    BY <2>1, <2>2, <2>3 DEF Sections
<1>6. ASSUME NEW t \in Threads, NEW a \in Addrs, CallbackFree(t, a) PROVE Sections
  <2>1. book' = RemMemory(book, a) \/ book' = book
    BY <1>6, RemoveOnlyBook DEF CallbackFree
  <2>2. SectionSame
    BY <1>6, CallSame DEF CallbackFree
  <2> QED
    BY <2>1, <2>2 DEF Sections
<1>7. ASSUME NEW t \in Threads, NEW a \in Addrs, NEW b \in Addrs, NEW s \in Stacks,
             NEW n \in Sizes, CallbackRealloc(t, a, b, s, n)
      PROVE  Sections
  <2>1. \/ book' = AddByMemory(AddByStack(RemMemory(book, a), s), b, s, n)
        \/ book' = RemMemory(book, a)
        \/ book' = book
    BY <1>7, RemoveOnlyBook DEF CallbackRealloc, Touch
  <2>2. SectionSame
    BY <1>7, CallSame DEF CallbackRealloc
  <2> QED
    BY <2>1, <2>2 DEF Sections
<1>8. ASSUME NEW t \in Threads, Skip(t) \/ Unskip(t) \/ SetMaxAllocs(t) \/ HookClean(t)
      PROVE  Sections
  BY <1>8, CallSame DEF Skip, Unskip, SetMaxAllocs, HookClean, Sections
<1>9. ASSUME NEW t \in Threads, Release(t) \/ Clean(t) \/ ExitStarts(t)
      PROVE  Sections
  <2>1. CASE UNCHANGED call
    BY <1>9, <2>1, CallSame DEF Release, Clean, ExitStarts, Sections
  <2>2. CASE ~UNCHANGED call
    BY <1>9, <2>2, GotoOutside DEF Release, Clean, ExitStarts, Sections, InSection
  <2> QED
    BY <2>1, <2>2
<1>10. ASSUME NEW t \in Threads, CallbackReturn(t) PROVE Sections
  <2>1. call' = [call EXCEPT ![t] = [call[t] EXCEPT !.pc = "store"]]
    BY <1>10 DEF CallbackReturn, Goto
  <2>2. call[t] \in Frames /\ call \in [Threads -> Frames]
    BY DEF TypeOK
  <2>3. call'[t].pc = "store" /\ call'[t].stack = call[t].stack
    BY <2>1, <2>2 DEF Frames
  <2>4. \A u \in Threads \ {t} : call'[u] = call[u]
    BY <2>1, <2>2
  <2>5. SectionSame
    BY <1>10, <2>3, <2>4 DEF CallbackReturn, SectionSame, InSection
  <2> QED
    BY <1>10, <2>5 DEF CallbackReturn, Sections
<1>11. ASSUME NEW t \in Threads, NEW a \in Addrs, AllocIgnored(t, a) \/ CallbackAlloc(t, a)
       PROVE  Sections
  BY <1>11, CallSame DEF AllocIgnored, CallbackAlloc, Sections
<1>12. ASSUME NEW t \in Threads, NEW a \in Addrs, Free(t, a) \/ ReallocNull(t, a)
       PROVE  Sections
  BY <1>12, GotoOutside DEF FreeFrame, Free, ReallocNull, Sections, InSection
<1>13. ASSUME NEW t \in Threads, NEW a \in Addrs, NEW s \in Stacks, NEW n \in Sizes,
              AllocTracked(t, a, s, n)
       PROVE  Sections
  BY <1>13, GotoOutside DEF AllocTracked, Sections, InSection
<1>14. ASSUME NEW t \in Threads, NEW a \in Addrs, NEW b \in Addrs, NEW s \in Stacks,
              NEW n \in Sizes, ReallocMoves(t, a, b, s, n)
       PROVE  Sections
  <2>1. CASE UNCHANGED call
    BY <1>14, <2>1, CallSame DEF ReallocMoves, Sections
  <2>2. CASE ~UNCHANGED call
    BY <1>14, <2>2, GotoOutside DEF ReallocMoves, Sections, InSection
  <2> QED
    BY <2>1, <2>2
<1> QED
  BY <1>1, <1>2, <1>3, <1>4, <1>5, <1>6, <1>7, <1>8, <1>9, <1>10, <1>11, <1>12, <1>13,
     <1>14 DEF Next, Finish

(* What a step can do to the book: nothing, or a chain of the operators.     *)
BookStep ==
    \/ book' = book
    \/ \E a \in Addrs : book' = RemMemory(book, a)
    \/ \E s \in Stacks : book' = AddByStack(book, s)
    \/ \E a \in Addrs, s \in Stacks : book' = AddByStack(RemMemory(book, a), s)
    \/ \E a \in Addrs, s \in Stacks, n \in Sizes : book' = AddByMemory(book, a, s, n)
    \/ \E a, b \in Addrs, s \in Stacks, n \in Sizes :
          book' = AddByMemory(AddByStack(RemMemory(book, a), s), b, s, n)

LEMMA BookMoves == TypeOK /\ FramesOK /\ [Next]_vars => BookStep
<1>1. Sections => BookStep
  BY DEF Sections, BookStep
<1> QED
  BY <1>1, SectionMoves

LEMMA MutexStep == TypeOK /\ MutexOK /\ Sections => MutexOK'
<1> SUFFICES ASSUME TypeOK, MutexOK, Sections PROVE MutexOK'
  OBVIOUS
<1>1. CASE SectionSame
  BY <1>1 DEF SectionSame, MutexOK, InSection
<1>2. ASSUME NEW t \in Threads, Enters(t) PROVE MutexOK'
  BY <1>2, ThreadsAssumption DEF Enters, MutexOK, MutexFree, InSection
<1>3. ASSUME NEW t \in Threads, Leaves(t) PROVE MutexOK'
  BY <1>3, ThreadsAssumption DEF Leaves, MutexOK, InSection
<1> QED
  BY <1>1, <1>2, <1>3 DEF Sections

(* MutexOK: only the holder of s_hashMutex is between the count of a stack   *)
(* and the store of the pointer, whatever the callback does meanwhile.       *)
THEOREM MutexOKHolds == Spec => []MutexOK
<1>1. Init => MutexOK
  BY ThreadsAssumption DEF Init, MutexOK, InSection, Idle
<1>2. TypeOK /\ FramesOK /\ MutexOK /\ [Next]_vars => MutexOK'
  BY SectionMoves, MutexStep
<1> QED
  BY <1>1, <1>2, TypeCorrect, PTL DEF Spec

-----------------------------------------------------------------------------
(* The high-water mark. *)
LEMMA AddByStackBelow ==
    ASSUME NEW b \in Books, NEW s \in Stacks, BelowHighWater(b)
    PROVE  BelowHighWater(AddByStack(b, s))
<1>1. /\ b.hashByStack \in [Stacks -> Nat]
      /\ b.numberOfEvents \in Nat
      /\ b.allocsMaxUpToNow \in Nat
  BY DEF Books
<1> DEFINE c == AddByStack(b, s)
           k == b.hashByStack[s] + 1
<1>2. /\ c.hashByStack = [b.hashByStack EXCEPT ![s] = k]
      /\ c.allocsMaxUpToNow = IF k > b.allocsMaxUpToNow THEN k ELSE b.allocsMaxUpToNow
      /\ c.numberOfEvents = IF RaisesEvent(b, s) THEN b.numberOfEvents + 1
                                                 ELSE b.numberOfEvents
  BY DEF AddByStack, Books
<1>3. RaisesEvent(b, s) => k > b.allocsMaxUpToNow
  BY DEF RaisesEvent
<1>4. k \in Nat
  BY <1>1
<1> HIDE DEF c, k
<1>5. c.numberOfEvents <= c.allocsMaxUpToNow
  BY <1>1, <1>2, <1>3, <1>4 DEF BelowHighWater
<1>6. ASSUME NEW r \in Stacks PROVE c.hashByStack[r] <= c.allocsMaxUpToNow
  <2>1. b.hashByStack[r] <= b.allocsMaxUpToNow /\ b.hashByStack[r] \in Nat
    BY <1>1 DEF BelowHighWater
  <2>2. c.hashByStack[r] = IF r = s THEN k ELSE b.hashByStack[r]
    BY <1>1, <1>2
  <2> QED
    BY <1>1, <1>2, <1>4, <2>1, <2>2
<1> QED
  BY <1>5, <1>6 DEF BelowHighWater, c

LEMMA AddByMemoryBelow ==
    ASSUME NEW b \in Books, NEW a, NEW s, NEW n, BelowHighWater(b)
    PROVE  BelowHighWater(AddByMemory(b, a, s, n))
BY DEF BelowHighWater, AddByMemory, Books

LEMMA RemMemoryBelow ==
    ASSUME NEW b \in Books, NEW a \in Addrs, BelowHighWater(b)
    PROVE  BelowHighWater(RemMemory(b, a))
<1>1. CASE b.hashByMemory[a] = NoEntry
  BY <1>1 DEF RemMemory
<1>2. CASE b.hashByMemory[a] # NoEntry
  <2> DEFINE c == RemMemory(b, a)
             e == b.hashByMemory[a].stack
  <2>1. /\ b.hashByStack \in [Stacks -> Nat]
        /\ b.allocsMaxUpToNow \in Nat
    BY DEF Books
  <2>2. /\ c.hashByStack = [b.hashByStack EXCEPT ![e] = IF @ - 1 < 1 THEN 0 ELSE @ - 1]
        /\ c.allocsMaxUpToNow = b.allocsMaxUpToNow
        /\ c.numberOfEvents = b.numberOfEvents
    BY <1>2 DEF CountDown, RemMemory, Books
  <2> HIDE DEF c, e
  <2>3. ASSUME NEW r \in Stacks PROVE c.hashByStack[r] <= c.allocsMaxUpToNow
    <3>1. b.hashByStack[r] <= b.allocsMaxUpToNow /\ b.hashByStack[r] \in Nat
      BY <2>1 DEF BelowHighWater
    <3>2. \/ c.hashByStack[r] = b.hashByStack[r]
          \/ c.hashByStack[r] = IF b.hashByStack[r] - 1 < 1 THEN 0 ELSE b.hashByStack[r] - 1
      BY <2>1, <2>2
    <3> QED
      BY <2>1, <2>2, <3>1, <3>2
  <2> QED
    BY <2>2, <2>3 DEF BelowHighWater, c
<1> QED
  BY <1>1, <1>2

LEMMA BelowStep == TypeOK /\ HighWaterMark /\ BookStep => HighWaterMark'
<1> SUFFICES ASSUME book \in Books, BelowHighWater(book), BookStep
             PROVE  BelowHighWater(book')
  BY DEF TypeOK, HighWaterMark, BelowHighWater
<1>1. ASSUME NEW a \in Addrs
      PROVE  RemMemory(book, a) \in Books /\ BelowHighWater(RemMemory(book, a))
  BY RemMemoryType, RemMemoryBelow
<1>2. ASSUME NEW a \in Addrs, NEW s \in Stacks
      PROVE  /\ AddByStack(RemMemory(book, a), s) \in Books
             /\ BelowHighWater(AddByStack(RemMemory(book, a), s))
  BY <1>1, AddByStackType, AddByStackBelow
<1> QED
  BY <1>1, <1>2, AddByStackBelow, AddByMemoryBelow DEF BookStep

(* HighWaterMark, from AnalyzeStackSituationInline: allocsMaxUpToNow bounds  *)
(* the count of every stack and the number of events, always.                *)
THEOREM HighWaterMarkHolds == Spec => []HighWaterMark
<1>1. Init => HighWaterMark
  BY DEF Init, HighWaterMark, BelowHighWater, EmptyBook
<1>2. TypeOK /\ FramesOK /\ HighWaterMark /\ [Next]_vars => HighWaterMark'
  BY BookMoves, BelowStep
<1> QED
  BY <1>1, <1>2, TypeCorrect, PTL DEF Spec

-----------------------------------------------------------------------------
(* The count of a stack covers its entries.  Covers(b, s, k): the book can   *)
(* spare k units of the count of s.                                          *)
Covers(b, s, k) == b.hashByStack[s] >= Cardinality(EntriesOf(b, s)) + k

One(P) == IF P THEN 1 ELSE 0

LEMMA EntriesFinite ==
    ASSUME NEW b, NEW s
    PROVE  IsFiniteSet(EntriesOf(b, s)) /\ Cardinality(EntriesOf(b, s)) \in Nat
<1>1. EntriesOf(b, s) \subseteq Addrs
  BY DEF EntriesOf, Tracked
<1> QED
  BY <1>1, AddrsAssumption, FS_Subset, FS_CardinalityType

(* Counting a stack adds one unit to spare on it and none elsewhere. *)
LEMMA AddByStackCovers ==
    ASSUME NEW b \in Books, NEW s \in Stacks, NEW r \in Stacks, NEW k \in {0, 1},
           Covers(b, r, k)
    PROVE  Covers(AddByStack(b, s), r, IF r = s THEN k + 1 ELSE k)
<1> DEFINE c == AddByStack(b, s)
<1>1. b.hashByStack \in [Stacks -> Nat]
  BY DEF Books
<1>2. /\ c.hashByStack = [b.hashByStack EXCEPT ![s] = @ + 1]
      /\ c.hashByMemory = b.hashByMemory
  BY DEF AddByStack, Books
<1>3. EntriesOf(c, r) = EntriesOf(b, r)
  BY <1>2 DEF EntriesOf, Tracked
<1>4. Cardinality(EntriesOf(b, r)) \in Nat
  BY EntriesFinite
<1> HIDE DEF c
<1>5. c.hashByStack[r] = IF r = s THEN b.hashByStack[r] + 1 ELSE b.hashByStack[r]
  BY <1>1, <1>2
<1>6. b.hashByStack[r] \in Nat
  BY <1>1
<1>7. Covers(c, r, IF r = s THEN k + 1 ELSE k)
  BY <1>3, <1>4, <1>5, <1>6 DEF Covers
<1> QED
  BY <1>7 DEF c

(* Storing a pointer uses at most one unit of its stack. *)
LEMMA AddByMemoryCovers ==
    ASSUME NEW b \in Books, NEW a \in Addrs, NEW s \in Stacks, NEW n \in Sizes,
           NEW r \in Stacks, NEW k \in {0, 1},
           Covers(b, r, IF r = s THEN k + 1 ELSE k)
    PROVE  Covers(AddByMemory(b, a, s, n), r, k)
<1> DEFINE c == AddByMemory(b, a, s, n)
<1>1. b.hashByStack[r] \in Nat /\ Cardinality(EntriesOf(b, r)) \in Nat
  BY EntriesFinite DEF Books
<1>2. CASE b.hashByMemory[a] # NoEntry
  <2>1. c = b
    BY <1>2 DEF AddByMemory
  <2> HIDE DEF c
  <2>2. Covers(c, r, k)
    BY <1>1, <2>1 DEF Covers
  <2> QED
    BY <2>2 DEF c
<1>3. CASE b.hashByMemory[a] = NoEntry
  <2> DEFINE e == [stack |-> s, size |-> n]
  <2>1. /\ c.hashByStack = b.hashByStack
        /\ c.hashByMemory = [b.hashByMemory EXCEPT ![a] = e]
    BY <1>3 DEF AddByMemory, Books
  <2>2. e \in Entries /\ e # NoEntry /\ e.stack = s
    BY EntriesAssumption DEF Entries
  <2>3. b.hashByMemory \in [Addrs -> Entries \cup {NoEntry}]
    BY DEF Books
  <2> HIDE DEF c, e
  <2>4. EntriesOf(c, r) = IF r = s THEN EntriesOf(b, r) \cup {a} ELSE EntriesOf(b, r)
    BY <1>3, <2>1, <2>2, <2>3 DEF EntriesOf, Tracked
  <2>5. a \notin EntriesOf(b, r)
    BY <1>3 DEF EntriesOf, Tracked
  <2>6. Cardinality(EntriesOf(c, r)) =
            IF r = s THEN Cardinality(EntriesOf(b, r)) + 1 ELSE Cardinality(EntriesOf(b, r))
    BY <2>4, <2>5, EntriesFinite, FS_AddElement
  <2>7. Covers(c, r, k)
    BY <1>1, <2>1, <2>6 DEF Covers
  <2> QED
    BY <2>7 DEF c
<1> QED
  BY <1>2, <1>3

(* A removal takes one unit off the count and the entry that used it. *)
LEMMA RemMemoryCovers ==
    ASSUME NEW b \in Books, NEW a \in Addrs, NEW r \in Stacks, NEW k \in {0, 1},
           Covers(b, r, k)
    PROVE  Covers(RemMemory(b, a), r, k)
<1>1. CASE b.hashByMemory[a] = NoEntry
  BY <1>1 DEF RemMemory
<1>2. CASE b.hashByMemory[a] # NoEntry
  <2> DEFINE c == RemMemory(b, a)
             s == b.hashByMemory[a].stack
  <2>1. /\ c.hashByStack = [b.hashByStack EXCEPT ![s] = IF @ - 1 < 1 THEN 0 ELSE @ - 1]
        /\ c.hashByMemory = [b.hashByMemory EXCEPT ![a] = NoEntry]
    BY <1>2 DEF CountDown, RemMemory, Books
  <2>2. /\ b.hashByStack \in [Stacks -> Nat]
        /\ b.hashByMemory \in [Addrs -> Entries \cup {NoEntry}]
    BY DEF Books
  <2>3. /\ b.hashByStack[r] \in Nat
        /\ IsFiniteSet(EntriesOf(b, r)) /\ Cardinality(EntriesOf(b, r)) \in Nat
    BY <2>2, EntriesFinite
  <2> HIDE DEF c
  <2>4. EntriesOf(c, r) = EntriesOf(b, r) \ {a}
    BY <2>1, <2>2 DEF EntriesOf, Tracked
  <2>5. CASE r = s
    <3>1. a \in EntriesOf(b, r)
      BY <1>2, <2>5 DEF EntriesOf, Tracked
    <3>2. Cardinality(EntriesOf(c, r)) = Cardinality(EntriesOf(b, r)) - 1
      BY <2>3, <2>4, <3>1, FS_RemoveElement
    <3>3. Cardinality(EntriesOf(b, r)) # 0
      BY <2>3, <3>1, FS_EmptySet
    <3>4. c.hashByStack[r] = IF b.hashByStack[r] - 1 < 1 THEN 0 ELSE b.hashByStack[r] - 1
      BY <2>1, <2>2, <2>5
    <3>5. Covers(c, r, k)
      BY <2>3, <3>2, <3>3, <3>4 DEF Covers
    <3> QED
      BY <3>5 DEF c
  <2>6. CASE r # s
    <3>1. a \notin EntriesOf(b, r)
      BY <2>6 DEF EntriesOf
    <3>2. EntriesOf(c, r) = EntriesOf(b, r)
      BY <2>4, <3>1
    <3>3. c.hashByStack[r] = b.hashByStack[r]
      BY <2>1, <2>2, <2>6
    <3>4. Covers(c, r, k)
      BY <3>2, <3>3 DEF Covers
    <3> QED
      BY <3>4 DEF c
  <2> QED
    BY <2>5, <2>6
<1> QED
  BY <1>1, <1>2

LEMMA CountsAsCovers ==
    CountsCoverEntries <=> \A s \in Stacks : Covers(book, s, One(Pending(s)))
BY DEF CountsCoverEntries, Covers, One

LEMMA CountsStep == TypeOK /\ MutexOK /\ CountsCoverEntries /\ Sections => CountsCoverEntries'
<1> SUFFICES ASSUME TypeOK, MutexOK, CountsCoverEntries, Sections, NEW r \in Stacks
             PROVE  Covers(book', r, One(Pending(r)'))
  BY DEF CountsCoverEntries, Covers, One
<1>1. book \in Books /\ Covers(book, r, One(Pending(r))) /\ One(Pending(r)) \in {0, 1}
  BY CountsAsCovers DEF TypeOK, One
<1>2. CASE SectionSame
  <2>1. Pending(r)' = Pending(r)
    BY <1>2 DEF SectionSame, Pending, InSection
  <2>2. One(Pending(r)') = One(Pending(r))
    BY <2>1
  <2> DEFINE k == One(Pending(r))
  <2> HIDE DEF k
  <2>3. Covers(book, r, k) /\ k \in {0, 1}
    BY <1>1 DEF k
  <2>4. CASE book' = book
    BY <1>1, <2>2, <2>4
  <2>5. ASSUME NEW a \in Addrs, book' = RemMemory(book, a) PROVE Covers(book', r, k)
    BY <1>1, <2>3, <2>5, RemMemoryCovers
  <2>6. ASSUME NEW a \in Addrs, NEW b \in Addrs, NEW s \in Stacks, NEW n \in Sizes,
               book' = AddByMemory(AddByStack(RemMemory(book, a), s), b, s, n)
        PROVE  Covers(book', r, k)
    <3>1. RemMemory(book, a) \in Books /\ AddByStack(RemMemory(book, a), s) \in Books
      BY <1>1, RemMemoryType, AddByStackType
    <3>2. Covers(RemMemory(book, a), r, k)
      BY <1>1, <2>3, RemMemoryCovers
    <3>3. Covers(AddByStack(RemMemory(book, a), s), r, IF r = s THEN k + 1 ELSE k)
      BY <2>3, <3>1, <3>2, AddByStackCovers
    <3> QED
      BY <2>3, <2>6, <3>1, <3>3, AddByMemoryCovers
  <2>7. \/ book' = book
        \/ \E a \in Addrs : book' = RemMemory(book, a)
        \/ \E a, b \in Addrs, s \in Stacks, n \in Sizes :
              book' = AddByMemory(AddByStack(RemMemory(book, a), s), b, s, n)
    BY <1>2, ThreadsAssumption DEF Sections, SectionSame, Enters, Leaves
  <2> QED
    BY <2>2, <2>4, <2>5, <2>6, <2>7 DEF k
<1>3. ASSUME NEW t \in Threads, Enters(t), call[t].stack \in Stacks,
             \/ book' = AddByStack(book, call[t].stack)
             \/ \E a \in Addrs : book' = AddByStack(RemMemory(book, a), call[t].stack)
      PROVE  Covers(book', r, One(Pending(r)'))
  <2> DEFINE s == call[t].stack
  <2>1. \A u \in Threads : ~InSection(u)
    BY <1>3, ThreadsAssumption DEF Enters, MutexOK, MutexFree
  <2>2. ~Pending(r) /\ (Pending(r)' <=> r = s)
    BY <1>3, <2>1 DEF Pending, Enters, InSection
  <2>3. Covers(book, r, 0)
    BY <1>1, <2>2 DEF One
  <2>4. PICK b \in Books : Covers(b, r, 0) /\ book' = AddByStack(b, s)
    BY <1>1, <1>3, <2>3, RemMemoryType, RemMemoryCovers
  <2>5. Covers(book', r, IF r = s THEN 1 ELSE 0)
    BY <1>3, <2>4, AddByStackCovers
  <2> QED
    BY <2>2, <2>5 DEF One
<1>4. ASSUME NEW t \in Threads, Leaves(t),
             call[t].ptr \in Addrs, call[t].stack \in Stacks, call[t].size \in Sizes,
             \/ book' = AddByMemory(book, call[t].ptr, call[t].stack, call[t].size)
             \/ book' = book
      PROVE  Covers(book', r, One(Pending(r)'))
  <2> DEFINE s == call[t].stack
  <2>1. \A u \in Threads : InSection(u) <=> u = t
    BY <1>4 DEF Leaves, MutexOK
  <2>2. Pending(r) <=> r = s
    BY <1>4, <2>1 DEF Pending
  <2>3. ~Pending(r)'
    BY <1>4, <2>1 DEF Pending, Leaves, InSection
  <2>4. Covers(book, r, IF r = s THEN 1 ELSE 0)
    BY <1>1, <2>2 DEF One
  <2>5. book.hashByStack[r] \in Nat /\ Cardinality(EntriesOf(book, r)) \in Nat
    BY <1>1, EntriesFinite DEF Books
  <2>6. Covers(book, r, 0)
    BY <2>4, <2>5 DEF Covers
  <2>7. Covers(book', r, 0)
    BY <1>1, <1>4, <2>4, <2>6, AddByMemoryCovers
  <2> QED
    BY <2>3, <2>7 DEF One
<1> QED
  BY <1>2, <1>3, <1>4 DEF Sections

(* CountsCoverEntries: the item of a stack is never released while an entry  *)
(* or a pending allocation still points at it, so the hashes hold no         *)
(* dangling pStackData.  This is weaker than an exact count, and all that    *)
(* survives the window of realloc.                                           *)
THEOREM CountsCoverEntriesHolds == Spec => []CountsCoverEntries
<1>1. Init => CountsCoverEntries
  <2> SUFFICES ASSUME Init, NEW s \in Stacks PROVE Covers(book, s, One(Pending(s)))
    BY DEF CountsCoverEntries, Covers, One
  <2>1. EntriesOf(book, s) = {} /\ book.hashByStack[s] = 0
    BY DEF Init, EmptyBook, EntriesOf, Tracked
  <2>2. ~Pending(s)
    BY DEF Init, Pending, InSection, Idle
  <2> QED
    BY <2>1, <2>2, FS_EmptySet DEF Covers, One
<1>2. TypeOK /\ FramesOK /\ MutexOK /\ CountsCoverEntries /\ [Next]_vars
        => CountsCoverEntries'
  BY SectionMoves, CountsStep
<1> QED
  BY <1>1, <1>2, TypeCorrect, MutexOKHolds, PTL DEF Spec

-----------------------------------------------------------------------------
(* One event for each new maximum above a threshold nobody changes. *)
EventsMatch(b) ==
    b.numberOfEvents = IF b.allocsMaxUpToNow > maxAllocs
                       THEN b.allocsMaxUpToNow - maxAllocs ELSE 0

LEMMA AddByStackEvents ==
    ASSUME NEW b \in Books, NEW s \in Stacks, maxAllocs \in Int,
           BelowHighWater(b), EventsMatch(b)
    PROVE  EventsMatch(AddByStack(b, s))
<1> DEFINE c == AddByStack(b, s)
           k == b.hashByStack[s] + 1
           m == b.allocsMaxUpToNow
<1>1. /\ c.allocsMaxUpToNow = IF k > m THEN k ELSE m
      /\ c.numberOfEvents = IF RaisesEvent(b, s) THEN b.numberOfEvents + 1
                                                 ELSE b.numberOfEvents
  BY DEF AddByStack, Books
<1>2. RaisesEvent(b, s) <=> k > m /\ k > maxAllocs
  BY DEF RaisesEvent
<1>3. k \in Nat /\ m \in Nat /\ k <= m + 1 /\ b.numberOfEvents \in Nat
  BY DEF Books, BelowHighWater
<1>4. b.numberOfEvents = IF m > maxAllocs THEN m - maxAllocs ELSE 0
  BY DEF EventsMatch
<1> HIDE DEF c, k, m
<1>5. c.numberOfEvents = IF c.allocsMaxUpToNow > maxAllocs
                         THEN c.allocsMaxUpToNow - maxAllocs ELSE 0
  BY <1>1, <1>2, <1>3, <1>4
<1> QED
  BY <1>5 DEF EventsMatch, c

LEMMA OtherEvents ==
    ASSUME NEW b \in Books, NEW a, NEW s, NEW n, EventsMatch(b)
    PROVE  EventsMatch(AddByMemory(b, a, s, n)) /\ EventsMatch(RemMemory(b, a))
<1>1. /\ AddByMemory(b, a, s, n).numberOfEvents = b.numberOfEvents
      /\ AddByMemory(b, a, s, n).allocsMaxUpToNow = b.allocsMaxUpToNow
      /\ RemMemory(b, a).numberOfEvents = b.numberOfEvents
      /\ RemMemory(b, a).allocsMaxUpToNow = b.allocsMaxUpToNow
  BY DEF AddByMemory, RemMemory, Books
<1> QED
  BY <1>1 DEF EventsMatch

LEMMA EventsStep ==
    TypeOK /\ HighWaterMark /\ EventsMatch(book) /\ BookStep => EventsMatch(book')
<1> SUFFICES ASSUME book \in Books, maxAllocs \in Int, BelowHighWater(book),
                    EventsMatch(book), BookStep
             PROVE  EventsMatch(book')
  BY DEF TypeOK, HighWaterMark
<1>1. ASSUME NEW a \in Addrs
      PROVE  /\ RemMemory(book, a) \in Books /\ BelowHighWater(RemMemory(book, a))
             /\ EventsMatch(RemMemory(book, a))
  BY RemMemoryType, RemMemoryBelow, OtherEvents
<1>2. ASSUME NEW a \in Addrs, NEW s \in Stacks
      PROVE  /\ AddByStack(RemMemory(book, a), s) \in Books
             /\ EventsMatch(AddByStack(RemMemory(book, a), s))
  BY <1>1, AddByStackType, AddByStackEvents
<1> QED
  BY <1>1, <1>2, AddByStackEvents, OtherEvents DEF BookStep

LEMMA MaxAllocsFixed == Thresholds = {} /\ [Next]_vars => maxAllocs' = maxAllocs
<1> SUFFICES ASSUME Thresholds = {}, [Next]_vars PROVE maxAllocs' = maxAllocs
  OBVIOUS
<1>1. CASE UNCHANGED vars
  BY <1>1 DEF vars
<1>2. ASSUME NEW t \in Threads, Finish(t) PROVE maxAllocs' = maxAllocs
  BY <1>2 DEF Finish, AddMemory, StoreMemory, Release, FreeRemove, RemoveAndAddMemory,
              ReallocRemove, CallbackReturn, Clean
<1>3. ASSUME NEW t \in Threads, Skip(t) \/ Unskip(t) \/ ExitStarts(t) \/ HookClean(t)
      PROVE  maxAllocs' = maxAllocs
  BY <1>3 DEF Skip, Unskip, ExitStarts, HookClean
<1>4. ASSUME NEW t \in Threads PROVE ~SetMaxAllocs(t)
  BY DEF SetMaxAllocs
<1>5. ASSUME NEW t \in Threads, NEW a \in Addrs,
             \/ AllocIgnored(t, a) \/ CallbackAlloc(t, a) \/ Free(t, a)
             \/ CallbackFree(t, a) \/ ReallocNull(t, a)
      PROVE  maxAllocs' = maxAllocs
  BY <1>5 DEF AllocIgnored, CallbackAlloc, Free, CallbackFree, ReallocNull
<1>6. ASSUME NEW t \in Threads, NEW a \in Addrs, NEW b \in Addrs, NEW s \in Stacks,
             NEW n \in Sizes,
             \/ AllocTracked(t, a, s, n) \/ ReallocMoves(t, a, b, s, n)
             \/ CallbackRealloc(t, a, b, s, n)
      PROVE  maxAllocs' = maxAllocs
  BY <1>6 DEF AllocTracked, ReallocMoves, CallbackRealloc
<1> QED
  BY <1>1, <1>2, <1>3, <1>4, <1>5, <1>6 DEF Next

(* OneEventPerNewMaximum: while nobody writes settings->maxAllocs, the       *)
(* number of events is what the high-water mark says it is.                  *)
THEOREM OneEventPerNewMaximumHolds == Spec => []OneEventPerNewMaximum
<1> DEFINE E == Thresholds = {} => EventsMatch(book)
<1>1. Init => E
  BY ThresholdsAssumption DEF Init, EmptyBook, EventsMatch
<1>2. TypeOK /\ FramesOK /\ HighWaterMark /\ E /\ [Next]_vars => E'
  <2> SUFFICES ASSUME TypeOK, FramesOK, HighWaterMark, E, [Next]_vars, Thresholds = {}
               PROVE  EventsMatch(book)'
    OBVIOUS
  <2>1. EventsMatch(book')
    BY BookMoves, EventsStep
  <2> QED
    BY <2>1, MaxAllocsFixed DEF EventsMatch
<1>3. E => OneEventPerNewMaximum
  BY DEF EventsMatch, OneEventPerNewMaximum
<1> QED
  BY <1>1, <1>2, <1>3, TypeCorrect, HighWaterMarkHolds, PTL DEF Spec

===============================================================================
