-------------------------- MODULE MemLeakTrackerProofs --------------------------
(***************************************************************************)
(* Theorems about what the bookkeeping of MemLeakInvest promises to one    *)
(* thread: that nobody comes to the tables after the teardown, and that    *)
(* they follow the application's blocks exactly and implement              *)
(* LiveAllocations.                                                        *)
(***************************************************************************)
EXTENDS MemLeakThreadProofs

-----------------------------------------------------------------------------
(* One thread: the life of the hooks.  Exit ends tracking before anything is *)
(* given back, the slots of realloc and free go together, and whoever is on  *)
(* the way to the books entered while they were there.                       *)
LifeOK(t) ==
    /\ hookActive <=> exiter = NoThread
    /\ exitStarted <=> exiter # NoThread
    /\ exiter = NoThread => slots = Slots /\ torn = "up"
    /\ "realloc" \in slots <=> "free" \in slots
    /\ "free" \in slots => torn = "up"
    /\ call[t].pc \in {"add", "move", "store"} => exiter = NoThread
    /\ call[t].pc \in {"free", "remove"} => "free" \in slots
    /\ call[t].pc = "clean" => torn = "up" /\ exiter # NoThread
    /\ torn # "misused"

LEMMA GotoAt ==
    ASSUME TypeOK, NEW t \in Threads, NEW f, Goto(t, f)
    PROVE  call'[t] = f
BY DEF TypeOK, Goto

(* Where a call goes, whatever it does to the blocks. *)
PcMoves(t) ==
    \/ call' = call
    \/ call'[t].pc = "app"
    \/ call'[t].pc = "release"
    \/ call[t].pc = "app" /\ call'[t].pc = "add" /\ hookActive
    \/ call[t].pc = "app" /\ call'[t].pc = "move" /\ hookActive
    \/ call[t].pc = "app" /\ call'[t].pc \in {"free", "remove"} /\ slots \cap GivenBack # {}
    \/ call[t].pc \in {"add", "move"} /\ call'[t].pc \in {"callback", "store"}
    \/ call[t].pc = "callback" /\ call'[t].pc = "store" /\ exiter # t

LEMMA LifeStill ==
    ASSUME NEW t \in Threads, Threads = {t}, TypeOK, LifeOK(t), PcMoves(t), UNCHANGED lifeVars
    PROVE  LifeOK(t)'
BY DEF LifeOK, PcMoves, lifeVars, GivenBack, TypeOK, Slots

LEMMA CountStackPc ==
    ASSUME TypeOK, NEW t \in Threads, NEW b, call[t].pc \in {"add", "move"}, CountStack(t, b)
    PROVE  call'[t].pc \in {"callback", "store", "release"}
<1> DEFINE f == [call[t] EXCEPT !.pc = IF RaisesEvent(b, call[t].stack)
                                      THEN "callback" ELSE "store"]
<1> DEFINE g == [Idle EXCEPT !.pc = "release", !.ptr = call[t].ptr]
<1>1. call[t] \in Frames
  BY DEF TypeOK
<1>2. f.pc \in {"callback", "store"} /\ g.pc = "release"
  BY <1>1 DEF Frames, Idle
<1>3. Goto(t, f) \/ Goto(t, g)
  BY Zenon DEF CountStack
<1> HIDE DEF f, g
<1> QED
  BY <1>2, <1>3, GotoAt

LEMMA StoreMemoryPc ==
    ASSUME TypeOK, NEW t \in Threads, StoreMemory(t)
    PROVE  call'[t].pc \in {"app", "release"}
<1> DEFINE g == [Idle EXCEPT !.pc = "release", !.ptr = call[t].ptr]
<1>1. Goto(t, Idle) \/ Goto(t, g)
  BY Zenon DEF StoreMemory
<1>2. g.pc = "release" /\ Idle.pc = "app"
  BY DEF Idle
<1> HIDE DEF g
<1> QED
  BY <1>1, <1>2, GotoAt

LEMMA TouchAlive ==
    ASSUME NEW b, Touch(b), torn = "up"
    PROVE  UNCHANGED <<torn, slots>>
BY DEF Touch

(* A removal by a call that entered while the slots were there. *)
LEMMA LifeRemoval ==
    ASSUME NEW t \in Threads, Threads = {t}, TypeOK, LifeOK(t), NEW a \in Addrs, RemoveOnly(a),
           "free" \in slots, UNCHANGED <<hookActive, exitStarted, exiter>>,
           \/ call' = call /\ call[t].pc = "callback"
           \/ call'[t].pc \in {"app", "release"}
    PROVE  LifeOK(t)'
<1>1. torn = "up"
  BY DEF LifeOK
<1>2. CASE EmptiesBook(book, a)
  <2>1. exitStarted /\ torn' = "unlocked" /\ slots' = slots \ GivenBack
    BY <1>1, <1>2 DEF RemoveOnly, EmptiesBook
  <2> QED
    BY <2>1 DEF LifeOK, GivenBack
<1>3. CASE ~EmptiesBook(book, a)
  <2>1. UNCHANGED <<torn, slots>>
    BY <1>1, <1>3, TouchAlive DEF RemoveOnly
  <2> QED
    BY <2>1, LifeStill DEF PcMoves, lifeVars
<1> QED
  BY <1>2, <1>3

LEMMA LifeStep ==
    ASSUME NEW t \in Threads, Threads = {t}, TypeOK, FramesOK, LifeOK(t), [Next]_vars
    PROVE  LifeOK(t)'
<1>0. FrameOK(call[t]) /\ call \in [Threads -> Frames] /\ call[t] \in Frames
  BY DEF FramesOK, TypeOK
<1>1. CASE UNCHANGED vars
  BY <1>1, LifeStill DEF vars, lifeVars, PcMoves
<1>2. ASSUME NEW b, call[t].pc \in {"add", "move"}, CountStack(t, b),
             UNCHANGED <<hookActive, exitStarted, exiter>>
      PROVE  LifeOK(t)'
  <2>1. torn = "up"
    BY <1>2 DEF LifeOK
  <2>2. UNCHANGED <<torn, slots>>
    BY <1>2, <2>1, TouchAlive DEF CountStack
  <2>3. call'[t].pc \in {"callback", "store", "release"}
    BY <1>2, CountStackPc
  <2> QED
    BY <1>2, <2>2, <2>3, LifeStill DEF PcMoves, lifeVars
<1>3. CASE AddMemory(t)
  BY <1>2, <1>3 DEF AddMemory
<1>4. CASE RemoveAndAddMemory(t)
  <2>1. ~EmptiesBook(book, call[t].old)
    BY <1>4 DEF RemoveAndAddMemory, LifeOK, EmptiesBook
  <2> QED
    BY <1>2, <1>4, <2>1 DEF RemoveAndAddMemory
<1>5. CASE StoreMemory(t)
  <2>1. torn = "up"
    BY <1>5 DEF StoreMemory, LifeOK
  <2>2. UNCHANGED <<torn, slots>>
    BY <1>5, <2>1, TouchAlive DEF StoreMemory
  <2>3. UNCHANGED lifeVars
    BY <1>5, <2>2 DEF StoreMemory, lifeVars
  <2> QED
    BY <1>5, <2>3, LifeStill, StoreMemoryPc DEF PcMoves
<1>6. CASE FreeRemove(t) \/ ReallocRemove(t)
  <2>1. call[t].old \in Addrs /\ "free" \in slots
    BY <1>0, <1>6 DEF FreeRemove, ReallocRemove, FrameOK, LifeOK
  <2>2. call'[t].pc \in {"app", "release"}
    <3>1. FreeRemove(t) => call'[t].pc = "release"
      BY <1>0 DEF Goto, Idle, FreeRemove
    <3>2. ReallocRemove(t) => call'[t].pc = "app"
      BY <1>0 DEF Goto, Idle, ReallocRemove
    <3> QED
      BY <1>6, <3>1, <3>2
  <2> QED
    BY <1>6, <2>1, <2>2, LifeRemoval DEF FreeRemove, ReallocRemove
<1>7. ASSUME NEW a \in Addrs, CallbackFree(t, a) PROVE LifeOK(t)'
  <2>1. CASE "free" \in slots
    BY <1>7, <2>1, LifeRemoval DEF CallbackFree
  <2>2. CASE "free" \notin slots
    BY <1>7, <2>2, LifeStill DEF CallbackFree, PcMoves, lifeVars
  <2> QED
    BY <2>1, <2>2
<1>8. ASSUME NEW a \in Addrs, NEW b \in Addrs, NEW s \in Stacks, NEW n \in Sizes,
             CallbackRealloc(t, a, b, s, n)
      PROVE  LifeOK(t)'
  <2>1. CASE hookActive
    <3>1. torn = "up"
      BY <2>1 DEF LifeOK
    <3>2. UNCHANGED <<torn, slots>>
      BY <1>8, <2>1, <3>1, TouchAlive DEF CallbackRealloc
    <3> QED
      BY <1>8, <3>2, LifeStill DEF CallbackRealloc, PcMoves, lifeVars
  <2>2. CASE ~hookActive /\ "realloc" \in slots
    <3>1. RemoveOnly(a) /\ "free" \in slots
      BY <1>8, <2>2 DEF CallbackRealloc, LifeOK
    <3> QED
      BY <1>8, <3>1, LifeRemoval DEF CallbackRealloc
  <2>3. CASE ~hookActive /\ "realloc" \notin slots
    BY <1>8, <2>3, LifeStill DEF CallbackRealloc, PcMoves, lifeVars
  <2> QED
    BY <2>1, <2>2, <2>3
<1>9. CASE Skip(t) \/ Unskip(t) \/ SetMaxAllocs(t)
  BY <1>9, LifeStill DEF Skip, Unskip, SetMaxAllocs, PcMoves
<1>10. CASE Release(t)
  BY <1>0, <1>10, LifeStill DEF Goto, Idle, Release, PcMoves
<1>11. CASE CallbackReturn(t)
  <2>1. call'[t] = [call[t] EXCEPT !.pc = "store"] /\ call[t] \in Frames
    BY <1>11, GotoAt DEF CallbackReturn, TypeOK
  <2>2. call'[t].pc = "store"
    BY <2>1 DEF Frames
  <2> QED
    BY <1>11, <2>2, LifeStill DEF CallbackReturn, PcMoves
<1>12. CASE HookClean(t)
  BY <1>12, ThreadsAssumption DEF HookClean, LifeOK, GivenBack
<1>13. CASE ExitStarts(t)
  <2>1. \/ call'[t].pc = "clean"
        \/ call' = call /\ call[t].pc = "callback"
    <3>1. Goto(t, [Idle EXCEPT !.pc = "clean"]) => call'[t].pc = "clean"
      BY <1>0 DEF Goto, Idle
    <3>2. \/ Goto(t, [Idle EXCEPT !.pc = "clean"])
          \/ call[t].pc = "callback" /\ call' = call
      BY <1>13, Zenon DEF ExitStarts
    <3> QED
      BY <3>1, <3>2
  <2> QED
    BY <1>13, <2>1, ThreadsAssumption DEF ExitStarts, LifeOK, GivenBack
<1>14. CASE Clean(t)
  <2>1. call'[t].pc = "app" /\ torn = "up"
    BY <1>0, <1>14 DEF Goto, Idle, Clean, LifeOK
  <2> QED
    BY <1>14, <2>1 DEF Clean, LifeOK, GivenBack
<1>15. ASSUME NEW a \in Addrs, AllocIgnored(t, a) \/ CallbackAlloc(t, a) PROVE LifeOK(t)'
  BY <1>15, LifeStill DEF AllocIgnored, CallbackAlloc, PcMoves
<1>16. ASSUME NEW a \in Addrs, Free(t, a) PROVE LifeOK(t)'
  <2>1. \/ call'[t].pc = "free" /\ "free" \in slots
        \/ call'[t].pc = "release"
    BY <1>0, <1>16 DEF Goto, Idle, Free, FreeFrame
  <2> QED
    BY <1>16, <2>1, LifeStill DEF Free, PcMoves, GivenBack
<1>17. ASSUME NEW a \in Addrs, ReallocNull(t, a) PROVE LifeOK(t)'
  <2>1. call'[t].pc = "remove"
    BY <1>0, <1>17 DEF Goto, Idle, ReallocNull
  <2> QED
    BY <1>17, <2>1, LifeStill DEF ReallocNull, PcMoves, GivenBack
<1>18. ASSUME NEW a \in Addrs, NEW s \in Stacks, NEW n \in Sizes, AllocTracked(t, a, s, n)
       PROVE  LifeOK(t)'
  <2>1. call'[t].pc \in {"add", "release"}
    BY <1>0, <1>18 DEF Goto, Idle, AllocTracked
  <2> QED
    BY <1>18, <2>1, LifeStill DEF AllocTracked, PcMoves
<1>19. ASSUME NEW a \in Addrs, NEW b \in Addrs, NEW s \in Stacks, NEW n \in Sizes,
              ReallocMoves(t, a, b, s, n)
       PROVE  LifeOK(t)'
  <2>1. \/ call'[t].pc = "move" /\ hookActive
        \/ call'[t].pc = "release"
        \/ call'[t].pc = "remove" /\ "realloc" \in slots
        \/ call' = call
    BY <1>0, <1>19 DEF Goto, Idle, ReallocMoves
  <2> QED
    BY <1>19, <2>1, LifeStill DEF ReallocMoves, PcMoves, GivenBack
<1> QED
  BY <1>1, <1>3, <1>4, <1>5, <1>6, <1>7, <1>8, <1>9, <1>10, <1>11, <1>12, <1>13, <1>14, <1>15,
     <1>16, <1>17, <1>18, <1>19 DEF Next, Finish

(* NoCallAfterTeardown: in a process with one thread no call begins that      *)
(* reaches hashes or mutex after a removal has destroyed them, however the    *)
(* exit began and whatever memory was refused.  It says nothing of the unlock *)
(* with which that removal itself ends.                                       *)
THEOREM NoCallAfterTeardownHolds ==
    ASSUME NEW t, Threads = {t}
    PROVE  Spec => []NoCallAfterTeardown
<1>0. t \in Threads
  OBVIOUS
<1>1. Init => LifeOK(t)
  BY <1>0 DEF Init, LifeOK, Idle, Slots
<1>2. TypeOK /\ FramesOK /\ LifeOK(t) /\ [Next]_vars => LifeOK(t)'
  BY <1>0, LifeStep
<1>3. LifeOK(t) => NoCallAfterTeardown
  BY DEF LifeOK, NoCallAfterTeardown
<1> QED
  BY <1>1, <1>2, <1>3, TypeCorrect, PTL DEF Spec

-----------------------------------------------------------------------------
(* The stack under which a block is in the memory table. *)
StackIn(b, a) == IF b.hashByMemory[a] = NoEntry THEN NoStack ELSE b.hashByMemory[a].stack

LEMMA StackInTracked ==
    ASSUME NEW b \in Books, NEW a \in Addrs
    PROVE  /\ StackIn(b, a) \in Stacks \cup {NoStack}
           /\ StackIn(b, a) # NoStack <=> a \in Tracked(b)
BY StacksAssumption DEF StackIn, Tracked, Books, Entries

(* What the book operators do to it. *)
LEMMA StackInAddByStack ==
    ASSUME NEW b \in Books, NEW s, NEW c
    PROVE  StackIn(AddByStack(b, s), c) = StackIn(b, c)
BY DEF AddByStack, StackIn, Books

LEMMA StackInRemMemory ==
    ASSUME NEW b \in Books, NEW a \in Addrs, NEW c \in Addrs
    PROVE  StackIn(RemMemory(b, a), c) = IF c = a THEN NoStack ELSE StackIn(b, c)
<1>0. b.hashByMemory \in [Addrs -> Entries \cup {NoEntry}]
  BY DEF Books
<1>1. CASE b.hashByMemory[a] = NoEntry
  BY <1>1 DEF RemMemory, StackIn
<1>2. CASE b.hashByMemory[a] # NoEntry
  <2>1. RemMemory(b, a).hashByMemory = [b.hashByMemory EXCEPT ![a] = NoEntry]
    BY <1>2 DEF RemMemory, Books
  <2> QED
    BY <1>0, <2>1 DEF StackIn
<1> QED
  BY <1>1, <1>2

LEMMA StackInAddByMemory ==
    ASSUME NEW b \in Books, NEW a \in Addrs, NEW s \in Stacks, NEW n \in Sizes, NEW c \in Addrs,
           StackIn(b, a) = NoStack
    PROVE  StackIn(AddByMemory(b, a, s, n), c) = IF c = a THEN s ELSE StackIn(b, c)
<1>0. b.hashByMemory \in [Addrs -> Entries \cup {NoEntry}]
  BY DEF Books
<1> DEFINE e == [stack |-> s, size |-> n]
<1>1. b.hashByMemory[a] = NoEntry
  BY StackInTracked DEF Tracked
<1>2. AddByMemory(b, a, s, n).hashByMemory = [b.hashByMemory EXCEPT ![a] = e]
  BY <1>1 DEF AddByMemory, Books
<1>3. e # NoEntry /\ e.stack = s
  BY EntriesAssumption DEF Entries
<1> HIDE DEF e
<1> QED
  BY <1>0, <1>2, <1>3 DEF StackIn

(* One thread: the table follows the blocks.  A block that is not allocated  *)
(* is counted for nothing; the block in a call's hands is counted for        *)
(* nothing yet; the block a call will remove is in nobody's hands; and a     *)
(* block the application holds is in the table under the stack it was        *)
(* counted for.                                                              *)
BlocksOK(t) ==
    /\ \A a \in Addrs \ heap : charged[a] = NoStack
    /\ call[t].pc \in Tracking \cup {"remove"} /\ call[t].ptr # NoAddr =>
          charged[call[t].ptr] = NoStack /\ call[t].ptr # call[t].old
    /\ call[t].pc \in {"free", "move", "remove"} => call[t].old \notin held
    /\ "free" \in slots => \A a \in held : charged[a] = StackIn(book, a)

(* Everything known of a state with one thread. *)
SoloInv(t) == TypeOK /\ FramesOK /\ Ownership /\ NoStaleEntry /\ LifeOK(t) /\ BlocksOK(t)

(* Where no block is held or awaits its removal there is no entry. *)
LEMMA FreshBlock ==
    ASSUME NEW t, Threads = {t}, SoloInv(t), "free" \in slots,
           NEW a \in Addrs, a \notin held, ~RemovingOf(t, a)
    PROVE  StackIn(book, a) = NoStack
<1>1. {"realloc", "free"} \subseteq slots /\ book \in Books
  BY DEF SoloInv, LifeOK, TypeOK
<1>2. a \notin Tracked(book)
  BY <1>1 DEF SoloInv, NoStaleEntry, Removing, RemovingOf
<1> QED
  BY <1>1, <1>2, StackInTracked

(* A step that leaves the blocks alone and takes no new block in hand. *)
LEMMA BlocksStill ==
    ASSUME NEW t \in Threads, BlocksOK(t), UNCHANGED <<heap, held, charged>>, slots' \subseteq slots,
           \A a \in held : StackIn(book', a) = StackIn(book, a),
           \/ call'[t].pc \in {"app", "release", "clean"}
           \/ call' = call
           \/ /\ call[t].pc \in Tracking /\ call'[t].pc \in Tracking \ {"move"}
              /\ call'[t].ptr = call[t].ptr /\ call'[t].old = call[t].old
    PROVE  BlocksOK(t)'
BY DEF BlocksOK, Tracking, StackIn

LEMMA CountStackFrame ==
    ASSUME TypeOK, NEW t \in Threads, NEW b, call[t].pc \in {"add", "move"}, CountStack(t, b)
    PROVE  \/ call'[t].pc = "release"
           \/ /\ call'[t].pc \in {"callback", "store"}
              /\ call'[t].ptr = call[t].ptr /\ call'[t].old = call[t].old
              /\ call'[t].stack = call[t].stack
              /\ book' = AddByStack(b, call[t].stack)
<1> DEFINE f == [call[t] EXCEPT !.pc = IF RaisesEvent(b, call[t].stack)
                                      THEN "callback" ELSE "store"]
<1> DEFINE g == [Idle EXCEPT !.pc = "release", !.ptr = call[t].ptr]
<1>1. call[t] \in Frames
  BY DEF TypeOK
<1>2. /\ f.pc \in {"callback", "store"} /\ f.ptr = call[t].ptr
      /\ f.old = call[t].old /\ f.stack = call[t].stack
      /\ g.pc = "release"
  BY <1>1 DEF Frames, Idle
<1>3. \/ Goto(t, f) /\ Touch(AddByStack(b, call[t].stack))
      \/ Goto(t, g)
  BY Zenon DEF CountStack
<1> HIDE DEF f, g
<1> QED
  BY <1>2, <1>3, GotoAt DEF Touch

LEMMA BlocksStep ==
    ASSUME NEW t, Threads = {t}, Faults \subseteq {"bookkeeping"}, SoloInv(t), [Next]_vars
    PROVE  BlocksOK(t)'
<1>0. /\ t \in Threads /\ TypeOK /\ LifeOK(t) /\ BlocksOK(t)
      /\ call \in [Threads -> Frames] /\ call[t] \in Frames /\ FrameOK(call[t])
      /\ book \in Books /\ charged \in [Addrs -> Stacks \cup {NoStack}]
      /\ held \subseteq heap /\ heap \subseteq Addrs
      /\ call[t].ptr # NoAddr => call[t].ptr \in heap \ held
      /\ "capture" \notin Faults /\ "realloc" \notin Faults
  BY DEF SoloInv, TypeOK, FramesOK, Ownership
<1>fresh. ASSUME NEW a \in Addrs, a \notin held, ~RemovingOf(t, a), "free" \in slots
          PROVE  StackIn(book, a) = NoStack
  BY <1>fresh, FreshBlock
<1>1. CASE UNCHANGED vars
  BY <1>0, <1>1, BlocksStill DEF vars, lifeVars, StackIn
<1>2. CASE AddMemory(t)
  <2>1. CountStack(t, book) /\ UNCHANGED <<heap, held, charged>>
    BY <1>2 DEF AddMemory
  <2>2. call[t].stack \in Stacks /\ call[t].pc = "add"
    BY <1>0, <1>2 DEF AddMemory, FrameOK, Tracking
  <2>3. slots' = slots /\ (book' = book \/ book' = AddByStack(book, call[t].stack))
    BY <2>1 DEF CountStack, Touch
  <2>4. \A a \in held : StackIn(book', a) = StackIn(book, a)
    BY <1>0, <2>2, <2>3, StackInAddByStack
  <2> QED
    BY <1>0, <2>1, <2>2, <2>3, <2>4, CountStackFrame, BlocksStill DEF Tracking
<1>3. CASE RemoveAndAddMemory(t)
  <2> DEFINE r == RemMemory(book, call[t].old)
  <2>1. ~EmptiesBook(book, call[t].old) /\ call[t].pc = "move"
    BY <1>0, <1>3 DEF RemoveAndAddMemory, LifeOK, EmptiesBook
  <2>2. CountStack(t, r) /\ UNCHANGED <<heap, held, charged>>
    BY <1>3, <2>1 DEF RemoveAndAddMemory
  <2>3. call[t].stack \in Stacks /\ call[t].old \in Addrs \ held
    BY <1>0, <2>1 DEF FrameOK, Tracking, BlocksOK
  <2>4. slots' = slots /\ (book' = r \/ book' = AddByStack(r, call[t].stack))
    BY <2>2 DEF CountStack, Touch
  <2>5. r \in Books
    BY <1>0, <2>3, RemMemoryType
  <2>6. \A a \in held : StackIn(r, a) = StackIn(book, a)
    <3>1. \A c \in Addrs : StackIn(r, c) = IF c = call[t].old THEN NoStack ELSE StackIn(book, c)
      BY <1>0, <2>3, StackInRemMemory
    <3> QED
      BY <1>0, <2>3, <3>1
  <2> HIDE DEF r
  <2>7. \A a \in held : StackIn(book', a) = StackIn(r, a)
    BY <1>0, <2>3, <2>4, <2>5, StackInAddByStack
  <2> QED
    BY <1>0, <2>1, <2>2, <2>4, <2>6, <2>7, CountStackFrame, BlocksStill DEF Tracking
<1>4. CASE StoreMemory(t)
  <2> DEFINE f == call[t]
  <2>1. /\ f.pc = "store" /\ f.ptr \in heap \ held /\ f.ptr # NoAddr /\ "free" \in slots
        /\ f.stack \in Stacks /\ f.size \in Sizes
    BY <1>0, <1>4, AddrsAssumption DEF StoreMemory, FrameOK, Tracking, LifeOK, Slots
  <2>2. StackIn(book, f.ptr) = NoStack
    BY <1>0, <1>fresh, <2>1 DEF RemovingOf
  <2>3. UNCHANGED <<heap, slots>>
    BY <1>4 DEF StoreMemory, Touch
  <2>4. call'[t].pc \in {"app", "release"}
    BY <1>0, <1>4, StoreMemoryPc
  <2>5. CASE /\ book' = AddByMemory(book, f.ptr, f.stack, f.size)
             /\ held' = held \cup {f.ptr}
             /\ charged' = [charged EXCEPT ![f.ptr] = f.stack]
    <3>1. \A c \in Addrs : StackIn(book', c) = IF c = f.ptr THEN f.stack ELSE StackIn(book, c)
      BY <1>0, <2>1, <2>2, <2>5, StackInAddByMemory
    <3> QED
      BY <1>0, <2>1, <2>3, <2>4, <2>5, <3>1 DEF BlocksOK, Tracking
  <2>6. CASE UNCHANGED <<book, held, charged>>
    BY <1>0, <2>3, <2>4, <2>6, BlocksStill DEF StackIn
  <2> QED
    BY <1>4, <2>5, <2>6 DEF StoreMemory, Touch
<1>5. CASE Release(t)
  <2>1. call'[t].pc = "app"
    BY <1>0, <1>5 DEF Release, Goto, Idle
  <2>2. call[t].ptr \in Addrs \ held /\ UNCHANGED <<held, book, slots>>
    BY <1>0, <1>5, AddrsAssumption DEF Release, FrameOK, lifeVars
  <2>3. /\ heap' = heap \ {call[t].ptr}
        /\ charged' = [charged EXCEPT ![call[t].ptr] = NoStack]
    BY <1>5 DEF Release
  <2> QED
    BY <1>0, <2>1, <2>2, <2>3 DEF BlocksOK, Tracking, StackIn
<1>6. CASE FreeRemove(t)
  <2>1. call[t].pc = "free" /\ call[t].old \in Addrs \ held
    BY <1>0, <1>6 DEF FreeRemove, FrameOK, BlocksOK
  <2>2. call'[t].pc = "release"
    BY <1>0, <1>6 DEF Goto, Idle, FreeRemove
  <2>3. book' = RemMemory(book, call[t].old) /\ slots' \subseteq slots
    BY <1>6, <2>1, RemoveOnlyBook, SlotsShrink DEF FreeRemove
  <2>4. \A c \in Addrs : StackIn(book', c) = IF c = call[t].old THEN NoStack ELSE StackIn(book, c)
    BY <1>0, <2>1, <2>3, StackInRemMemory
  <2>5. \A a \in held : StackIn(book', a) = StackIn(book, a)
    BY <1>0, <2>1, <2>4
  <2> QED
    BY <1>0, <1>6, <2>2, <2>3, <2>5, BlocksStill DEF FreeRemove
<1>7. CASE ReallocRemove(t)
  <2>1. /\ call[t].pc = "remove" /\ call[t].old \in Addrs \ held /\ "free" \in slots
        /\ call[t].ptr # NoAddr => call[t].ptr # call[t].old /\ charged[call[t].ptr] = NoStack
    BY <1>0, <1>7 DEF ReallocRemove, FrameOK, BlocksOK, LifeOK
  <2>2. call'[t].pc = "app"
    BY <1>0, <1>7 DEF Goto, Idle, ReallocRemove
  <2>3. book' = RemMemory(book, call[t].old) /\ slots' \subseteq slots
    BY <1>7, <2>1, RemoveOnlyBook, SlotsShrink DEF ReallocRemove
  <2>4. \A c \in Addrs : StackIn(book', c) = IF c = call[t].old THEN NoStack ELSE StackIn(book, c)
    BY <1>0, <2>1, <2>3, StackInRemMemory
  <2>5. held' = held \cup ({call[t].ptr} \ {NoAddr}) /\ UNCHANGED <<heap, charged>>
    BY <1>7 DEF ReallocRemove, Returned
  <2>6. ASSUME call[t].ptr # NoAddr PROVE StackIn(book, call[t].ptr) = NoStack
    BY <1>0, <1>fresh, <2>1, <2>6 DEF RemovingOf
  <2>7. \A a \in held' : charged[a] = StackIn(book', a)
    BY <1>0, <2>1, <2>4, <2>5, <2>6 DEF BlocksOK
  <2> QED
    BY <1>0, <2>2, <2>5, <2>7 DEF BlocksOK, Tracking
<1>8. ASSUME NEW a \in Addrs, CallbackFree(t, a) PROVE BlocksOK(t)'
  <2>1. /\ call[t].pc = "callback" /\ call' = call /\ a \in held
        /\ heap' = heap \ {a} /\ held' = held \ {a}
        /\ charged' = [charged EXCEPT ![a] = NoStack]
    BY <1>8 DEF CallbackFree
  <2>2. /\ slots' \subseteq slots
        /\ book' = book \/ book' = RemMemory(book, a)
    BY <1>8, RemoveOnlyBook, SlotsShrink DEF CallbackFree
  <2>3. \A c \in Addrs \ {a} : StackIn(book', c) = StackIn(book, c)
    BY <1>0, <2>2, StackInRemMemory
  <2> QED
    BY <1>0, <2>1, <2>2, <2>3 DEF BlocksOK, Tracking
<1>9. ASSUME NEW a \in Addrs, NEW b \in Addrs, NEW s \in Stacks, NEW n \in Sizes,
             CallbackRealloc(t, a, b, s, n)
      PROVE  BlocksOK(t)'
  <2>1. /\ call[t].pc = "callback" /\ call' = call /\ a \in held /\ b \notin heap /\ a # b
        /\ heap' = (heap \ {a}) \cup {b} /\ held' = (held \ {a}) \cup {b}
    BY <1>0, <1>9 DEF CallbackRealloc
  <2>2. "free" \in slots => StackIn(book, b) = NoStack
    BY <1>0, <1>fresh, <2>1 DEF RemovingOf
  <2>3. charged[b] = NoStack /\ call[t].ptr # b
    BY <1>0, <2>1, AddrsAssumption DEF BlocksOK
  <2> DEFINE r == RemMemory(book, a)
             i == AddByStack(r, s)
  <2>4. r \in Books /\ i \in Books
    <3>1. r \in Books
      BY <1>0, RemMemoryType
    <3> HIDE DEF r
    <3> QED
      BY <3>1, AddByStackType
  <2>5. \A c \in Addrs : StackIn(r, c) = IF c = a THEN NoStack ELSE StackIn(book, c)
    BY <1>0, StackInRemMemory
  <2> HIDE DEF r
  <2>6. \A c \in Addrs : StackIn(i, c) = StackIn(r, c)
    BY <2>4, StackInAddByStack
  <2> HIDE DEF i
  <2>7. CASE hookActive
    <3>1. "free" \in slots /\ slots' = slots
      BY <1>0, <1>9, <2>7 DEF LifeOK, Slots, CallbackRealloc, Touch
    <3>2. /\ book' = AddByMemory(i, b, s, n)
          /\ charged' = [charged EXCEPT ![a] = NoStack, ![b] = s]
      BY <1>9, <2>7 DEF CallbackRealloc, Touch, i, r
    <3>3. StackIn(i, b) = NoStack
      BY <2>2, <2>1, <2>5, <2>6, <3>1
    <3>4. \A c \in Addrs : StackIn(book', c) = IF c = b THEN s ELSE StackIn(i, c)
      BY <2>4, <3>2, <3>3, StackInAddByMemory
    <3> QED
      BY <1>0, <2>1, <2>3, <2>5, <2>6, <3>1, <3>2, <3>4 DEF BlocksOK, Tracking
  <2>8. CASE ~hookActive
    <3>1. /\ slots' \subseteq slots
          /\ book' = book \/ book' = r
          /\ charged' = [charged EXCEPT ![a] = NoStack]
      BY <1>9, <2>8, RemoveOnlyBook, SlotsShrink DEF CallbackRealloc, r
    <3>2. \A c \in Addrs \ {a} : StackIn(book', c) = StackIn(book, c)
      BY <2>5, <3>1
    <3> QED
      BY <1>0, <2>1, <2>2, <2>3, <3>1, <3>2 DEF BlocksOK, Tracking
  <2> QED
    BY <2>7, <2>8
<1>10. CASE Skip(t) \/ Unskip(t) \/ SetMaxAllocs(t)
  BY <1>0, <1>10, BlocksStill DEF Skip, Unskip, SetMaxAllocs, lifeVars, StackIn
<1>11. CASE CallbackReturn(t)
  <2>1. /\ call[t].pc = "callback" /\ call'[t].pc = "store"
        /\ call'[t].ptr = call[t].ptr /\ call'[t].old = call[t].old
    BY <1>0, <1>11, GotoAt DEF CallbackReturn, Frames
  <2> QED
    BY <1>0, <1>11, <2>1, BlocksStill DEF CallbackReturn, lifeVars, StackIn, Tracking
<1>12. CASE HookClean(t)
  BY <1>0, <1>12, BlocksStill DEF HookClean, StackIn
<1>13. CASE ExitStarts(t)
  <2>1. call'[t].pc = "clean" \/ call' = call
    <3>1. Goto(t, [Idle EXCEPT !.pc = "clean"]) => call'[t].pc = "clean"
      BY <1>0 DEF Goto, Idle
    <3> QED
      BY <1>13, <3>1 DEF ExitStarts
  <2> QED
    BY <1>0, <1>13, <2>1, BlocksStill DEF ExitStarts, StackIn
<1>14. CASE Clean(t)
  <2>1. call'[t].pc = "app"
    BY <1>0, <1>14 DEF Goto, Idle, Clean
  <2> QED
    BY <1>0, <1>14, <2>1, BlocksStill DEF Clean, StackIn
<1>15. ASSUME NEW a \in Addrs, AllocIgnored(t, a) \/ CallbackAlloc(t, a) PROVE BlocksOK(t)'
  <2>1. /\ a \notin heap /\ heap' = heap \cup {a} /\ held' = held \cup {a}
        /\ UNCHANGED <<book, call, slots, charged>> /\ call[t].pc \in {"app", "callback"}
    BY <1>15 DEF AllocIgnored, CallbackAlloc, lifeVars
  <2>2. "free" \in slots => StackIn(book, a) = NoStack
    BY <1>0, <1>fresh, <2>1 DEF RemovingOf
  <2> QED
    BY <1>0, <2>1, <2>2 DEF BlocksOK, StackIn
<1>16. ASSUME NEW a \in Addrs, Free(t, a) PROVE BlocksOK(t)'
  <2>1. \/ call'[t].pc = "free" /\ call'[t].old = a
        \/ call'[t].pc = "release"
    BY <1>0, <1>16 DEF Goto, Idle, Free, FreeFrame
  <2>2. UNCHANGED <<heap, book, slots, charged>> /\ held' = held \ {a}
    BY <1>16 DEF Free, lifeVars
  <2> QED
    BY <1>0, <2>1, <2>2 DEF BlocksOK, StackIn, Tracking
<1>17. ASSUME NEW a \in Addrs, ReallocNull(t, a) PROVE BlocksOK(t)'
  <2>1. /\ call'[t].pc = "remove" /\ call'[t].old = a /\ call'[t].ptr = NoAddr
        /\ heap' = heap \ {a} /\ held' = held \ {a}
        /\ charged' = [charged EXCEPT ![a] = NoStack]
        /\ UNCHANGED <<book, slots>>
    <3>1. /\ Goto(t, [Idle EXCEPT !.pc = "remove", !.old = a])
          /\ heap' = heap \ {a} /\ held' = held \ {a}
          /\ charged' = [charged EXCEPT ![a] = NoStack]
          /\ UNCHANGED <<book, slots>>
      BY <1>0, <1>17 DEF ReallocNull, lifeVars
    <3> QED
      BY <1>0, <3>1 DEF Goto, Idle
  <2> QED
    BY <1>0, <2>1 DEF BlocksOK, StackIn, Tracking
<1>18. ASSUME NEW a \in Addrs, NEW s \in Stacks, NEW n \in Sizes, AllocTracked(t, a, s, n)
       PROVE  BlocksOK(t)'
  <2>1. call'[t].pc = "add" /\ call'[t].ptr = a /\ call'[t].old = NoAddr
    BY <1>0, <1>18 DEF Goto, Idle, AllocTracked
  <2>2. a \notin heap /\ heap' = heap \cup {a} /\ UNCHANGED <<held, book, slots, charged>>
    BY <1>18 DEF AllocTracked, lifeVars
  <2> QED
    BY <1>0, <2>1, <2>2, AddrsAssumption DEF BlocksOK, StackIn, Tracking
<1>19. ASSUME NEW a \in Addrs, NEW b \in Addrs, NEW s \in Stacks, NEW n \in Sizes,
              ReallocMoves(t, a, b, s, n)
       PROVE  BlocksOK(t)'
  <2>1. /\ a \in held /\ b \notin heap /\ heap' = (heap \ {a}) \cup {b} /\ a # b
        /\ charged' = [charged EXCEPT ![a] = NoStack] /\ UNCHANGED <<book, slots>>
        /\ call[t].pc = "app"
    BY <1>0, <1>19 DEF ReallocMoves, lifeVars
  <2>2. charged[b] = NoStack
    BY <1>0, <2>1 DEF BlocksOK
  <2>3. \/ /\ call'[t].pc \in {"move", "remove"} /\ call'[t].old = a /\ call'[t].ptr = b
           /\ held' = held \ {a}
        \/ "free" \notin slots /\ call' = call
    <3> DEFINE m == [Idle EXCEPT !.pc = "move", !.old = a, !.ptr = b, !.stack = s,
                                 !.size = n, !.saved = useHook[t]]
               r == [Idle EXCEPT !.pc = "remove", !.old = a, !.ptr = b]
    <3>1. \/ held' = held \ {a} /\ (Goto(t, m) \/ Goto(t, r))
          \/ "realloc" \notin slots /\ call' = call
      BY <1>0, <1>19 DEF ReallocMoves
    <3>2. /\ m.pc = "move" /\ m.old = a /\ m.ptr = b
          /\ r.pc = "remove" /\ r.old = a /\ r.ptr = b
      BY DEF Idle
    <3> HIDE DEF m, r
    <3>3. "realloc" \notin slots => "free" \notin slots
      BY <1>0 DEF LifeOK
    <3> QED
      BY <1>0, <3>1, <3>2, <3>3, GotoAt
  <2> QED
    BY <1>0, <2>1, <2>2, <2>3 DEF BlocksOK, StackIn, Tracking
<1> QED
  BY <1>0, <1>1, <1>2, <1>3, <1>4, <1>5, <1>6, <1>7, <1>8, <1>9, <1>10, <1>11, <1>12, <1>13,
     <1>14, <1>15, <1>16, <1>17, <1>18, <1>19 DEF Next, Finish

LEMMA SoloHolds ==
    ASSUME NEW t, Threads = {t}, Faults \subseteq {"bookkeeping"}
    PROVE  Spec => []SoloInv(t)
<1>0. t \in Threads /\ "capture" \notin Faults
  OBVIOUS
<1>1. Init => LifeOK(t)
  BY <1>0 DEF Init, LifeOK, Idle, Slots
<1>2. TypeOK /\ FramesOK /\ LifeOK(t) /\ [Next]_vars => LifeOK(t)'
  BY <1>0, LifeStep
<1>3. Init => BlocksOK(t)
  BY <1>0 DEF Init, BlocksOK, Idle, Tracking
<1>4. SoloInv(t) /\ [Next]_vars => BlocksOK(t)'
  BY <1>0, BlocksStep
<1>5. TypeOK /\ FramesOK /\ Ownership /\ NoStaleEntry /\ LifeOK(t) /\ BlocksOK(t) <=> SoloInv(t)
  BY DEF SoloInv
<1>6. Spec => []NoStaleEntry
  BY <1>0, NoStaleEntryHolds
<1>7. Spec => []LifeOK(t)
  BY <1>1, <1>2, TypeCorrect, PTL DEF Spec
<1> QED
  BY <1>3, <1>4, <1>5, <1>6, <1>7, TypeCorrect, OwnershipHolds, PTL DEF Spec

(* HeldBlocksTracked: in a process with one thread, where no stack walk and  *)
(* no realloc fails, a block that was counted for a stack is in the memory   *)
(* table under that stack for as long as the application holds it, even if   *)
(* memory for items is refused.  With two threads, or with a realloc that is *)
(* refused, it is not so: the runs realloc_race and realloc_fails show it.   *)
THEOREM HeldBlocksTrackedHolds ==
    ASSUME NEW t, Threads = {t}, Faults \subseteq {"bookkeeping"}
    PROVE  Spec => []HeldBlocksTracked
<1>1. SoloInv(t) => HeldBlocksTracked
  <2> SUFFICES ASSUME SoloInv(t), "free" \in slots, NEW a \in held, charged[a] # NoStack
               PROVE  a \in Tracked(book) /\ book.hashByMemory[a].stack = charged[a]
    BY DEF HeldBlocksTracked
  <2>1. StackIn(book, a) = charged[a]
    BY DEF SoloInv, BlocksOK
  <2>2. a \in Addrs /\ book \in Books
    BY DEF SoloInv, TypeOK
  <2> QED
    BY <2>1, <2>2, StackInTracked DEF StackIn
<1>2. Spec => []SoloInv(t)
  BY SoloHolds
<1> QED
  BY <1>1, <1>2, PTL

-----------------------------------------------------------------------------
(* The live blocks: those of the table and the one that is counted and not   *)
(* stored yet.  LiveIn is LiveStack as a function of the book and the frame. *)
LiveIn(b, f) ==
    [a \in Addrs |->
        IF StackIn(b, a) # NoStack THEN StackIn(b, a)
        ELSE IF f.pc \in {"callback", "store"} /\ f.ptr = a THEN f.stack ELSE NoStack]

CountOf(l, s) == Cardinality({a \in Addrs : l[a] = s})

Exact(b, l) == \A s \in Stacks : b.hashByStack[s] = CountOf(l, s)

Lives == [Addrs -> Stacks \cup {NoStack}]

LEMMA CountAfterAdd ==
    ASSUME NEW l \in Lives, NEW a \in Addrs, NEW s \in Stacks, NEW r \in Stacks, l[a] = NoStack
    PROVE  /\ CountOf([l EXCEPT ![a] = s], r) = IF r = s THEN CountOf(l, r) + 1 ELSE CountOf(l, r)
           /\ CountOf(l, r) \in Nat
<1> DEFINE L == {c \in Addrs : l[c] = r}
           M == {c \in Addrs : [l EXCEPT ![a] = s][c] = r}
<1>1. IsFiniteSet(L)
  BY AddrsAssumption, FS_Subset
<1>2. a \notin L
  BY StacksAssumption
<1>3. M = IF r = s THEN L \cup {a} ELSE L
  BY StacksAssumption DEF Lives
<1> HIDE DEF L, M
<1>4. Cardinality(M) = (IF r = s THEN Cardinality(L) + 1 ELSE Cardinality(L)) /\ Cardinality(L) \in Nat
  BY <1>1, <1>2, <1>3, FS_AddElement, FS_CardinalityType
<1> QED
  BY <1>4 DEF CountOf, L, M

LEMMA CountAfterDrop ==
    ASSUME NEW l \in Lives, NEW a \in Addrs, NEW s \in Stacks, NEW r \in Stacks, l[a] = s
    PROVE  /\ CountOf([l EXCEPT ![a] = NoStack], r) = IF r = s THEN CountOf(l, r) - 1 ELSE CountOf(l, r)
           /\ CountOf(l, r) \in Nat
           /\ CountOf(l, s) # 0
<1> DEFINE L == {c \in Addrs : l[c] = r}
           M == {c \in Addrs : [l EXCEPT ![a] = NoStack][c] = r}
           S == {c \in Addrs : l[c] = s}
<1>1. IsFiniteSet(L) /\ IsFiniteSet(S)
  BY AddrsAssumption, FS_Subset
<1>2. a \in S /\ (r = s => a \in L)
  OBVIOUS
<1>3. M = IF r = s THEN L \ {a} ELSE L
  BY StacksAssumption DEF Lives
<1> HIDE DEF L, M, S
<1>4. Cardinality(S) # 0
  BY <1>1, <1>2, FS_EmptySet
<1>5. Cardinality(M) = (IF r = s THEN Cardinality(L) - 1 ELSE Cardinality(L)) /\ Cardinality(L) \in Nat
  BY <1>1, <1>2, <1>3, FS_RemoveElement, FS_CardinalityType
<1> QED
  BY <1>4, <1>5 DEF CountOf, L, M, S

(* Counting a stack and taking a block off it keep the counts exact. *)
LEMMA ExactAdd ==
    ASSUME NEW b \in Books, NEW l \in Lives, Exact(b, l),
           NEW a \in Addrs, NEW s \in Stacks, l[a] = NoStack
    PROVE  Exact(AddByStack(b, s), [l EXCEPT ![a] = s])
<1>1. b.hashByStack \in [Stacks -> Nat]
  BY DEF Books
<1>2. AddByStack(b, s).hashByStack = [b.hashByStack EXCEPT ![s] = @ + 1]
  BY DEF AddByStack, Books
<1> QED
  BY <1>1, <1>2, CountAfterAdd DEF Exact

LEMMA ExactDrop ==
    ASSUME NEW b \in Books, NEW l \in Lives, Exact(b, l),
           NEW a \in Addrs, StackIn(b, a) # NoStack, l[a] = StackIn(b, a)
    PROVE  Exact(RemMemory(b, a), [l EXCEPT ![a] = NoStack])
<1> DEFINE s == StackIn(b, a)
<1>1. b.hashByStack \in [Stacks -> Nat] /\ s \in Stacks
  BY StackInTracked DEF Books
<1>2. RemMemory(b, a).hashByStack = [b.hashByStack EXCEPT ![s] = CountDown(@)]
  BY DEF RemMemory, Books, StackIn
<1> HIDE DEF s
<1>3. ASSUME NEW r \in Stacks
      PROVE  /\ CountOf([l EXCEPT ![a] = NoStack], r) =
                    IF r = s THEN CountOf(l, r) - 1 ELSE CountOf(l, r)
             /\ CountOf(l, r) \in Nat /\ CountOf(l, s) # 0
  BY <1>1, CountAfterDrop DEF s
<1>4. ASSUME NEW r \in Stacks
      PROVE  RemMemory(b, a).hashByStack[r] = CountOf([l EXCEPT ![a] = NoStack], r)
  <2>1. b.hashByStack[r] = CountOf(l, r) /\ b.hashByStack[s] = CountOf(l, s)
    BY <1>1 DEF Exact
  <2>2. RemMemory(b, a).hashByStack[r] =
            IF r = s THEN CountDown(b.hashByStack[r]) ELSE b.hashByStack[r]
    BY <1>1, <1>2
  <2>3. CountOf(l, s) \in Nat \ {0} => CountDown(CountOf(l, s)) = CountOf(l, s) - 1
    BY DEF CountDown
  <2>4. CASE r = s
    BY <1>3, <2>1, <2>2, <2>3, <2>4
  <2>5. CASE r # s
    BY <1>3, <2>1, <2>2, <2>5
  <2> QED
    BY <2>4, <2>5
<1> QED
  BY <1>4 DEF Exact

(* A frame has a block counted and not stored. *)
Pends(f, a) == f.pc \in {"callback", "store"} /\ f.ptr = a

LEMMA LiveType ==
    ASSUME NEW b \in Books, NEW f, FrameOK(f)
    PROVE  LiveIn(b, f) \in Lives
BY StackInTracked DEF LiveIn, Lives, FrameOK, Tracking

(* The frame matters only for the block it has pending. *)
LEMMA LiveSame ==
    ASSUME NEW b, NEW f, NEW g,
           \A a \in Addrs : Pends(f, a) <=> Pends(g, a),
           \A a \in Addrs : Pends(f, a) => f.stack = g.stack
    PROVE  LiveIn(b, f) = LiveIn(b, g)
BY DEF LiveIn, Pends

LEMMA LiveOfTracked ==
    ASSUME NEW b, NEW f, NEW a \in Addrs, StackIn(b, a) # NoStack
    PROVE  LiveIn(b, f)[a] = StackIn(b, a)
BY DEF LiveIn

LEMMA LiveOfUntracked ==
    ASSUME NEW b, NEW f, NEW a \in Addrs, StackIn(b, a) = NoStack, ~Pends(f, a)
    PROVE  LiveIn(b, f)[a] = NoStack
BY DEF LiveIn, Pends

(* What the book operators and the frames do to the live blocks. *)
LEMMA LiveAfterRem ==
    ASSUME NEW b \in Books, NEW f, NEW a \in Addrs, ~Pends(f, a)
    PROVE  LiveIn(RemMemory(b, a), f) = [LiveIn(b, f) EXCEPT ![a] = NoStack]
<1>1. \A c \in Addrs : StackIn(RemMemory(b, a), c) = IF c = a THEN NoStack ELSE StackIn(b, c)
  BY StackInRemMemory
<1> QED
  BY <1>1 DEF LiveIn, Pends

LEMMA LiveAfterCount ==
    ASSUME NEW b \in Books, NEW f, NEW g, NEW a \in Addrs, NEW s \in Stacks,
           StackIn(b, a) = NoStack, f.pc \notin {"callback", "store"},
           Pends(g, a), g.stack = s
    PROVE  LiveIn(AddByStack(b, s), g) = [LiveIn(b, f) EXCEPT ![a] = s]
<1>1. \A c \in Addrs : StackIn(AddByStack(b, s), c) = StackIn(b, c)
  BY StackInAddByStack
<1> QED
  BY <1>1 DEF LiveIn, Pends

LEMMA LiveAfterStore ==
    ASSUME NEW b \in Books, NEW f, NEW g, NEW a \in Addrs, NEW s \in Stacks, NEW n \in Sizes,
           StackIn(b, a) = NoStack, Pends(f, a), f.stack = s,
           g.pc \notin {"callback", "store"}
    PROVE  LiveIn(AddByMemory(b, a, s, n), g) = LiveIn(b, f)
<1>1. \A c \in Addrs : StackIn(AddByMemory(b, a, s, n), c) = IF c = a THEN s ELSE StackIn(b, c)
  BY StackInAddByMemory
<1> QED
  BY <1>1, StacksAssumption DEF LiveIn, Pends

LEMMA LiveAfterAdd ==
    ASSUME NEW b \in Books, NEW f, NEW a \in Addrs, NEW s \in Stacks, NEW n \in Sizes,
           StackIn(b, a) = NoStack
    PROVE  LiveIn(AddByMemory(AddByStack(b, s), a, s, n), f) = [LiveIn(b, f) EXCEPT ![a] = s]
<1> DEFINE i == AddByStack(b, s)
<1>1. i \in Books
  BY AddByStackType
<1>2. \A c \in Addrs : StackIn(i, c) = StackIn(b, c)
  BY StackInAddByStack
<1> HIDE DEF i
<1>3. \A c \in Addrs : StackIn(AddByMemory(i, a, s, n), c) = IF c = a THEN s ELSE StackIn(b, c)
  BY <1>1, <1>2, StackInAddByMemory
<1>4. LiveIn(AddByMemory(i, a, s, n), f) = [LiveIn(b, f) EXCEPT ![a] = s]
  BY <1>3, StacksAssumption DEF LiveIn
<1> QED
  BY <1>4 DEF i

(* The fields of the book that the tracker knows. *)
Counters(b) == <<b.hashByStack, b.allocsMaxUpToNow, b.numberOfEvents>>

(* What a step of the thread does to the live blocks. *)
Keeps(t) ==
    /\ LiveIn(book', call'[t]) = LiveIn(book, call[t])
    /\ Counters(book') = Counters(book)
    /\ hookActive' = hookActive \/ hookActive' = FALSE

Tracks(t, a, s) ==
    /\ hookActive /\ hookActive' = hookActive
    /\ StackIn(book, a) = NoStack /\ ~Pends(call[t], a)
    /\ LiveIn(book', call'[t]) = [LiveIn(book, call[t]) EXCEPT ![a] = s]
    /\ Counters(book') = Counters(AddByStack(book, s))

Drops(t, a) ==
    /\ hookActive' = hookActive
    /\ StackIn(book, a) # NoStack
    /\ LiveIn(book', call'[t]) = [LiveIn(book, call[t]) EXCEPT ![a] = NoStack]
    /\ Counters(book') = Counters(RemMemory(book, a))

Moves(t, a, b, s) ==
    /\ hookActive /\ hookActive' = hookActive
    /\ StackIn(book, a) # NoStack /\ StackIn(book, b) = NoStack /\ ~Pends(call[t], b)
    /\ LiveIn(book', call'[t]) = [LiveIn(book, call[t]) EXCEPT ![a] = NoStack, ![b] = s]
    /\ Counters(book') = Counters(AddByStack(RemMemory(book, a), s))

LiveStep(t) ==
    \/ Keeps(t)
    \/ \E a \in Addrs, s \in Stacks : Tracks(t, a, s)
    \/ \E a \in Addrs : Drops(t, a)
    \/ \E a, b \in Addrs, s \in Stacks : Moves(t, a, b, s)

(* A removal drops the block, or finds nothing to remove. *)
LEMMA RemovalLive ==
    ASSUME NEW t, book \in Books, NEW a \in Addrs, book' = RemMemory(book, a),
           ~Pends(call[t], a), hookActive' = hookActive,
           \A c \in Addrs : Pends(call[t], c) <=> Pends(call'[t], c),
           \A c \in Addrs : Pends(call[t], c) => call[t].stack = call'[t].stack
    PROVE  LiveStep(t)
<1>1. CASE StackIn(book, a) = NoStack
  <2>1. book' = book
    BY <1>1, StackInTracked DEF RemMemory, Tracked
  <2> QED
    BY <2>1, LiveSame DEF Keeps, LiveStep
<1>2. CASE StackIn(book, a) # NoStack
  <2>1. LiveIn(book', call'[t]) = LiveIn(book', call[t])
    BY LiveSame
  <2>2. LiveIn(book', call[t]) = [LiveIn(book, call[t]) EXCEPT ![a] = NoStack]
    BY LiveAfterRem
  <2> QED
    BY <1>2, <2>1, <2>2 DEF Drops, LiveStep
<1> QED
  BY <1>1, <1>2

LEMMA KeepsLive ==
    ASSUME NEW t, UNCHANGED book, hookActive' = hookActive \/ hookActive' = FALSE,
           \A c \in Addrs : Pends(call[t], c) <=> Pends(call'[t], c),
           \A c \in Addrs : Pends(call[t], c) => call[t].stack = call'[t].stack
    PROVE  LiveStep(t)
BY LiveSame DEF Keeps, LiveStep

LEMMA CountersOfStore ==
    ASSUME NEW b \in Books, NEW a, NEW s, NEW n
    PROVE  Counters(AddByMemory(b, a, s, n)) = Counters(b)
BY DEF Counters, AddByMemory, Books

(* The count and the frame when no memory is refused. *)
LEMMA CountStackCounts ==
    ASSUME Faults = {}, TypeOK, NEW t \in Threads, NEW b, CountStack(t, b)
    PROVE  /\ call'[t].pc \in {"callback", "store"}
           /\ call'[t].ptr = call[t].ptr /\ call'[t].stack = call[t].stack
           /\ book' = AddByStack(b, call[t].stack)
<1> DEFINE f == [call[t] EXCEPT !.pc = IF RaisesEvent(b, call[t].stack)
                                      THEN "callback" ELSE "store"]
<1>1. f.pc \in {"callback", "store"} /\ f.ptr = call[t].ptr /\ f.stack = call[t].stack
  BY DEF TypeOK, Frames
<1>2. Goto(t, f) /\ Touch(AddByStack(b, call[t].stack))
  BY Zenon DEF CountStack
<1> HIDE DEF f
<1> QED
  BY <1>1, <1>2, GotoAt DEF Touch

LEMMA SoloLive ==
    ASSUME NEW t, Threads = {t}, Faults = {}, SoloInv(t), [Next]_vars
    PROVE  LiveStep(t)
<1>0. /\ t \in Threads /\ TypeOK /\ LifeOK(t) /\ BlocksOK(t)
      /\ call \in [Threads -> Frames] /\ call[t] \in Frames /\ FrameOK(call[t])
      /\ book \in Books /\ held \subseteq heap /\ heap \subseteq Addrs
      /\ call[t].ptr # NoAddr => call[t].ptr \in heap \ held
  BY DEF SoloInv, TypeOK, FramesOK, Ownership
<1>fresh. ASSUME NEW a \in Addrs, a \notin held, ~RemovingOf(t, a), "free" \in slots
          PROVE  StackIn(book, a) = NoStack
  BY <1>fresh, FreshBlock
<1>still. ASSUME UNCHANGED <<book, call>>, hookActive' = hookActive \/ hookActive' = FALSE
          PROVE  LiveStep(t)
  BY <1>still, KeepsLive
<1>outside. ASSUME UNCHANGED book, hookActive' = hookActive \/ hookActive' = FALSE,
                   call[t].pc \notin {"callback", "store"},
                   call'[t].pc \notin {"callback", "store"}
            PROVE  LiveStep(t)
  BY <1>outside, KeepsLive DEF Pends
<1>1. CASE UNCHANGED vars
  BY <1>1, <1>still DEF vars, lifeVars
<1>2. CASE Skip(t) \/ Unskip(t) \/ SetMaxAllocs(t) \/ HookClean(t)
  BY <1>2, <1>still DEF Skip, Unskip, SetMaxAllocs, HookClean, lifeVars
<1>3. CASE Release(t)
  <2>1. call'[t].pc = "app"
    BY <1>0, <1>3 DEF Release, Goto, Idle
  <2> QED
    BY <1>3, <2>1, <1>outside DEF Release, lifeVars
<1>4. CASE Clean(t)
  <2>1. call'[t].pc = "app"
    BY <1>0, <1>4 DEF Clean, Goto, Idle
  <2> QED
    BY <1>4, <2>1, <1>outside DEF Clean
<1>5. CASE ExitStarts(t)
  <2>1. UNCHANGED book /\ hookActive' = FALSE
    BY <1>5 DEF ExitStarts
  <2>2. CASE call[t].pc = "app"
    <3>1. Goto(t, [Idle EXCEPT !.pc = "clean"])
      BY <1>5, <2>2 DEF ExitStarts
    <3>2. call'[t].pc = "clean"
      BY <1>0, <3>1 DEF Goto, Idle
    <3> QED
      BY <2>1, <2>2, <3>2, <1>outside
  <2>3. CASE call[t].pc # "app"
    BY <1>5, <2>1, <2>3, <1>still DEF ExitStarts
  <2> QED
    BY <2>2, <2>3
<1>6. CASE CallbackReturn(t)
  <2>1. /\ call[t].pc = "callback" /\ call'[t].pc = "store"
        /\ call'[t].ptr = call[t].ptr /\ call'[t].stack = call[t].stack
    BY <1>0, <1>6, GotoAt DEF CallbackReturn, Frames
  <2>2. UNCHANGED <<book, hookActive>>
    BY <1>6 DEF CallbackReturn, lifeVars
  <2> QED
    BY <2>1, <2>2, KeepsLive DEF Pends
<1>7. ASSUME NEW a \in Addrs, AllocIgnored(t, a) \/ CallbackAlloc(t, a) PROVE LiveStep(t)
  BY <1>7, <1>still DEF AllocIgnored, CallbackAlloc, lifeVars
<1>8. ASSUME NEW a \in Addrs, Free(t, a) PROVE LiveStep(t)
  <2>1. call'[t].pc \in {"free", "release"}
    BY <1>0, <1>8 DEF Goto, Idle, Free, FreeFrame
  <2> QED
    BY <1>8, <2>1, <1>outside DEF Free, lifeVars
<1>9. ASSUME NEW a \in Addrs, ReallocNull(t, a) PROVE LiveStep(t)
  <2>1. Goto(t, [Idle EXCEPT !.pc = "remove", !.old = a])
    BY <1>9 DEF ReallocNull
  <2>2. call'[t].pc = "remove"
    BY <1>0, <2>1 DEF Goto, Idle
  <2> QED
    BY <1>9, <2>2, <1>outside DEF ReallocNull, lifeVars
<1>10. ASSUME NEW a \in Addrs, NEW s \in Stacks, NEW n \in Sizes, AllocTracked(t, a, s, n)
       PROVE  LiveStep(t)
  <2>1. call'[t].pc = "add"
    BY <1>0, <1>10 DEF Goto, Idle, AllocTracked
  <2> QED
    BY <1>10, <2>1, <1>outside DEF AllocTracked, lifeVars
<1>11. ASSUME NEW a \in Addrs, NEW b \in Addrs, NEW s \in Stacks, NEW n \in Sizes,
              ReallocMoves(t, a, b, s, n)
       PROVE  LiveStep(t)
  <2> DEFINE m == [Idle EXCEPT !.pc = "move", !.old = a, !.ptr = b, !.stack = s,
                               !.size = n, !.saved = useHook[t]]
             r == [Idle EXCEPT !.pc = "remove", !.old = a, !.ptr = b]
  <2>1. Goto(t, m) \/ Goto(t, r) \/ call' = call
    BY <1>11 DEF ReallocMoves
  <2>2. m.pc = "move" /\ r.pc = "remove"
    BY DEF Idle
  <2>3. call[t].pc = "app" /\ UNCHANGED <<book, hookActive>>
    BY <1>11 DEF ReallocMoves, lifeVars
  <2> HIDE DEF m, r
  <2> QED
    BY <1>0, <2>1, <2>2, <2>3, GotoAt, <1>outside
<1>12. CASE FreeRemove(t) \/ ReallocRemove(t)
  <2>1. call[t].pc \in {"free", "remove"} /\ call[t].old \in Addrs
    BY <1>0, <1>12 DEF FreeRemove, ReallocRemove, FrameOK
  <2>2. call'[t].pc \in {"app", "release"}
    <3>1. FreeRemove(t) => call'[t].pc = "release"
      BY <1>0 DEF Goto, Idle, FreeRemove
    <3>2. ReallocRemove(t) => call'[t].pc = "app"
      BY <1>0 DEF Goto, Idle, ReallocRemove
    <3> QED
      BY <1>12, <3>1, <3>2
  <2>3. book' = RemMemory(book, call[t].old) /\ hookActive' = hookActive
    BY <1>12, <2>1, RemoveOnlyBook DEF FreeRemove, ReallocRemove
  <2> QED
    BY <1>0, <2>1, <2>2, <2>3, RemovalLive DEF Pends
<1>13. ASSUME NEW a \in Addrs, CallbackFree(t, a) PROVE LiveStep(t)
  <2>1. call' = call /\ hookActive' = hookActive /\ ~Pends(call[t], a)
    BY <1>0, <1>13, AddrsAssumption DEF CallbackFree, Pends
  <2>2. book' = book \/ book' = RemMemory(book, a)
    BY <1>13, RemoveOnlyBook DEF CallbackFree
  <2> QED
    BY <1>0, <2>1, <2>2, RemovalLive, <1>still
<1>14. CASE AddMemory(t)
  <2>1. /\ call[t].pc = "add" /\ CountStack(t, book) /\ UNCHANGED <<hookActive>>
        /\ call[t].ptr \in Addrs \ held /\ call[t].stack \in Stacks
    BY <1>0, <1>14, AddrsAssumption DEF AddMemory, FrameOK, Tracking
  <2>2. hookActive /\ "free" \in slots
    BY <1>0, <2>1 DEF LifeOK, Slots
  <2>3. StackIn(book, call[t].ptr) = NoStack
    BY <1>fresh, <2>1, <2>2 DEF RemovingOf
  <2>4. /\ Pends(call'[t], call[t].ptr) /\ call'[t].stack = call[t].stack
        /\ book' = AddByStack(book, call[t].stack)
    BY <1>0, <2>1, CountStackCounts DEF Pends
  <2>5. ~Pends(call[t], call[t].ptr)
    BY <2>1 DEF Pends
  <2>6. LiveIn(book', call'[t]) = [LiveIn(book, call[t]) EXCEPT ![call[t].ptr] = call[t].stack]
    BY <1>0, <2>1, <2>3, <2>4, LiveAfterCount
  <2> QED
    BY <2>1, <2>2, <2>3, <2>4, <2>5, <2>6 DEF Tracks, LiveStep
<1>15. CASE RemoveAndAddMemory(t)
  <2> DEFINE a == call[t].old
             p == call[t].ptr
             s == call[t].stack
             r == RemMemory(book, a)
  <2>1. ~EmptiesBook(book, a) /\ call[t].pc = "move" /\ hookActive /\ "free" \in slots
    BY <1>0, <1>15 DEF RemoveAndAddMemory, LifeOK, EmptiesBook, Slots
  <2>2. CountStack(t, r) /\ hookActive' = hookActive
    BY <1>15, <2>1 DEF RemoveAndAddMemory
  <2>3. a \in Addrs /\ p \in Addrs \ held /\ s \in Stacks /\ p # a
    BY <1>0, <2>1, AddrsAssumption DEF FrameOK, Tracking, BlocksOK
  <2>4. StackIn(book, p) = NoStack /\ ~Pends(call[t], p) /\ ~Pends(call[t], a)
    BY <1>fresh, <2>1, <2>3 DEF RemovingOf, Pends
  <2>5. /\ Pends(call'[t], p) /\ call'[t].stack = s
        /\ book' = AddByStack(r, s)
    BY <1>0, <2>1, <2>2, CountStackCounts DEF Pends
  <2>6. r \in Books
    BY <1>0, <2>3, RemMemoryType
  <2>7. StackIn(r, p) = NoStack
    BY <1>0, <2>3, <2>4, StackInRemMemory
  <2>8. LiveIn(r, call[t]) = [LiveIn(book, call[t]) EXCEPT ![a] = NoStack]
    BY <1>0, <2>3, <2>4, LiveAfterRem
  <2> HIDE DEF r
  <2>9. LiveIn(book', call'[t]) = [LiveIn(r, call[t]) EXCEPT ![p] = s]
    BY <2>1, <2>3, <2>5, <2>6, <2>7, LiveAfterCount
  <2>10. CASE StackIn(book, a) = NoStack
    <3>1. r = book
      BY <1>0, <2>3, <2>10, StackInTracked DEF RemMemory, Tracked, r
    <3> QED
      BY <2>1, <2>2, <2>3, <2>4, <2>5, <2>9, <3>1 DEF Tracks, LiveStep
  <2>11. CASE StackIn(book, a) # NoStack
    <3>1. Counters(book') = Counters(AddByStack(RemMemory(book, a), s))
      BY <2>5 DEF r
    <3>2. LiveIn(book', call'[t]) =
              [LiveIn(book, call[t]) EXCEPT ![a] = NoStack, ![p] = s]
      BY <2>8, <2>9
    <3> QED
      BY <2>1, <2>2, <2>3, <2>4, <2>11, <3>1, <3>2 DEF Moves, LiveStep
  <2> QED
    BY <2>10, <2>11
<1>16. CASE StoreMemory(t)
  <2> DEFINE f == call[t]
  <2>1. /\ f.pc = "store" /\ f.ptr \in Addrs \ held /\ "free" \in slots
        /\ f.stack \in Stacks /\ f.size \in Sizes
    BY <1>0, <1>16, AddrsAssumption DEF StoreMemory, FrameOK, Tracking, LifeOK, Slots
  <2>2. StackIn(book, f.ptr) = NoStack
    BY <1>fresh, <2>1 DEF RemovingOf
  <2>3. call'[t].pc \in {"app", "release"}
    BY <1>0, <1>16, StoreMemoryPc
  <2>4. /\ book' = AddByMemory(book, f.ptr, f.stack, f.size)
        /\ hookActive' = hookActive
    BY <1>16 DEF StoreMemory, Touch
  <2>5. LiveIn(book', call'[t]) = LiveIn(book, f)
    BY <1>0, <2>1, <2>2, <2>3, <2>4, LiveAfterStore DEF Pends
  <2>6. Counters(book') = Counters(book)
    BY <1>0, <2>4, CountersOfStore
  <2> QED
    BY <2>4, <2>5, <2>6 DEF Keeps, LiveStep
<1>17. ASSUME NEW a \in Addrs, NEW b \in Addrs, NEW s \in Stacks, NEW n \in Sizes,
              CallbackRealloc(t, a, b, s, n)
       PROVE  LiveStep(t)
  <2>1. /\ call[t].pc = "callback" /\ call' = call /\ a \in held /\ b \notin heap /\ a # b
        /\ hookActive' = hookActive
        /\ ~Pends(call[t], a) /\ ~Pends(call[t], b)
    BY <1>0, <1>17, AddrsAssumption DEF CallbackRealloc, Pends
  <2> DEFINE r == RemMemory(book, a)
  <2>2. r \in Books
    BY <1>0, RemMemoryType
  <2>3. CASE hookActive
    <3>1. "free" \in slots
      BY <1>0, <2>3 DEF LifeOK, Slots
    <3>2. StackIn(book, b) = NoStack
      BY <1>0, <1>fresh, <2>1, <3>1 DEF RemovingOf
    <3>3. StackIn(r, b) = NoStack
      BY <1>0, <2>1, <3>2, StackInRemMemory
    <3>4. LiveIn(r, call[t]) = [LiveIn(book, call[t]) EXCEPT ![a] = NoStack]
      BY <1>0, <2>1, LiveAfterRem
    <3>5. book' = AddByMemory(AddByStack(r, s), b, s, n)
      BY <1>17, <2>3 DEF CallbackRealloc, Touch
    <3> HIDE DEF r
    <3>6. LiveIn(book', call'[t]) = [LiveIn(r, call[t]) EXCEPT ![b] = s]
      BY <2>1, <2>2, <3>3, <3>5, LiveAfterAdd
    <3>7. AddByStack(r, s) \in Books
      BY <2>2, AddByStackType
    <3>8. Counters(book') = Counters(AddByStack(r, s))
      BY <3>5, <3>7, CountersOfStore
    <3>9. CASE StackIn(book, a) = NoStack
      <4>1. r = book
        BY <1>0, <3>9, StackInTracked DEF RemMemory, Tracked, r
      <4> QED
        BY <2>1, <2>3, <3>2, <3>6, <3>8, <4>1 DEF Tracks, LiveStep
    <3>10. CASE StackIn(book, a) # NoStack
      <4>1. LiveIn(book', call'[t]) =
                [LiveIn(book, call[t]) EXCEPT ![a] = NoStack, ![b] = s]
        BY <3>4, <3>6
      <4>2. Counters(book') = Counters(AddByStack(RemMemory(book, a), s))
        BY <3>8 DEF r
      <4> QED
        BY <2>1, <2>3, <3>2, <3>10, <4>1, <4>2 DEF Moves, LiveStep
    <3> QED
      BY <3>9, <3>10
  <2>4. CASE ~hookActive
    <3>1. book' = book \/ book' = RemMemory(book, a)
      BY <1>17, <2>4, RemoveOnlyBook DEF CallbackRealloc
    <3> QED
      BY <1>0, <2>1, <3>1, RemovalLive, <1>still
  <2> QED
    BY <2>3, <2>4
<1> QED
  BY <1>0, <1>1, <1>2, <1>3, <1>4, <1>5, <1>6, <1>7, <1>8, <1>9, <1>10, <1>11, <1>12, <1>13,
     <1>14, <1>15, <1>16, <1>17 DEF Next, Finish

(* The count of every stack is the number of its live blocks. *)
CountsOK(t) == Exact(book, LiveIn(book, call[t]))

LEMMA CountsOKStep ==
    ASSUME NEW t, Threads = {t}, SoloInv(t), CountsOK(t), LiveStep(t)
    PROVE  CountsOK(t)'
<1> DEFINE L == LiveIn(book, call[t])
<1>1. book \in Books /\ L \in Lives /\ Exact(book, L)
  BY LiveType DEF SoloInv, TypeOK, FramesOK, CountsOK
<1>2. ASSUME NEW b, NEW c, NEW l, Exact(b, l), Counters(c) = Counters(b) PROVE Exact(c, l)
  BY <1>2 DEF Exact, Counters
<1>3. CASE Keeps(t)
  BY <1>1, <1>2, <1>3 DEF Keeps, CountsOK
<1>4. ASSUME NEW a \in Addrs, NEW s \in Stacks, Tracks(t, a, s) PROVE CountsOK(t)'
  <2>1. L[a] = NoStack
    BY <1>4, LiveOfUntracked DEF Tracks
  <2> HIDE DEF L
  <2>2. Exact(AddByStack(book, s), [L EXCEPT ![a] = s])
    BY <1>1, <2>1, ExactAdd
  <2>3. Exact(book', [L EXCEPT ![a] = s])
    BY <1>2, <1>4, <2>2 DEF Tracks
  <2> QED
    BY <1>4, <2>3 DEF Tracks, CountsOK, L
<1>5. ASSUME NEW a \in Addrs, Drops(t, a) PROVE CountsOK(t)'
  <2>1. StackIn(book, a) # NoStack /\ L[a] = StackIn(book, a)
    BY <1>5, LiveOfTracked DEF Drops
  <2> HIDE DEF L
  <2>2. Exact(RemMemory(book, a), [L EXCEPT ![a] = NoStack])
    BY <1>1, <2>1, ExactDrop
  <2>3. Exact(book', [L EXCEPT ![a] = NoStack])
    BY <1>2, <1>5, <2>2 DEF Drops
  <2> QED
    BY <1>5, <2>3 DEF Drops, CountsOK, L
<1>6. ASSUME NEW a \in Addrs, NEW b \in Addrs, NEW s \in Stacks, Moves(t, a, b, s)
      PROVE  CountsOK(t)'
  <2>1. StackIn(book, a) # NoStack /\ L[a] = StackIn(book, a) /\ L[b] = NoStack
    BY <1>6, LiveOfTracked, LiveOfUntracked DEF Moves
  <2> HIDE DEF L
  <2> DEFINE K == [L EXCEPT ![a] = NoStack]
             r == RemMemory(book, a)
  <2>2. Exact(r, K)
    BY <1>1, <2>1, ExactDrop
  <2>3. r \in Books /\ K \in Lives /\ K[b] = NoStack
    BY <1>1, <2>1, RemMemoryType DEF Lives
  <2> HIDE DEF K, r
  <2>4. Exact(AddByStack(r, s), [K EXCEPT ![b] = s])
    BY <2>2, <2>3, ExactAdd
  <2>5. Counters(book') = Counters(AddByStack(r, s))
    BY <1>6 DEF Moves, r
  <2>6. LiveIn(book', call'[t]) = [K EXCEPT ![b] = s]
    BY <1>6 DEF Moves, K, L
  <2>7. Exact(book', [K EXCEPT ![b] = s])
    BY <1>2, <2>4, <2>5
  <2> QED
    BY <2>6, <2>7 DEF CountsOK
<1> QED
  BY <1>3, <1>4, <1>5, <1>6 DEF LiveStep

LEMMA CountsOKHolds ==
    ASSUME NEW t, Threads = {t}, Faults = {}
    PROVE  Spec => []CountsOK(t)
<1>1. Init => CountsOK(t)
  <2> SUFFICES ASSUME Init, NEW s \in Stacks
               PROVE  book.hashByStack[s] = CountOf(LiveIn(book, call[t]), s)
    BY DEF CountsOK, Exact
  <2>1. \A a \in Addrs : LiveIn(book, call[t])[a] = NoStack
    BY DEF Init, LiveIn, StackIn, EmptyBook, Idle
  <2>2. {a \in Addrs : LiveIn(book, call[t])[a] = s} = {}
    BY <2>1, StacksAssumption
  <2>3. CountOf(LiveIn(book, call[t]), s) = 0
    BY <2>2, FS_EmptySet DEF CountOf
  <2> QED
    BY <2>3 DEF Init, EmptyBook
<1>2. SoloInv(t) /\ CountsOK(t) /\ [Next]_vars => CountsOK(t)'
  BY SoloLive, CountsOKStep
<1>3. Spec => []SoloInv(t)
  BY SoloHolds
<1> QED
  BY <1>1, <1>2, <1>3, PTL DEF Spec

(* CountsExact: in a process with one thread that is refused nothing, between *)
(* calls the count of each stack is the number of blocks the application      *)
(* holds from it, through every nested call of the callback.                  *)
THEOREM CountsExactHolds ==
    ASSUME NEW t, Threads = {t}, Faults = {}
    PROVE  Spec => []CountsExact
<1>1. SoloInv(t) /\ CountsOK(t) => CountsExact
  <2> SUFFICES ASSUME SoloInv(t), CountsOK(t), "free" \in slots, call[t].pc = "app",
                      NEW s \in Stacks
               PROVE  book.hashByStack[s] = Cardinality(HeldFrom(s))
    BY DEF CountsExact
  <2>1. ASSUME NEW a \in Addrs PROVE LiveIn(book, call[t])[a] = s <=> a \in HeldFrom(s)
    <3>1. LiveIn(book, call[t])[a] = StackIn(book, a)
      BY DEF LiveIn
    <3>2. CASE a \in held
      BY <3>1, <3>2 DEF SoloInv, BlocksOK, HeldFrom
    <3>3. CASE a \notin held
      BY <3>1, <3>3, FreshBlock, StacksAssumption DEF RemovingOf, HeldFrom
    <3> QED
      BY <3>2, <3>3
  <2>2. HeldFrom(s) \subseteq Addrs
    BY DEF SoloInv, TypeOK, HeldFrom
  <2>3. {a \in Addrs : LiveIn(book, call[t])[a] = s} = HeldFrom(s)
    BY <2>1, <2>2
  <2> QED
    BY <2>3 DEF CountsOK, Exact, CountOf
<1>2. Spec => []SoloInv(t)
  BY SoloHolds
<1>3. Spec => []CountsOK(t)
  BY CountsOKHolds
<1> QED
  BY <1>1, <1>2, <1>3, PTL

-----------------------------------------------------------------------------
(* One thread that is refused nothing implements the tracker. *)
Live == [a \in Addrs |-> LiveStack(a)]

LEMMA LiveAsLiveIn ==
    ASSUME NEW t, Threads = {t}, TypeOK, TypeOK'
    PROVE  Live = LiveIn(book, call[t]) /\ Live' = LiveIn(book', call'[t])
<1>1. /\ \A a \in Addrs : a \in Tracked(book) <=> StackIn(book, a) # NoStack
      /\ \A a \in Addrs : a \in Tracked(book') <=> StackIn(book', a) # NoStack
  BY StackInTracked DEF TypeOK
<1>2. \A u \in Threads : u = t
  OBVIOUS
<1>3. InSection(t) => (CHOOSE u \in Threads : InSection(u)) = t
  BY <1>2
<1>4. InSection(t)' => (CHOOSE u \in Threads : InSection(u)') = t
  BY <1>2
<1>5. ASSUME NEW a \in Addrs PROVE LiveStack(a) = LiveIn(book, call[t])[a]
  BY <1>1, <1>2, <1>3 DEF LiveStack, LiveIn, InSection, StackIn, Tracked
<1>6. ASSUME NEW a \in Addrs PROVE LiveStack(a)' = LiveIn(book', call'[t])[a]
  BY <1>1, <1>2, <1>4 DEF LiveStack, LiveIn, InSection, StackIn, Tracked
<1> QED
  BY <1>5, <1>6 DEF Live, LiveIn

LEMMA TrackerInit ==
    ASSUME NEW t, Threads = {t}, Init
    PROVE  Tracker!Init
<1>1. \A a \in Addrs : LiveStack(a) = NoStack
  BY DEF Init, LiveStack, Tracked, EmptyBook, InSection, Idle
<1> QED
  BY <1>1 DEF Init, Tracker!Init, EmptyBook

(* What the tracker sees of a step that counts stack s: the highest count    *)
(* and the events.                                                           *)
LEMMA CountedAllocation ==
    ASSUME NEW b \in Books, NEW s \in Stacks, Counters(book') = Counters(AddByStack(b, s)),
           maxAllocs = MaxAllocsDef, b.allocsMaxUpToNow = book.allocsMaxUpToNow,
           b.numberOfEvents = book.numberOfEvents
    PROVE  Tracker!Allocated(s)
<1> DEFINE c == AddByStack(b, s)
<1>1. /\ c.hashByStack[s] = b.hashByStack[s] + 1
      /\ c.allocsMaxUpToNow = IF c.hashByStack[s] > b.allocsMaxUpToNow
                              THEN c.hashByStack[s] ELSE b.allocsMaxUpToNow
      /\ c.numberOfEvents = IF /\ c.hashByStack[s] > b.allocsMaxUpToNow
                               /\ c.hashByStack[s] > MaxAllocsDef
                            THEN b.numberOfEvents + 1 ELSE b.numberOfEvents
  BY DEF AddByStack, RaisesEvent, Books
<1>2. /\ book'.hashByStack = c.hashByStack
      /\ book'.allocsMaxUpToNow = c.allocsMaxUpToNow
      /\ book'.numberOfEvents = c.numberOfEvents
  BY DEF Counters
<1> HIDE DEF c
<1> QED
  BY <1>1, <1>2 DEF Tracker!Allocated

LEMMA RemKeepsPeak ==
    ASSUME NEW b \in Books, NEW a \in Addrs
    PROVE  /\ RemMemory(b, a).allocsMaxUpToNow = b.allocsMaxUpToNow
           /\ RemMemory(b, a).numberOfEvents = b.numberOfEvents
BY DEF RemMemory, Books

(* The instance has its own copy of FiniteSets. *)
LEMMA SameCardinality ==
    ASSUME NEW S
    PROVE  Tracker!Cardinality(S) = Cardinality(S)
BY DEF Tracker!Cardinality, Cardinality

LEMMA TrackerStep ==
    ASSUME NEW t, Threads = {t}, SoloInv(t), TypeOK', CountsOK(t)', maxAllocs = MaxAllocsDef,
           LiveStep(t)
    PROVE  [Tracker!Next]_(Tracker!trackerVars)
<1> DEFINE L == LiveIn(book, call[t])
           M == LiveIn(book', call'[t])
<1>0. /\ TypeOK /\ book \in Books /\ book' \in Books
      /\ Live = L /\ Live' = M
  BY LiveAsLiveIn DEF SoloInv, TypeOK
<1>1. Tracker!Counted
  <2>1. /\ book'.hashByStack \in [Stacks -> Nat]
        /\ \A s \in Stacks : book'.hashByStack[s] = CountOf(M, s)
    BY <1>0 DEF Books, CountsOK, Exact
  <2> HIDE DEF M
  <2>2. ASSUME NEW s \in Stacks PROVE Tracker!Outstanding(s)' = CountOf(M, s)
    <3>1. Tracker!Outstanding(s)' = Cardinality({a \in Addrs : Live'[a] = s})
      BY SameCardinality DEF Tracker!Outstanding, Live
    <3> QED
      BY <1>0, <3>1 DEF CountOf
  <2> QED
    BY <2>1, <2>2 DEF Tracker!Counted
<1>2. CASE Keeps(t)
  <2>1. Live' = Live /\ UNCHANGED <<book.hashByStack, book.allocsMaxUpToNow, book.numberOfEvents>>
    BY <1>0, <1>2 DEF Keeps, Counters
  <2>2. CASE hookActive' = hookActive
    BY <2>1, <2>2 DEF Tracker!trackerVars, Live
  <2>3. CASE hookActive' = FALSE
    BY <2>1, <2>3 DEF Tracker!Next, Tracker!Stop, Live
  <2> QED
    BY <1>2, <2>2, <2>3 DEF Keeps
<1>3. ASSUME NEW a \in Addrs, NEW s \in Stacks, Tracks(t, a, s) PROVE Tracker!Next
  <2>1. L[a] = NoStack
    BY <1>3, LiveOfUntracked DEF Tracks
  <2>2. M = [L EXCEPT ![a] = s] /\ hookActive /\ hookActive' = hookActive
    BY <1>3 DEF Tracks
  <2> HIDE DEF L, M
  <2>3. Tracker!Allocated(s)
    BY <1>0, <1>3, CountedAllocation DEF Tracks
  <2>4. Tracker!Allocate(a, s)
    BY <1>0, <1>1, <2>1, <2>2, <2>3 DEF Tracker!Allocate, Live
  <2> QED
    BY <2>4 DEF Tracker!Next
<1>4. ASSUME NEW a \in Addrs, Drops(t, a) PROVE Tracker!Next
  <2>1. L[a] # NoStack
    BY <1>4, LiveOfTracked DEF Drops
  <2>2. M = [L EXCEPT ![a] = NoStack] /\ hookActive' = hookActive
    BY <1>4 DEF Drops
  <2> HIDE DEF L, M
  <2>3. UNCHANGED <<book.allocsMaxUpToNow, book.numberOfEvents>>
    BY <1>0, <1>4, RemKeepsPeak DEF Drops, Counters
  <2>4. Tracker!Release(a)
    BY <1>0, <1>1, <2>1, <2>2, <2>3 DEF Tracker!Release, Live
  <2> QED
    BY <2>4 DEF Tracker!Next
<1>5. ASSUME NEW a \in Addrs, NEW b \in Addrs, NEW s \in Stacks, Moves(t, a, b, s)
      PROVE  Tracker!Next
  <2>1. L[a] # NoStack /\ L[b] = NoStack
    BY <1>5, LiveOfTracked, LiveOfUntracked DEF Moves
  <2>2. /\ M = [L EXCEPT ![a] = NoStack, ![b] = s]
        /\ hookActive /\ hookActive' = hookActive
    BY <1>5 DEF Moves
  <2> HIDE DEF L, M
  <2>3. Tracker!Allocated(s)
    BY <1>0, <1>5, CountedAllocation, RemKeepsPeak, RemMemoryType DEF Moves
  <2>4. Tracker!Move(a, b, s)
    BY <1>0, <1>1, <2>1, <2>2, <2>3 DEF Tracker!Move, Live
  <2> QED
    BY <2>4 DEF Tracker!Next
<1> QED
  BY <1>2, <1>3, <1>4, <1>5 DEF LiveStep

(* ImplementsTracker: with one thread that is refused nothing and a threshold *)
(* nobody writes, the hooks, the two tables, the nested calls of the callback *)
(* and the exit handler implement the list of live allocations: every step    *)
(* is one step of it or none.                                                 *)
THEOREM ImplementsTrackerHolds ==
    ASSUME NEW t, Threads = {t}, Faults = {}, Thresholds = {}
    PROVE  Spec => ImplementsTracker
<1> DEFINE T == maxAllocs = MaxAllocsDef
<1>1. Spec => []SoloInv(t)
  BY SoloHolds
<1>2. Spec => []CountsOK(t)
  BY CountsOKHolds
<1>3. Init => T
  BY DEF Init
<1>4. T /\ [Next]_vars => T'
  BY MaxAllocsFixed
<1>5. Spec => []T
  <2> HIDE DEF T
  <2> QED
    BY <1>3, <1>4, PTL DEF Spec
<1>6. Init => Tracker!Init
  BY TrackerInit
<1>7. ASSUME SoloInv(t), TypeOK', CountsOK(t)', T, [Next]_vars
      PROVE  [Tracker!Next]_(Tracker!trackerVars)
  <2>1. LiveStep(t)
    BY <1>7, SoloLive
  <2> QED
    BY <1>7, <2>1, TrackerStep
<1>8. SoloInv(t) /\ TypeOK' /\ CountsOK(t)' /\ T /\ [Next]_vars
      => [Tracker!Next]_(Tracker!trackerVars)
  BY <1>7
<1> HIDE DEF T
<1> QED
  BY <1>1, <1>2, <1>5, <1>6, <1>8, TypeCorrect, PTL DEF Spec, ImplementsTracker, Tracker!Spec
=============================================================================
