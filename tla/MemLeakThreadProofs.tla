-------------------------- MODULE MemLeakThreadProofs --------------------------
(***************************************************************************)
(* Theorems about what one thread of MemLeakInvest relies on: its useHook, *)
(* the blocks in its hands, and the entries it has still to remove.        *)
(***************************************************************************)
EXTENDS MemLeakInvestProofs

-----------------------------------------------------------------------------
(* useHook.  Outside the investigator it is the exact number of skips,      *)
(* folded into an int8_t; inside it waits in the frame.  Exit ends tracking *)
(* before it touches the useHook of the exiting thread.                     *)
HookOK(t) ==
    /\ skips[t] <= MaxSkip
    /\ exiter # t =>
          IF call[t].pc \in Tracking THEN call[t].saved = AsInt8(skips[t])
                                     ELSE useHook[t] = AsInt8(skips[t])
    /\ call[t].pc = "clean" => exiter = t
    /\ call[t].pc = "add" /\ MaxSkip <= 127 => skips[t] = 0

HookInv ==
    /\ \A t \in Threads : HookOK(t)
    /\ exiter # NoThread => ~hookActive

(* int8_t arithmetic is arithmetic modulo 256, exact up to 127. *)
LEMMA AsInt8Sums ==
    ASSUME NEW n \in Nat
    PROVE  /\ AsInt8(AsInt8(n) + 1) = AsInt8(n + 1)
           /\ AsInt8(AsInt8(n) - 1) = AsInt8(n - 1)
           /\ n <= 127 => AsInt8(n) = n
           /\ AsInt8(0) = 0
BY DEF AsInt8

(* A step of one thread that leaves skips and the exit alone. *)
LEMMA HookStepOf ==
    ASSUME TypeOK, HookInv, NEW t \in Threads,
           UNCHANGED <<skips, exiter, hookActive>>,
           \A u \in Threads \ {t} : call'[u] = call[u] /\ useHook'[u] = useHook[u],
           call'[t].pc # "clean",
           call'[t].pc = "add" /\ MaxSkip <= 127 => skips[t] = 0,
           exiter # t =>
               IF call'[t].pc \in Tracking THEN call'[t].saved = AsInt8(skips[t])
                                           ELSE useHook'[t] = AsInt8(skips[t])
    PROVE  HookInv'
<1>1. ASSUME NEW u \in Threads PROVE HookOK(u)'
  BY DEF HookInv, HookOK
<1> QED
  BY <1>1 DEF HookInv

LEMMA HookStep == TypeOK /\ FramesOK /\ HookInv /\ [Next]_vars => HookInv'
<1> SUFFICES ASSUME TypeOK, FramesOK, HookInv, [Next]_vars PROVE HookInv'
  OBVIOUS
<1>0. ASSUME NEW t \in Threads
      PROVE  /\ HookOK(t) /\ call[t] \in Frames /\ skips[t] \in Nat /\ useHook[t] \in Int8
             /\ call \in [Threads -> Frames] /\ useHook \in [Threads -> Int8]
             /\ skips \in [Threads -> Nat]
  BY DEF HookInv, TypeOK
<1>same. ASSUME UNCHANGED <<call, useHook, skips, exiter, hookActive>> PROVE HookInv'
  BY <1>same DEF HookInv, HookOK
<1>1. CASE UNCHANGED vars
  BY <1>1, <1>same DEF vars, lifeVars
<1>2. ASSUME NEW t \in Threads, Skip(t) PROVE HookInv'
  <2>1. ASSUME NEW u \in Threads PROVE HookOK(u)'
    <3>1. CASE u = t
      <4>1. /\ call'[t] = call[t] /\ call[t].pc = "app" /\ exiter' = exiter
            /\ skips'[t] = skips[t] + 1 /\ skips[t] < MaxSkip
            /\ useHook'[t] = AsInt8(useHook[t] + 1)
        BY <1>0, <1>2 DEF Skip, SetHook, lifeVars
      <4>2. skips'[t] <= MaxSkip
        BY <1>0, <4>1, BoundsAssumption
      <4>3. exiter # t => useHook[t] = AsInt8(skips[t])
        BY <1>0, <4>1 DEF HookOK, Tracking
      <4>4. exiter # t => useHook'[t] = AsInt8(skips'[t])
        BY <1>0, <4>1, <4>3, AsInt8Sums
      <4> QED
        BY <3>1, <4>1, <4>2, <4>4 DEF HookOK, Tracking
    <3>2. CASE u # t
      BY <1>0, <1>2, <3>2 DEF Skip, SetHook, lifeVars, HookOK
    <3> QED
      BY <3>1, <3>2
  <2> QED
    BY <1>2, <2>1 DEF HookInv, Skip, lifeVars
<1>3. ASSUME NEW t \in Threads, Unskip(t) PROVE HookInv'
  <2>1. ASSUME NEW u \in Threads PROVE HookOK(u)'
    <3>1. CASE u = t
      <4>1. /\ call'[t] = call[t] /\ call[t].pc = "app" /\ exiter' = exiter
            /\ skips'[t] = skips[t] - 1 /\ skips[t] > 0
            /\ useHook'[t] = AsInt8(useHook[t] - 1)
        BY <1>0, <1>3 DEF Unskip, SetHook, lifeVars
      <4>2. skips'[t] <= MaxSkip
        BY <1>0, <4>1, BoundsAssumption DEF HookOK
      <4>3. exiter # t => useHook[t] = AsInt8(skips[t])
        BY <1>0, <4>1 DEF HookOK, Tracking
      <4>4. exiter # t => useHook'[t] = AsInt8(skips'[t])
        BY <1>0, <4>1, <4>3, AsInt8Sums
      <4> QED
        BY <3>1, <4>1, <4>2, <4>4 DEF HookOK, Tracking
    <3>2. CASE u # t
      BY <1>0, <1>3, <3>2 DEF Unskip, SetHook, lifeVars, HookOK
    <3> QED
      BY <3>1, <3>2
  <2> QED
    BY <1>3, <2>1 DEF HookInv, Unskip, lifeVars
<1>4. ASSUME NEW t \in Threads, SetMaxAllocs(t) \/ HookClean(t) PROVE HookInv'
  BY <1>4, <1>same DEF SetMaxAllocs, HookClean, lifeVars
<1>5. ASSUME NEW t \in Threads, NEW a \in Addrs,
             AllocIgnored(t, a) \/ CallbackAlloc(t, a) \/ CallbackFree(t, a)
      PROVE  HookInv'
  BY <1>5, <1>same DEF AllocIgnored, CallbackAlloc, CallbackFree, lifeVars
<1>6. ASSUME NEW t \in Threads, NEW a \in Addrs, NEW b \in Addrs, NEW s \in Stacks,
             NEW n \in Sizes, CallbackRealloc(t, a, b, s, n)
      PROVE  HookInv'
  BY <1>6, <1>same DEF CallbackRealloc
<1> USE DEF Idle
<1>7. ASSUME NEW t \in Threads, NEW a \in Addrs, NEW s \in Stacks, NEW n \in Sizes,
             AllocTracked(t, a, s, n)
      PROVE  HookInv'
  <2>1. exiter # t /\ useHook[t] = AsInt8(skips[t]) /\ useHook[t] < 1
    BY <1>0, <1>7, ThreadsAssumption DEF Watched, HookInv, HookOK, AllocTracked, Tracking
  <2>2. MaxSkip <= 127 => skips[t] = 0
    <3>1. skips[t] <= MaxSkip /\ skips[t] \in Nat
      BY <1>0 DEF HookOK
    <3>2. MaxSkip <= 127 => AsInt8(skips[t]) = skips[t]
      BY <3>1, AsInt8Sums, BoundsAssumption
    <3> QED
      BY <2>1, <3>1, <3>2
  <2>3. UNCHANGED <<skips, exiter, hookActive>>
    BY <1>7 DEF AllocTracked, lifeVars
  <2>4. \A u \in Threads \ {t} : call'[u] = call[u] /\ useHook'[u] = useHook[u]
    BY <1>0, <1>7 DEF AllocTracked, Goto, SetHook
  <2>5. \/ call'[t].pc = "add" /\ call'[t].saved = useHook[t]
        \/ call'[t].pc = "release" /\ useHook'[t] = useHook[t]
    BY <1>0, <1>7 DEF AllocTracked, Goto
  <2> QED
    BY <2>1, <2>2, <2>3, <2>4, <2>5, HookStepOf DEF Tracking
<1>8. ASSUME NEW t \in Threads, NEW b, call[t].pc \in {"add", "move"}, CountStack(t, b),
             UNCHANGED <<skips, exiter, hookActive>>
      PROVE  HookInv'
  <2>1. exiter # t => call[t].saved = AsInt8(skips[t])
    BY <1>0, <1>8 DEF HookOK, Tracking
  <2>2. \A u \in Threads \ {t} : call'[u] = call[u] /\ useHook'[u] = useHook[u]
    BY <1>0, <1>8 DEF CountStack, Goto, SetHook
  <2>3. \/ call'[t].pc \in {"callback", "store"} /\ call'[t].saved = call[t].saved
        \/ call'[t].pc = "release" /\ useHook'[t] = call[t].saved
    <3> DEFINE f == [call[t] EXCEPT !.pc = IF RaisesEvent(b, call[t].stack)
                                          THEN "callback" ELSE "store"]
    <3>1. f.pc \in {"callback", "store"} /\ f.saved = call[t].saved
      BY <1>0 DEF Frames
    <3> DEFINE g == [Idle EXCEPT !.pc = "release", !.ptr = call[t].ptr]
    <3>2. g.pc = "release"
      OBVIOUS
    <3>3. Goto(t, f) \/ (Goto(t, g) /\ SetHook(t, call[t].saved))
      BY <1>8, Zenon DEF CountStack
    <3> HIDE DEF f, g, Idle
    <3>4. CASE Goto(t, f)
      BY <1>0, <3>1, <3>4 DEF Goto
    <3>5. CASE Goto(t, g) /\ SetHook(t, call[t].saved)
      BY <1>0, <3>2, <3>5 DEF Goto, SetHook
    <3> QED
      BY <3>3, <3>4, <3>5
  <2> QED
    BY <1>8, <2>1, <2>2, <2>3, HookStepOf DEF Tracking
<1>9. ASSUME NEW t \in Threads, AddMemory(t) PROVE HookInv'
  BY <1>8, <1>9 DEF AddMemory
<1>10. ASSUME NEW t \in Threads, RemoveAndAddMemory(t) PROVE HookInv'
  <2>1. CASE torn = "up" /\ EmptiesBook(book, call[t].old)
    <3>1. exiter # t => call[t].saved = AsInt8(skips[t])
      BY <1>0, <1>10 DEF HookOK, Tracking, RemoveAndAddMemory
    <3>2. /\ call'[t].pc = "release" /\ useHook'[t] = call[t].saved
          /\ \A u \in Threads \ {t} : call'[u] = call[u] /\ useHook'[u] = useHook[u]
      BY <1>0, <1>10, <2>1 DEF RemoveAndAddMemory, Goto, SetHook
    <3>3. UNCHANGED <<skips, exiter, hookActive>>
      BY <1>10 DEF RemoveAndAddMemory
    <3> QED
      BY <3>1, <3>2, <3>3, HookStepOf DEF Tracking
  <2>2. CASE ~(torn = "up" /\ EmptiesBook(book, call[t].old))
    BY <1>8, <1>10, <2>2 DEF RemoveAndAddMemory
  <2> QED
    BY <2>1, <2>2
<1>11. ASSUME NEW t \in Threads, StoreMemory(t) PROVE HookInv'
  <2>1. exiter # t => call[t].saved = AsInt8(skips[t])
    BY <1>0, <1>11 DEF HookOK, Tracking, StoreMemory
  <2>2. /\ useHook'[t] = call[t].saved
        /\ \A u \in Threads \ {t} : call'[u] = call[u] /\ useHook'[u] = useHook[u]
    BY <1>0, <1>11 DEF Restored, StoreMemory, Goto, SetHook
  <2>3. call'[t].pc \in {"app", "release"}
    <3> DEFINE g == [Idle EXCEPT !.pc = "release", !.ptr = call[t].ptr]
    <3>1. Goto(t, Idle) \/ Goto(t, g)
      BY <1>11 DEF StoreMemory
    <3>2. Idle.pc = "app" /\ g.pc = "release"
      OBVIOUS
    <3> HIDE DEF g, Idle
    <3> QED
      BY <1>0, <3>1, <3>2 DEF Goto
  <2> QED
    BY <1>11, <2>1, <2>2, <2>3, HookStepOf DEF StoreMemory, Tracking
<1>12. ASSUME NEW t \in Threads,
              Release(t) \/ FreeRemove(t) \/ ReallocRemove(t)
       PROVE  HookInv'
  <2>1. exiter # t => useHook[t] = AsInt8(skips[t])
    BY <1>0, <1>12 DEF HookOK, Tracking, Release, FreeRemove, ReallocRemove
  <2>2. /\ UNCHANGED <<skips, exiter, hookActive, useHook>>
        /\ call'[t].pc \in {"app", "release"}
        /\ \A u \in Threads \ {t} : call'[u] = call[u]
    <3>1. UNCHANGED <<skips, exiter, hookActive, useHook>>
      BY <1>12 DEF Release, FreeRemove, ReallocRemove, lifeVars
    <3> DEFINE g == [Idle EXCEPT !.pc = "release", !.ptr = call[t].ptr]
    <3>2. Goto(t, Idle) \/ Goto(t, g)
      BY <1>12 DEF Release, FreeRemove, ReallocRemove
    <3>3. Idle.pc = "app" /\ g.pc = "release"
      OBVIOUS
    <3> HIDE DEF g, Idle
    <3> QED
      BY <1>0, <3>1, <3>2, <3>3 DEF Goto
  <2> QED
    BY <2>1, <2>2, HookStepOf DEF Tracking
<1>13. ASSUME NEW t \in Threads, NEW a \in Addrs, Free(t, a) \/ ReallocNull(t, a)
       PROVE  HookInv'
  <2>1. exiter # t => useHook[t] = AsInt8(skips[t])
    BY <1>0, <1>13 DEF HookOK, Tracking, Free, ReallocNull
  <2>2. /\ UNCHANGED <<skips, exiter, hookActive, useHook>>
        /\ call'[t].pc \in {"free", "release", "remove"}
        /\ \A u \in Threads \ {t} : call'[u] = call[u]
    BY <1>0, <1>13 DEF FreeFrame, Free, ReallocNull, Goto, lifeVars
  <2> QED
    BY <2>1, <2>2, HookStepOf DEF Tracking
<1>14. ASSUME NEW t \in Threads, NEW a \in Addrs, NEW b \in Addrs, NEW s \in Stacks,
              NEW n \in Sizes, ReallocMoves(t, a, b, s, n)
       PROVE  HookInv'
  <2>1. exiter # t => useHook[t] = AsInt8(skips[t])
    BY <1>0, <1>14 DEF HookOK, Tracking, ReallocMoves
  <2>2. /\ UNCHANGED <<skips, exiter, hookActive>>
        /\ \A u \in Threads \ {t} : call'[u] = call[u] /\ useHook'[u] = useHook[u]
    BY <1>0, <1>14 DEF ReallocMoves, Goto, SetHook, lifeVars
  <2>3. \/ call'[t].pc = "move" /\ call'[t].saved = useHook[t]
        \/ call'[t].pc \in {"release", "remove", "app"} /\ useHook'[t] = useHook[t]
    BY <1>0, <1>14 DEF ReallocMoves, Goto
  <2> QED
    BY <2>1, <2>2, <2>3, HookStepOf DEF Tracking
<1>15. ASSUME NEW t \in Threads, CallbackReturn(t) PROVE HookInv'
  <2>1. exiter # t => call[t].saved = AsInt8(skips[t])
    BY <1>0, <1>15 DEF HookOK, Tracking, CallbackReturn
  <2>2. /\ call'[t].pc = "store" /\ call'[t].saved = call[t].saved
        /\ \A u \in Threads \ {t} : call'[u] = call[u]
    BY <1>0, <1>15 DEF CallbackReturn, Goto, Frames
  <2> QED
    BY <1>15, <2>1, <2>2, HookStepOf DEF CallbackReturn, Tracking, lifeVars
<1>16. ASSUME NEW t \in Threads, ExitStarts(t) PROVE HookInv'
  <2>1. /\ exiter = NoThread /\ exiter' = t /\ ~hookActive' /\ skips' = skips
        /\ \A u \in Threads \ {t} : call'[u] = call[u] /\ useHook'[u] = useHook[u]
        /\ call'[t].pc \in {"clean", "callback"}
    BY <1>0, <1>16 DEF ExitStarts, Goto, SetHook
  <2>2. ASSUME NEW u \in Threads PROVE HookOK(u)'
    BY <1>0, <2>1, ThreadsAssumption DEF HookOK
  <2> QED
    BY <2>1, <2>2 DEF HookInv
<1>17. ASSUME NEW t \in Threads, Clean(t) PROVE HookInv'
  <2>1. exiter = t
    BY <1>0, <1>17 DEF HookOK, Clean
  <2>2. /\ UNCHANGED <<skips, exiter, hookActive>>
        /\ call'[t].pc = "app"
        /\ \A u \in Threads \ {t} : call'[u] = call[u] /\ useHook'[u] = useHook[u]
    BY <1>0, <1>17 DEF Clean, Goto, SetHook
  <2> QED
    BY <2>1, <2>2, HookStepOf
<1> QED
  BY <1>1, <1>2, <1>3, <1>4, <1>5, <1>6, <1>7, <1>9, <1>10, <1>11, <1>12, <1>13, <1>14,
     <1>15, <1>16, <1>17 DEF Next, Finish

LEMMA HookInit == Init => HookInv
<1> SUFFICES ASSUME Init PROVE HookInv
  OBVIOUS
<1>1. ASSUME NEW t \in Threads PROVE HookOK(t)
  BY AsInt8Sums, BoundsAssumption DEF Init, HookOK, Idle, Tracking
<1> QED
  BY <1>1 DEF Init, HookInv

(* SkipRestored: every path through the hooks, failures included, gives the  *)
(* thread back the useHook that its Skip and Unskip calls made.              *)
THEOREM SkipRestoredHolds == Spec => []SkipRestored
<1>1. HookInv => SkipRestored
  BY DEF HookInv, HookOK, SkipRestored, Tracking
<1> QED
  BY <1>1, HookInit, HookStep, TypeCorrect, PTL DEF Spec

(* SkippedAllocIgnored: up to 127 nested skips, no malloc, calloc or         *)
(* realloc(NULL, n) of a skipping thread is tracked.  At 128 the int8_t      *)
(* turns negative and the premise is needed.                                 *)
THEOREM SkippedAllocIgnoredHolds ==
    ASSUME MaxSkip <= 127
    PROVE  Spec => []SkippedAllocIgnored
<1>1. HookInv => SkippedAllocIgnored
  BY DEF HookInv, HookOK, SkippedAllocIgnored
<1>2. Spec => []HookInv
  BY HookInit, HookStep, TypeCorrect, PTL DEF Spec
<1> QED
  BY <1>1, <1>2, PTL

-----------------------------------------------------------------------------
(* What the book operators do to the set of tracked blocks. *)
LEMMA TrackedAfter ==
    ASSUME NEW b \in Books, NEW a \in Addrs, NEW s \in Stacks, NEW n \in Sizes
    PROVE  /\ Tracked(AddByStack(b, s)) = Tracked(b)
           /\ Tracked(AddByMemory(b, a, s, n)) = Tracked(b) \cup {a}
<1>1. b.hashByMemory \in [Addrs -> Entries \cup {NoEntry}]
  BY DEF Books
<1>2. Tracked(AddByStack(b, s)) = Tracked(b)
  BY DEF AddByStack, Tracked, Books
<1>3. Tracked(AddByMemory(b, a, s, n)) = Tracked(b) \cup {a}
  <2>1. CASE b.hashByMemory[a] # NoEntry
    BY <2>1 DEF AddByMemory, Tracked
  <2>2. CASE b.hashByMemory[a] = NoEntry
    <3> DEFINE e == [stack |-> s, size |-> n]
    <3>1. AddByMemory(b, a, s, n).hashByMemory = [b.hashByMemory EXCEPT ![a] = e]
      BY <2>2 DEF AddByMemory, Books
    <3>2. e # NoEntry
      BY EntriesAssumption DEF Entries
    <3> HIDE DEF e
    <3> QED
      BY <1>1, <3>1, <3>2 DEF Tracked
  <2> QED
    BY <2>1, <2>2
<1> QED
  BY <1>2, <1>3

LEMMA TrackedAfterRemoval ==
    ASSUME NEW b \in Books, NEW a \in Addrs
    PROVE  Tracked(RemMemory(b, a)) = Tracked(b) \ {a}
<1>0. b.hashByMemory \in [Addrs -> Entries \cup {NoEntry}]
  BY DEF Books
<1>1. CASE b.hashByMemory[a] = NoEntry
  BY <1>1 DEF RemMemory, Tracked
<1>2. CASE b.hashByMemory[a] # NoEntry
  <2>1. RemMemory(b, a).hashByMemory = [b.hashByMemory EXCEPT ![a] = NoEntry]
    BY <1>2 DEF RemMemory, Books
  <2> QED
    BY <1>0, <2>1 DEF Tracked
<1> QED
  BY <1>1, <1>2

LEMMA SlotsShrink ==
    ASSUME NEW a \in Addrs, RemoveOnly(a)
    PROVE  slots' \subseteq slots
BY DEF RemoveOnly, Touch

-----------------------------------------------------------------------------
(* No entry outlives its block. *)
RemovingOf(t, a) == call[t].pc \in {"free", "move", "remove"} /\ call[t].old = a

(* A step of one thread may drop an entry, or hand its block on. *)
LEMMA StaleStepOf ==
    ASSUME TypeOK, NoStaleEntry, NEW t \in Threads, slots' \subseteq slots,
           \A u \in Threads \ {t} : call'[u] = call[u],
           \A a \in Tracked(book)' : a \in Tracked(book) \/ a \in held',
           \A a \in Tracked(book)' :
               a \in held \/ RemovingOf(t, a) => a \in held' \/ RemovingOf(t, a)'
    PROVE  NoStaleEntry'
<1> SUFFICES ASSUME {"realloc", "free"} \subseteq slots', NEW a \in Tracked(book)'
             PROVE  a \in held' \/ Removing(a)'
  BY DEF NoStaleEntry
<1>1. CASE a \in held'
  BY <1>1
<1>2. CASE a \notin held'
  <2>1. a \in held \/ Removing(a)
    BY <1>2 DEF NoStaleEntry
  <2>2. CASE a \in held \/ RemovingOf(t, a)
    BY <1>2, <2>2 DEF Removing, RemovingOf
  <2>3. CASE a \notin held /\ ~RemovingOf(t, a)
    <3>1. PICK u \in Threads : u # t /\ RemovingOf(u, a)
      BY <2>1, <2>3 DEF Removing, RemovingOf
    <3>2. call'[u] = call[u]
      BY <3>1
    <3> QED
      BY <3>1, <3>2 DEF Removing, RemovingOf
  <2> QED
    BY <2>2, <2>3
<1> QED
  BY <1>1, <1>2

LEMMA StaleStep ==
    ASSUME "capture" \notin Faults, TypeOK, FramesOK, NoStaleEntry, [Next]_vars
    PROVE  NoStaleEntry'
<1>0. ASSUME NEW t \in Threads
      PROVE  /\ call[t] \in Frames /\ FrameOK(call[t])
             /\ call \in [Threads -> Frames] /\ book \in Books
  BY DEF FramesOK, TypeOK
<1>same. ASSUME UNCHANGED <<book, held, call>>, slots' \subseteq slots PROVE NoStaleEntry'
  BY <1>same DEF NoStaleEntry, Tracked, Removing
<1>1. CASE UNCHANGED vars
  BY <1>1, <1>same DEF vars, lifeVars
<1>2. ASSUME NEW t \in Threads, Skip(t) \/ Unskip(t) \/ SetMaxAllocs(t) \/ HookClean(t)
      PROVE  NoStaleEntry'
  BY <1>2, <1>same DEF Skip, Unskip, SetMaxAllocs, HookClean, lifeVars
<1> USE DEF Idle
<1>3. ASSUME NEW t \in Threads,
             Release(t) \/ CallbackReturn(t) \/ ExitStarts(t) \/ Clean(t)
      PROVE  NoStaleEntry'
  <2>1. UNCHANGED <<book, held>> /\ slots' \subseteq slots /\ ~\E a : RemovingOf(t, a)
    BY <1>3 DEF Release, CallbackReturn, ExitStarts, Clean, lifeVars, RemovingOf
  <2>2. \A u \in Threads \ {t} : call'[u] = call[u]
    BY <1>0, <1>3 DEF Release, CallbackReturn, ExitStarts, Clean, Goto
  <2> QED
    BY <2>1, <2>2, StaleStepOf DEF Tracked
<1>4. ASSUME NEW t \in Threads, NEW a \in Addrs, AllocIgnored(t, a) \/ CallbackAlloc(t, a)
      PROVE  NoStaleEntry'
  BY <1>0, <1>4, StaleStepOf DEF AllocIgnored, CallbackAlloc, lifeVars, RemovingOf, Tracked
<1>5. ASSUME NEW t \in Threads, NEW a \in Addrs, NEW s \in Stacks, NEW n \in Sizes,
             AllocTracked(t, a, s, n)
      PROVE  NoStaleEntry'
  <2>1. UNCHANGED <<book, held, slots>> /\ ~\E c : RemovingOf(t, c)
    BY <1>5 DEF AllocTracked, lifeVars, RemovingOf
  <2>2. \A u \in Threads \ {t} : call'[u] = call[u]
    BY <1>0, <1>5 DEF AllocTracked, Goto
  <2> QED
    BY <2>1, <2>2, StaleStepOf DEF Tracked
<1>6. ASSUME NEW t \in Threads, NEW b, CountStack(t, b)
      PROVE  /\ slots' \subseteq slots
             /\ \A u \in Threads \ {t} : call'[u] = call[u]
             /\ book' = b \/ book' = AddByStack(b, call[t].stack)
  BY <1>0, <1>6 DEF CountStack, Touch, Goto
<1>7. ASSUME NEW t \in Threads, AddMemory(t) PROVE NoStaleEntry'
  <2>1. CountStack(t, book) /\ held' = held /\ ~\E a : RemovingOf(t, a)
    BY <1>7 DEF AddMemory, RemovingOf
  <2>2. call[t].stack \in Stacks /\ call[t].ptr \in Addrs /\ call[t].size \in Sizes
    BY <1>0, <1>7 DEF AddMemory, FrameOK, Tracking
  <2>3. Tracked(book') = Tracked(book)
    BY <1>0, <1>6, <2>1, <2>2, TrackedAfter
  <2>4. Tracked(book)' = Tracked(book)
    BY <2>3 DEF Tracked
  <2> QED
    BY <1>6, <2>1, <2>4, StaleStepOf
<1>8. ASSUME NEW t \in Threads, RemoveAndAddMemory(t) PROVE NoStaleEntry'
  <2> DEFINE a == call[t].old
  <2>1. call[t].stack \in Stacks /\ call[t].size \in Sizes /\ a \in Addrs /\ held' = held
    BY <1>0, <1>8 DEF RemoveAndAddMemory, FrameOK, Tracking
  <2>2. /\ slots' \subseteq slots
        /\ \A u \in Threads \ {t} : call'[u] = call[u]
        /\ \/ book' = RemMemory(book, a)
           \/ book' = AddByStack(RemMemory(book, a), call[t].stack)
    <3>1. CASE torn = "up" /\ EmptiesBook(book, a)
      BY <1>0, <1>8, <3>1 DEF RemoveAndAddMemory, Goto
    <3>2. CASE ~(torn = "up" /\ EmptiesBook(book, a))
      BY <1>6, <1>8, <3>2 DEF RemoveAndAddMemory
    <3> QED
      BY <3>1, <3>2
  <2>3. Tracked(book') = Tracked(book) \ {a}
    BY <1>0, <2>1, <2>2, TrackedAfter, TrackedAfterRemoval, RemMemoryType
  <2>4. Tracked(book)' = Tracked(book) \ {a}
    BY <2>3 DEF Tracked
  <2> QED
    BY <2>1, <2>2, <2>4, StaleStepOf DEF RemovingOf
<1>9. ASSUME NEW t \in Threads, StoreMemory(t) PROVE NoStaleEntry'
  <2> DEFINE f == call[t]
  <2>1. f.ptr \in Addrs /\ f.stack \in Stacks /\ f.size \in Sizes /\ ~\E c : RemovingOf(t, c)
    BY <1>0, <1>9 DEF StoreMemory, FrameOK, Tracking, RemovingOf
  <2>2. \/ book' = AddByMemory(book, f.ptr, f.stack, f.size) /\ held' = held \cup {f.ptr}
        \/ book' = book /\ held' = held
    BY <1>9 DEF StoreMemory, Touch
  <2>3. slots' \subseteq slots /\ \A u \in Threads \ {t} : call'[u] = call[u]
    BY <1>0, <1>9 DEF StoreMemory, Touch, Goto
  <2>4. \/ Tracked(book)' = Tracked(book) \cup {f.ptr} /\ held' = held \cup {f.ptr}
        \/ Tracked(book)' = Tracked(book) /\ held' = held
    BY <1>0, <2>1, <2>2, TrackedAfter DEF Tracked
  <2> QED
    BY <2>1, <2>3, <2>4, StaleStepOf
<1>10. ASSUME NEW t \in Threads, NEW a \in Addrs, Free(t, a) \/ ReallocNull(t, a)
       PROVE  NoStaleEntry'
  <2>1. UNCHANGED <<book, slots>> /\ held' = held \ {a} /\ ~\E c : RemovingOf(t, c)
    BY <1>10 DEF Free, ReallocNull, lifeVars, RemovingOf
  <2>2. /\ \A u \in Threads \ {t} : call'[u] = call[u]
        /\ RemovingOf(t, a)' \/ "free" \notin slots
    BY <1>0, <1>10 DEF FreeFrame, Free, ReallocNull, Goto, RemovingOf
  <2>3. CASE "free" \notin slots
    BY <2>1, <2>3 DEF NoStaleEntry
  <2>4. CASE RemovingOf(t, a)'
    BY <2>1, <2>2, <2>4, StaleStepOf DEF Tracked
  <2> QED
    BY <2>2, <2>3, <2>4
<1>11. ASSUME NEW t \in Threads, FreeRemove(t) \/ ReallocRemove(t) PROVE NoStaleEntry'
  <2> DEFINE a == call[t].old
  <2>1. a \in Addrs
    BY <1>0, <1>11 DEF FreeRemove, ReallocRemove, FrameOK
  <2>2. RemoveOnly(a) /\ held \subseteq held'
    BY <1>11 DEF FreeRemove, ReallocRemove
  <2>3. book' = RemMemory(book, a) /\ slots' \subseteq slots
    BY <2>1, <2>2, RemoveOnlyBook, SlotsShrink
  <2>4. Tracked(book)' = Tracked(book) \ {a}
    <3>1. Tracked(book') = Tracked(book) \ {a}
      BY <1>0, <2>1, <2>3, TrackedAfterRemoval
    <3> QED
      BY <3>1 DEF Tracked
  <2>5. \A u \in Threads \ {t} : call'[u] = call[u]
    BY <1>0, <1>11 DEF FreeRemove, ReallocRemove, Goto
  <2> QED
    BY <2>2, <2>3, <2>4, <2>5, StaleStepOf DEF RemovingOf
<1>12. ASSUME NEW t \in Threads, NEW a \in Addrs, NEW b \in Addrs, NEW s \in Stacks,
              NEW n \in Sizes, ReallocMoves(t, a, b, s, n)
       PROVE  NoStaleEntry'
  <2>1. /\ UNCHANGED <<book, slots>> /\ held \ {a} \subseteq held'
        /\ ~\E c : RemovingOf(t, c)
    BY <1>12 DEF ReallocMoves, lifeVars, RemovingOf
  <2>2. /\ \A u \in Threads \ {t} : call'[u] = call[u]
        /\ RemovingOf(t, a)' \/ "realloc" \notin slots
    BY <1>0, <1>12 DEF ReallocMoves, Goto, RemovingOf
  <2>3. CASE "realloc" \notin slots
    BY <2>1, <2>3 DEF NoStaleEntry
  <2>4. CASE RemovingOf(t, a)'
    BY <2>1, <2>2, <2>4, StaleStepOf DEF Tracked
  <2> QED
    BY <2>2, <2>3, <2>4
<1>13. ASSUME NEW t \in Threads, NEW a \in Addrs, CallbackFree(t, a) PROVE NoStaleEntry'
  <2>1. call' = call /\ held' = held \ {a} /\ ~\E c : RemovingOf(t, c)
    BY <1>13 DEF CallbackFree, RemovingOf
  <2>2. CASE "free" \notin slots
    BY <1>13, <2>2 DEF CallbackFree, NoStaleEntry
  <2>3. CASE "free" \in slots
    <3>1. book' = RemMemory(book, a) /\ slots' \subseteq slots
      BY <1>13, <2>3, RemoveOnlyBook, SlotsShrink DEF CallbackFree
    <3>2. Tracked(book') = Tracked(book) \ {a}
      BY <1>0, <3>1, TrackedAfterRemoval
    <3>3. Tracked(book)' = Tracked(book) \ {a}
      BY <3>2 DEF Tracked
    <3> QED
      BY <2>1, <3>1, <3>3, StaleStepOf
  <2> QED
    BY <2>2, <2>3
<1>14. ASSUME NEW t \in Threads, NEW a \in Addrs, NEW b \in Addrs, NEW s \in Stacks,
              NEW n \in Sizes, CallbackRealloc(t, a, b, s, n)
       PROVE  NoStaleEntry'
  <2>1. call' = call /\ held' = (held \ {a}) \cup {b} /\ ~\E c : RemovingOf(t, c)
    BY <1>14 DEF CallbackRealloc, RemovingOf
  <2>2. CASE hookActive
    <3>1. /\ book' = AddByMemory(AddByStack(RemMemory(book, a), s), b, s, n)
          /\ slots' \subseteq slots
      BY <1>14, <2>2 DEF CallbackRealloc, Touch
    <3>2. /\ RemMemory(book, a) \in Books
          /\ AddByStack(RemMemory(book, a), s) \in Books
      BY <1>0, RemMemoryType, AddByStackType
    <3>3. Tracked(book') = (Tracked(book) \ {a}) \cup {b}
      BY <1>0, <3>1, <3>2, TrackedAfter, TrackedAfterRemoval
    <3>4. Tracked(book)' = (Tracked(book) \ {a}) \cup {b}
      BY <3>3 DEF Tracked
    <3> QED
      BY <2>1, <3>1, <3>4, StaleStepOf
  <2>3. CASE ~hookActive /\ "realloc" \notin slots
    BY <1>14, <2>3 DEF CallbackRealloc, NoStaleEntry
  <2>4. CASE ~hookActive /\ "realloc" \in slots
    <3>1. book' = RemMemory(book, a) /\ slots' \subseteq slots
      BY <1>14, <2>4, RemoveOnlyBook, SlotsShrink DEF CallbackRealloc
    <3>2. Tracked(book') = Tracked(book) \ {a}
      BY <1>0, <3>1, TrackedAfterRemoval
    <3>3. Tracked(book)' = Tracked(book) \ {a}
      BY <3>2 DEF Tracked
    <3> QED
      BY <2>1, <3>1, <3>3, StaleStepOf
  <2> QED
    BY <2>2, <2>3, <2>4
<1> QED
  BY <1>1, <1>2, <1>3, <1>4, <1>5, <1>7, <1>8, <1>9, <1>10, <1>11, <1>12, <1>13, <1>14
  DEF Next, Finish

(* NoStaleEntry: as long as stacks can be captured, an entry of the memory   *)
(* table belongs to a block the application holds or to a call that is about *)
(* to remove it, on every interleaving of the windows of free and realloc.   *)
THEOREM NoStaleEntryHolds ==
    ASSUME "capture" \notin Faults
    PROVE  Spec => []NoStaleEntry
<1>1. Init => NoStaleEntry
  BY DEF Init, NoStaleEntry, Tracked, EmptyBook
<1>2. TypeOK /\ FramesOK /\ NoStaleEntry /\ [Next]_vars => NoStaleEntry'
  BY StaleStep
<1> QED
  BY <1>1, <1>2, TypeCorrect, PTL DEF Spec

-----------------------------------------------------------------------------
(* One owner per block.  A step of a thread takes from the heap only what    *)
(* the application holds or the thread has in its hands, and adds to either  *)
(* only that or a block that was not allocated.                              *)
LEMMA OwnStepOf ==
    ASSUME TypeOK, Ownership, NEW t \in Threads,
           \A u \in Threads \ {t} : call'[u] = call[u],
           heap \ heap' \subseteq held \cup {call[t].ptr},
           held' \subseteq held \cup {call[t].ptr} \cup (Addrs \ heap),
           held' \subseteq heap',
           call'[t].ptr \in held \cup {call[t].ptr, NoAddr} \cup (Addrs \ heap),
           call'[t].ptr # NoAddr => call'[t].ptr \in heap' \ held'
    PROVE  Ownership'
<1>1. ASSUME NEW u \in Threads, call'[u].ptr # NoAddr
      PROVE  call'[u].ptr \in heap' \ held'
  <2>1. CASE u = t
    BY <1>1, <2>1
  <2>2. CASE u # t
    <3>1. call'[u] = call[u]
      BY <2>2
    <3>2. call[u].ptr \in heap \ held /\ call[u].ptr # call[t].ptr
      BY <1>1, <2>2, <3>1 DEF Ownership
    <3> QED
      BY <3>1, <3>2
  <2> QED
    BY <2>1, <2>2
<1>2. ASSUME NEW u \in Threads, u # t, call'[u].ptr = call'[t].ptr
      PROVE  call'[t].ptr = NoAddr
  <2>1. call'[u] = call[u]
    BY <1>2
  <2>2. CASE call[u].ptr = NoAddr
    BY <1>2, <2>1, <2>2
  <2>3. CASE call[u].ptr # NoAddr
    BY <1>2, <2>1, <2>3 DEF Ownership
  <2> QED
    BY <2>2, <2>3
<1>3. ASSUME NEW u \in Threads, NEW v \in Threads, u # v, call'[u].ptr = call'[v].ptr
      PROVE  call'[u].ptr = NoAddr
  <2>1. CASE u = t \/ v = t
    BY <1>2, <1>3, <2>1
  <2>2. CASE u # t /\ v # t
    <3>1. call'[u] = call[u] /\ call'[v] = call[v]
      BY <2>2
    <3> QED
      BY <1>3, <3>1 DEF Ownership
  <2> QED
    BY <2>1, <2>2
<1> QED
  BY <1>1, <1>3 DEF Ownership

LEMMA OwnStep == TypeOK /\ FramesOK /\ Ownership /\ [Next]_vars => Ownership'
<1> SUFFICES ASSUME TypeOK, FramesOK, Ownership, [Next]_vars PROVE Ownership'
  OBVIOUS
<1>0. ASSUME NEW t \in Threads
      PROVE  /\ call[t] \in Frames /\ FrameOK(call[t]) /\ call \in [Threads -> Frames]
             /\ call[t].ptr # NoAddr => call[t].ptr \in heap \ held
             /\ held \subseteq heap /\ heap \subseteq Addrs
  BY DEF FramesOK, TypeOK, Ownership
<1>same. ASSUME UNCHANGED <<heap, held, call>> PROVE Ownership'
  BY <1>same DEF Ownership
<1>1. CASE UNCHANGED vars
  BY <1>1, <1>same DEF vars
<1>2. ASSUME NEW t \in Threads, Skip(t) \/ Unskip(t) \/ SetMaxAllocs(t) \/ HookClean(t)
      PROVE  Ownership'
  BY <1>2, <1>same DEF Skip, Unskip, SetMaxAllocs, HookClean
(* The thread's frame changes and the block in its hands stays or is let go. *)
<1>keep. ASSUME NEW t \in Threads, UNCHANGED <<heap, held>>,
                \A u \in Threads \ {t} : call'[u] = call[u],
                call'[t].ptr \in {call[t].ptr, NoAddr}
         PROVE  Ownership'
  BY <1>0, <1>keep, OwnStepOf
<1> USE DEF Idle
<1>3. ASSUME NEW t \in Threads, CallbackReturn(t) PROVE Ownership'
  <2>1. /\ \A u \in Threads \ {t} : call'[u] = call[u]
        /\ call'[t].ptr = call[t].ptr
    BY <1>0, <1>3 DEF CallbackReturn, Goto, Frames
  <2> QED
    BY <1>3, <2>1, <1>keep DEF CallbackReturn
<1>4. ASSUME NEW t \in Threads, ExitStarts(t) \/ Clean(t) PROVE Ownership'
  <2> DEFINE g == [Idle EXCEPT !.pc = "clean"]
  <2>1. Goto(t, g) \/ Goto(t, Idle) \/ call' = call
    BY <1>4 DEF ExitStarts, Clean
  <2>2. g.ptr = NoAddr /\ Idle.ptr = NoAddr
    OBVIOUS
  <2> HIDE DEF g, Idle
  <2>3. /\ \A u \in Threads \ {t} : call'[u] = call[u]
        /\ call'[t].ptr \in {call[t].ptr, NoAddr}
    BY <1>0, <2>1, <2>2 DEF Goto
  <2> QED
    BY <1>4, <2>3, <1>keep DEF ExitStarts, Clean
<1>5. ASSUME NEW t \in Threads, FreeRemove(t) PROVE Ownership'
  <2>1. /\ \A u \in Threads \ {t} : call'[u] = call[u]
        /\ call'[t].ptr = call[t].ptr
    BY <1>0, <1>5 DEF FreeRemove, Goto
  <2> QED
    BY <1>5, <2>1, <1>keep DEF FreeRemove
<1>6. ASSUME NEW t \in Threads, NEW b, CountStack(t, b), UNCHANGED <<heap, held>>
      PROVE  Ownership'
  <2> DEFINE f == [call[t] EXCEPT !.pc = IF RaisesEvent(b, call[t].stack)
                                        THEN "callback" ELSE "store"]
             g == [Idle EXCEPT !.pc = "release", !.ptr = call[t].ptr]
  <2>1. Goto(t, f) \/ Goto(t, g)
    BY <1>6 DEF CountStack
  <2>2. f.ptr = call[t].ptr /\ g.ptr = call[t].ptr
    BY <1>0 DEF Frames
  <2> HIDE DEF f, g
  <2>3. /\ \A u \in Threads \ {t} : call'[u] = call[u]
        /\ call'[t].ptr = call[t].ptr
    BY <1>0, <2>1, <2>2 DEF Goto
  <2> QED
    BY <1>6, <2>3, <1>keep
<1>7. ASSUME NEW t \in Threads, AddMemory(t) PROVE Ownership'
  BY <1>6, <1>7 DEF AddMemory
<1>8. ASSUME NEW t \in Threads, RemoveAndAddMemory(t) PROVE Ownership'
  <2>1. CASE torn = "up" /\ EmptiesBook(book, call[t].old)
    <3>1. /\ \A u \in Threads \ {t} : call'[u] = call[u]
          /\ call'[t].ptr = call[t].ptr
      BY <1>0, <1>8, <2>1 DEF RemoveAndAddMemory, Goto
    <3> QED
      BY <1>8, <3>1, <1>keep DEF RemoveAndAddMemory
  <2>2. CASE ~(torn = "up" /\ EmptiesBook(book, call[t].old))
    BY <1>6, <1>8, <2>2 DEF RemoveAndAddMemory
  <2> QED
    BY <2>1, <2>2
<1>9. ASSUME NEW t \in Threads, StoreMemory(t) PROVE Ownership'
  <2> DEFINE p == call[t].ptr
             g == [Idle EXCEPT !.pc = "release", !.ptr = p]
  <2>1. p \in Addrs /\ p \in heap \ held
    BY <1>0, <1>9, AddrsAssumption DEF StoreMemory, FrameOK, Tracking
  <2>2. /\ heap' = heap
        /\ \/ Goto(t, Idle) /\ held' = held \cup {p}
           \/ Goto(t, g) /\ held' = held
    BY <1>9 DEF StoreMemory
  <2>3. Idle.ptr = NoAddr /\ g.ptr = p
    OBVIOUS
  <2> HIDE DEF g, p, Idle
  <2>4. /\ \A u \in Threads \ {t} : call'[u] = call[u]
        /\ \/ call'[t].ptr = NoAddr /\ held' = held \cup {p}
           \/ call'[t].ptr = p /\ held' = held
    BY <1>0, <2>2, <2>3 DEF Goto
  <2> QED
    BY <1>0, <2>1, <2>2, <2>4, OwnStepOf DEF p
<1>10. ASSUME NEW t \in Threads, Release(t) PROVE Ownership'
  <2>1. /\ heap' = heap \ {call[t].ptr} /\ held' = held
        /\ call[t].ptr \in heap \ held
        /\ call'[t].ptr = NoAddr
        /\ \A u \in Threads \ {t} : call'[u] = call[u]
    BY <1>0, <1>10, AddrsAssumption DEF Release, Goto, FrameOK
  <2> QED
    BY <1>0, <2>1, OwnStepOf
<1>11. ASSUME NEW t \in Threads, NEW a \in Addrs, AllocIgnored(t, a) \/ CallbackAlloc(t, a)
       PROVE  Ownership'
  <2>1. /\ heap' = heap \cup {a} /\ held' = held \cup {a} /\ call' = call /\ a \notin heap
    BY <1>11 DEF AllocIgnored, CallbackAlloc
  <2> QED
    BY <1>0, <2>1, OwnStepOf
<1>12. ASSUME NEW t \in Threads, NEW a \in Addrs, NEW s \in Stacks, NEW n \in Sizes,
              AllocTracked(t, a, s, n)
       PROVE  Ownership'
  <2>1. /\ heap' = heap \cup {a} /\ held' = held /\ a \notin heap
        /\ call'[t].ptr = a
        /\ \A u \in Threads \ {t} : call'[u] = call[u]
    BY <1>0, <1>12 DEF AllocTracked, Goto
  <2> QED
    BY <1>0, <2>1, OwnStepOf
<1>13. ASSUME NEW t \in Threads, NEW a \in Addrs, Free(t, a) PROVE Ownership'
  <2>1. /\ heap' = heap /\ held' = held \ {a} /\ a \in held
        /\ call'[t].ptr = a
        /\ \A u \in Threads \ {t} : call'[u] = call[u]
    BY <1>0, <1>13 DEF FreeFrame, Free, Goto
  <2> QED
    BY <1>0, <2>1, OwnStepOf
<1>14. ASSUME NEW t \in Threads, NEW a \in Addrs, ReallocNull(t, a) PROVE Ownership'
  <2>1. /\ held' = held \ {a} /\ a \in held
        /\ \/ heap' = heap \ {a} /\ call'[t].ptr = NoAddr
           \/ heap' = heap /\ call'[t].ptr = a
        /\ \A u \in Threads \ {t} : call'[u] = call[u]
    BY <1>0, <1>14 DEF ReallocNull, Goto
  <2> QED
    BY <1>0, <2>1, OwnStepOf
<1>15. ASSUME NEW t \in Threads, NEW a \in Addrs, NEW b \in Addrs, NEW s \in Stacks,
              NEW n \in Sizes, ReallocMoves(t, a, b, s, n)
       PROVE  Ownership'
  <2>1. /\ heap' = (heap \ {a}) \cup {b} /\ a \in held /\ b \notin heap
        /\ \/ held' = held \ {a} /\ call'[t].ptr = b
           \/ held' = (held \ {a}) \cup {b} /\ call' = call
        /\ \A u \in Threads \ {t} : call'[u] = call[u]
    BY <1>0, <1>15 DEF ReallocMoves, Goto
  <2> QED
    BY <1>0, <2>1, OwnStepOf
<1>16. ASSUME NEW t \in Threads, ReallocRemove(t) PROVE Ownership'
  <2>1. /\ heap' = heap /\ held' = held \cup ({call[t].ptr} \ {NoAddr})
        /\ call'[t].ptr = NoAddr
        /\ \A u \in Threads \ {t} : call'[u] = call[u]
    BY <1>0, <1>16 DEF Returned, ReallocRemove, Goto
  <2> QED
    BY <1>0, <2>1, OwnStepOf
<1>17. ASSUME NEW t \in Threads, NEW a \in Addrs, CallbackFree(t, a) PROVE Ownership'
  <2>1. /\ heap' = heap \ {a} /\ held' = held \ {a} /\ a \in held /\ call' = call
    BY <1>17 DEF CallbackFree
  <2> QED
    BY <1>0, <2>1, OwnStepOf
<1>18. ASSUME NEW t \in Threads, NEW a \in Addrs, NEW b \in Addrs, NEW s \in Stacks,
              NEW n \in Sizes, CallbackRealloc(t, a, b, s, n)
       PROVE  Ownership'
  <2>1. /\ heap' = (heap \ {a}) \cup {b} /\ held' = (held \ {a}) \cup {b}
        /\ a \in held /\ b \notin heap /\ call' = call
    BY <1>18 DEF CallbackRealloc
  <2> QED
    BY <1>0, <2>1, OwnStepOf
<1> QED
  BY <1>1, <1>2, <1>3, <1>4, <1>5, <1>7, <1>8, <1>9, <1>10, <1>11, <1>12, <1>13, <1>14,
     <1>15, <1>16, <1>17, <1>18 DEF Next, Finish

(* Ownership: whatever windows the hooks open between the C library and the  *)
(* books, no block is released while somebody holds it and none has two      *)
(* owners.                                                                   *)
THEOREM OwnershipHolds == Spec => []Ownership
<1>1. Init => Ownership
  BY DEF Init, Ownership, Idle
<1> QED
  BY <1>1, OwnStep, TypeCorrect, PTL DEF Spec

===============================================================================
