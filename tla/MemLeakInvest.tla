---------------------------- MODULE MemLeakInvest ----------------------------
(***************************************************************************)
(* The memory-leak investigator,                                           *)
(* src/core/mem_leak_invest/progs_invest_mem_leak_invest.cpp, while it is  *)
(* installed: several threads of the application call malloc, calloc,      *)
(* realloc and free, each call runs the C library and then the             *)
(* bookkeeping, and the bookkeeping runs under one recursive mutex.        *)
(*                                                                         *)
(* A thread's call is cut where another thread can get in: after the C     *)
(* library has answered and before the mutex is taken, while the event     *)
(* callback runs with the mutex held, and between the bookkeeping of a     *)
(* free and the release of the block.  The bookkeeping itself is a set of  *)
(* operators on one record, the books, because one call chains several of  *)
(* them under one lock.                                                    *)
(*                                                                         *)
(* A definition whose name ends in _Wrong is not part of the model: it is  *)
(* the definition after it with a mistake, which the property named in its *)
(* comment tells from the right one.                                       *)
(*                                                                         *)
(* The C library is external: it hands out any free address, realloc may   *)
(* move, refuse or (size 0) release the block, and an allocation of the    *)
(* investigator's own fails only if the run allows it (Faults).            *)
(***************************************************************************)
EXTENDS Integers, FiniteSets, FiniteSetsExt

CONSTANTS
    Threads,        \* application threads
    Addrs,          \* addresses the C library can hand out
    Stacks,         \* classes of call stacks that compare equal
    Sizes,          \* sizes the application asks for
    MaxAllocsDef,   \* PROGS_INVEST_MEM_LEAK_AN_MAX_ALLOC_DEF
    Thresholds,     \* values the application writes into settings->maxAllocs
    Faults,         \* which of AllFaults a run lets happen
    MaxSkip,        \* bound: nested SkipThisStack calls of a thread
    MaxOutstanding, \* bound: no call starts on a stack that counts this many
    NoThread, NoAddr, NoStack, NoEntry

(* "capture": ProgramsInvestigatorStackGetCurrent returns NULL;            *)
(* "bookkeeping": the C library or the hash refuses memory for an item;    *)
(* "realloc": realloc returns NULL and leaves the block alone.             *)
AllFaults == {"capture", "bookkeeping", "realloc"}

ASSUME ThreadsAssumption == NoThread \notin Threads
ASSUME AddrsAssumption == IsFiniteSet(Addrs) /\ NoAddr \notin Addrs
ASSUME StacksAssumption == NoStack \notin Stacks
ASSUME SizesAssumption == Sizes \subseteq Nat
ASSUME ThresholdsAssumption == MaxAllocsDef \in Nat /\ Thresholds \subseteq Int
ASSUME FaultsAssumption == Faults \subseteq AllFaults
ASSUME BoundsAssumption == MaxSkip \in Nat /\ MaxOutstanding \in Nat

VARIABLES
    heap,         \* addresses the C library counts as allocated
    held,         \* addresses the application holds and may pass back
    book,         \* the two hashes and s_stat, see Books
    maxAllocs,    \* s_sett.maxAllocs
    useHook,      \* useHook of each thread's thread-local block, an int8_t
    mutex,        \* holder of s_hashMutex
    call,         \* each thread's call into the investigator, see Frames
    slots,        \* dispatch slots that point at the investigator
    hookActive,   \* s_bIsHookActive
    exitStarted,  \* s_bModuleExitStarted
    exiter,       \* the thread that runs the exit handlers
    torn,         \* "up"; "unlocked": hashes, mutex and TLS key destroyed, and
                  \* the mutex unlocked after that by the removal that did
                  \* it; "misused": used once more by anyone
    skips,        \* history: Skip calls not yet undone, counted exactly
    charged       \* history: the stack a live block was counted for

vars == <<heap, held, book, maxAllocs, useHook, mutex, call, slots,
          hookActive, exitStarted, exiter, torn, skips, charged>>

lifeVars == <<slots, hookActive, exitStarted, exiter, torn>>

-----------------------------------------------------------------------------
(* The books.  A stack with count 0 has no item in s_hashByStack; an item   *)
(* of s_hashByMemory keeps the stack it was allocated from and its size.    *)

Entries == [stack : Stacks, size : Sizes]

ASSUME EntriesAssumption == NoEntry \notin Entries

Books == [hashByStack            : [Stacks -> Nat],
          hashByMemory           : [Addrs -> Entries \cup {NoEntry}],
          numberOfEvents         : Nat,
          allocsMaxUpToNow       : Nat,
          memoryAllocatedInBytes : Int,
          allocatedItemsCount    : Int]

EmptyBook == [hashByStack            |-> [s \in Stacks |-> 0],
              hashByMemory           |-> [a \in Addrs |-> NoEntry],
              numberOfEvents         |-> 0,
              allocsMaxUpToNow       |-> 0,
              memoryAllocatedInBytes |-> 0,
              allocatedItemsCount    |-> 0]

Tracked(b) == {a \in Addrs : b.hashByMemory[a] # NoEntry}
EntriesOf(b, s) == {a \in Tracked(b) : b.hashByMemory[a].stack = s}

(* OneEventPerNewMaximum: the threshold itself counts as exceeded. *)
RaisesEvent_Wrong(b, s) ==
    /\ b.hashByStack[s] + 1 > b.allocsMaxUpToNow
    /\ b.hashByStack[s] + 1 >= maxAllocs

(* First half of AddMemoryInlineNoLock: find or create the stack item, then *)
(* AnalyzeStackSituationInline, whose high-water mark is shared by all      *)
(* stacks.                                                                  *)
RaisesEvent(b, s) ==
    /\ b.hashByStack[s] + 1 > b.allocsMaxUpToNow
    /\ b.hashByStack[s] + 1 > maxAllocs

(* HighWaterMark, ImplementsTracker: the maximum is only raised when it    *)
(* exceeds the threshold.                                                   *)
AddByStack_Wrong(b, s) ==
    [b EXCEPT !.hashByStack[s] = @ + 1,
              !.allocsMaxUpToNow = IF RaisesEvent(b, s) THEN b.hashByStack[s] + 1 ELSE @,
              !.numberOfEvents = IF RaisesEvent(b, s) THEN @ + 1 ELSE @]

AddByStack(b, s) ==
    [b EXCEPT !.hashByStack[s] = @ + 1,
              !.allocsMaxUpToNow =
                  IF b.hashByStack[s] + 1 > @ THEN b.hashByStack[s] + 1 ELSE @,
              !.numberOfEvents = IF RaisesEvent(b, s) THEN @ + 1 ELSE @]

(* HeldBlocksTracked: only the first block of a stack is stored. *)
AddByMemory_Wrong(b, a, s, n) == IF b.hashByStack[s] > 1 THEN b ELSE
    [b EXCEPT !.hashByMemory[a] = [stack |-> s, size |-> n],
              !.memoryAllocatedInBytes = @ + n,
              !.allocatedItemsCount = @ + 1]

(* Second half: a pointer that is already in the table keeps its old item.  *)
AddByMemory(b, a, s, n) ==
    IF b.hashByMemory[a] # NoEntry
    THEN b
    ELSE [b EXCEPT !.hashByMemory[a] = [stack |-> s, size |-> n],
                   !.memoryAllocatedInBytes = @ + n,
                   !.allocatedItemsCount = @ + 1]

(* CountsExact, CountsCoverEntries: it goes with its last but one block. *)
CountDown_Wrong(n) == IF n - 1 < 2 THEN 0 ELSE n - 1

(* The stack item goes when its count drops below 1. *)
CountDown(n) == IF n - 1 < 1 THEN 0 ELSE n - 1

(* StatusMatchesTable: the byte count is left as it is. *)
BytesOf_Wrong(e) == 0
BytesOf(e) == e.size

(* RemMemoryInlineNoLock. *)
RemMemory(b, a) ==
    IF b.hashByMemory[a] = NoEntry
    THEN b
    ELSE LET e == b.hashByMemory[a]
         IN  [b EXCEPT !.hashByStack[e.stack] = CountDown(@),
                       !.hashByMemory[a] = NoEntry,
                       !.memoryAllocatedInBytes = @ - BytesOf(e),
                       !.allocatedItemsCount = @ - 1]

(* The tail of RemMemoryInlineNoLock: during exit the removal that empties  *)
(* both hashes gives the slots back and destroys hashes, mutex and TLS key. *)
EmptiesBook(b, a) ==
    /\ exitStarted
    /\ b.hashByMemory[a] # NoEntry
    /\ \A s \in Stacks : RemMemory(b, a).hashByStack[s] = 0
    /\ Tracked(RemMemory(b, a)) = {}

-----------------------------------------------------------------------------
(* int8_t arithmetic of useHook. *)
Int8 == -128..127
AsInt8(n) == ((n + 128) % 256) - 128

(* A thread's call: where it is (pc), the block it takes out of the books   *)
(* (old), the block that is in its hands meanwhile (ptr), the captured      *)
(* stack, the size and the saved useHook.                                   *)
(*   "app"      application code, outside the investigator                  *)
(*   "add"      in AddMemory, stack captured, before the mutex              *)
(*   "move"     in RemoveAndAddMemory, stack captured, before the mutex     *)
(*   "remove"   realloc that only removes, before the mutex                 *)
(*   "callback" in the event callback, mutex held                           *)
(*   "store"    before the second half of AddMemoryInlineNoLock, mutex held *)
(*   "free"     in the hooked free, before the mutex                        *)
(*   "release"  before the C library's free                                 *)
(*   "clean"    in the exit handler, before the mutex                       *)
Tracking == {"add", "move", "callback", "store"}

Frames == [pc    : Tracking \cup {"app", "remove", "free", "release", "clean"},
           old   : Addrs \cup {NoAddr},
           ptr   : Addrs \cup {NoAddr},
           stack : Stacks \cup {NoStack},
           size  : Sizes \cup {0},
           saved : Int8]

Idle == [pc |-> "app", old |-> NoAddr, ptr |-> NoAddr,
         stack |-> NoStack, size |-> 0, saved |-> 0]

(* MutexOK: a thread does not wait for the mutex. *)
MutexFree_Wrong(t) == TRUE
MutexFree(t) == mutex \in {NoThread, t}

Goto(t, frame) == call' = [call EXCEPT ![t] = frame]
SetHook(t, n) == useHook' = [useHook EXCEPT ![t] = n]

(* Every access to the books goes through Touch: it fails to be harmless    *)
(* once they are destroyed.                                                 *)
Touch(b) ==
    /\ book' = b
    /\ torn' = IF torn = "up" THEN "up" ELSE "misused"
    /\ UNCHANGED slots

(* NoCallAfterTeardown: the slot of realloc keeps leading here. *)
GivenBack_Wrong == {"free"}
GivenBack == {"realloc", "free"}

(* A removal under the mutex, with the teardown it may end in.  What follows *)
(* the teardown is the unlock of the mutex that it has destroyed.            *)
RemoveOnly(a) ==
    IF torn = "up" /\ EmptiesBook(book, a)
    THEN /\ book' = RemMemory(book, a)
         /\ torn' = "unlocked"
         /\ slots' = slots \ GivenBack
    ELSE Touch(RemMemory(book, a))

-----------------------------------------------------------------------------
Init ==
    /\ heap = {}
    /\ held = {}
    /\ book = EmptyBook
    /\ maxAllocs = MaxAllocsDef
    /\ useHook = [t \in Threads |-> 0]
    /\ mutex = NoThread
    /\ call = [t \in Threads |-> Idle]
    /\ slots = {"malloc", "calloc", "realloc", "free"}
    /\ hookActive = TRUE
    /\ exitStarted = FALSE
    /\ exiter = NoThread
    /\ torn = "up"
    /\ skips = [t \in Threads |-> 0]
    /\ charged = [a \in Addrs |-> NoStack]

(* ProgsInvestMemLeakInvestSkipThisStack / UnskipThisStack, paired. *)
Skip(t) ==
    /\ call[t].pc = "app"
    /\ skips[t] < MaxSkip
    /\ skips' = [skips EXCEPT ![t] = @ + 1]
    /\ SetHook(t, AsInt8(useHook[t] + 1))
    /\ UNCHANGED <<heap, held, book, maxAllocs, mutex, call, lifeVars, charged>>

Unskip(t) ==
    /\ call[t].pc = "app"
    /\ skips[t] > 0
    /\ skips' = [skips EXCEPT ![t] = @ - 1]
    /\ SetHook(t, AsInt8(useHook[t] - 1))
    /\ UNCHANGED <<heap, held, book, maxAllocs, mutex, call, lifeVars, charged>>

(* The application writes through ProgsInvestMemLeakInvestSettingsPtr. *)
SetMaxAllocs(t) ==
    /\ call[t].pc \in {"app", "callback"}
    /\ \E n \in Thresholds : maxAllocs' = n
    /\ UNCHANGED <<heap, held, book, useHook, mutex, call, lifeVars, skips, charged>>

-----------------------------------------------------------------------------
(* malloc, calloc and realloc(NULL, n) that succeed in the C library; one   *)
(* that fails returns NULL and changes nothing.                             *)

(* SkippedAllocIgnored: only one skip counts. *)
Watched_Wrong(t) == useHook[t] # 1
Watched(t) == useHook[t] < 1

(* AddMemory returns 0 at once: hook inactive, or the thread skips.  A slot *)
(* that the exit handler gave back leads to the C library alone, with the   *)
(* same effect.                                                             *)
AllocIgnored(t, a) ==
    /\ call[t].pc = "app"
    /\ a \notin heap
    /\ ~hookActive \/ ~Watched(t)
    /\ heap' = heap \cup {a}
    /\ held' = held \cup {a}
    /\ UNCHANGED <<book, maxAllocs, useHook, mutex, call, lifeVars, skips, charged>>

AllocTracked(t, a, s, n) ==
    /\ call[t].pc = "app"
    /\ a \notin heap
    /\ hookActive
    /\ Watched(t)
    /\ book.hashByStack[s] < MaxOutstanding
    /\ heap' = heap \cup {a}
    /\ \/ /\ SetHook(t, 1)
          /\ Goto(t, [Idle EXCEPT !.pc = "add", !.ptr = a, !.stack = s,
                                  !.size = n, !.saved = useHook[t]])
       \/ /\ "capture" \in Faults
          /\ Goto(t, [Idle EXCEPT !.pc = "release", !.ptr = a])
          /\ UNCHANGED useHook
    /\ UNCHANGED <<held, book, maxAllocs, mutex, lifeVars, skips, charged>>

(* The mutex is taken and the stack item counted; b is the book after what  *)
(* the same critical section has done before.                               *)
CountStack(t, b) ==
    LET f == call[t] IN
    \/ /\ Touch(AddByStack(b, f.stack))
       /\ mutex' = t
       /\ Goto(t, [f EXCEPT !.pc = IF RaisesEvent(b, f.stack)
                                   THEN "callback" ELSE "store"])
       /\ UNCHANGED useHook
    \/ /\ "bookkeeping" \in Faults
       /\ b.hashByStack[f.stack] = 0
       /\ Touch(b)
       /\ Goto(t, [Idle EXCEPT !.pc = "release", !.ptr = f.ptr])
       /\ SetHook(t, f.saved)
       /\ UNCHANGED mutex

AddMemory(t) ==
    /\ call[t].pc = "add"
    /\ MutexFree(t)
    /\ CountStack(t, book)
    /\ UNCHANGED <<heap, held, maxAllocs, hookActive, exitStarted, exiter, skips, charged>>

(* MutexReleased: the mutex is kept. *)
Unlocked_Wrong == mutex
Unlocked == NoThread

(* SkipRestored: useHook is cleared. *)
Restored_Wrong(f) == 0
Restored(f) == f.saved

(* The pointer is stored, the mutex released, useHook restored and the      *)
(* block handed to the application.  Without memory for the item the call   *)
(* fails, and the count of the stack stays.                                 *)
StoreMemory(t) ==
    LET f == call[t] IN
    /\ f.pc = "store"
    /\ mutex' = Unlocked
    /\ SetHook(t, Restored(f))
    /\ \/ /\ Touch(AddByMemory(book, f.ptr, f.stack, f.size))
          /\ Goto(t, Idle)
          /\ held' = held \cup {f.ptr}
          /\ charged' = [charged EXCEPT ![f.ptr] = f.stack]
       \/ /\ "bookkeeping" \in Faults
          /\ book.hashByMemory[f.ptr] = NoEntry
          /\ Touch(book)
          /\ Goto(t, [Idle EXCEPT !.pc = "release", !.ptr = f.ptr])
          /\ UNCHANGED <<held, charged>>
    /\ UNCHANGED <<heap, maxAllocs, hookActive, exitStarted, exiter, skips>>

(* The call through s_freeInitial: the C library takes the block back. *)
Release(t) ==
    LET a == call[t].ptr IN
    /\ call[t].pc = "release"
    /\ heap' = heap \ {a}
    /\ charged' = [charged EXCEPT ![a] = NoStack]
    /\ Goto(t, Idle)
    /\ UNCHANGED <<held, book, maxAllocs, useHook, mutex, lifeVars, skips>>

-----------------------------------------------------------------------------
(* NoStaleEntry: the books are left alone. *)
FreeFrame_Wrong(a) == [Idle EXCEPT !.pc = "release", !.ptr = a]
FreeFrame(a) == IF "free" \in slots
                THEN [Idle EXCEPT !.pc = "free", !.old = a, !.ptr = a]
                ELSE [Idle EXCEPT !.pc = "release", !.ptr = a]

(* ProgsInvestMemLeakInvestFree: the books first, then the C library. *)
Free(t, a) ==
    /\ call[t].pc = "app"
    /\ a \in held
    /\ held' = held \ {a}
    /\ Goto(t, FreeFrame(a))
    /\ UNCHANGED <<heap, book, maxAllocs, useHook, mutex, lifeVars, skips, charged>>

FreeRemove(t) ==
    /\ call[t].pc = "free"
    /\ MutexFree(t)
    /\ RemoveOnly(call[t].old)
    /\ Goto(t, [Idle EXCEPT !.pc = "release", !.ptr = call[t].ptr])
    /\ UNCHANGED <<heap, held, maxAllocs, useHook, mutex, hookActive,
                   exitStarted, exiter, skips, charged>>

(* ProgsInvestMemLeakInvestRealloc of a block the application holds.  The   *)
(* C library answers first and the books follow.  A block that stays where  *)
(* it is changes nothing.                                                   *)

(* The block moves to b: RemoveAndAddMemory, which looks at s_bIsHookActive *)
(* and not at useHook.                                                      *)
ReallocMoves(t, a, b, s, n) ==
    /\ call[t].pc = "app"
    /\ a \in held /\ b \notin heap
    /\ book.hashByStack[s] < MaxOutstanding
    /\ heap' = (heap \ {a}) \cup {b}
    /\ charged' = [charged EXCEPT ![a] = NoStack]
    /\ \/ /\ "realloc" \in slots /\ hookActive
          /\ held' = held \ {a}
          /\ SetHook(t, 1)
          /\ Goto(t, [Idle EXCEPT !.pc = "move", !.old = a, !.ptr = b, !.stack = s,
                                  !.size = n, !.saved = useHook[t]])
       \/ /\ "realloc" \in slots /\ hookActive
          /\ "capture" \in Faults
          /\ held' = held \ {a}
          /\ Goto(t, [Idle EXCEPT !.pc = "release", !.ptr = b])
          /\ UNCHANGED useHook
       \/ /\ "realloc" \in slots /\ ~hookActive
          /\ held' = held \ {a}
          /\ Goto(t, [Idle EXCEPT !.pc = "remove", !.old = a, !.ptr = b])
          /\ UNCHANGED useHook
       \/ /\ "realloc" \notin slots
          /\ held' = (held \ {a}) \cup {b}
          /\ UNCHANGED <<useHook, call>>
    /\ UNCHANGED <<book, maxAllocs, mutex, lifeVars, skips>>

(* realloc returns NULL: size 0 released the block, or the C library        *)
(* refused and the application still holds it.  The code treats both alike. *)
ReallocNull(t, a) ==
    /\ call[t].pc = "app"
    /\ a \in held
    /\ "realloc" \in slots
    /\ held' = held \ {a}
    /\ \/ /\ heap' = heap \ {a}
          /\ charged' = [charged EXCEPT ![a] = NoStack]
          /\ Goto(t, [Idle EXCEPT !.pc = "remove", !.old = a])
       \/ /\ "realloc" \in Faults
          /\ Goto(t, [Idle EXCEPT !.pc = "remove", !.old = a, !.ptr = a])
          /\ UNCHANGED <<heap, charged>>
    /\ UNCHANGED <<book, maxAllocs, useHook, mutex, lifeVars, skips>>

(* RemMemoryInlineNoLock and AddMemoryInlineNoLock under one lock. *)
RemoveAndAddMemory(t) ==
    LET a == call[t].old IN
    /\ call[t].pc = "move"
    /\ MutexFree(t)
    /\ IF torn = "up" /\ EmptiesBook(book, a)
       THEN /\ book' = RemMemory(book, a)
            /\ torn' = "misused"
            /\ slots' = slots \ GivenBack
            /\ Goto(t, [Idle EXCEPT !.pc = "release", !.ptr = call[t].ptr])
            /\ SetHook(t, call[t].saved)
            /\ UNCHANGED mutex
       ELSE CountStack(t, RemMemory(book, a))
    /\ UNCHANGED <<heap, held, maxAllocs, hookActive, exitStarted, exiter, skips, charged>>

(* TypeOK: NULL goes to the application like a block. *)
Returned_Wrong(t) == {call[t].ptr}

(* Ownership: the old address goes to the application. *)
ReturnedOld_Wrong(t) == {call[t].old}

(* What realloc returns. *)
Returned(t) == {call[t].ptr} \ {NoAddr}

ReallocRemove(t) ==
    /\ call[t].pc = "remove"
    /\ MutexFree(t)
    /\ RemoveOnly(call[t].old)
    /\ held' = held \cup Returned(t)
    /\ Goto(t, Idle)
    /\ UNCHANGED <<heap, maxAllocs, useHook, mutex, hookActive, exitStarted,
                   exiter, skips, charged>>

-----------------------------------------------------------------------------
(* The event callback is application code that runs with the mutex held and *)
(* useHook set.  Each of its calls is one step: no other thread can reach   *)
(* the books meanwhile.                                                     *)

CallbackAlloc(t, a) ==
    /\ call[t].pc = "callback"
    /\ a \notin heap
    /\ heap' = heap \cup {a}
    /\ held' = held \cup {a}
    /\ UNCHANGED <<book, maxAllocs, useHook, mutex, call, lifeVars, skips, charged>>

CallbackFree(t, a) ==
    /\ call[t].pc = "callback"
    /\ a \in held
    /\ IF "free" \in slots THEN RemoveOnly(a) ELSE UNCHANGED <<book, slots, torn>>
    /\ heap' = heap \ {a}
    /\ held' = held \ {a}
    /\ charged' = [charged EXCEPT ![a] = NoStack]
    /\ UNCHANGED <<maxAllocs, useHook, mutex, call, hookActive, exitStarted,
                   exiter, skips>>

(* A nested event is counted; its callback does nothing that is modelled. *)
CallbackRealloc(t, a, b, s, n) ==
    /\ call[t].pc = "callback"
    /\ a \in held /\ b \notin heap
    /\ \/ /\ hookActive
          /\ book.hashByStack[s] < MaxOutstanding
          /\ Touch(AddByMemory(AddByStack(RemMemory(book, a), s), b, s, n))
          /\ charged' = [charged EXCEPT ![a] = NoStack, ![b] = s]
       \/ /\ ~hookActive
          /\ IF "realloc" \in slots THEN RemoveOnly(a) ELSE UNCHANGED <<book, slots, torn>>
          /\ charged' = [charged EXCEPT ![a] = NoStack]
    /\ heap' = (heap \ {a}) \cup {b}
    /\ held' = (held \ {a}) \cup {b}
    /\ UNCHANGED <<maxAllocs, useHook, mutex, call, hookActive, exitStarted,
                   exiter, skips>>

CallbackReturn(t) ==
    /\ call[t].pc = "callback"
    /\ exiter # t
    /\ Goto(t, [call[t] EXCEPT !.pc = "store"])
    /\ UNCHANGED <<heap, held, book, maxAllocs, useHook, mutex, lifeVars, skips, charged>>

-----------------------------------------------------------------------------
(* exit() runs programs_investigator_mem_leak_invest_clean: the flags are   *)
(* written before the mutex is taken.  The callback may call exit, as the   *)
(* repository's test does; the mutex is then already held.                  *)
ExitStarts(t) ==
    /\ exiter = NoThread
    /\ call[t].pc \in {"app", "callback"}
    /\ exiter' = t
    /\ exitStarted' = TRUE
    /\ hookActive' = FALSE
    /\ \/ /\ call[t].pc = "app"
          /\ Goto(t, [Idle EXCEPT !.pc = "clean"])
          /\ SetHook(t, 1)
          /\ UNCHANGED slots
       \/ /\ call[t].pc = "callback"
          /\ slots' = slots \ {"malloc", "calloc"}
          /\ SetHook(t, 0)
          /\ UNCHANGED call
    /\ UNCHANGED <<heap, held, book, maxAllocs, mutex, torn, skips, charged>>

Clean(t) ==
    /\ call[t].pc = "clean"
    /\ MutexFree(t)
    /\ slots' = slots \ {"malloc", "calloc"}
    /\ torn' = IF torn = "up" THEN "up" ELSE "misused"
    /\ SetHook(t, 0)
    /\ Goto(t, Idle)
    /\ UNCHANGED <<heap, held, book, maxAllocs, mutex, hookActive, exitStarted,
                   exiter, skips, charged>>

(* The exit handler of the hooks was registered before that of the          *)
(* investigator, so it runs after it: every slot leads to the C library.    *)
HookClean(t) ==
    /\ exiter = t
    /\ call[t].pc \in {"app", "callback"}
    /\ slots # {}
    /\ slots' = {}
    /\ UNCHANGED <<heap, held, book, maxAllocs, useHook, mutex, call, hookActive,
                   exitStarted, exiter, torn, skips, charged>>

-----------------------------------------------------------------------------
(* The steps a thread owes once it is inside the investigator. *)
Finish(t) ==
    \/ AddMemory(t) \/ StoreMemory(t) \/ Release(t)
    \/ FreeRemove(t) \/ RemoveAndAddMemory(t) \/ ReallocRemove(t)
    \/ CallbackReturn(t) \/ Clean(t)

Next ==
    \E t \in Threads :
        \/ Finish(t)
        \/ Skip(t) \/ Unskip(t) \/ SetMaxAllocs(t) \/ ExitStarts(t) \/ HookClean(t)
        \/ \E a \in Addrs :
              \/ AllocIgnored(t, a) \/ CallbackAlloc(t, a)
              \/ Free(t, a) \/ CallbackFree(t, a) \/ ReallocNull(t, a)
              \/ \E s \in Stacks, n \in Sizes :
                    \/ AllocTracked(t, a, s, n)
                    \/ \E b \in Addrs : \/ ReallocMoves(t, a, b, s, n)
                                        \/ CallbackRealloc(t, a, b, s, n)

Spec == Init /\ [][Next]_vars

(* A thread inside the investigator keeps running, and a callback that does *)
(* not exit returns.  Nothing makes the mutex fair to those who wait.       *)
FairSpec == Spec /\ \A t \in Threads : WF_vars(Finish(t))

-----------------------------------------------------------------------------
(* Type invariant. *)
TypeOK ==
    /\ heap \subseteq Addrs
    /\ held \subseteq Addrs
    /\ book \in Books
    /\ maxAllocs \in Int
    /\ useHook \in [Threads -> Int8]
    /\ mutex \in Threads \cup {NoThread}
    /\ call \in [Threads -> Frames]
    /\ slots \subseteq {"malloc", "calloc", "realloc", "free"}
    /\ hookActive \in BOOLEAN
    /\ exitStarted \in BOOLEAN
    /\ exiter \in Threads \cup {NoThread}
    /\ torn \in {"up", "unlocked", "misused"}
    /\ skips \in [Threads -> Nat]
    /\ charged \in [Addrs -> Stacks \cup {NoStack}]

(* The thread in the critical section of an allocation holds the mutex.     *)
InSection(t) == call[t].pc \in {"callback", "store"}

MutexOK == \A t \in Threads : InSection(t) <=> mutex = t

(* One owner per block: the C library has not taken back a block that the   *)
(* application holds or a call still has in its hands, a call never hands   *)
(* out or releases a block the application holds, and two calls never have  *)
(* the same block.                                                          *)
Ownership ==
    /\ held \subseteq heap
    /\ \A t \in Threads : call[t].ptr # NoAddr => call[t].ptr \in heap \ held
    /\ \A t, u \in Threads :
          t # u /\ call[t].ptr = call[u].ptr => call[t].ptr = NoAddr

(* A stack item is never released while an item of the memory table, or the *)
(* allocation being stored, still points at it: the count covers both.      *)
Pending(s) == \E t \in Threads : InSection(t) /\ call[t].stack = s

CountsCoverEntries ==
    \A s \in Stacks :
        book.hashByStack[s] >=
            Cardinality(EntriesOf(book, s)) + (IF Pending(s) THEN 1 ELSE 0)

(* "Counts outstanding allocations per stack": between calls, the count of  *)
(* a stack is the number of blocks the application holds from it.           *)
HeldFrom(s) == {a \in held : charged[a] = s}

CountsExact ==
    {"realloc", "free"} \subseteq slots /\ (\A t \in Threads : call[t].pc = "app") =>
        \A s \in Stacks : book.hashByStack[s] = Cardinality(HeldFrom(s))

(* The statistics a reader of ProgsInvestMemLeakInvestStatusPtr sees agree  *)
(* with the memory table.                                                   *)
StatusMatchesTable ==
    /\ book.allocatedItemsCount = Cardinality(Tracked(book))
    /\ book.memoryAllocatedInBytes =
          MapThenSumSet(LAMBDA a : book.hashByMemory[a].size, Tracked(book))

(* Every entry of the memory table belongs to a block the application holds *)
(* or is about to be removed by a thread that is inside free or realloc:    *)
(* no entry outlives its block while both slots lead here.                  *)
Removing(a) ==
    \E t \in Threads : call[t].pc \in {"free", "move", "remove"} /\ call[t].old = a

NoStaleEntry ==
    {"realloc", "free"} \subseteq slots =>
        \A a \in Tracked(book) : a \in held \/ Removing(a)

(* "Tracks currently live allocations by pointer": a block that was counted *)
(* for a stack is in the table, with that stack, as long as the application *)
(* holds it, so that its free takes it off the count again.                 *)
HeldBlocksTracked ==
    {"realloc", "free"} \subseteq slots => \A a \in held : charged[a] # NoStack =>
        /\ a \in Tracked(book)
        /\ book.hashByMemory[a].stack = charged[a]

(* No stack exceeds the high-water mark, and an event is never counted      *)
(* without raising it.                                                      *)
BelowHighWater(b) ==
    /\ \A s \in Stacks : b.hashByStack[s] <= b.allocsMaxUpToNow
    /\ b.numberOfEvents <= b.allocsMaxUpToNow

HighWaterMark == BelowHighWater(book)

(* With a threshold nobody changes there is one event for each outstanding  *)
(* allocation by which some stack first exceeded it: none is missed and     *)
(* none repeated.                                                           *)
OneEventPerNewMaximum ==
    Thresholds = {} =>
        book.numberOfEvents = IF book.allocsMaxUpToNow > maxAllocs
                              THEN book.allocsMaxUpToNow - maxAllocs ELSE 0

(* Outside the investigator useHook is what Skip and Unskip made of it:     *)
(* every path through the hooks restores it.                                *)
SkipRestored ==
    \A t \in Threads : call[t].pc = "app" /\ exiter # t => useHook[t] = AsInt8(skips[t])

(* "Allocations here are ignored by the investigator": no thread tracks an  *)
(* allocation between SkipThisStack and UnskipThisStack; SkippedAlloc only  *)
(* speaks of malloc, calloc and realloc(NULL, n).                           *)
SkippedAllocIgnored == \A t \in Threads : call[t].pc = "add" => skips[t] = 0
SkippedIgnored == \A t \in Threads : call[t].pc \in Tracking => skips[t] = 0

(* The mutex is always given back, unless its holder left through exit: the *)
(* other threads then wait for ever.                                        *)
MutexReleased == \A t \in Threads : mutex = t ~> mutex # t \/ exiter = t

(* Once the last tracked block of an exiting process is gone and hashes and  *)
(* mutex are destroyed, no call begins that reaches them.  The removal that  *)
(* destroyed them is not such a call: it always goes on to unlock the mutex  *)
(* it has destroyed (429, then 440 or 470), torn = "unlocked".               *)
NoCallAfterTeardown == torn # "misused"

-----------------------------------------------------------------------------
(* What the books stand for: the blocks of the memory table, and the one    *)
(* that is counted and not stored yet.                                      *)
LiveStack(a) ==
    IF a \in Tracked(book) THEN book.hashByMemory[a].stack
    ELSE IF \E t \in Threads : InSection(t) /\ call[t].ptr = a
         THEN call[CHOOSE t \in Threads : InSection(t)].stack
         ELSE NoStack

Tracker == INSTANCE LiveAllocations WITH
    Blocks <- Addrs,
    Threshold <- MaxAllocsDef,
    live <- [a \in Addrs |-> LiveStack(a)],
    count <- book.hashByStack,
    peak <- book.allocsMaxUpToNow,
    events <- book.numberOfEvents,
    accepting <- hookActive

(* For one thread that is refused nothing, and a threshold nobody changes,  *)
(* the hooks with their two tables, their nested calls and their exit       *)
(* handler implement the tracker: every step tracks, releases or moves one  *)
(* block exactly, or nothing.                                               *)
ImplementsTracker == Tracker!Spec
=============================================================================
