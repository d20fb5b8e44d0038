# A verification of progs_invest

TLA+ models of `progs_invest`, a C/C++ library that hooks `malloc`, `calloc`,
`realloc` and `free` and tracks live allocations by the call stack they come
from. Paths are those of the repository (`src/core/...`, `README.md`).

## Components

| Component | State | Operations | Hard behaviour | Module |
|---|---|---|---|---|
| Investigator, bookkeeping (`src/core/mem_leak_invest`) | two hash tables (by stack, by pointer), statistics, settings, one recursive mutex, a per-thread skip counter | hooked malloc/calloc/realloc/free, Skip/Unskip, settings, event callback, exit handler | threads between the C library's answer and the mutex; the callback re-enters with the mutex held; failures half way; teardown during exit | `MemLeakInvest` |
| Investigator, start (`same file, 94-232`) | init flag, saved functions, slots, TLS key, callback and its data | lazy initialisation at the head of every API call, registration, settings, skip | slots written while other threads call through them; unlocked flag and registration | `MemLeakStartup` |
| Hooks, unix (`src/core/alloc_free_hook/*unix*`) | dispatch slots, user hooks, the start-up buffer with its offset and headers | entry points, initial and final handlers, look-up with `dlsym`, setters, `CLib*` calls, exit handler | `dlsym` allocates while the hooks look for the C library; blocks of the buffer outlive the start-up | `AllocFreeHook` |
| Hooks, Windows (`..._windows.cpp`) | import tables of the loaded modules, original functions, dispatch pointers, an unlocked flag | passes over all modules at start and at exit, hooked `LoadLibrary`, setters | modules loaded while tables are patched or restored; clean-up registered twice, hooks initialised again during the exit | `HookWindows`, `WindowsLibrary` |
| Stacks, unix (`stack_calcs_unix.cpp`) | frames, the freeing function each stack remembers, resolved items that point at their stack | capture, copy, swap, free, hash, equality, resolve, print | memory refused half way; blocks freed by the function of another pair; equality and hash must agree | `StackCalcs` |
| addr2line (`stack_calcs_unix_helper.cpp`) | a pipe and a child for each call; nothing is cached | run, read, wait, parse | concurrent forks inherit pipe ends; short and interrupted reads; every step may fail | `Addr2Line`, extended by `StackCalcs` |
| Stacks, Windows (`stack_calcs_windows.cpp`) | as unix, and DbgHelp's symbols under a mutex | as unix; symbols loaded at start, dropped at exit | other threads resolve while the exit handler drops symbols and mutex | `DbgHelp`, `WindowsLibrary` (resolution only) |
| `contrib/cutils` (external) | hash, recursive mutex, TLS | | | modelled by its contract |
| Tests, build files | | the test's callback calls `exit(1)` | exit with the mutex held | an action of `MemLeakInvest` |

The investigator sits on the hooks: its initialisation saves what the slots lead
to and puts its own functions there; each of its functions calls the saved one
and then does the bookkeeping with memory from `AllocFreeHookCLib*`, which
passes the hooks. The bookkeeping captures and compares stacks through
`stack_calcs`. At exit the handlers run in the reverse order of registration:
the investigator's first, then the hooks', which leads every slot back to the C
library.

What makes each part correct:

* Bookkeeping: a stack's count covers the entries that point at its item, so the
  item is never freed while in use; between calls it is the number of blocks held
  from that stack; statistics agree with the table; a block has one owner; no
  entry outlives its block; events come once per new maximum; skips nest and are
  restored on every path; the mutex is given back; with one thread no call begins
  that reaches what the teardown has destroyed.
* Start: nobody enters a hook before what it uses exists; nothing is tracked
  whose free would go by; what is configured stays; an event gets the data of
  its callback.
* Hooks: the C library's `realloc` and `free` see only its own blocks; the
  initial handlers look for headers only in the buffer; the look-up runs once.
* Stacks: equal stacks have equal hashes; every block belongs to one live stack
  or item; frames, structures and items are freed by the function of the pair they
  were allocated with, each as long as no caller mixes two pairs in a call that
  matters to it.
* Hooks, Windows: a patched entry never leads nowhere or back to the hook;
  the allocation functions of every module that a hooked `LoadLibrary` returns are
  patched; the process ends with the tables as the
  loader made them.
* Stacks, Windows: one thread at a time is in DbgHelp, and the exit does not
  wait for ever.
* addr2line: a call takes all of its child's output, leaves no descriptor and no
  child behind, and returns whatever other threads fork meanwhile.

`PROJECT.json` lists the hazards line by line, with the property that covers
each or the reason why none does.

## Modules

**`MemLeakInvest`** is the core. The two hashes and `s_stat` are one record, the
`book`; the halves of `AddMemoryInlineNoLock`, and `RemMemoryInlineNoLock`, are
operators on it (`AddByStack`, `AddByMemory`, `RemMemory`), because one critical
section chains several. A stack is the class of stacks that compare equal. Each
thread has a frame, `call[t]`, that says where its call is; a call is cut where
another thread can get in:

| Action | Code |
|---|---|
| `AllocTracked`, `AllocIgnored` | C library's answer, `AddMemory` up to the lock (235-260, 277-282, 385-399) |
| `AddMemory` | lock, first half, event decision (309-337, 372-382) |
| `Callback*`, `CallbackReturn` | what application code does inside the event (111) |
| `StoreMemory` | second half, unlock, `useHook` restored (339-382) |
| `Release` | failure path, and the end of free (241, 255, 270, 279, 292) |
| `Free`, `FreeRemove` | 288-294, 436-441 |
| `ReallocMoves`, `RemoveAndAddMemory` | 266-273, 444-473 |
| `ReallocNull`, `ReallocRemove` | 274-276, 436-441 |
| `ExitStarts`, `Clean`, `HookClean` | 530-547, and the hooks' handler |

A realloc that stays in place changes nothing and has no action. `skips` and
`charged` are history variables. `torn` follows the teardown: the removal that
empties the books of an exiting process destroys TLS key, hashes and mutex (426-429)
and then unlocks that mutex (440 or 470), on every such exit and with one thread too:
`torn` is "unlocked" from then on, and "misused" once anything else reaches them.

**`LiveAllocations`** says what the investigator promises: blocks that are live
with the stack they came from, a count for each stack, the highest count and the
events, with `Allocate`, `Release`, `Move` and `Stop` as single steps and no
threads, tables or calls in progress. `MemLeakInvest` implements it
(`ImplementsTracker`) under the mapping at its end: a block is live when it is in
the memory table or, counted and not stored yet, in the hands of the call that
holds the mutex; counts, maximum and events are those of the book. So an allocation
takes effect when its stack is counted, not when the C library answers, and a
`realloc` that moves is one step although the table sees a removal and an
addition.

**`MemLeakStartup`** takes the initialisation apart: flag, TLS block under the
key of the moment, reset, saved slots, resources, the four slots in their order,
activation; then the body of the call. `Starters` says which threads may make
the first call.

**`AllocFreeHook`** dispatches one thread's calls. `outer` is the call that
started the look-up and goes on in its handler afterwards, although the slots
have moved by then. A pointer into the buffer is its offset; `totalSize` is the
header at each offset. Sums are those of a `size_t` (`AsSizeT`): the rounding (203), the
offset (217) and the product of `calloc` (261) wrap, so that a request near the end
of a `size_t` is handed a small block. `Fits` tells the sizes for which none of them
wraps. The C library and user hooks that end in it are external.

**`Addr2Line`** models `runAddr2Line` for each thread, cut between the system
calls: `Begin` (pipe, 94-107), `Fork` (109-115), `CloseWrite` (142), `Read`
(144-159, one `read` a step), `CloseRead` (161), `Wait` (163-180), and its child:
`ChildStarts` (117-139), `ChildWrites` and `ChildExits`, which are addr2line and
external. `child[t].ends` are the descriptors that the child of `t` inherited
from whatever was open when it was forked. The module has steps and no `Next`.

**`StackCalcs`** extends it with the functions of `stack_calcs.h`. `heap` says
with which pair of functions each live block was allocated, `stacks` and `items`
are the live objects, `jobs[t]` is what thread `t` runs addr2line for.
`ItemResolved` and `StackPrint` begin a call, the steps of `Addr2Line` follow, and
`ItemResolvedEnds` and `PrintEnds` take what it came to. Nothing in the code
locks or checks what callers do with stacks. Callers of the model capture with an
allocating and a freeing function of any two pairs, copy and resolve with an
allocating function of any, and swap any two stacks; `mixed` remembers which kinds of
calls mixed pairs. Of their discipline only this is assumed, that nobody uses what
is freed: a stack in use is not freed or swapped, and items are cleaned before
their stack is freed. Memory may be refused at each allocation of a capture, a copy
and a resolution.

**`HookWindows`** has the import entries of each loaded module, one for an
allocation function and one for `LoadLibrary`, and cuts the code wherever another
thread gets in: `Enter` (the flag, 154), `TakeOriginals` (155-173),
`ReplaceInModule` (one module of a pass over the list of modules taken by
`StartPass`), `NextPass`, `Register` (194-196), `Body` (what the caller does
then), `CleanUp` (291-335); and for a load `CinternalLoadLibrary`, `RealLoad`,
`PatchLoaded` (101-150), while a module whose entry is not taken over loads through
`LoadLibrary`. `malloc` stands for the four functions that are always replaced
together. **`DbgHelp`** has the initializer that loads the symbols, resolution of one
frame or of a stack frame by frame, and the exit handler, cut at each lock.
**`WindowsProcess`** is what both rely on: an initial thread, exit handlers, the
last one first, and other threads that go on meanwhile. **`WindowsLibrary`**
composes them, with the initializers in any order (`pending`) and the
investigator as a client of the hooks: its initialisation saves the dispatch
pointer and puts its own in, its exit handler gives the saved one back, which may
initialise the hooks once more.

Operators whose names end in `_Wrong` are deliberate mistakes, each next to the
definition it spoils: with it in place the property in its comment fails.
The `MC_` modules hold what the configurations need besides values: symmetry sets,
for `StackCalcs` the backtraces, for `WindowsLibrary` what a plug-in brings along.

## Runs

| Run | Shows |
|---|---|
| `MemLeakSingle` | one thread, 3 addresses, 2 stacks, 2 sizes, nothing fails: `CountsExact`, `HeldBlocksTracked`, `OneEventPerNewMaximum`, `SkippedAllocIgnored`, `NoCallAfterTeardown`, `NoStaleEntry`, the refinement `ImplementsTracker`, and under fairness `MutexReleased` |
| `MemLeakConcurrent` | 2 threads, every failure: `TypeOK`, `MutexOK`, `Ownership`, `CountsCoverEntries`, `StatusMatchesTable`, `HighWaterMark`, `SkipRestored` |
| `StartupFirst` | one starting thread, another that allocates: `ReadyWhenHooked`, `TrackedIsRemovable`, `SettingsStick`, `SkipsStick`, `EventPair` |
| `AllocFreeHook` | `CLibGetsItsOwn`, `HeadersOfBuffer`, `InitEnteredOnce`, `BlocksInBuffer` |
| `StackCalcs` | one thread working with stacks of two pairs, another one printing them, every failure: `OutputComplete`, `DescriptorsReturned`, `NothingLost`, `AllocatorsMatch`, `EqualStacksHashAlike`, and under fairness `CallsReturn` |
| `WindowsLibrary` | the initial thread and another one from the start of the process to its end: `DispatchOK`, `LoadedModulesPatched`, `RestoredAtExit`, `DbgHelpInTurn`, and under fairness `ExitEnds` |

Six runs show the code disagreeing with what its documents or comments say, and
are expected to find a counterexample:

* `MemLeakReallocRace` (2 threads): realloc lets the C library release the old
  address before the table forgets it. Another thread's malloc that gets the
  address finds the old entry there; the removal then deletes it. The block is
  held, and neither tracked nor counted down when freed.
* `MemLeakReallocFails`: a realloc that is refused leaves the block allocated
  and untracked.
* `MemLeakReallocSkipped`: a realloc that moves is tracked although its thread
  skips.
* `StartupRace`: of two threads that make the first call, one returns before the
  initialisation is done, and what it set is overwritten.
* `StartupPair`: a second registration while an event is raised calls the old
  callback with the new data.
* `AllocFreeHookLast`: the offset of the start-up buffer never moves, so that
  its newest block is never "a last element" and all blocks lie at one place.

This is why `CountsExact`, `HeldBlocksTracked` and `ImplementsTracker` are checked
with one thread and no failures: with two they are false (a `realloc` in one thread
and a `malloc` in another make a step that no tracker has). `NoStaleEntry` is also
proved for any threads; `MutexReleased` needs nothing of other threads, since the
holder of a mutex waits for nobody. `NoCallAfterTeardown` likewise holds with one
thread; a second one that waits for the mutex while the last removal destroys it
goes on with destroyed hashes. It speaks of calls that begin after the teardown: the
unlock with which the removal itself ends comes after the destruction whatever the
program does, and no property forbids it. Nor does one say that every slot is given
back: those of `malloc` and `calloc` still lead here when another thread does the
teardown between 534 and 542. A call through them finds `s_bIsHookActive` false and
leaves the hashes alone, but the exit handler then locks the destroyed mutex (540).

`DispatchOK` is checked for processes in which only the initial thread makes the
call that initialises the hooks (`Initialisers`): the flag is not locked, and
with two such threads the second one takes the hook for the original function,
and it then calls itself for ever. `InvestigatorStart` crashes when the
investigator's initializer runs before the hooks' (a call through a null
`s_calloc_c_lib`); no property forbids it, for the order is that of linking.

`LoadedModulesPatched` speaks of the modules there are at the start and of those that
a hooked `LoadLibrary` returned, of which the allocation functions are patched
(107). `README.md:221` promises more ("also handles modules subsequently loaded
through `LoadLibraryA/W` and `LoadLibraryExA/W`"): a module's own `LoadLibrary` is not
patched when it is loaded after the start, so that what it loads in its turn is never
handled, and neither is what a plug-in depends on. The model has these modules and
leaves them untouched. After the mutex of DbgHelp
is destroyed nothing keeps threads apart, and `DbgHelpInTurn` ends there.

### Bounds

Two addresses suffice for the reuse of an address, three for a realloc between two
others; two stacks for a stack that stays below another's high-water mark;
`MaxOutstanding` 2 or 3 with a threshold of 0 or 1 for counts on both sides of it. Two
threads give every pair of cut points; what the properties relate is one thread's call
and one other actor. `MaxSkip` 2 nests; the `int8_t` itself is treated by the proof. In
`AllocFreeHook` a buffer of 64 bytes with a header of 16 has a size that is rounded up
(25, with the header 41 and so 48), one that does not fit (49), and in a `size_t` of 256
values one whose sum with the header wraps (240) and one that only a product has (257,
which `calloc` takes for 1); `MaxBlocks` 4 lets blocks of both origins coexist.
`MaxCalls` 4 is enough for initialisation, registration, settings and a skip.

In `StackCalcs` four calls are what an item that outlives a swap needs (capture, copy,
resolve, swap), and a fifth cleans it or frees a stack. The first three of them
(`MaxOverlap`) may run addr2line, and overlap as long as the caller has not mixed pairs
(`MaxMixed` 0): what overlaps is processes and pipes, which know nothing of pairs. Only
one thread (`Owners`) works with stacks, because the functions on them touch nothing
shared, and the other one prints (`Printers`), so that two children and two pipes exist
at once; a capture, a resolution and a print are three calls. Two pairs make every
mixture, a backtrace of two frames and one of none besides the caller's own (`Backs`) a
capture that gives something and one that does not. A pipe of one chunk and an output of
two make addr2line wait for room and `read` return a part. The names of blocks are taken
in order, since no property depends on which address is free.

In `WindowsLibrary` four calls of both threads together cover a load before and one
during the clean-up with a setter or a resolution between them; two modules from
the start make a pass that can be interrupted in the middle; one plug-in with one
dependency has a module that is asked for and one that is not. Two frames make
printing take the mutex twice.

`CHECK_DEADLOCK` is off where the system may stop: the process has exited
(`AllocFreeHook`, `MemLeakStartup`), it is over or has crashed
(`WindowsLibrary`), its bounded calls are used up (there and in
`StackCalcs`, where nobody is made to call).

### Fairness

Weak fairness of `Finish(t)` for each thread: a thread inside the library goes on
when it can, and a callback that does not call `exit` returns. Nothing is
assumed of threads in application code, and nothing makes the mutex fair. In
`StackCalcs` weak fairness of `Continue(t)`, the same for a thread in a call, and of
`Addr2Line(t)`: the scheduler runs the child, and addr2line, whose output is
finite, ends. `CallsReturn` then says something, because a `read` may have to wait
for children of other threads, which wait for readers of their own. In
`WindowsLibrary` weak fairness of `Continue(t)` and of `Exit`: the system goes on
with the handlers. `ExitEnds` says something, because handlers wait for the mutex
of DbgHelp and register handlers in their turn.

## Proofs

Checked by TLAPS for every value of the constants: any threads, addresses,
modules, sizes. They assume the named assumptions on the constants (finite
addresses, natural sizes and bounds, a buffer and a header of at least one byte that
together are smaller than a `size_t` can say, null
values distinct from the values they stand beside, thread names distinct from the states
of a mutex) and, where the table says so, a premise. Every safety invariant of a passing
run is stated by a theorem. The premises are those of the runs or weaker. TLC finds each property
violated without its premise (a second thread, another failure, a threshold that is
written), with one exception: a refused `realloc` does not break `ImplementsTracker`, because
a block that leaves the table counts as released there.

| Module | Theorems | Premise |
|---|---|---|
| `MemLeakInvestProofs` | `TypeOK`, `MutexOK`, `CountsCoverEntries`, `HighWaterMark`, `OneEventPerNewMaximum` (which has its own premise: a threshold nobody writes) | none |
| `MemLeakThreadProofs` | `SkipRestored`, `Ownership` | none |
| | `SkippedAllocIgnored` | `MaxSkip <= 127`: with 128 the counter wraps and tracking resumes |
| | `NoStaleEntry` | stacks can be captured |
| `MemLeakStatusProofs` | `StatusMatchesTable` | none |
| `MemLeakTrackerProofs` | `NoCallAfterTeardown` | one thread |
| | `HeldBlocksTracked` | one thread, only memory of the books is refused |
| | `CountsExact` | one thread, nothing fails |
| | `ImplementsTracker` | one thread, nothing fails, a threshold nobody writes |
| `MemLeakStartupProofs` | `TypeOK`, `TrackedIsRemovable` | none |
| | `EventPair` | one callback |
| | `ReadyWhenHooked`, `SettingsStick`, `SkipsStick` | one thread makes the first calls; others allocate |
| `AllocFreeHookProofs` | `TypeOK`, `CLibGetsItsOwn`, `HeadersOfBuffer`, `InitEnteredOnce`, `BlocksInBuffer` | none |
| | `OffsetNeverMoves` | no size near the end of a `size_t` |
| `StackCalcsProofs` | `TypeOK`, `OutputComplete`, `DescriptorsReturned`, `NothingLost`, `AllocatorsMatch`, `EqualStacksHashAlike` | none |
| `WindowsLibraryProofs` | `TypeOK`, `DbgHelpInTurn` | none |
| | `DispatchOK`, `LoadedModulesPatched`, `RestoredAtExit` | the initial thread initialises |

How the arguments go:

* `MemLeakInvestProofs`: `TypeCorrect` proves `TypeOK` together with `FramesOK`,
  what each frame holds at each place. `MutexOK` is inductive given that.
  `CountsCoverEntries` is the main one: steps either leave the book, count a
  stack and become the pending allocation, store it, or remove an entry
  (`BookMoves`); the pending thread is unique because of `MutexOK`, which is
  what the invariant needs besides itself. The callback's nested calls are
  moves of the book within the section. `HighWaterMark` and
  `OneEventPerNewMaximum` use the same case analysis.
* `MemLeakThreadProofs`: each frame's saved `useHook` is the skip count
  (`SkipRestored`), and each block is the application's or that of one frame
  (`Ownership`).
* `MemLeakStatusProofs`: the byte count is compared with a sum over the table, a
  fold. What the fold computes on the finite set of addresses is proved by smallest
  counterexamples, since an induction rule would need an operator as a parameter;
  then one lemma for each move of the book.
* `MemLeakTrackerProofs`: `SoloInv` says what the one thread's frame knows of the
  block it works on (which block is charged to which stack, and held by whom, at
  each place), `CountsOK` that a count is the number of entries plus the allocation
  being stored. `CountsExact` is not inductive alone: in the middle of a call, and in
  the callback's nested calls above all, count, table and blocks differ by the call
  in progress. For the refinement `LiveStep` sorts every step into one that leaves the
  live blocks, adds one, drops one or moves one, and `TrackerStep` maps each of the
  four to a step of `LiveAllocations`.
* `MemLeakStartupProofs`: `CallsOK` says what a call in the middle of the
  initialisation has done. With one starter `StartOK` follows it through: each slot
  that is written has its saved function and all resources before it. Configuration
  then comes after the reset (`SettingsOK`, `SkipsOK`), which is what two starters break.
* `AllocFreeHookProofs`: `MemoryOK` says that the offset stays in the buffer, each
  block lies there behind a header, has a size that wraps, or is counted by the C
  library, and no two blocks share an address of the C library. Each sum is shown to
  stay below `Word` before it is compared (`InAWord`), which is where `Fits` comes
  in. `RoutesOK` ties slots to the phase. Together they
  are inductive and give the four safety properties; `FirstPlace` (all blocks behind the
  one header, whose size is not 0) gives `OffsetNeverMoves`. `TypeInv`
  adds that a call hands out at most one block.
* `StackCalcsProofs`: `Addr2LineInv` says for each place of a call which ends the
  process has open and what its child and pipe hold: what was read, what lies in
  the pipe and what is still to be written add up to the child's output, and a
  child that is not done holds the writing end of its own pipe, which is why a
  reader cannot see the end before. `MemoryInv` gives every block one owner
  (`Owned`: frames, items and calls in progress share nothing) of the pair that
  allocated it (`Matched`, whose parts each hold until a call mixes the pairs they
  depend on), with one lemma for each operation that allocates or frees.
  Equal frames are one sequence, and the hash looks at nothing else, so that
  `EqualStacksHashAlike` needs no induction over frames.
* `WindowsLibraryProofs`: `DbgInv` says who may be in DbgHelp before, during and after
  the life of the mutex. `HookInv` says for each place of the initial thread what the
  entries of each module lead to (`LoadFits`, `AllocFits`): in a pass, the modules that
  are done differ from those that are not. Other threads only add untouched modules and
  patch the one they asked for (`TablesKept`, `InvPatchLoaded`); one that began while
  the hooks were up, and ends after, is what `late` records. That the originals are taken again
  from the library's own entry at the re-initialisation is harmless because `HookInv`
  has that entry restored by then. `CleanUpDue` (the clean-up is registered as long as the
  hooks are up) gives `RestoredAtExit`.

Model-checked only: liveness (`MutexReleased`, `CallsReturn`, `ExitEnds`), which is out
of the prover's reach.

## Not modelled

The contents of blocks (and so what realloc copies), hash-table internals,
logging, an out-of-memory TLS block, and what Skip and Unskip do with the TLS key once
the teardown has deleted it (426). In the start-up buffer, what the program writes
through a block that sticks out of it: the first header is taken to be intact, one
behind it may hold anything (`Verdicts`); and the `memset` of a `calloc` whose sum has
wrapped, which the process does not survive. On Windows: capture, copy, swap, equality and
freeing of stacks and items, whose bodies are those of the unix variants (the hash
comes from the system), modules that are unloaded, plug-ins whose own code loads
while they are being loaded, and the investigator's `realloc` and `free`, which
stay hooked until its books are empty; a failure to create the mutex of the symbols ends
like one to load them. Of stacks: what
addr2line prints and how it is parsed (a call is located or not), paths, sizes
of blocks, the numbers of descriptors, children that are not addr2line. The
structure of a captured stack is allocated with as many bytes as it has frames
(`stack_calcs_unix.cpp:79`), and `ItemResolved` accepts an index one past the last
frame (178, reached by `ItemResolvedNext`); the model takes the step, and what is read there
is any frame. addr2line may add text after the line number or a chain of inlined
functions (266), which the parser reads as part of a name or not at all. A block of
the start-up buffer is copied with the length of its header included
(`..._unix_helper_with_includes.cpp:351`).
The event callback is application code: it allocates, frees, reallocates, writes
settings, returns or exits; it does not wait for other threads.

## Plan

1. `CallbackLockOrder`: the loader's and the application's locks taken inside the
   event callback with `s_hashMutex` held.
2. The Windows stacks on the memory part of `StackCalcs`, as a module that both share.
3. Proofs: weaker premises. `HeldBlocksTracked` for any threads whose blocks are not
   reallocated; `ImplementsTracker` with refused reallocs; `EventPair` for several
   callbacks while no event is under way.
