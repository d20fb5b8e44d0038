------------------------------- MODULE StackCalcs -------------------------------
(***************************************************************************)
(* Call stacks, src/core/stack_calcs/progs_invest_stack_calcs_unix.cpp:    *)
(* captured, copied, swapped, compared, hashed and freed, their frames     *)
(* printed and resolved one by one with addr2line.  Every object is        *)
(* allocated with one function of a pair and freed with the other, which   *)
(* the stack remembers; a resolved item has only its stack to tell.        *)
(*                                                                         *)
(* A definition whose name ends in _Wrong is not part of the model: it is  *)
(* the definition after it with a mistake, which the property named in its *)
(* comment tells from the right one.                                       *)
(*                                                                         *)
(* The functions lock nothing and check nothing.  Callers pass functions of*)
(* any pair and swap stacks of any two; mixed remembers which calls mixed  *)
(* the functions of two pairs.  One discipline of theirs is assumed, that  *)
(* nobody uses what is freed: a stack in use is neither freed nor swapped, *)
(* and an item is cleaned before its stack is freed.                       *)
(***************************************************************************)
EXTENDS Addr2Line, Sequences, FiniteSets

CONSTANTS
    Owners,      \* threads that capture, copy, swap, resolve and free
    Printers,    \* threads that print
    Ids,         \* names for stacks, arrays of frames and items: as many may live
    Pairs,       \* pairs of an allocating and a freeing function
    Backtraces,  \* what backtrace() may return: sequences of return addresses
    Backs,       \* how many frames of its own a caller leaves out
    MaxCalls,    \* bound: calls in a behaviour
    MaxOverlap,  \* bound: of these, the first that may run addr2line and overlap
    MaxMixed,    \* bound: of these, the first that may overlap once pairs were mixed
    Names,       \* what a resolved item names: module, function, source file
    Word,        \* 2^w, w the width of size_t
    NoJob, NoId

ASSUME WordAssumption == Word \in Nat \ {0} /\ Backs \subseteq Nat /\ MaxCalls \in Nat
ASSUME BacktracesAssumption == \A b \in Backtraces : b \in Seq(Nat)
ASSUME NullAssumption == NoId \notin Ids
ASSUME OwnersAssumption == Owners \subseteq Threads /\ Printers \subseteq Threads
ASSUME NamesAssumption == Names \cap {"stack", "frames", "item"} = {}

VARIABLES
    heap,     \* live blocks, each with the pair it was allocated with
    stacks,   \* live stacks
    items,    \* live resolved items
    mixed,    \* history: kinds of calls that mixed two pairs
    jobs,     \* what each thread uses runAddr2Line for
    calls     \* calls so far

memory == <<heap, stacks, items, mixed>>
vars == <<addr2lineVars, heap, stacks, items, mixed, jobs, calls>>

Kinds == {"stack", "frames", "item"} \cup Names
Blocks == Kinds \X Ids
Stacks == [frames : Seq(Nat), ppFrames : Ids, mFree : Pairs]
Items == [stack : Ids, index : Nat, names : SUBSET Names, mMalloc : Pairs]
Jobs == [for : {"item"}, stack : Ids, index : Nat, item : Ids, mMalloc : Pairs]
           \cup [for : {"print"}, stack : Ids, index : Nat, item : {NoId}]

ASSUME JobsAssumption == NoJob \notin Jobs

LiveStacks == DOMAIN stacks
LiveItems == DOMAIN items
Size(h) == Len(stacks[h].frames)
(* One block is like another: the allocating function returns the first.    *)
Fresh(kind) ==
    LET free == {i \in Ids : <<kind, i>> \notin DOMAIN heap}
    IN IF free = {} THEN {} ELSE {CHOOSE i \in free : TRUE}

Allocate(h, blocks, pair) ==
    [b \in DOMAIN h \cup blocks |-> IF b \in blocks THEN pair ELSE h[b]]
Deallocate(h, blocks) == [b \in DOMAIN h \ blocks |-> h[b]]
With(f, k, v) == [x \in DOMAIN f \cup {k} |-> IF x = k THEN v ELSE f[x]]
Without(f, k) == [x \in DOMAIN f \ {k} |-> f[x]]

(* What a call hands over was allocated by pair, and mFree will free it.    *)
Mixing(kind, pair, mFree) ==
    mixed' = IF pair = mFree THEN mixed ELSE mixed \cup {kind}

StackBlocks(h) == {<<"stack", h>>, <<"frames", stacks[h].ppFrames>>}
ItemBlocks(i) == {<<"item", i>>} \cup (items[i].names \X {i})
InUse(h) == \E t \in Threads : jobs[t] # NoJob /\ jobs[t].stack = h
HasItems(h) == \E i \in LiveItems : items[i].stack = h

(* The sum of the frames, each with twice the weight of the one before.     *)
WeightedSum(frames) ==
    LET sum[n \in 0..Len(frames)] ==
            IF n = 0 THEN 0 ELSE (sum[n - 1] + 2^(n - 1) * frames[n]) % Word
    IN sum[Len(frames)]

(* EqualStacksHashAlike: the hash of where the frames are kept. *)
GetHash_Wrong(s) == s.ppFrames % Word

GetHash(s) == WeightedSum(s.frames)

AreSame(s1, s2) ==
    /\ Len(s1.frames) = Len(s2.frames)
    /\ \A n \in 1..Len(s1.frames) : s1.frames[n] = s2.frames[n]

-----------------------------------------------------------------------------
Init ==
    /\ Addr2LineInit
    /\ heap = [b \in {} |-> NoId]
    /\ stacks = [h \in {} |-> NoId]
    /\ items = [i \in {} |-> NoId]
    /\ mixed = {}
    /\ jobs = [t \in Threads |-> NoJob]
    /\ calls = 0

(* What the first allocation gave is freed again when the next one, or what *)
(* it was for, fails.                                                       *)
Refused(block, pair) ==
    /\ "memory" \in Faults
    /\ heap' = Deallocate(Allocate(heap, {block}, pair), {block})
    /\ UNCHANGED <<stacks, items, mixed>>

(* The structure of a stack, and then the array of its frames. *)
NewStack(frames, pair, mFree) ==
    /\ \E h \in Fresh("stack") :
          \/ \E f \in Fresh("frames") :
                /\ heap' = Allocate(heap, {<<"stack", h>>, <<"frames", f>>}, pair)
                /\ stacks' = With(stacks, h, [frames |-> frames, ppFrames |-> f,
                                             mFree |-> mFree])
                /\ Mixing("stack", pair, mFree)
                /\ UNCHANGED items
          \/ Refused(<<"stack", h>>, pair)
    /\ UNCHANGED <<addr2lineVars, jobs>>

(* Of a stack no deeper than the frames to leave out there is nothing.      *)
GetCurrent(b, back, pair, mFree) ==
    /\ Len(b) > back
    /\ NewStack(SubSeq(b, back + 1, Len(b)), pair, mFree)

(* AllocatorsMatch: the copy is freed with the functions of default. *)
Copy_Wrong(h, pair) ==
    \E f \in Fresh("frames"), i \in Fresh("stack") :
        /\ heap' = Allocate(heap, {<<"stack", i>>, <<"frames", f>>}, pair)
        /\ stacks' = With(stacks, i, [frames |-> stacks[h].frames, ppFrames |-> f,
                                     mFree |-> CHOOSE p \in Pairs : TRUE])
        /\ Mixing("stack", pair, stacks[h].mFree)
        /\ UNCHANGED <<addr2lineVars, items, jobs>>

(* The copy is freed with the function of the original, whatever allocated it. *)
Copy(h, pair) == NewStack(stacks[h].frames, pair, stacks[h].mFree)

Swap(h1, h2) ==
    /\ ~InUse(h1) /\ ~InUse(h2)
    /\ stacks' = [stacks EXCEPT ![h1] = stacks[h2], ![h2] = stacks[h1]]
    /\ Mixing("swap", stacks[h1].mFree, stacks[h2].mFree)
    /\ UNCHANGED <<addr2lineVars, heap, items, jobs>>

StackFree(h) ==
    /\ ~InUse(h) /\ ~HasItems(h)
    /\ heap' = Deallocate(heap, StackBlocks(h))
    /\ stacks' = Without(stacks, h)
    /\ UNCHANGED <<addr2lineVars, items, mixed, jobs>>

-----------------------------------------------------------------------------
(* The item is allocated and runAddr2Line called, or the item given back    *)
(* because the module of the frame is unknown (dladdr); without memory for  *)
(* the item nothing happens.  The check lets an index pass that is one too  *)
(* high, whose frame is whatever follows the array.                         *)
ItemResolved(t, h, n, pair) ==
    /\ n <= Size(h)
    /\ \E i \in Fresh("item") :
          \/ /\ heap' = Allocate(heap, {<<"item", i>>}, pair)
             /\ jobs' = [jobs EXCEPT ![t] = [for |-> "item", stack |-> h, index |-> n,
                                            item |-> i, mMalloc |-> pair]]
             /\ Begin(t)
             /\ Mixing("item", pair, stacks[h].mFree)
             /\ UNCHANGED <<stacks, items>>
          \/ Refused(<<"item", i>>, pair) /\ UNCHANGED <<addr2lineVars, jobs>>

ItemResolvedNext(t, i) ==
    ItemResolved(t, items[i].stack, items[i].index + 1, items[i].mMalloc)

(* With a location the item gets its names, each of which memory may be     *)
(* refused for; without one it is given back.                               *)
ItemResolvedEnds(t) ==
    LET j == jobs[t] IN
    /\ j # NoJob /\ j.for = "item"
    /\ \/ /\ located[t]
          /\ \E names \in IF "memory" \in Faults THEN SUBSET Names ELSE {Names} :
                /\ heap' = Allocate(heap, names \X {j.item}, j.mMalloc)
                /\ items' = With(items, j.item, [stack |-> j.stack, index |-> j.index,
                                                 names |-> names, mMalloc |-> j.mMalloc])
       \/ /\ ~located[t]
          /\ heap' = Deallocate(heap, {<<"item", j.item>>})
          /\ UNCHANGED items
    /\ Return(t)
    /\ jobs' = [jobs EXCEPT ![t] = NoJob]
    /\ UNCHANGED <<stacks, mixed>>

(* NothingLost: the names of the item are not given back. *)
ItemResolvedClean_Wrong(i) ==
    /\ heap' = Deallocate(heap, {<<"item", i>>})
    /\ items' = Without(items, i)
    /\ UNCHANGED <<addr2lineVars, stacks, mixed, jobs>>

ItemResolvedClean(i) ==
    /\ heap' = Deallocate(heap, ItemBlocks(i))
    /\ items' = Without(items, i)
    /\ UNCHANGED <<addr2lineVars, stacks, mixed, jobs>>

(* Printing goes through the frames; one whose module is unknown (dladdr)   *)
(* is passed over.                                                          *)
PrintFrom(t, h, n) ==
    /\ \E m \in n..Size(h) :
          IF m = Size(h)
          THEN /\ jobs' = [jobs EXCEPT ![t] = NoJob]
               /\ UNCHANGED addr2lineVars
          ELSE /\ jobs' = [jobs EXCEPT ![t] =
                              [for |-> "print", stack |-> h, index |-> m, item |-> NoId]]
               /\ Begin(t)
    /\ UNCHANGED memory

StackPrint(t, h) == PrintFrom(t, h, 0)

Printing(t) == jobs[t] # NoJob /\ jobs[t].for = "print"

PrintEnds(t) ==
    /\ Printing(t)
    /\ Return(t)
    /\ UNCHANGED <<memory, jobs>>

PrintNext(t) ==
    /\ Printing(t)
    /\ pc[t] = "idle"
    /\ PrintFrom(t, jobs[t].stack, jobs[t].index + 1)

-----------------------------------------------------------------------------
(* What a thread may do that is not in the middle of a call.                *)
Work(t) ==
    \/ \E b \in Backtraces, back \in Backs, pair \in Pairs, mFree \in Pairs :
          GetCurrent(b, back, pair, mFree)
    \/ \E h \in LiveStacks, pair \in Pairs : Copy(h, pair)
    \/ \E h1, h2 \in LiveStacks : Swap(h1, h2)
    \/ \E h \in LiveStacks : StackFree(h)
    \/ \E h \in LiveStacks, pair \in Pairs :
          \E n \in 0..Size(h) : ItemResolved(t, h, n, pair)
    \/ \E i \in LiveItems : ItemResolvedNext(t, i)
    \/ \E i \in LiveItems : ItemResolvedClean(i)

(* What MaxOverlap and MaxMixed bound: a call may overlap with others, run   *)
(* addr2line alone, or do neither.                                          *)
Bounded(t) ==
    LET alone == \A u \in Threads \ {t} : jobs[u] = NoJob
    IN  \/ calls < IF mixed' = {} \/ alone THEN MaxOverlap ELSE MaxMixed
        \/ alone /\ jobs'[t] = NoJob

Call(t) ==
    /\ jobs[t] = NoJob
    /\ calls < MaxCalls
    /\ calls' = calls + 1
    /\ \/ t \in Owners /\ Work(t)
       \/ t \in Printers /\ \E h \in LiveStacks : StackPrint(t, h)
    /\ Bounded(t)

Resolving(t) == Caller(t) /\ UNCHANGED <<memory, jobs>>
Continue(t) ==
    /\ Resolving(t) \/ ItemResolvedEnds(t) \/ PrintEnds(t) \/ PrintNext(t)
    /\ UNCHANGED calls
Addr2Line(t) == Child(t) /\ UNCHANGED <<memory, jobs, calls>>

Next == \E t \in Threads : Call(t) \/ Continue(t) \/ Addr2Line(t)

(* A thread in a call goes on when it can, and addr2line comes to its end.  *)
(* Nobody is made to call.                                                  *)
Fairness == \A t \in Threads : WF_vars(Continue(t)) /\ WF_vars(Addr2Line(t))

Spec == Init /\ [][Next]_vars /\ Fairness

-----------------------------------------------------------------------------
TypeOK ==
    /\ Addr2LineTypeOK
    /\ DOMAIN heap \subseteq Blocks
    /\ \A b \in DOMAIN heap : heap[b] \in Pairs
    /\ LiveStacks \subseteq Ids
    /\ \A h \in LiveStacks : stacks[h] \in Stacks
    /\ LiveItems \subseteq Ids
    /\ \A i \in LiveItems : items[i] \in Items
    /\ mixed \subseteq {"stack", "swap", "item"}
    /\ jobs \in [Threads -> Jobs \cup {NoJob}]
    /\ calls \in 0..MaxCalls

PendingItems == {jobs[t].item : t \in {u \in Threads : jobs[u] # NoJob /\ ~Printing(u)}}

(* No block is lost or shared: the live blocks are those of the live        *)
(* stacks, of the live items and of the items being resolved, and no two of *)
(* these have a block in common, whatever was copied, swapped or refused.   *)
NothingLost ==
    /\ DOMAIN heap = (UNION {StackBlocks(h) : h \in LiveStacks})
                        \cup (UNION {ItemBlocks(i) : i \in LiveItems})
                        \cup {<<"item", i>> : i \in PendingItems}
    /\ \A h1, h2 \in LiveStacks :
          h1 # h2 => stacks[h1].ppFrames # stacks[h2].ppFrames
    /\ PendingItems \cap LiveItems = {}
    /\ \A t, u \in Threads : t # u /\ jobs[t] # NoJob /\ jobs[u] # NoJob
          /\ ~Printing(t) /\ ~Printing(u) => jobs[t].item # jobs[u].item

(* Every block will be freed with the function that belongs to the one that *)
(* allocated it, as far as the functions can see to it.  The array of the   *)
(* frames takes its freeing function along through every copy and swap, the *)
(* structure of a stack stays where it is when content is swapped, and an   *)
(* item has only the function that its stack has then: each holds unless a  *)
(* caller mixed two pairs in a call that matters to it.                     *)
FramesMatch ==
    \A h \in LiveStacks : heap[<<"frames", stacks[h].ppFrames>>] = stacks[h].mFree
StructuresMatch == \A h \in LiveStacks : heap[<<"stack", h>>] = stacks[h].mFree
ItemsMatch ==
    /\ \A i \in LiveItems, b \in Blocks :
          b \in ItemBlocks(i) => heap[b] = stacks[items[i].stack].mFree
    /\ \A t \in Threads : jobs[t] # NoJob /\ ~Printing(t) =>
          heap[<<"item", jobs[t].item>>] = stacks[jobs[t].stack].mFree

AllocatorsMatch ==
    /\ "stack" \notin mixed => FramesMatch
    /\ mixed \cap {"stack", "swap"} = {} => StructuresMatch
    /\ mixed \cap {"item", "swap"} = {} => ItemsMatch

(* Stacks that compare equal have the same hash, or the table of stacks     *)
(* would hold one of them twice.                                            *)
EqualStacksHashAlike ==
    \A h1, h2 \in LiveStacks :
        AreSame(stacks[h1], stacks[h2]) => GetHash(stacks[h1]) = GetHash(stacks[h2])
================================================================================
