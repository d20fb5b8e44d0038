--------------------------- MODULE StackCalcsProofs ---------------------------
(***************************************************************************)
(* Theorems about StackCalcs and Addr2Line, for any number of threads that *)
(* run addr2line at the same time, any capacity of a pipe and any output:  *)
(* first what a call leaves of its pipe and its child, then what becomes   *)
(* of the memory of stacks and items, whichever step fails.                *)
(***************************************************************************)
EXTENDS StackCalcs, SequenceTheorems, TLAPS

-----------------------------------------------------------------------------
(* Where a call is decides which ends the process has open and what may be  *)
(* left in its pipe.  While the child of a call may still write it holds    *)
(* the writing end, so that the read of its output cannot come to an end.   *)
EndsOK(t) ==
    /\ <<t, "w">> \in open <=> pc[t] \in {"fork", "closeWrite"}
    /\ <<t, "r">> \in open <=> pc[t] \in {"fork", "closeWrite", "read", "closeRead"}

ChildOK(t) ==
    /\ child[t].state \in {"forked", "running"} =>
          pc[t] \in {"closeWrite", "read"} /\ <<t, "w">> \in child[t].ends
    /\ child[t].state # "running" => child[t].left = 0
    /\ pc[t] \in {"idle", "fork", "done"} => child[t].state = "none"

OutputOK(t) ==
    /\ pc[t] # "done" => output[t] + pipe[t] + child[t].left = child[t].size
    /\ child[t].state = "forked" => child[t].size = 0
    /\ pc[t] \in {"closeRead", "wait", "done"} => pipe[t] = 0
    /\ pc[t] \in {"idle", "fork"} => output[t] = 0 /\ pipe[t] = 0 /\ child[t] = NoChild
    /\ pc[t] = "done" => child[t] = NoChild

Addr2LineInv ==
    /\ Addr2LineTypeOK
    /\ \A t \in Threads : EndsOK(t) /\ ChildOK(t) /\ OutputOK(t)

USE CapacityAssumption

(* A step of one call or of its child leaves the others' as they are.       *)
OnlyOf(t) ==
    \A u \in Threads \ {t} :
        /\ pc'[u] = pc[u] /\ child'[u] = child[u]
        /\ pipe'[u] = pipe[u] /\ output'[u] = output[u]
        /\ \A e \in {"r", "w"} : <<u, e>> \in open' <=> <<u, e>> \in open

LEMMA StepOf ==
    ASSUME Addr2LineInv, Addr2LineTypeOK', NEW t \in Threads, OnlyOf(t),
           EndsOK(t)', ChildOK(t)', OutputOK(t)'
    PROVE  Addr2LineInv'
BY DEF Addr2LineInv, OnlyOf, EndsOK, ChildOK, OutputOK

LEMMA BeginKeeps ==
    ASSUME Addr2LineInv, NEW t \in Threads, Begin(t)
    PROVE  Addr2LineInv'
<1>1. Addr2LineTypeOK'
  BY DEF Addr2LineInv, Addr2LineTypeOK, Begin, At, Ends
<1>2. OnlyOf(t)
  BY DEF OnlyOf, Addr2LineInv, Addr2LineTypeOK, Begin, At
<1>3. EndsOK(t)' /\ ChildOK(t)' /\ OutputOK(t)'
  BY DEF Addr2LineInv, Addr2LineTypeOK, Begin, At, EndsOK, ChildOK, OutputOK, NoChild
<1> QED
  BY <1>1, <1>2, <1>3, StepOf

LEMMA ReturnKeeps ==
    ASSUME Addr2LineInv, NEW t \in Threads, Return(t)
    PROVE  Addr2LineInv'
<1>1. Addr2LineTypeOK'
  BY DEF Addr2LineInv, Addr2LineTypeOK, Return, At
<1>2. OnlyOf(t)
  BY DEF OnlyOf, Addr2LineInv, Addr2LineTypeOK, Return, At
<1>3. EndsOK(t)' /\ ChildOK(t)' /\ OutputOK(t)'
  BY DEF Addr2LineInv, Addr2LineTypeOK, Return, At, EndsOK, ChildOK, OutputOK, NoChild
<1> QED
  BY <1>1, <1>2, <1>3, StepOf

(* The reader sees the end of its pipe only when its child is through.      *)
LEMMA ReadKeeps ==
    ASSUME Addr2LineInv, NEW t \in Threads, Read(t)
    PROVE  Addr2LineInv'
<1> USE CapacityAssumption
<1>1. CASE pipe[t] = 0 /\ ~Writable(t) /\ At(t, "closeRead") /\ UNCHANGED <<pipe, output>>
  <2>1. child[t].state \notin {"forked", "running"}
    BY <1>1 DEF Addr2LineInv, ChildOK, Writable
  <2>2. Addr2LineTypeOK' /\ OnlyOf(t)
    BY <1>1 DEF Addr2LineInv, Addr2LineTypeOK, OnlyOf, Read, Ended, At
  <2>3. EndsOK(t)' /\ ChildOK(t)' /\ OutputOK(t)'
    BY <1>1, <2>1 DEF Addr2LineInv, Addr2LineTypeOK, Read, Ended, At, EndsOK, ChildOK, OutputOK
  <2> QED
    BY <2>2, <2>3, StepOf
<1>2. ASSUME NEW n \in 1..pipe[t], pipe' = [pipe EXCEPT ![t] = @ - n],
             output' = [output EXCEPT ![t] = @ + n], UNCHANGED pc
      PROVE  Addr2LineInv'
  <2>1. /\ pipe[t] \in 0..Capacity /\ output[t] \in Nat
        /\ child[t].left \in Nat /\ child[t].size \in 0..MaxOutput
        /\ output[t] + pipe[t] + child[t].left = child[t].size
    BY DEF Addr2LineInv, Addr2LineTypeOK, Children, Read, Ended, OutputOK
  <2>2. pipe'[t] \in 0..Capacity /\ output'[t] \in 0..MaxOutput
    BY <1>2, <2>1 DEF Addr2LineInv, Addr2LineTypeOK
  <2>3. Addr2LineTypeOK' /\ OnlyOf(t)
    BY <1>2, <2>2 DEF Addr2LineInv, Addr2LineTypeOK, OnlyOf, Read, Ended
  <2>4. EndsOK(t)' /\ ChildOK(t)' /\ OutputOK(t)'
    BY <1>2, <2>1 DEF Addr2LineInv, Addr2LineTypeOK, Read, Ended, EndsOK, ChildOK, OutputOK
  <2> QED
    BY <2>3, <2>4, StepOf
<1> QED
  BY <1>1, <1>2 DEF Read, Ended

LEMMA CallerKeeps ==
    ASSUME Addr2LineInv, NEW t \in Threads, Caller(t)
    PROVE  Addr2LineInv'
<1>1. CASE Fork(t)
  <2>1. CASE child' = [child EXCEPT ![t].state = "forked", ![t].ends = open]
             /\ At(t, "closeWrite") /\ UNCHANGED open
    <3>1. child[t] = NoChild /\ <<t, "w">> \in open /\ open \in SUBSET Ends
      BY <1>1 DEF Addr2LineInv, Addr2LineTypeOK, EndsOK, OutputOK, Fork
    <3> DEFINE c == [state |-> "forked", ends |-> open, size |-> 0, left |-> 0]
    <3>2. child' = [child EXCEPT ![t] = c]
      BY <2>1, <3>1 DEF NoChild, Addr2LineInv, Addr2LineTypeOK
    <3>3. /\ c \in Children /\ c.state = "forked" /\ c.ends = open
          /\ c.left = 0 /\ c.size = 0
      BY <3>1 DEF NoChild, Children
    <3> HIDE DEF c
    <3>4. Addr2LineTypeOK' /\ OnlyOf(t)
      BY <1>1, <2>1, <3>2, <3>3 DEF Addr2LineInv, Addr2LineTypeOK, OnlyOf, Fork, At
    <3>5. child'[t] = c
      BY <3>2 DEF Addr2LineInv, Addr2LineTypeOK
    <3>6. EndsOK(t)' /\ ChildOK(t)' /\ OutputOK(t)'
      BY <1>1, <2>1, <3>1, <3>3, <3>5
         DEF Addr2LineInv, Addr2LineTypeOK, Fork, At, EndsOK, ChildOK, OutputOK
    <3> QED
      BY <3>4, <3>6, StepOf
  <2>2. CASE open' = open \ {<<t, "r">>, <<t, "w">>} /\ At(t, "done") /\ UNCHANGED child
    <3>1. Addr2LineTypeOK' /\ OnlyOf(t)
      BY <1>1, <2>2 DEF Addr2LineInv, Addr2LineTypeOK, OnlyOf, Fork, At
    <3>2. EndsOK(t)' /\ ChildOK(t)' /\ OutputOK(t)'
      BY <1>1, <2>2 DEF Addr2LineInv, Addr2LineTypeOK, Fork, At, EndsOK, ChildOK,
                        OutputOK, NoChild
    <3> QED
      BY <3>1, <3>2, StepOf
  <2> QED
    BY <1>1, <2>1, <2>2 DEF Fork
<1>2. CASE CloseWrite(t)
  <2>1. Addr2LineTypeOK' /\ OnlyOf(t)
    BY <1>2 DEF Addr2LineInv, Addr2LineTypeOK, OnlyOf, CloseWrite, At
  <2>2. EndsOK(t)' /\ ChildOK(t)' /\ OutputOK(t)'
    BY <1>2 DEF Addr2LineInv, Addr2LineTypeOK, CloseWrite, At, EndsOK, ChildOK, OutputOK
  <2> QED
    BY <2>1, <2>2, StepOf
<1>3. CASE Read(t)
  BY <1>3, ReadKeeps
<1>4. CASE CloseRead(t)
  <2>1. Addr2LineTypeOK' /\ OnlyOf(t)
    BY <1>4 DEF Addr2LineInv, Addr2LineTypeOK, OnlyOf, CloseRead, At
  <2>2. EndsOK(t)' /\ ChildOK(t)' /\ OutputOK(t)'
    BY <1>4 DEF Addr2LineInv, Addr2LineTypeOK, CloseRead, At, EndsOK, ChildOK, OutputOK
  <2> QED
    BY <2>1, <2>2, StepOf
<1>5. CASE Wait(t)
  <2>1. NoChild \in Children /\ NoChild.state = "none" /\ NoChild.left = 0
    BY DEF NoChild, Children
  <2>2. PICK l \in BOOLEAN : located' = [located EXCEPT ![t] = l]
    BY <1>5 DEF Wait
  <2>3. Addr2LineTypeOK' /\ OnlyOf(t)
    BY <1>5, <2>1, <2>2 DEF Addr2LineInv, Addr2LineTypeOK, OnlyOf, Wait, At
  <2>4. EndsOK(t)' /\ ChildOK(t)' /\ OutputOK(t)'
    BY <1>5, <2>1 DEF Addr2LineInv, Addr2LineTypeOK, Wait, At, EndsOK, ChildOK, OutputOK
  <2> QED
    BY <2>3, <2>4, StepOf
<1> QED
  BY <1>1, <1>2, <1>3, <1>4, <1>5 DEF Caller

LEMMA ChildKeeps ==
    ASSUME Addr2LineInv, NEW t \in Threads, Child(t)
    PROVE  Addr2LineInv'
<1>0. child \in [Threads -> Children] /\ pipe \in [Threads -> 0..Capacity]
  BY DEF Addr2LineInv, Addr2LineTypeOK
<1>1. ASSUME child' \in [Threads -> Children], pipe' \in [Threads -> 0..Capacity],
             UNCHANGED <<pc, open, output, located>>,
             \A u \in Threads \ {t} : child'[u] = child[u] /\ pipe'[u] = pipe[u],
             ChildOK(t)', OutputOK(t)'
      PROVE  Addr2LineInv'
  <2>1. Addr2LineTypeOK' /\ OnlyOf(t)
    BY <1>1 DEF Addr2LineInv, Addr2LineTypeOK, OnlyOf
  <2>2. EndsOK(t)'
    BY <1>1 DEF Addr2LineInv, EndsOK
  <2> QED
    BY <1>1, <2>1, <2>2, StepOf
<1>2. CASE ChildStarts(t)
  <2>1. /\ pc[t] \in {"closeWrite", "read"} /\ <<t, "w">> \in child[t].ends
        /\ child[t].left = 0 /\ child[t].size = 0
    BY <1>2 DEF Addr2LineInv, ChildOK, OutputOK, ChildStarts
  <2>2. output[t] = 0 /\ pipe[t] = 0
    BY <2>1 DEF Addr2LineInv, Addr2LineTypeOK, OutputOK
  <2> UNCHANGED <<pc, open, pipe, output, located>>
    BY <1>2 DEF ChildStarts
  <2>3. ASSUME NEW n \in 0..MaxOutput,
               child' = [child EXCEPT ![t].state = "running", ![t].ends = @ \ {<<t, "r">>},
                                      ![t].size = n, ![t].left = n]
        PROVE  Addr2LineInv'
    <3>1. /\ child'[t].state = "running" /\ child'[t].ends = child[t].ends \ {<<t, "r">>}
          /\ child'[t].size = n /\ child'[t].left = n
      BY <1>0, <2>3 DEF Children
    <3>2. child'[t] \in Children
      <4> DEFINE d == [state |-> "running", ends |-> child[t].ends \ {<<t, "r">>},
                       size |-> n, left |-> n]
      <4>1. child'[t] = d
        BY <1>0, <2>3, Zenon DEF Children
      <4>2. d \in Children
        BY <1>0 DEF Children
      <4> QED
        BY <4>1, <4>2
    <3>3. child' \in [Threads -> Children] /\ \A u \in Threads \ {t} : child'[u] = child[u]
      BY <1>0, <2>3, <3>2
    <3>4. ChildOK(t)' /\ OutputOK(t)'
      BY <2>1, <2>2, <3>1 DEF ChildOK, OutputOK
    <3> QED
      BY <1>0, <1>1, <3>3, <3>4
  <2>4. CASE child' = [child EXCEPT ![t].state = "zombie", ![t].ends = {}]
    <3>1. /\ child'[t].state = "zombie" /\ child'[t].size = 0 /\ child'[t].left = 0
          /\ child' \in [Threads -> Children]
          /\ \A u \in Threads \ {t} : child'[u] = child[u]
      BY <1>0, <2>1, <2>4 DEF Children
    <3>2. ChildOK(t)' /\ OutputOK(t)'
      BY <2>1, <2>2, <3>1 DEF ChildOK, OutputOK
    <3> QED
      BY <1>0, <1>1, <3>1, <3>2
  <2> QED
    BY <1>2, <2>3, <2>4 DEF ChildStarts
<1>3. CASE ChildWrites(t)
  <2>1. /\ child'[t].state = "running" /\ child'[t].ends = child[t].ends
        /\ child'[t].size = child[t].size /\ child'[t].left = child[t].left - 1
        /\ child' \in [Threads -> Children]
        /\ \A u \in Threads \ {t} : child'[u] = child[u]
    BY <1>0, <1>3 DEF Children, ChildWrites
  <2>2. /\ pipe' \in [Threads -> 0..Capacity] /\ pipe'[t] = pipe[t] + 1
        /\ \A u \in Threads \ {t} : pipe'[u] = pipe[u]
    BY <1>0, <1>3 DEF ChildWrites
  <2>3. /\ pc[t] \in {"closeWrite", "read"} /\ <<t, "w">> \in child[t].ends
        /\ output[t] + pipe[t] + child[t].left = child[t].size
    BY <1>3 DEF ChildWrites, ChildOK, OutputOK, Addr2LineInv
  <2>4. output[t] \in Nat /\ pipe[t] \in Nat /\ child[t].left \in Nat /\ child[t].size \in Nat
    BY DEF Addr2LineInv, Addr2LineTypeOK, Children
  <2>5. ChildOK(t)' /\ OutputOK(t)'
    BY <1>3, <2>1, <2>2, <2>3, <2>4 DEF ChildWrites, ChildOK, OutputOK
  <2> QED
    BY <1>1, <1>3, <2>1, <2>2, <2>5 DEF ChildWrites
<1>4. CASE ChildExits(t)
  <2>1. PICK s \in {"zombie", "none"} :
           child' = [child EXCEPT ![t].state = s, ![t].ends = {}]
    BY <1>4 DEF ChildExits
  <2>2. /\ child'[t].state = s /\ child'[t].size = child[t].size /\ child'[t].left = 0
        /\ child' \in [Threads -> Children]
        /\ \A u \in Threads \ {t} : child'[u] = child[u]
    <3>1. child[t].left = 0
      BY <1>4 DEF ChildExits
    <3> QED
      BY <1>0, <2>1, <3>1 DEF Children
  <2>3. pc[t] \in {"closeWrite", "read"} /\ child[t].left = 0
        /\ output[t] + pipe[t] + child[t].left = child[t].size
    BY <1>4 DEF ChildExits, ChildOK, OutputOK, Addr2LineInv
  <2>4. ChildOK(t)' /\ OutputOK(t)'
    BY <1>4, <2>2, <2>3 DEF ChildExits, ChildOK, OutputOK
  <2> QED
    BY <1>0, <1>1, <1>4, <2>2, <2>4 DEF ChildExits
<1> QED
  BY <1>2, <1>3, <1>4 DEF Child

-----------------------------------------------------------------------------
LEMMA Addr2LineInvHolds == Spec => []Addr2LineInv
<1>1. Init => Addr2LineInv
  BY DEF Init, Addr2LineInit, Addr2LineInv, Addr2LineTypeOK, EndsOK, ChildOK,
     OutputOK, NoChild, Children
<1>2. Addr2LineInv /\ [Next]_vars => Addr2LineInv'
  <2> SUFFICES ASSUME Addr2LineInv, [Next]_vars PROVE Addr2LineInv'
    OBVIOUS
  <2>1. CASE UNCHANGED addr2lineVars
    BY <2>1 DEF addr2lineVars, Addr2LineInv, Addr2LineTypeOK, EndsOK, ChildOK, OutputOK
  <2>2. ASSUME NEW t \in Threads, Call(t) PROVE Addr2LineInv'
    <3>1. UNCHANGED addr2lineVars \/ Begin(t)
      BY <2>2, Zenon DEF Call, Work, GetCurrent, Copy, NewStack, Swap, StackFree, ItemResolved,
                  ItemResolvedNext, ItemResolvedClean, StackPrint, PrintFrom
    <3> QED
      BY <2>1, <3>1, BeginKeeps
  <2>3. ASSUME NEW t \in Threads, Continue(t) PROVE Addr2LineInv'
    <3>1. UNCHANGED addr2lineVars \/ Begin(t) \/ Caller(t) \/ Return(t)
      BY <2>3, Zenon DEF Continue, Resolving, ItemResolvedEnds, PrintEnds, PrintNext, PrintFrom
    <3> QED
      BY <2>1, <3>1, BeginKeeps, CallerKeeps, ReturnKeeps
  <2>4. ASSUME NEW t \in Threads, Addr2Line(t) PROVE Addr2LineInv'
    BY <2>4, ChildKeeps DEF Addr2Line
  <2> QED
    BY <2>1, <2>2, <2>3, <2>4 DEF Next, vars
<1> QED
  BY <1>1, <1>2, PTL DEF Spec

(* However many threads run addr2line at the same time, and whatever their  *)
(* children inherit from each other, a call of runAddr2Line that stops      *)
(* reading has all its child wrote.                                         *)
THEOREM OutputCompleteHolds == Spec => []OutputComplete
<1>1. Addr2LineInv => OutputComplete
  <2> SUFFICES ASSUME Addr2LineInv, NEW t \in Threads, pc[t] \in {"closeRead", "wait"}
               PROVE  pipe[t] = 0 /\ child[t].left = 0 /\ output[t] = child[t].size
    BY DEF OutputComplete
  <2>1. pipe[t] = 0 /\ child[t].left = 0 /\ output[t] + pipe[t] + child[t].left = child[t].size
    BY DEF Addr2LineInv, ChildOK, OutputOK
  <2>2. output[t] \in Nat
    BY DEF Addr2LineInv, Addr2LineTypeOK
  <2> QED
    BY <2>1, <2>2
<1> QED
  BY <1>1, Addr2LineInvHolds, PTL

(* Every path out of runAddr2Line, those of a pipe or a child that could    *)
(* not be had included, closes both ends and waits for the child.           *)
THEOREM DescriptorsReturnedHolds == Spec => []DescriptorsReturned
<1>1. Addr2LineInv => DescriptorsReturned
  BY DEF Addr2LineInv, DescriptorsReturned, EndsOK, ChildOK
<1> QED
  BY <1>1, Addr2LineInvHolds, PTL

-----------------------------------------------------------------------------
(* Every live stack has a sequence of addresses for frames.                 *)
StacksOK == \A h \in LiveStacks : stacks[h].frames \in Seq(Nat)

LEMMA NewStackKeeps ==
    ASSUME StacksOK, NEW frames \in Seq(Nat), NEW p, NEW m, NewStack(frames, p, m)
    PROVE  StacksOK'
<1>1. CASE UNCHANGED stacks
  BY <1>1 DEF StacksOK, LiveStacks
<1>2. ASSUME NEW h, NEW f,
             stacks' = With(stacks, h, [frames |-> frames, ppFrames |-> f, mFree |-> m])
      PROVE  StacksOK'
  BY <1>2 DEF StacksOK, With, LiveStacks
<1> QED
  BY <1>1, <1>2, Zenon DEF NewStack, Refused

LEMMA StacksOKHolds == Spec => []StacksOK
<1>1. Init => StacksOK
  BY DEF Init, StacksOK, LiveStacks
<1>2. StacksOK /\ [Next]_vars => StacksOK'
  <2> SUFFICES ASSUME StacksOK, [Next]_vars PROVE StacksOK'
    OBVIOUS
  <2>1. CASE UNCHANGED stacks
    BY <2>1 DEF StacksOK, LiveStacks
  <2>2. ASSUME NEW b \in Backtraces, NEW back \in Backs, NEW pair \in Pairs, NEW m \in Pairs,
               GetCurrent(b, back, pair, m)
        PROVE  StacksOK'
    <3>1. SubSeq(b, back + 1, Len(b)) \in Seq(Nat)
      BY BacktracesAssumption, WordAssumption, <2>2 DEF GetCurrent
    <3> QED
      BY <2>2, <3>1, NewStackKeeps DEF GetCurrent
  <2>3. ASSUME NEW h \in LiveStacks, NEW pair \in Pairs, Copy(h, pair) PROVE StacksOK'
    BY <2>3, NewStackKeeps DEF Copy, StacksOK
  <2>4. ASSUME NEW h1 \in LiveStacks, NEW h2 \in LiveStacks, Swap(h1, h2) PROVE StacksOK'
    BY <2>4 DEF Swap, StacksOK, LiveStacks
  <2>5. ASSUME NEW h \in LiveStacks, StackFree(h) PROVE StacksOK'
    BY <2>5 DEF StackFree, Without, StacksOK, LiveStacks
  <2>6. ASSUME NEW t \in Threads, Call(t) PROVE StacksOK'
    <3>1. \/ UNCHANGED stacks
          \/ \E b \in Backtraces, back \in Backs, pair \in Pairs, m \in Pairs :
                GetCurrent(b, back, pair, m)
          \/ \E h \in LiveStacks, pair \in Pairs : Copy(h, pair)
          \/ \E h \in LiveStacks : StackFree(h)
          \/ \E h1, h2 \in LiveStacks : Swap(h1, h2)
      BY <2>6, Zenon DEF Call, Work, ItemResolved, ItemResolvedNext, ItemResolvedClean,
                         Refused, StackPrint, PrintFrom, memory
    <3> QED
      BY <2>1, <2>2, <2>3, <2>4, <2>5, <3>1
  <2>7. ASSUME NEW t \in Threads, Continue(t) \/ Addr2Line(t) PROVE StacksOK'
    <3>1. UNCHANGED stacks
      BY <2>7, Zenon DEF Continue, Addr2Line, Resolving, ItemResolvedEnds, PrintEnds, PrintNext,
                         PrintFrom, memory
    <3> QED
      BY <2>1, <3>1
  <2> QED
    BY <2>1, <2>6, <2>7 DEF Next, vars
<1> QED
  BY <1>1, <1>2, PTL DEF Spec

(* The hash and the comparison of stacks go together, for every width of    *)
(* size_t and any frames: stacks found to be the same have the same frames  *)
(* in the same places, and the hash depends on nothing else.                *)
THEOREM EqualStacksHashAlikeHolds == Spec => []EqualStacksHashAlike
<1>1. StacksOK => EqualStacksHashAlike
  <2> SUFFICES ASSUME StacksOK, NEW h1 \in LiveStacks, NEW h2 \in LiveStacks,
                      AreSame(stacks[h1], stacks[h2])
               PROVE  GetHash(stacks[h1]) = GetHash(stacks[h2])
    BY DEF EqualStacksHashAlike
  <2>1. stacks[h1].frames \in Seq(Nat) /\ stacks[h2].frames \in Seq(Nat)
    BY DEF StacksOK
  <2>2. stacks[h1].frames = stacks[h2].frames
    BY <2>1, SeqEqual DEF AreSame
  <2> QED
    BY <2>2 DEF GetHash
<1> QED
  BY <1>1, StacksOKHolds, PTL

-----------------------------------------------------------------------------
(* The blocks.  A stack owns its structure and its frames, an item its      *)
(* structure and its names, a call its item, and nobody else owns them.     *)
Resolves(t, i) == jobs[t] # NoJob /\ jobs[t].for = "item" /\ jobs[t].item = i

MemoryTypes ==
    /\ DOMAIN heap \subseteq Blocks
    /\ \A b \in DOMAIN heap : heap[b] \in Pairs
    /\ LiveStacks \subseteq Ids
    /\ \A h \in LiveStacks : stacks[h] \in Stacks
    /\ LiveItems \subseteq Ids
    /\ \A i \in LiveItems : items[i] \in Items
    /\ mixed \subseteq {"stack", "swap", "item"}
    /\ jobs \in [Threads -> Jobs \cup {NoJob}]
    /\ \A t \in Threads : jobs[t] # NoJob => jobs[t].stack \in LiveStacks
    /\ \A i \in LiveItems : items[i].stack \in LiveStacks

Owned ==
    /\ \A h \in Ids : <<"stack", h>> \in DOMAIN heap <=> h \in LiveStacks
    /\ \A f \in Ids : <<"frames", f>> \in DOMAIN heap
                         <=> \E h \in LiveStacks : stacks[h].ppFrames = f
    /\ \A i \in Ids : <<"item", i>> \in DOMAIN heap
                         <=> i \in LiveItems \/ \E t \in Threads : Resolves(t, i)
    /\ \A n \in Names, i \in Ids : <<n, i>> \in DOMAIN heap
                         <=> i \in LiveItems /\ n \in items[i].names
    /\ \A h, g \in LiveStacks : stacks[h].ppFrames = stacks[g].ppFrames => h = g
    /\ \A t \in Threads, i \in Ids : Resolves(t, i) => i \notin LiveItems
    /\ \A t, u \in Threads, i \in Ids : Resolves(t, i) /\ Resolves(u, i) => t = u

ItemsOK ==
    /\ \A i \in LiveItems : heap[<<"item", i>>] = stacks[items[i].stack].mFree
    /\ \A i \in LiveItems : \A n \in items[i].names :
          heap[<<n, i>>] = stacks[items[i].stack].mFree
    /\ \A t \in Threads, i \in Ids :
          Resolves(t, i) => heap[<<"item", i>>] = stacks[jobs[t].stack].mFree

JobsOK ==
    \A t \in Threads, i \in Ids : Resolves(t, i) => heap[<<"item", i>>] = jobs[t].mMalloc

Matched ==
    /\ "stack" \notin mixed => FramesMatch
    /\ "stack" \notin mixed /\ "swap" \notin mixed => StructuresMatch
    /\ "item" \notin mixed /\ "swap" \notin mixed => ItemsOK
    /\ JobsOK

MemoryInv == MemoryTypes /\ Owned /\ Matched

(* Nothing makes a mixture good again: what matters is each step without it.*)
LEMMA MatchedStep ==
    ASSUME Matched, mixed \subseteq mixed', JobsOK',
           "stack" \notin mixed' /\ FramesMatch => FramesMatch',
           "stack" \notin mixed' /\ "swap" \notin mixed' /\ StructuresMatch => StructuresMatch',
           "item" \notin mixed' /\ "swap" \notin mixed' /\ ItemsOK => ItemsOK'
    PROVE  Matched'
<1>1. /\ "stack" \notin mixed' => "stack" \notin mixed
      /\ "swap" \notin mixed' => "swap" \notin mixed
      /\ "item" \notin mixed' => "item" \notin mixed
  OBVIOUS
<1> QED
  BY <1>1, Zenon DEF Matched

LEMMA MixingAt ==
    ASSUME NEW kind, NEW p, NEW q, Mixing(kind, p, q)
    PROVE  /\ mixed \subseteq mixed' /\ mixed' \subseteq mixed \cup {kind}
           /\ kind \notin mixed' => p = q
BY DEF Mixing

LEMMA AllocateAt ==
    ASSUME NEW h, NEW bs, NEW p
    PROVE  /\ DOMAIN Allocate(h, bs, p) = DOMAIN h \cup bs
           /\ \A b \in DOMAIN h \cup bs : Allocate(h, bs, p)[b] = IF b \in bs THEN p ELSE h[b]
BY DEF Allocate

LEMMA DeallocateAt ==
    ASSUME NEW h, NEW bs
    PROVE  /\ DOMAIN Deallocate(h, bs) = DOMAIN h \ bs
           /\ \A b \in DOMAIN h \ bs : Deallocate(h, bs)[b] = h[b]
BY DEF Deallocate

LEMMA WithAt ==
    ASSUME NEW f, NEW k, NEW v
    PROVE  /\ DOMAIN With(f, k, v) = DOMAIN f \cup {k}
           /\ With(f, k, v)[k] = v
           /\ \A x \in DOMAIN f : x # k => With(f, k, v)[x] = f[x]
BY DEF With

LEMMA WithoutAt ==
    ASSUME NEW f, NEW k
    PROVE  /\ DOMAIN Without(f, k) = DOMAIN f \ {k}
           /\ \A x \in DOMAIN f \ {k} : Without(f, k)[x] = f[x]
BY DEF Without

LEMMA FreshIsFree ==
    ASSUME NEW kind, NEW i \in Fresh(kind)
    PROVE  i \in Ids /\ <<kind, i>> \notin DOMAIN heap
BY DEF Fresh

(* The blocks that the owners have are live.                                *)
LEMMA OwnedLive ==
    ASSUME MemoryInv
    PROVE  /\ \A g \in LiveStacks : /\ <<"stack", g>> \in DOMAIN heap
                                    /\ <<"frames", stacks[g].ppFrames>> \in DOMAIN heap
           /\ \A i \in LiveItems : /\ <<"item", i>> \in DOMAIN heap
                                   /\ items[i].stack \in LiveStacks
                                   /\ \A n \in items[i].names : <<n, i>> \in DOMAIN heap
           /\ \A t \in Threads, i \in Ids :
                 Resolves(t, i) => <<"item", i>> \in DOMAIN heap /\ jobs[t].stack \in LiveStacks
BY DEF MemoryInv, MemoryTypes, Owned, Resolves, Stacks, Items

LEMMA SameMemory ==
    ASSUME MemoryInv, DOMAIN heap' = DOMAIN heap, \A b \in DOMAIN heap : heap'[b] = heap[b],
           UNCHANGED <<stacks, items, mixed, jobs>>
    PROVE  MemoryInv'
<1>1. /\ LiveStacks' = LiveStacks /\ LiveItems' = LiveItems
      /\ stacks' = stacks /\ items' = items /\ mixed' = mixed /\ jobs' = jobs
      /\ \A t, i : Resolves(t, i)' <=> Resolves(t, i)
  BY DEF LiveStacks, LiveItems, Resolves
<1>2. MemoryTypes'
  BY <1>1 DEF MemoryInv, MemoryTypes
<1>3. Owned'
  BY <1>1 DEF MemoryInv, Owned
<1>4. FramesMatch => FramesMatch'
  BY <1>1, OwnedLive DEF FramesMatch
<1>5. StructuresMatch => StructuresMatch'
  BY <1>1, OwnedLive DEF StructuresMatch
<1>6. ItemsOK => ItemsOK'
  <2>1. ASSUME ItemsOK, NEW i \in LiveItems
        PROVE  /\ heap'[<<"item", i>>] = stacks[items[i].stack].mFree
               /\ \A n \in items[i].names : heap'[<<n, i>>] = stacks[items[i].stack].mFree
    BY <1>1, <2>1, OwnedLive DEF ItemsOK
  <2>2. ASSUME ItemsOK, NEW t \in Threads, NEW i \in Ids, Resolves(t, i)
        PROVE  heap'[<<"item", i>>] = stacks[jobs[t].stack].mFree
    BY <1>1, <2>2, OwnedLive DEF ItemsOK
  <2>3. ASSUME ItemsOK, NEW k \in LiveItems'
        PROVE  /\ heap'[<<"item", k>>] = stacks'[items'[k].stack].mFree
               /\ \A m \in items'[k].names :
                     heap'[<<m, k>>] = stacks'[items'[k].stack].mFree
    <3>1. k \in LiveItems /\ items' = items
      BY <2>3, <1>1
    <3> QED
      BY <2>3, <3>1, <1>1, <2>1
  <2>4. ASSUME ItemsOK, NEW u \in Threads, NEW k \in Ids, Resolves(u, k)'
        PROVE  heap'[<<"item", k>>] = stacks'[jobs'[u].stack].mFree
    BY <2>4, <1>1, <2>2
  <2> QED
    BY <2>3, <2>4, Zenon DEF ItemsOK
<1>7. JobsOK'
  BY <1>1, OwnedLive DEF MemoryInv, Matched, JobsOK
<1> QED
  BY <1>1, <1>2, <1>3, <1>4, <1>5, <1>6, <1>7, MatchedStep DEF MemoryInv

(* What is refused half way leaves memory as it was.                        *)
LEMMA RefusedOwned ==
    ASSUME MemoryInv, NEW b, b \notin DOMAIN heap, NEW p, Refused(b, p), UNCHANGED jobs
    PROVE  MemoryInv'
<1>1. /\ DOMAIN heap' = DOMAIN heap
      /\ \A c \in DOMAIN heap : heap'[c] = heap[c]
  BY DEF Refused, Allocate, Deallocate
<1> QED
  BY <1>1, SameMemory DEF Refused

LEMMA StackAdded ==
    ASSUME MemoryInv, NEW h \in Ids, NEW s \in Stacks, NEW p \in Pairs, NEW bs \in SUBSET Blocks,
           h \notin LiveStacks, \A g \in LiveStacks : stacks[g].ppFrames # s.ppFrames,
           \A g : <<"stack", g>> \in bs <=> g = h,
           \A g : <<"frames", g>> \in bs <=> g = s.ppFrames,
           \A g : <<"item", g>> \notin bs,
           \A n \in Names : \A g : <<n, g>> \notin bs,
           LiveStacks' = LiveStacks \cup {h},
           stacks'[h] = s, \A g \in LiveStacks : stacks'[g] = stacks[g],
           DOMAIN heap' = DOMAIN heap \cup bs,
           \A b \in bs : heap'[b] = p, \A b \in DOMAIN heap : heap'[b] = heap[b],
           Mixing("stack", p, s.mFree), UNCHANGED <<items, jobs>>
    PROVE  MemoryInv'
<1>10. LiveItems' = LiveItems /\ items' = items /\ jobs' = jobs
  BY DEF LiveItems
<1>11. MemoryTypes'
  BY MixingAt, <1>10 DEF MemoryInv, MemoryTypes
<1>12. Owned'
  <2>1. \A g \in Ids : <<"stack", g>> \in DOMAIN heap' <=> g \in LiveStacks'
    BY DEF MemoryInv, Owned
  <2>2. ASSUME NEW g \in Ids
        PROVE  <<"frames", g>> \in DOMAIN heap'
                  <=> \E k \in LiveStacks' : stacks'[k].ppFrames = g
    <3>1. (\E k \in LiveStacks' : stacks'[k].ppFrames = g)
             <=> g = s.ppFrames \/ \E k \in LiveStacks : stacks[k].ppFrames = g
      OBVIOUS
    <3> QED
      BY <3>1 DEF MemoryInv, Owned
  <2>3. \A k, g \in LiveStacks' : stacks'[k].ppFrames = stacks'[g].ppFrames => k = g
    BY DEF MemoryInv, Owned
  <2> QED
    BY <1>10, <2>1, <2>2, <2>3 DEF MemoryInv, Owned, Resolves
<1>13. Matched'
  <2>1. \A g \in LiveStacks : /\ <<"stack", g>> \in DOMAIN heap
                              /\ <<"frames", stacks[g].ppFrames>> \in DOMAIN heap
    BY OwnedLive
  <2>2. "stack" \notin mixed' /\ FramesMatch => FramesMatch'
    <3>1. ASSUME "stack" \notin mixed', FramesMatch, NEW g \in LiveStacks'
          PROVE  heap'[<<"frames", stacks'[g].ppFrames>>] = stacks'[g].mFree
      <4>1. CASE g = h
        <5>1. p = s.mFree
          BY <3>1, MixingAt
        <5> QED
          BY <4>1, <5>1
      <4>2. CASE g \in LiveStacks
        BY <2>1, <3>1, <4>2 DEF FramesMatch
      <4> QED
        BY <4>1, <4>2
    <3> QED
      BY <3>1, Zenon DEF FramesMatch
  <2>3. "stack" \notin mixed' /\ StructuresMatch => StructuresMatch'
    <3>1. ASSUME "stack" \notin mixed', StructuresMatch, NEW g \in LiveStacks'
          PROVE  heap'[<<"stack", g>>] = stacks'[g].mFree
      <4>1. CASE g = h
        <5>1. p = s.mFree
          BY <3>1, MixingAt
        <5> QED
          BY <4>1, <5>1
      <4>2. CASE g \in LiveStacks
        BY <2>1, <3>1, <4>2 DEF StructuresMatch
      <4> QED
        BY <4>1, <4>2
    <3> QED
      BY <3>1, Zenon DEF StructuresMatch
  <2>4. ASSUME NEW i \in LiveItems, ItemsOK
        PROVE  /\ heap'[<<"item", i>>] = stacks'[items[i].stack].mFree
               /\ \A n \in items[i].names : heap'[<<n, i>>] = stacks'[items[i].stack].mFree
    BY <2>4, OwnedLive DEF ItemsOK
  <2>5. ASSUME NEW t \in Threads, NEW i \in Ids, Resolves(t, i)
        PROVE  /\ ItemsOK => heap'[<<"item", i>>] = stacks'[jobs[t].stack].mFree
               /\ heap'[<<"item", i>>] = jobs[t].mMalloc
    <3>1. /\ heap'[<<"item", i>>] = heap[<<"item", i>>]
          /\ stacks'[jobs[t].stack] = stacks[jobs[t].stack]
      BY <2>5, OwnedLive
    <3>2. heap[<<"item", i>>] = jobs[t].mMalloc
      BY <2>5 DEF MemoryInv, Matched, JobsOK
    <3>3. ItemsOK => heap[<<"item", i>>] = stacks[jobs[t].stack].mFree
      BY <2>5 DEF ItemsOK
    <3> QED
      BY <3>1, <3>2, <3>3
  <2>6. ItemsOK => ItemsOK'
    <3>1. ASSUME ItemsOK, NEW k \in LiveItems'
          PROVE  /\ heap'[<<"item", k>>] = stacks'[items'[k].stack].mFree
                 /\ \A m \in items'[k].names :
                       heap'[<<m, k>>] = stacks'[items'[k].stack].mFree
      <4>1. k \in LiveItems /\ items' = items
        BY <3>1, <1>10
      <4> QED
        BY <3>1, <4>1, <1>10, <2>4
    <3>2. ASSUME ItemsOK, NEW u \in Threads, NEW k \in Ids, Resolves(u, k)'
          PROVE  heap'[<<"item", k>>] = stacks'[jobs'[u].stack].mFree
      BY <3>2, <1>10, <2>5 DEF Resolves
    <3> QED
      BY <3>1, <3>2, Zenon DEF ItemsOK
  <2>7. JobsOK'
    BY <1>10, <2>5 DEF JobsOK, Resolves
  <2> QED
    BY MixingAt, <2>2, <2>3, <2>6, <2>7, MatchedStep DEF MemoryInv
<1> QED
  BY <1>11, <1>12, <1>13 DEF MemoryInv

LEMMA NewStackMade ==
    ASSUME MemoryInv, NEW h \in Fresh("stack"), NEW f \in Fresh("frames"),
           NEW frames \in Seq(Nat), NEW p \in Pairs, NEW q \in Pairs,
           heap' = Allocate(heap, {<<"stack", h>>, <<"frames", f>>}, p),
           stacks' = With(stacks, h, [frames |-> frames, ppFrames |-> f, mFree |-> q]),
           Mixing("stack", p, q), UNCHANGED <<items, jobs>>
    PROVE  MemoryInv'
<1> DEFINE s == [frames |-> frames, ppFrames |-> f, mFree |-> q]
           bs == {<<"stack", h>>, <<"frames", f>>}
<1>1. /\ h \in Ids /\ <<"stack", h>> \notin DOMAIN heap
      /\ f \in Ids /\ <<"frames", f>> \notin DOMAIN heap
  BY FreshIsFree
<1>2. h \notin LiveStacks /\ \A g \in LiveStacks : stacks[g].ppFrames # f
  BY <1>1 DEF MemoryInv, Owned
<1>3. stacks' = With(stacks, h, s) /\ heap' = Allocate(heap, bs, p)
  OBVIOUS
<1>4. s \in Stacks /\ s.ppFrames = f /\ s.mFree = q
  BY <1>1 DEF Stacks
<1>5. bs \subseteq Blocks /\ <<"stack", h>> \in bs /\ <<"frames", f>> \in bs
  BY <1>1 DEF Blocks, Kinds
<1>6. \A b \in bs : b \notin DOMAIN heap
  BY <1>1
<1>7. /\ \A g : <<"stack", g>> \in bs <=> g = h
      /\ \A g : <<"frames", g>> \in bs <=> g = f
      /\ \A g : <<"item", g>> \notin bs
      /\ \A n \in Names : \A g : <<n, g>> \notin bs
  BY NamesAssumption
<1> HIDE DEF s, bs
<1>8. /\ LiveStacks' = LiveStacks \cup {h}
      /\ stacks'[h] = s /\ \A g \in LiveStacks : stacks'[g] = stacks[g]
  <2>1. /\ DOMAIN stacks' = DOMAIN stacks \cup {h}
        /\ stacks'[h] = s /\ \A g \in DOMAIN stacks : g # h => stacks'[g] = stacks[g]
    BY <1>3 DEF With
  <2> QED
    BY <1>2, <2>1 DEF LiveStacks
<1>9. /\ DOMAIN heap' = DOMAIN heap \cup bs
      /\ \A b \in bs : heap'[b] = p
      /\ \A b \in DOMAIN heap : heap'[b] = heap[b]
  <2>1. /\ DOMAIN heap' = DOMAIN heap \cup bs
        /\ \A b \in DOMAIN heap \cup bs : heap'[b] = IF b \in bs THEN p ELSE heap[b]
    BY <1>3 DEF Allocate
  <2> QED
    BY <1>6, <2>1
<1>10. /\ bs \in SUBSET Blocks /\ Mixing("stack", p, s.mFree)
       /\ \A g : <<"frames", g>> \in bs <=> g = s.ppFrames
       /\ \A g \in LiveStacks : stacks[g].ppFrames # s.ppFrames
  BY <1>2, <1>4, <1>5, <1>7
<1> QED
  BY <1>1, <1>2, <1>4, <1>7, <1>8, <1>9, <1>10, StackAdded, ZenonT(60)

LEMMA NewStackOwned ==
    ASSUME MemoryInv, NEW frames \in Seq(Nat), NEW p \in Pairs, NEW q \in Pairs,
           NewStack(frames, p, q)
    PROVE  MemoryInv'
<1>1. PICK h \in Fresh("stack") :
         \/ \E f \in Fresh("frames") :
               /\ heap' = Allocate(heap, {<<"stack", h>>, <<"frames", f>>}, p)
               /\ stacks' = With(stacks, h, [frames |-> frames, ppFrames |-> f, mFree |-> q])
               /\ Mixing("stack", p, q)
               /\ UNCHANGED items
         \/ Refused(<<"stack", h>>, p)
  BY Zenon DEF NewStack
<1>2. UNCHANGED jobs
  BY DEF NewStack
<1>3. CASE Refused(<<"stack", h>>, p)
  BY <1>2, <1>3, FreshIsFree, RefusedOwned
<1> QED
  BY <1>1, <1>2, <1>3, NewStackMade

LEMMA SwapOwned ==
    ASSUME MemoryInv, NEW h1 \in LiveStacks, NEW h2 \in LiveStacks, Swap(h1, h2)
    PROVE  MemoryInv'
<1> DEFINE other(g) == IF g = h1 THEN h2 ELSE IF g = h2 THEN h1 ELSE g
<1>1. /\ DOMAIN stacks' = DOMAIN stacks
      /\ \A g \in DOMAIN stacks : stacks'[g] = stacks[other(g)]
  BY DEF Swap, LiveStacks
<1>2. \A g \in LiveStacks : other(g) \in LiveStacks /\ other(other(g)) = g
  OBVIOUS
<1>3. \A g, k \in LiveStacks : other(g) = other(k) => g = k
  OBVIOUS
<1>9. /\ mixed \subseteq mixed' /\ mixed' \subseteq mixed \cup {"swap"}
      /\ "swap" \notin mixed' => \A g \in LiveStacks : stacks[other(g)].mFree = stacks[g].mFree
  BY MixingAt DEF Swap
<1> HIDE DEF other
<1>4. /\ LiveStacks' = LiveStacks
      /\ \A g \in LiveStacks : stacks'[g] = stacks[other(g)]
  BY <1>1, <1>2 DEF LiveStacks
<1>5. heap' = heap /\ LiveItems' = LiveItems /\ items' = items /\ jobs' = jobs
  BY DEF Swap, LiveItems
<1>6. MemoryTypes'
  BY <1>2, <1>4, <1>5, <1>9 DEF MemoryInv, MemoryTypes
<1>7. Owned'
  <2>1. ASSUME NEW f
        PROVE  (\E g \in LiveStacks : stacks'[g].ppFrames = f)
                  <=> \E g \in LiveStacks : stacks[g].ppFrames = f
    BY <1>2, <1>4
  <2>2. \A g, k \in LiveStacks : stacks'[g].ppFrames = stacks'[k].ppFrames => g = k
    BY <1>2, <1>3, <1>4 DEF MemoryInv, Owned
  <2>3. \A f \in Ids : <<"frames", f>> \in DOMAIN heap'
                          <=> \E g \in LiveStacks' : stacks'[g].ppFrames = f
    BY <1>4, <1>5, <2>1 DEF MemoryInv, Owned
  <2> QED
    BY <1>4, <1>5, <2>2, <2>3 DEF MemoryInv, Owned, Resolves
<1>8. Matched'
  <2>1. FramesMatch => FramesMatch'
    BY <1>2, <1>4, <1>5 DEF FramesMatch
  <2>2. "swap" \notin mixed' /\ StructuresMatch => StructuresMatch'
    BY <1>2, <1>4, <1>5, <1>9 DEF StructuresMatch
  <2>3. "swap" \notin mixed' /\ ItemsOK => ItemsOK'
    BY <1>2, <1>4, <1>5, <1>9, OwnedLive DEF ItemsOK, Resolves
  <2>4. JobsOK'
    BY <1>5 DEF MemoryInv, Matched, JobsOK, Resolves
  <2> QED
    BY <1>9, <2>1, <2>2, <2>3, <2>4, MatchedStep DEF MemoryInv
<1> QED
  BY <1>6, <1>7, <1>8 DEF MemoryInv

LEMMA StackFreeOwned ==
    ASSUME MemoryInv, NEW h \in LiveStacks, StackFree(h)
    PROVE  MemoryInv'
<1> DEFINE bs == {<<"stack", h>>, <<"frames", stacks[h].ppFrames>>}
<1>1. /\ DOMAIN heap' = DOMAIN heap \ bs
      /\ \A b \in DOMAIN heap \ bs : heap'[b] = heap[b]
  BY DeallocateAt DEF StackFree, StackBlocks
<1>2. /\ LiveStacks' = LiveStacks \ {h}
      /\ \A g \in LiveStacks \ {h} : stacks'[g] = stacks[g]
  BY WithoutAt DEF StackFree, LiveStacks
<1>3. LiveItems' = LiveItems /\ items' = items /\ jobs' = jobs /\ mixed' = mixed
  BY DEF StackFree, LiveItems
<1>4. /\ \A g : <<"stack", g>> \in bs <=> g = h
      /\ \A g : <<"frames", g>> \in bs <=> g = stacks[h].ppFrames
      /\ \A g : <<"item", g>> \notin bs
      /\ \A n \in Names : \A g : <<n, g>> \notin bs
  BY NamesAssumption
<1> HIDE DEF bs
<1>5. /\ \A t \in Threads : jobs[t] # NoJob => jobs[t].stack \in LiveStacks \ {h}
      /\ \A i \in LiveItems : items[i].stack \in LiveStacks \ {h}
  BY DEF StackFree, InUse, HasItems, MemoryInv, MemoryTypes
<1>6. \A g \in LiveStacks \ {h} : stacks[g].ppFrames # stacks[h].ppFrames
  BY DEF MemoryInv, Owned
<1>7. MemoryTypes'
  BY <1>1, <1>2, <1>3, <1>5 DEF MemoryInv, MemoryTypes
<1>8. Owned'
  <2>1. ASSUME NEW f \in Ids
        PROVE  <<"frames", f>> \in DOMAIN heap'
                  <=> \E g \in LiveStacks' : stacks'[g].ppFrames = f
    <3>1. <<"frames", f>> \in DOMAIN heap <=> \E g \in LiveStacks : stacks[g].ppFrames = f
      BY DEF MemoryInv, Owned
    <3> QED
      BY <1>1, <1>2, <1>4, <1>6, <3>1
  <2> QED
    BY <1>1, <1>2, <1>3, <1>4, <2>1 DEF MemoryInv, Owned, Resolves
<1>9. Matched'
  <2>1. FramesMatch => FramesMatch'
    <3>1. ASSUME FramesMatch, NEW g \in LiveStacks'
          PROVE  heap'[<<"frames", stacks'[g].ppFrames>>] = stacks'[g].mFree
      BY <1>1, <1>2, <1>4, <1>6, <3>1, OwnedLive DEF FramesMatch
    <3> QED
      BY <3>1, Zenon DEF FramesMatch
  <2>2. StructuresMatch => StructuresMatch'
    BY <1>1, <1>2, <1>4, OwnedLive DEF StructuresMatch
  <2>3. \A i \in LiveItems : items[i].names \subseteq Names
    BY DEF MemoryInv, MemoryTypes, Items
  <2>4. ItemsOK => ItemsOK'
    <3>1. ASSUME ItemsOK, NEW i \in LiveItems'
          PROVE  /\ heap'[<<"item", i>>] = stacks'[items'[i].stack].mFree
                 /\ \A n \in items'[i].names :
                       heap'[<<n, i>>] = stacks'[items'[i].stack].mFree
      BY <1>1, <1>2, <1>3, <1>4, <1>5, <2>3, <3>1, OwnedLive DEF ItemsOK
    <3>2. ASSUME ItemsOK, NEW t \in Threads, NEW i \in Ids, Resolves(t, i)'
          PROVE  heap'[<<"item", i>>] = stacks'[jobs'[t].stack].mFree
      <4>1. Resolves(t, i) /\ jobs[t].stack \in LiveStacks \ {h}
        BY <1>3, <1>5, <3>2 DEF Resolves
      <4> QED
        BY <1>1, <1>2, <1>3, <1>4, <3>2, <4>1, OwnedLive DEF ItemsOK
    <3> QED
      BY <3>1, <3>2, Zenon DEF ItemsOK
  <2>5. JobsOK'
    BY <1>1, <1>3, <1>4, OwnedLive DEF MemoryInv, Matched, JobsOK, Resolves
  <2> QED
    BY <1>3, <2>1, <2>2, <2>4, <2>5, MatchedStep DEF MemoryInv
<1> QED
  BY <1>7, <1>8, <1>9 DEF MemoryInv

LEMMA ItemBegun ==
    ASSUME MemoryInv, NEW t \in Threads, jobs[t] = NoJob, NEW h \in LiveStacks,
           NEW n \in Nat, NEW p \in Pairs, NEW i \in Fresh("item"),
           heap' = Allocate(heap, {<<"item", i>>}, p),
           jobs' = [jobs EXCEPT ![t] = [for |-> "item", stack |-> h, index |-> n, item |-> i,
                                       mMalloc |-> p]],
           Mixing("item", p, stacks[h].mFree), UNCHANGED <<stacks, items>>
    PROVE  MemoryInv'
<1>2. i \in Ids /\ <<"item", i>> \notin DOMAIN heap
  BY FreshIsFree
<1>3. i \notin LiveItems /\ \A u \in Threads : ~Resolves(u, i)
  BY <1>2 DEF MemoryInv, Owned
<1>4. /\ stacks' = stacks /\ LiveStacks' = LiveStacks
      /\ items' = items /\ LiveItems' = LiveItems
  BY DEF LiveStacks, LiveItems
<1> DEFINE j == [for |-> "item", stack |-> h, index |-> n, item |-> i, mMalloc |-> p]
<1>5. h \in Ids /\ stacks[h].mFree \in Pairs
  BY DEF MemoryInv, MemoryTypes, Stacks
<1>6. j \in Jobs /\ j # NoJob /\ j.for = "item" /\ j.stack = h /\ j.item = i /\ j.mMalloc = p
  BY <1>2, <1>5, JobsAssumption DEF Jobs
<1>7. jobs \in [Threads -> Jobs \cup {NoJob}] /\ jobs' = [jobs EXCEPT ![t] = j]
  BY DEF MemoryInv, MemoryTypes
<1> HIDE DEF j
<1>8. /\ jobs' \in [Threads -> Jobs \cup {NoJob}]
      /\ jobs'[t] = j /\ \A u \in Threads : u # t => jobs'[u] = jobs[u]
  BY <1>6, <1>7
<1> DEFINE bs == {<<"item", i>>}
<1>9. /\ \A g : <<"stack", g>> \notin bs
      /\ \A g : <<"frames", g>> \notin bs
      /\ \A g : <<"item", g>> \in bs <=> g = i
      /\ \A m \in Names : \A g : <<m, g>> \notin bs
  BY NamesAssumption
<1>10. bs \subseteq Blocks
  BY <1>2 DEF Blocks, Kinds
<1>11. /\ DOMAIN heap' = DOMAIN heap \cup bs
       /\ \A b \in bs : heap'[b] = p
       /\ \A b \in DOMAIN heap : heap'[b] = heap[b]
  <2>1. /\ DOMAIN heap' = DOMAIN heap \cup bs
        /\ \A b \in DOMAIN heap \cup bs :
              heap'[b] = IF b \in bs THEN p ELSE heap[b]
    BY DEF Allocate
  <2> QED
    BY <1>2, <2>1
<1> HIDE DEF bs
<1>12. \A u \in Threads, k \in Ids : Resolves(u, k)' <=> Resolves(u, k) \/ (u = t /\ k = i)
  BY <1>6, <1>8 DEF Resolves
<1>13. MemoryTypes'
  BY MixingAt, <1>4, <1>5, <1>6, <1>8, <1>10, <1>11 DEF MemoryInv, MemoryTypes
<1>14. Owned'
  <2>1. ASSUME NEW k \in Ids
        PROVE  <<"item", k>> \in DOMAIN heap'
                  <=> k \in LiveItems \/ \E u \in Threads : Resolves(u, k)'
    <3>1. (\E u \in Threads : Resolves(u, k)') <=> k = i \/ \E u \in Threads : Resolves(u, k)
      BY <1>12
    <3> QED
      BY <1>9, <1>11, <3>1 DEF MemoryInv, Owned
  <2>2. \A u \in Threads, k \in Ids : Resolves(u, k)' => k \notin LiveItems
    BY <1>3, <1>12 DEF MemoryInv, Owned
  <2>3. \A u, v \in Threads, k \in Ids : Resolves(u, k)' /\ Resolves(v, k)' => u = v
    BY <1>3, <1>12 DEF MemoryInv, Owned
  <2>4. /\ \A g \in Ids : <<"stack", g>> \in DOMAIN heap' <=> g \in LiveStacks
        /\ \A f \in Ids : <<"frames", f>> \in DOMAIN heap'
                             <=> \E g \in LiveStacks : stacks[g].ppFrames = f
        /\ \A m \in Names, k \in Ids : <<m, k>> \in DOMAIN heap'
                             <=> k \in LiveItems /\ m \in items[k].names
    BY <1>9, <1>11 DEF MemoryInv, Owned
  <2>5. \A g, k \in LiveStacks : stacks[g].ppFrames = stacks[k].ppFrames => g = k
    BY DEF MemoryInv, Owned
  <2> QED
    BY <1>4, <2>1, <2>2, <2>3, <2>4, <2>5 DEF Owned
<1>15. Matched'
  <2>1. FramesMatch => FramesMatch'
    BY <1>4, <1>11, OwnedLive DEF FramesMatch
  <2>2. StructuresMatch => StructuresMatch'
    BY <1>4, <1>11, OwnedLive DEF StructuresMatch
  <2>3. ItemsOK => \A k \in LiveItems : /\ heap'[<<"item", k>>] = stacks[items[k].stack].mFree
                                        /\ \A m \in items[k].names :
                                              heap'[<<m, k>>] = stacks[items[k].stack].mFree
    BY <1>11, OwnedLive DEF ItemsOK
  <2>4. ASSUME NEW u \in Threads, NEW k \in Ids, Resolves(u, k)'
        PROVE  /\ "item" \notin mixed' /\ ItemsOK
                     => heap'[<<"item", k>>] = stacks[jobs'[u].stack].mFree
               /\ heap'[<<"item", k>>] = jobs'[u].mMalloc
    <3>1. CASE Resolves(u, k)
      <4>1. u # t /\ jobs'[u] = jobs[u]
        BY <1>8, <3>1 DEF Resolves
      <4>2. heap'[<<"item", k>>] = heap[<<"item", k>>]
        BY <1>11, <3>1, OwnedLive
      <4> QED
        BY <3>1, <4>1, <4>2 DEF MemoryInv, Matched, ItemsOK, JobsOK
    <3>2. CASE u = t /\ k = i
      <4>1. heap'[<<"item", k>>] = p /\ jobs'[u] = j
        BY <1>8, <1>9, <1>11, <3>2
      <4>2. "item" \notin mixed' => p = stacks[h].mFree
        BY MixingAt
      <4> QED
        BY <1>6, <4>1, <4>2
    <3> QED
      BY <1>12, <2>4, <3>1, <3>2
  <2>5. "item" \notin mixed' /\ ItemsOK => ItemsOK'
    <3>1. \A u \in Threads, k \in Ids : "item" \notin mixed' /\ ItemsOK /\ Resolves(u, k)'
             => heap'[<<"item", k>>] = stacks[jobs'[u].stack].mFree
      BY <2>4
    <3>2. ASSUME "item" \notin mixed', ItemsOK, NEW k \in LiveItems'
          PROVE  /\ heap'[<<"item", k>>] = stacks'[items'[k].stack].mFree
                 /\ \A m \in items'[k].names :
                       heap'[<<m, k>>] = stacks'[items'[k].stack].mFree
      <4>1. k \in LiveItems /\ items' = items
        BY <3>2, <1>4
      <4> QED
        BY <3>2, <4>1, <1>4, <2>3
    <3>3. ASSUME "item" \notin mixed', ItemsOK, NEW u \in Threads, NEW k \in Ids, Resolves(u, k)'
          PROVE  heap'[<<"item", k>>] = stacks'[jobs'[u].stack].mFree
      BY <3>3, <1>4, <3>1
    <3> QED
      BY <3>2, <3>3, Zenon DEF ItemsOK
  <2>6. JobsOK'
    BY <2>4 DEF JobsOK
  <2> QED
    BY MixingAt, <2>1, <2>2, <2>5, <2>6, MatchedStep DEF MemoryInv
<1> QED
  BY <1>13, <1>14, <1>15 DEF MemoryInv

LEMMA ItemResolvedOwned ==
    ASSUME MemoryInv, NEW t \in Threads, jobs[t] = NoJob, NEW h \in LiveStacks,
           NEW n \in Nat, NEW p \in Pairs, ItemResolved(t, h, n, p)
    PROVE  MemoryInv'
<1>1. PICK i \in Fresh("item") :
         \/ /\ heap' = Allocate(heap, {<<"item", i>>}, p)
            /\ jobs' = [jobs EXCEPT ![t] = [for |-> "item", stack |-> h, index |-> n,
                                           item |-> i, mMalloc |-> p]]
            /\ Mixing("item", p, stacks[h].mFree)
            /\ UNCHANGED <<stacks, items>>
         \/ Refused(<<"item", i>>, p) /\ UNCHANGED jobs
  BY Zenon DEF ItemResolved
<1>2. CASE Refused(<<"item", i>>, p) /\ UNCHANGED jobs
  BY <1>2, FreshIsFree, RefusedOwned
<1> QED
  BY <1>1, <1>2, ItemBegun

LEMMA ItemResolvedEndsOwned ==
    ASSUME MemoryInv, NEW t \in Threads, ItemResolvedEnds(t)
    PROVE  MemoryInv'
<1> DEFINE i == jobs[t].item
           h == jobs[t].stack
           p == jobs[t].mMalloc
<1>1. jobs \in [Threads -> Jobs \cup {NoJob}] /\ jobs[t] # NoJob /\ jobs[t].for = "item"
  BY DEF ItemResolvedEnds, MemoryInv, MemoryTypes
<1>2. i \in Ids /\ h \in LiveStacks /\ jobs[t].index \in Nat /\ Resolves(t, i) /\ p \in Pairs
  BY <1>1 DEF MemoryInv, MemoryTypes, Jobs, Resolves
<1>3. /\ i \notin LiveItems /\ <<"item", i>> \in DOMAIN heap
      /\ heap[<<"item", i>>] = p
      /\ \A u \in Threads : Resolves(u, i) => u = t
      /\ \A n \in Names : <<n, i>> \notin DOMAIN heap
  BY <1>2 DEF MemoryInv, Owned, Matched, JobsOK
<1>4. /\ jobs' \in [Threads -> Jobs \cup {NoJob}]
      /\ jobs'[t] = NoJob /\ \A u \in Threads : u # t => jobs'[u] = jobs[u]
  BY <1>1 DEF ItemResolvedEnds
<1>5. \A u \in Threads, k \in Ids : Resolves(u, k)' <=> Resolves(u, k) /\ k # i
  <2>1. \A k : Resolves(t, k) => k = i
    BY DEF Resolves
  <2>2. \A k : ~Resolves(t, k)'
    BY <1>4 DEF Resolves
  <2>3. \A u \in Threads, k \in Ids : u # t => (Resolves(u, k)' <=> Resolves(u, k))
    BY <1>4 DEF Resolves
  <2>4. \A u \in Threads : u # t => ~Resolves(u, i)
    BY <1>3
  <2> HIDE DEF i
  <2> QED
    BY <1>2, <2>1, <2>2, <2>3, <2>4
<1>6. stacks' = stacks /\ LiveStacks' = LiveStacks /\ mixed' = mixed
  BY DEF ItemResolvedEnds, LiveStacks
<1>7. h \in Ids
  BY <1>2 DEF MemoryInv, MemoryTypes
<1>8. ASSUME NEW names \in SUBSET Names,
             heap' = Allocate(heap, names \X {i}, p),
             items' = With(items, i, [stack |-> h, index |-> jobs[t].index, names |-> names,
                                      mMalloc |-> p])
      PROVE  MemoryInv'
  <2> DEFINE bs == names \X {i}
             v == [stack |-> h, index |-> jobs[t].index, names |-> names, mMalloc |-> p]
  <2>1. v \in Items /\ v.stack = h /\ v.names = names
    BY <1>2, <1>7 DEF Items
  <2>2. /\ \A g : <<"stack", g>> \notin bs
        /\ \A g : <<"frames", g>> \notin bs
        /\ \A g : <<"item", g>> \notin bs
        /\ \A n \in Names : \A g : <<n, g>> \in bs <=> n \in names /\ g = i
    BY NamesAssumption
  <2>3. bs \subseteq Blocks
    BY <1>2 DEF Blocks, Kinds
  <2>4. heap' = Allocate(heap, bs, p) /\ items' = With(items, i, v)
    BY <1>8
  <2>5. \A b \in bs : b \notin DOMAIN heap
    BY <1>3
  <2> HIDE DEF bs, v, i, h, p
  <2>6. /\ DOMAIN heap' = DOMAIN heap \cup bs
        /\ \A b \in bs : heap'[b] = p
        /\ \A b \in DOMAIN heap : heap'[b] = heap[b]
    <3>1. /\ DOMAIN heap' = DOMAIN heap \cup bs
          /\ \A b \in DOMAIN heap \cup bs :
                heap'[b] = IF b \in bs THEN p ELSE heap[b]
      BY <2>4 DEF Allocate
    <3> QED
      BY <2>5, <3>1
  <2>7. /\ LiveItems' = LiveItems \cup {i}
        /\ items'[i] = v /\ \A k \in LiveItems : items'[k] = items[k]
    <3>1. /\ DOMAIN items' = DOMAIN items \cup {i}
          /\ items'[i] = v /\ \A k \in DOMAIN items : k # i => items'[k] = items[k]
      BY <2>4 DEF With
    <3> QED
      BY <1>3, <3>1 DEF LiveItems
  <2>8. MemoryTypes'
    BY <1>2, <1>4, <1>6, <1>7, <2>1, <2>3, <2>6, <2>7 DEF MemoryInv, MemoryTypes
  <2>9. Owned'
    <3>1. ASSUME NEW k \in Ids
          PROVE  <<"item", k>> \in DOMAIN heap'
                    <=> k \in LiveItems' \/ \E u \in Threads : Resolves(u, k)'
      <4>1. (\E u \in Threads : Resolves(u, k)') <=> k # i /\ \E u \in Threads : Resolves(u, k)
        BY <1>5
      <4>2. <<"item", k>> \in DOMAIN heap
               <=> k \in LiveItems \/ \E u \in Threads : Resolves(u, k)
        BY DEF MemoryInv, Owned
      <4> QED
        BY <1>3, <2>2, <2>6, <2>7, <4>1, <4>2
    <3>2. \A u \in Threads, k \in Ids : Resolves(u, k)' => k \notin LiveItems'
      BY <1>5, <2>7 DEF MemoryInv, Owned
    <3>3. \A u, w \in Threads, k \in Ids : Resolves(u, k)' /\ Resolves(w, k)' => u = w
      BY <1>5 DEF MemoryInv, Owned
    <3>4. /\ \A g \in Ids : <<"stack", g>> \in DOMAIN heap' <=> g \in LiveStacks
          /\ \A f \in Ids : <<"frames", f>> \in DOMAIN heap'
                               <=> \E g \in LiveStacks : stacks[g].ppFrames = f
          /\ \A g, k \in LiveStacks : stacks[g].ppFrames = stacks[k].ppFrames => g = k
      BY <2>2, <2>6 DEF MemoryInv, Owned
    <3>5. \A n \in Names, k \in Ids : <<n, k>> \in DOMAIN heap'
                                         <=> k \in LiveItems' /\ n \in items'[k].names
      BY <1>3, <2>1, <2>2, <2>6, <2>7 DEF MemoryInv, Owned
    <3> QED
      BY <1>6, <3>1, <3>2, <3>3, <3>4, <3>5 DEF Owned
  <2>10. Matched'
    <3>1. FramesMatch => FramesMatch'
      BY <1>6, <2>6, OwnedLive DEF FramesMatch
    <3>2. StructuresMatch => StructuresMatch'
      BY <1>6, <2>6, OwnedLive DEF StructuresMatch
    <3>3. ItemsOK => p = stacks[h].mFree
      BY <1>2, <1>3 DEF ItemsOK, h
    <3>4. ASSUME ItemsOK, NEW k \in LiveItems'
          PROVE  /\ heap'[<<"item", k>>] = stacks[items'[k].stack].mFree
                 /\ \A n \in items'[k].names :
                       heap'[<<n, k>>] = stacks[items'[k].stack].mFree
      <4>1. CASE k = i
        BY <1>3, <2>1, <2>2, <2>6, <2>7, <3>3, <3>4, <4>1
      <4>2. CASE k \in LiveItems
        BY <2>6, <2>7, <3>4, <4>2, OwnedLive DEF ItemsOK
      <4> QED
        BY <2>7, <4>1, <4>2
    <3>5. ASSUME NEW u \in Threads, NEW k \in Ids, Resolves(u, k)'
          PROVE  /\ ItemsOK => heap'[<<"item", k>>] = stacks[jobs'[u].stack].mFree
                 /\ heap'[<<"item", k>>] = jobs'[u].mMalloc
      <4>1. Resolves(u, k) /\ jobs'[u] = jobs[u]
        BY <1>4, <1>5, <3>5 DEF Resolves
      <4>2. heap'[<<"item", k>>] = heap[<<"item", k>>]
        BY <2>6, <4>1, OwnedLive
      <4> QED
        BY <4>1, <4>2 DEF MemoryInv, Matched, ItemsOK, JobsOK
    <3>6. ItemsOK => ItemsOK'
      BY <1>6, <3>4, <3>5 DEF ItemsOK
    <3>7. JobsOK'
      BY <3>5 DEF JobsOK
    <3> QED
      BY <1>6, <3>1, <3>2, <3>6, <3>7, MatchedStep DEF MemoryInv
  <2> QED
    BY <2>8, <2>9, <2>10 DEF MemoryInv
<1>9. CASE heap' = Deallocate(heap, {<<"item", i>>}) /\ UNCHANGED items
  <2> DEFINE bs == {<<"item", i>>}
  <2>1. /\ \A g : <<"stack", g>> \notin bs
        /\ \A g : <<"frames", g>> \notin bs
        /\ \A g : <<"item", g>> \in bs <=> g = i
        /\ \A n \in Names : \A g : <<n, g>> \notin bs
    BY NamesAssumption
  <2> HIDE DEF i, h, p
  <2>2. /\ DOMAIN heap' = DOMAIN heap \ bs
        /\ \A b \in DOMAIN heap \ bs : heap'[b] = heap[b]
    BY <1>9, DeallocateAt
  <2> HIDE DEF bs
  <2>3. items' = items /\ LiveItems' = LiveItems
    BY <1>9 DEF LiveItems
  <2>4. MemoryTypes'
    BY <1>4, <1>6, <2>2, <2>3 DEF MemoryInv, MemoryTypes
  <2>5. Owned'
    <3>1. ASSUME NEW k \in Ids
          PROVE  <<"item", k>> \in DOMAIN heap'
                    <=> k \in LiveItems' \/ \E u \in Threads : Resolves(u, k)'
      <4>1. (\E u \in Threads : Resolves(u, k)') <=> k # i /\ \E u \in Threads : Resolves(u, k)
        BY <1>5
      <4>2. <<"item", k>> \in DOMAIN heap
               <=> k \in LiveItems \/ \E u \in Threads : Resolves(u, k)
        BY DEF MemoryInv, Owned
      <4> QED
        BY <1>3, <2>1, <2>2, <2>3, <4>1, <4>2
    <3>2. \A u \in Threads, k \in Ids : Resolves(u, k)' => k \notin LiveItems'
      BY <1>5, <2>3 DEF MemoryInv, Owned
    <3>3. \A u, w \in Threads, k \in Ids : Resolves(u, k)' /\ Resolves(w, k)' => u = w
      BY <1>5 DEF MemoryInv, Owned
    <3>4. /\ \A g \in Ids : <<"stack", g>> \in DOMAIN heap' <=> g \in LiveStacks
          /\ \A f \in Ids : <<"frames", f>> \in DOMAIN heap'
                               <=> \E g \in LiveStacks : stacks[g].ppFrames = f
          /\ \A g, k \in LiveStacks : stacks[g].ppFrames = stacks[k].ppFrames => g = k
          /\ \A n \in Names, k \in Ids : <<n, k>> \in DOMAIN heap'
                                            <=> k \in LiveItems /\ n \in items[k].names
      BY <2>1, <2>2 DEF MemoryInv, Owned
    <3> QED
      BY <1>6, <2>3, <3>1, <3>2, <3>3, <3>4 DEF Owned
  <2>6. Matched'
    <3>1. FramesMatch => FramesMatch'
      BY <1>6, <2>1, <2>2, OwnedLive DEF FramesMatch
    <3>2. StructuresMatch => StructuresMatch'
      BY <1>6, <2>1, <2>2, OwnedLive DEF StructuresMatch
    <3>3. ASSUME NEW k \in LiveItems, ItemsOK
          PROVE  /\ heap'[<<"item", k>>] = stacks[items[k].stack].mFree
                 /\ \A n \in items[k].names : heap'[<<n, k>>] = stacks[items[k].stack].mFree
      <4>1. items[k].names \subseteq Names /\ k # i
        BY <1>3 DEF MemoryInv, MemoryTypes, Items
      <4> QED
        BY <2>1, <2>2, <3>3, <4>1, OwnedLive DEF ItemsOK
    <3>4. ASSUME NEW u \in Threads, NEW k \in Ids, Resolves(u, k)'
          PROVE  /\ ItemsOK => heap'[<<"item", k>>] = stacks[jobs'[u].stack].mFree
                 /\ heap'[<<"item", k>>] = jobs'[u].mMalloc
      <4>1. Resolves(u, k) /\ k # i /\ jobs'[u] = jobs[u]
        BY <1>4, <1>5, <3>4 DEF Resolves
      <4>2. heap'[<<"item", k>>] = heap[<<"item", k>>]
        BY <2>1, <2>2, <4>1, OwnedLive
      <4> QED
        BY <4>1, <4>2 DEF MemoryInv, Matched, ItemsOK, JobsOK
    <3>5. ItemsOK => ItemsOK'
      BY <1>6, <2>3, <3>3, <3>4 DEF ItemsOK
    <3>6. JobsOK'
      BY <3>4 DEF JobsOK
    <3> QED
      BY <1>6, <3>1, <3>2, <3>5, <3>6, MatchedStep DEF MemoryInv
  <2> QED
    BY <2>4, <2>5, <2>6 DEF MemoryInv
<1> QED
  BY <1>8, <1>9 DEF ItemResolvedEnds

LEMMA ItemResolvedCleanOwned ==
    ASSUME MemoryInv, NEW i \in LiveItems, ItemResolvedClean(i)
    PROVE  MemoryInv'
<1> DEFINE bs == {<<"item", i>>} \cup (items[i].names \X {i})
<1>1. /\ i \in Ids /\ items[i].names \subseteq Names
      /\ \A u \in Threads : ~Resolves(u, i)
  BY DEF MemoryInv, MemoryTypes, Owned, Items
<1>2. heap' = Deallocate(heap, bs) /\ items' = Without(items, i)
  BY DEF ItemResolvedClean, ItemBlocks
<1>3. /\ \A g : <<"stack", g>> \notin bs
      /\ \A g : <<"frames", g>> \notin bs
      /\ \A g : <<"item", g>> \in bs <=> g = i
      /\ \A n \in Names : \A g : <<n, g>> \in bs <=> n \in items[i].names /\ g = i
  BY <1>1, NamesAssumption
<1> HIDE DEF bs
<1>4. /\ DOMAIN heap' = DOMAIN heap \ bs
      /\ \A b \in DOMAIN heap \ bs : heap'[b] = heap[b]
  BY <1>2 DEF Deallocate
<1>5. /\ LiveItems' = LiveItems \ {i}
      /\ \A k \in LiveItems \ {i} : items'[k] = items[k]
  BY <1>2 DEF Without, LiveItems
<1>6. stacks' = stacks /\ LiveStacks' = LiveStacks /\ jobs' = jobs /\ mixed' = mixed
  BY DEF ItemResolvedClean, LiveStacks
<1>7. MemoryTypes'
  BY <1>4, <1>5, <1>6 DEF MemoryInv, MemoryTypes
<1>8. Owned'
  <2>1. \A k \in Ids : <<"item", k>> \in DOMAIN heap'
                          <=> k \in LiveItems' \/ \E u \in Threads : Resolves(u, k)'
    BY <1>1, <1>3, <1>4, <1>5, <1>6 DEF MemoryInv, Owned, Resolves
  <2>2. \A n \in Names, k \in Ids : <<n, k>> \in DOMAIN heap'
                                       <=> k \in LiveItems' /\ n \in items'[k].names
    BY <1>3, <1>4, <1>5 DEF MemoryInv, Owned
  <2>3. /\ \A g \in Ids : <<"stack", g>> \in DOMAIN heap' <=> g \in LiveStacks
        /\ \A f \in Ids : <<"frames", f>> \in DOMAIN heap'
                             <=> \E g \in LiveStacks : stacks[g].ppFrames = f
    BY <1>3, <1>4 DEF MemoryInv, Owned
  <2> QED
    BY <1>5, <1>6, <2>1, <2>2, <2>3 DEF MemoryInv, Owned, Resolves
<1>9. Matched'
  <2>1. FramesMatch => FramesMatch'
    BY <1>3, <1>4, <1>6, OwnedLive DEF FramesMatch
  <2>2. StructuresMatch => StructuresMatch'
    BY <1>3, <1>4, <1>6, OwnedLive DEF StructuresMatch
  <2>3. ASSUME NEW k \in LiveItems', ItemsOK
        PROVE  /\ heap'[<<"item", k>>] = stacks[items'[k].stack].mFree
               /\ \A n \in items'[k].names : heap'[<<n, k>>] = stacks[items'[k].stack].mFree
    <3>1. items[k].names \subseteq Names /\ k # i /\ k \in LiveItems /\ items'[k] = items[k]
      BY <1>5 DEF MemoryInv, MemoryTypes, Items
    <3> QED
      BY <1>3, <1>4, <2>3, <3>1, OwnedLive DEF ItemsOK
  <2>4. ASSUME NEW u \in Threads, NEW k \in Ids, Resolves(u, k)
        PROVE  heap'[<<"item", k>>] = heap[<<"item", k>>]
    BY <1>1, <1>3, <1>4, <2>4, OwnedLive
  <2>5. ItemsOK => ItemsOK'
    BY <1>6, <2>3, <2>4 DEF ItemsOK, Resolves
  <2>6. JobsOK'
    BY <1>6, <2>4 DEF MemoryInv, Matched, JobsOK, Resolves
  <2> QED
    BY <1>6, <2>1, <2>2, <2>5, <2>6, MatchedStep DEF MemoryInv
<1> QED
  BY <1>7, <1>8, <1>9 DEF MemoryInv

(* Printing uses the stack and no block of its own.                         *)
LEMMA PrintFromOwned ==
    ASSUME MemoryInv, NEW t \in Threads, jobs[t] = NoJob \/ Printing(t),
           NEW h \in LiveStacks, NEW n \in Nat, PrintFrom(t, h, n)
    PROVE  MemoryInv'
<1>1. jobs \in [Threads -> Jobs \cup {NoJob}] /\ h \in Ids
  BY DEF MemoryInv, MemoryTypes
<1>2. /\ heap' = heap /\ stacks' = stacks /\ items' = items
      /\ LiveStacks' = LiveStacks /\ LiveItems' = LiveItems /\ mixed' = mixed
  BY DEF PrintFrom, memory, LiveStacks, LiveItems
<1>3. \E j \in Jobs \cup {NoJob} : /\ jobs' = [jobs EXCEPT ![t] = j]
                                   /\ j # NoJob => j.for = "print" /\ j.stack = h
  <2>1. CASE jobs' = [jobs EXCEPT ![t] = NoJob]
    BY <2>1
  <2>2. ASSUME NEW m \in n..Size(h),
               jobs' = [jobs EXCEPT ![t] =
                           [for |-> "print", stack |-> h, index |-> m, item |-> NoId]]
        PROVE  \E j \in Jobs : jobs' = [jobs EXCEPT ![t] = j] /\ j.for = "print" /\ j.stack = h
    <3>1. m \in Nat
      OBVIOUS
    <3>2. [for |-> "print", stack |-> h, index |-> m, item |-> NoId] \in Jobs
      BY <1>1, <3>1 DEF Jobs
    <3> QED
      BY <2>2, <3>2
  <2> QED
    BY <2>1, <2>2 DEF PrintFrom
<1>4. PICK j \in Jobs \cup {NoJob} : /\ jobs' = [jobs EXCEPT ![t] = j]
                                     /\ j # NoJob => j.for = "print" /\ j.stack = h
  BY <1>3
<1>5. /\ jobs' \in [Threads -> Jobs \cup {NoJob}]
      /\ jobs'[t] = j /\ \A u \in Threads : u # t => jobs'[u] = jobs[u]
  BY <1>1, <1>4
<1>6. \A u \in Threads, k \in Ids : /\ Resolves(u, k)' <=> Resolves(u, k)
                                    /\ Resolves(u, k) => jobs'[u] = jobs[u]
  BY <1>4, <1>5 DEF Resolves, Printing
<1>7. MemoryTypes'
  BY <1>2, <1>4, <1>5 DEF MemoryInv, MemoryTypes
<1>8. Owned'
  BY <1>2, <1>6 DEF MemoryInv, Owned
<1>9. Matched'
  <2>1. FramesMatch => FramesMatch'
    BY <1>2 DEF FramesMatch
  <2>2. StructuresMatch => StructuresMatch'
    BY <1>2 DEF StructuresMatch
  <2>3. ItemsOK => ItemsOK'
    BY <1>2, <1>6 DEF ItemsOK
  <2>4. JobsOK'
    BY <1>2, <1>6 DEF MemoryInv, Matched, JobsOK
  <2> QED
    BY <1>2, <2>1, <2>2, <2>3, <2>4, MatchedStep DEF MemoryInv
<1> QED
  BY <1>7, <1>8, <1>9 DEF MemoryInv

LEMMA MemoryInvHolds == Spec => []MemoryInv
<1>1. Init => MemoryInv
  BY DEF Init, MemoryInv, MemoryTypes, Owned, Matched, FramesMatch, StructuresMatch,
     ItemsOK, JobsOK, Resolves, LiveStacks, LiveItems
<1>2. MemoryInv /\ [Next]_vars => MemoryInv'
  <2> SUFFICES ASSUME MemoryInv, [Next]_vars PROVE MemoryInv'
    OBVIOUS
  <2>1. CASE UNCHANGED <<heap, stacks, items, mixed, jobs>>
    BY <2>1, SameMemory
  <2>2. ASSUME NEW t \in Threads, Call(t) PROVE MemoryInv'
    <3>0. jobs[t] = NoJob
      BY <2>2 DEF Call
    <3>1. ASSUME NEW b \in Backtraces, NEW back \in Backs, NEW pair \in Pairs,
                 NEW m \in Pairs, GetCurrent(b, back, pair, m)
          PROVE  MemoryInv'
      <4>1. SubSeq(b, back + 1, Len(b)) \in Seq(Nat)
        BY BacktracesAssumption, WordAssumption, <3>1 DEF GetCurrent
      <4> QED
        BY <3>1, <4>1, NewStackOwned DEF GetCurrent
    <3>2. ASSUME NEW h \in LiveStacks, NEW pair \in Pairs, Copy(h, pair) PROVE MemoryInv'
      <4>1. stacks[h].frames \in Seq(Nat) /\ stacks[h].mFree \in Pairs
        BY DEF MemoryInv, MemoryTypes, Stacks
      <4> QED
        BY <3>2, <4>1, NewStackOwned DEF Copy
    <3>3. ASSUME NEW h \in LiveStacks, NEW pair \in Pairs, NEW n \in 0..Size(h),
                 ItemResolved(t, h, n, pair)
          PROVE  MemoryInv'
      <4>1. n \in Nat
        OBVIOUS
      <4> QED
        BY <3>0, <3>3, <4>1, ItemResolvedOwned
    <3>4. ASSUME NEW i \in LiveItems, ItemResolvedNext(t, i) PROVE MemoryInv'
      <4>1. /\ items[i].stack \in LiveStacks /\ items[i].index + 1 \in Nat
            /\ items[i].mMalloc \in Pairs
        BY DEF MemoryInv, MemoryTypes, Items
      <4> QED
        BY <3>0, <3>4, <4>1, ItemResolvedOwned DEF ItemResolvedNext
    <3>5. ASSUME NEW h \in LiveStacks, StackPrint(t, h) PROVE MemoryInv'
      BY <3>0, <3>5, PrintFromOwned DEF StackPrint
    <3>6. CASE Work(t)
      BY <3>1, <3>2, <3>3, <3>4, <3>6, SwapOwned, StackFreeOwned, ItemResolvedCleanOwned DEF Work
    <3> QED
      BY <2>2, <3>5, <3>6 DEF Call
  <2>3. ASSUME NEW t \in Threads, Continue(t) PROVE MemoryInv'
    <3>1. CASE Resolving(t) \/ PrintEnds(t)
      BY <2>1, <3>1 DEF Resolving, PrintEnds, memory
    <3>2. CASE PrintNext(t)
      <4>1. jobs[t] \in Jobs /\ jobs[t].stack \in LiveStacks
        BY <3>2 DEF PrintNext, Printing, MemoryInv, MemoryTypes
      <4>2. jobs[t].index + 1 \in Nat
        BY <4>1 DEF Jobs
      <4> QED
        BY <3>2, <4>1, <4>2, PrintFromOwned DEF PrintNext
    <3> QED
      BY <2>3, <3>1, <3>2, ItemResolvedEndsOwned DEF Continue
  <2>4. ASSUME NEW t \in Threads, Addr2Line(t) PROVE MemoryInv'
    BY <2>1, <2>4 DEF Addr2Line, memory
  <2> QED
    BY <2>1, <2>2, <2>3, <2>4 DEF Next, vars
<1> QED
  BY <1>1, <1>2, PTL DEF Spec

(* Stacks, items and what the threads use runAddr2Line for keep to their    *)
(* types, whatever is captured, resolved, printed and given back.           *)
THEOREM TypeCorrect == Spec => []TypeOK
<1> DEFINE CallsOK == calls \in 0..MaxCalls
<1>1. Init => CallsOK
  BY WordAssumption DEF Init
<1>2. CallsOK /\ [Next]_vars => CallsOK'
  BY WordAssumption DEF Next, vars, Call, Continue, Addr2Line
<1>3. Spec => []CallsOK
  BY <1>1, <1>2, PTL DEF Spec
<1>4. Addr2LineInv /\ MemoryInv /\ CallsOK => TypeOK
  BY DEF Addr2LineInv, MemoryInv, MemoryTypes, TypeOK
<1> QED
  BY <1>3, <1>4, Addr2LineInvHolds, MemoryInvHolds, PTL

LEMMA OfAnItem ==
    ASSUME MemoryInv, NEW t \in Threads
    PROVE  /\ jobs[t] # NoJob => (Printing(t) <=> jobs[t].for # "item")
           /\ jobs[t] # NoJob /\ ~Printing(t) => jobs[t].item \in Ids
           /\ jobs[t] # NoJob /\ ~Printing(t) <=> Resolves(t, jobs[t].item)
BY DEF MemoryInv, MemoryTypes, Jobs, Printing, Resolves

(* No block is lost, shared or given back twice, with any number of threads *)
(* that capture, copy, swap, print and free stacks and resolve their frames *)
(* at the same time, and whatever memory is refused or addr2line answers.   *)
THEOREM NothingLostHolds == Spec => []NothingLost
<1>1. MemoryInv => NothingLost
  <2> SUFFICES ASSUME MemoryInv PROVE NothingLost
    OBVIOUS
  <2>1. \A i \in Ids : i \in PendingItems <=> \E t \in Threads : Resolves(t, i)
    BY OfAnItem DEF PendingItems, Resolves
  <2>2. PendingItems \subseteq Ids
    BY OfAnItem DEF PendingItems
  <2> DEFINE S == UNION {StackBlocks(h) : h \in LiveStacks}
             I == UNION {ItemBlocks(i) : i \in LiveItems}
             P == {<<"item", i>> : i \in PendingItems}
  <2>3. \A b : b \in S <=> \E h \in LiveStacks :
                              b = <<"stack", h>> \/ b = <<"frames", stacks[h].ppFrames>>
    BY DEF StackBlocks
  <2>4. \A b : b \in I <=> \E i \in LiveItems :
                              b = <<"item", i>> \/ \E n \in items[i].names : b = <<n, i>>
    BY DEF ItemBlocks
  <2>5. ASSUME NEW b \in DOMAIN heap PROVE b \in S \/ b \in I \/ b \in P
    <3>1. PICK k \in Kinds, i \in Ids : b = <<k, i>>
      BY DEF MemoryInv, MemoryTypes, Blocks
    <3>2. CASE k = "stack"
      BY <2>3, <3>1, <3>2 DEF MemoryInv, Owned
    <3>3. CASE k = "frames"
      BY <2>3, <3>1, <3>3 DEF MemoryInv, Owned
    <3>4. CASE k = "item"
      <4>1. i \in LiveItems \/ i \in PendingItems
        BY <2>1, <3>1, <3>4 DEF MemoryInv, Owned
      <4> QED
        BY <2>4, <3>1, <3>4, <4>1
    <3>5. CASE k \in Names
      BY <2>4, <3>1, <3>5 DEF MemoryInv, Owned
    <3> QED
      BY <3>1, <3>2, <3>3, <3>4, <3>5 DEF Kinds
  <2>6. ASSUME NEW b, b \in S \/ b \in I \/ b \in P PROVE b \in DOMAIN heap
    <3>1. CASE b \in S
      <4>1. PICK h \in LiveStacks : b = <<"stack", h>> \/ b = <<"frames", stacks[h].ppFrames>>
        BY <2>3, <3>1
      <4> QED
        BY <4>1, OwnedLive
    <3>2. CASE b \in I
      <4>1. PICK i \in LiveItems : b = <<"item", i>> \/ \E n \in items[i].names : b = <<n, i>>
        BY <2>4, <3>2
      <4> QED
        BY <4>1, OwnedLive
    <3>3. CASE b \in P
      BY <2>1, <2>2, <3>3, OwnedLive
    <3> QED
      BY <2>6, <3>1, <3>2, <3>3
  <2>7. DOMAIN heap = S \cup I \cup P
    <3> HIDE DEF S, I, P
    <3> QED
      BY <2>5, <2>6
  <2>8. \A h1, h2 \in LiveStacks : h1 # h2 => stacks[h1].ppFrames # stacks[h2].ppFrames
    BY DEF MemoryInv, Owned
  <2>9. PendingItems \cap LiveItems = {}
    BY <2>1, <2>2 DEF MemoryInv, Owned
  <2>10. ASSUME NEW t \in Threads, NEW u \in Threads, t # u, jobs[t] # NoJob, jobs[u] # NoJob,
                ~Printing(t), ~Printing(u)
         PROVE  jobs[t].item # jobs[u].item
    <3>1. jobs[t].item \in Ids /\ Resolves(t, jobs[t].item) /\ Resolves(u, jobs[u].item)
      BY <2>10, OfAnItem
    <3>2. \A v, w \in Threads, i \in Ids : Resolves(v, i) /\ Resolves(w, i) => v = w
      BY DEF MemoryInv, Owned
    <3> QED
      BY <2>10, <3>1, <3>2
  <2> QED
    <3>1. \A t, u \in Threads : t # u /\ jobs[t] # NoJob /\ jobs[u] # NoJob
             /\ ~Printing(t) /\ ~Printing(u) => jobs[t].item # jobs[u].item
      BY <2>10
    <3>2. DOMAIN heap = (UNION {StackBlocks(h) : h \in LiveStacks})
                           \cup (UNION {ItemBlocks(i) : i \in LiveItems})
                           \cup {<<"item", i>> : i \in PendingItems}
      BY <2>7
    <3> QED
      BY <2>8, <2>9, <3>1, <3>2, Zenon DEF NothingLost
<1> QED
  BY <1>1, MemoryInvHolds, PTL

(* What frees a block belongs to what allocated it, for any number of pairs *)
(* of functions and any interleaving of captures, copies, swaps, resolutions*)
(* and failures: frames as long as no stack was made with two pairs, the    *)
(* structures of stacks as long as none were swapped that two pairs made,   *)
(* items as long as none was resolved with another pair than its stack's,   *)
(* nor the content of its stack swapped for that of another pair.           *)
THEOREM AllocatorsMatchHolds == Spec => []AllocatorsMatch
<1>1. MemoryInv => AllocatorsMatch
  <2> SUFFICES ASSUME MemoryInv PROVE AllocatorsMatch
    OBVIOUS
  <2>1. ASSUME ItemsOK, NEW i \in LiveItems, NEW b \in Blocks, b \in ItemBlocks(i)
        PROVE  heap[b] = stacks[items[i].stack].mFree
    BY <2>1 DEF ItemBlocks, ItemsOK
  <2>2. ASSUME ItemsOK, NEW t \in Threads, jobs[t] # NoJob, ~Printing(t)
        PROVE  heap[<<"item", jobs[t].item>>] = stacks[jobs[t].stack].mFree
    BY <2>2, OfAnItem DEF ItemsOK
  <2>3. ItemsOK => ItemsMatch
    BY <2>1, <2>2 DEF ItemsMatch
  <2>4. /\ mixed \cap {"stack", "swap"} = {} => "stack" \notin mixed /\ "swap" \notin mixed
        /\ mixed \cap {"item", "swap"} = {} => "item" \notin mixed /\ "swap" \notin mixed
    OBVIOUS
  <2> QED
    BY <2>3, <2>4, Zenon DEF AllocatorsMatch, MemoryInv, Matched
<1> QED
  BY <1>1, MemoryInvHolds, PTL
================================================================================
