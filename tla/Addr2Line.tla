------------------------------- MODULE Addr2Line -------------------------------
(***************************************************************************)
(* How a frame is turned into a source location,                           *)
(* src/core/stack_calcs/progs_invest_stack_calcs_unix_helper.cpp: the      *)
(* calling thread makes a pipe, forks a child that becomes addr2line, and  *)
(* reads until nobody can write any more.  Several threads do this at the  *)
(* same time, and a child inherits whatever the process has open when it   *)
(* is forked, the pipes of the other threads included.                     *)
(*                                                                         *)
(* A definition whose name ends in _Wrong is not part of the model: it is  *)
(* the definition after it with a mistake, which the property named in its *)
(* comment tells from the right one.                                       *)
(*                                                                         *)
(* Descriptors are named by what they lead to: <<t, "r">> and <<t, "w">>   *)
(* are the ends of the pipe of thread t.  The standard descriptors of the  *)
(* process are open, so that a pipe is never numbered 0, 1 or 2.  Output   *)
(* comes in chunks, and what it says matters only as far as it is located  *)
(* or not.  The steps are put together by the modules that extend this one.*)
(***************************************************************************)
EXTENDS Naturals

CONSTANTS
    Threads,
    Capacity,     \* chunks that fit into a pipe
    MaxOutput,    \* bound: chunks that addr2line writes
    Faults        \* what may fail: "pipe", "fork", "exec", "reaped", "memory"

ASSUME CapacityAssumption == Capacity \in Nat \ {0} /\ MaxOutput \in Nat

VARIABLES
    pc,        \* where each thread is in runAddr2Line
    open,      \* descriptors of pipes that the process has open
    child,     \* the child of each thread
    pipe,      \* chunks in each thread's pipe
    output,    \* chunks each thread has read
    located    \* what the call of each thread came to: a source location or not

addr2lineVars == <<pc, open, child, pipe, output, located>>

Ends == Threads \X {"r", "w"}
Children == [state : {"none", "forked", "running", "zombie"}, ends : SUBSET Ends,
             size : 0..MaxOutput, left : 0..MaxOutput]
NoChild == [state |-> "none", ends |-> {}, size |-> 0, left |-> 0]

At(t, p) == pc' = [pc EXCEPT ![t] = p]

Addr2LineInit ==
    /\ pc = [t \in Threads |-> "idle"]
    /\ open = {}
    /\ child = [t \in Threads |-> NoChild]
    /\ pipe = [t \in Threads |-> 0]
    /\ output = [t \in Threads |-> 0]
    /\ located = [t \in Threads |-> FALSE]

-----------------------------------------------------------------------------
(* runAddr2Line begins.  The text of a pipe that cannot be made is no       *)
(* location.                                                                *)
Begin(t) ==
    /\ pc[t] = "idle"
    /\ \/ /\ At(t, "fork")
          /\ open' = open \cup {<<t, "r">>, <<t, "w">>}
       \/ /\ "pipe" \in Faults
          /\ At(t, "done")
          /\ UNCHANGED open
    /\ UNCHANGED <<child, pipe, output, located>>

(* The child gets a copy of every descriptor, nothing is closed on exec.    *)
Fork(t) ==
    /\ pc[t] = "fork"
    /\ \/ /\ At(t, "closeWrite")
          /\ child' = [child EXCEPT ![t].state = "forked", ![t].ends = open]
          /\ UNCHANGED open
       \/ /\ "fork" \in Faults
          /\ At(t, "done")
          /\ open' = open \ {<<t, "r">>, <<t, "w">>}
          /\ UNCHANGED child
    /\ UNCHANGED <<pipe, output, located>>

(* CallsReturn: the thread keeps the end that only its child needs. *)
CloseWrite_Wrong(t) ==
    /\ pc[t] = "closeWrite"
    /\ At(t, "read")
    /\ UNCHANGED <<open, child, pipe, output, located>>

CloseWrite(t) ==
    /\ pc[t] = "closeWrite"
    /\ At(t, "read")
    /\ open' = open \ {<<t, "w">>}
    /\ UNCHANGED <<child, pipe, output, located>>

(* Somebody, the thread's own child or another's, may still write.          *)
Writable(t) ==
    \/ <<t, "w">> \in open
    \/ \E u \in Threads : <<t, "w">> \in child[u].ends

(* OutputComplete: an interrupted read is taken for the end. *)
Ended_Wrong(t) == pipe[t] = 0
Ended(t) == pipe[t] = 0 /\ ~Writable(t)

(* A read takes what is there, ends when nothing can come any more, and     *)
(* waits otherwise; one that is interrupted is begun again.                 *)
Read(t) ==
    /\ pc[t] = "read"
    /\ \/ /\ pipe[t] > 0
          /\ \E n \in 1..pipe[t] :
                /\ pipe' = [pipe EXCEPT ![t] = @ - n]
                /\ output' = [output EXCEPT ![t] = @ + n]
          /\ UNCHANGED pc
       \/ /\ Ended(t)
          /\ At(t, "closeRead")
          /\ UNCHANGED <<pipe, output>>
    /\ UNCHANGED <<open, child, located>>

(* DescriptorsReturned: the reading end is kept. *)
CloseRead_Wrong(t) ==
    /\ pc[t] = "closeRead"
    /\ At(t, "wait")
    /\ UNCHANGED <<open, child, pipe, output, located>>

CloseRead(t) ==
    /\ pc[t] = "closeRead"
    /\ At(t, "wait")
    /\ open' = open \ {<<t, "r">>}
    /\ UNCHANGED <<child, pipe, output, located>>

(* waitpid also comes back when the application has reaped the child.  The  *)
(* output may be a location; the texts that stand for an empty one are not. *)
Wait(t) ==
    /\ pc[t] = "wait"
    /\ child[t].state \in {"zombie", "none"}
    /\ At(t, "done")
    /\ child' = [child EXCEPT ![t] = NoChild]
    /\ \E l \in BOOLEAN :
          /\ l => output[t] > 0
          /\ located' = [located EXCEPT ![t] = l]
    /\ UNCHANGED <<open, pipe, output>>

(* TypeOK: what was read is still there when the next call begins. *)
Return_Wrong(t) ==
    /\ pc[t] = "done"
    /\ At(t, "idle")
    /\ located' = [located EXCEPT ![t] = FALSE]
    /\ UNCHANGED <<open, child, pipe, output>>

(* What the call was for goes on in the modules that extend this one.       *)
Return(t) ==
    /\ pc[t] = "done"
    /\ At(t, "idle")
    /\ output' = [output EXCEPT ![t] = 0]
    /\ located' = [located EXCEPT ![t] = FALSE]
    /\ UNCHANGED <<open, child, pipe>>

-----------------------------------------------------------------------------
(* The child gives up its reading end, makes the other its standard output  *)
(* and becomes addr2line; when dup2 or exec fails it exits.                 *)
ChildStarts(t) ==
    /\ child[t].state = "forked"
    /\ \/ \E n \in 0..MaxOutput :
             child' = [child EXCEPT ![t].state = "running", ![t].ends = @ \ {<<t, "r">>},
                                    ![t].size = n, ![t].left = n]
       \/ /\ "exec" \in Faults
          /\ child' = [child EXCEPT ![t].state = "zombie", ![t].ends = {}]
    /\ UNCHANGED <<pc, open, pipe, output, located>>

(* addr2line writes while there is room.                                    *)
ChildWrites(t) ==
    /\ child[t].state = "running"
    /\ child[t].left > 0 /\ pipe[t] < Capacity
    /\ child' = [child EXCEPT ![t].left = @ - 1]
    /\ pipe' = [pipe EXCEPT ![t] = @ + 1]
    /\ UNCHANGED <<pc, open, output, located>>

(* addr2line ends; a child that the application reaps, or whose end it      *)
(* ignores, leaves nothing behind.                                          *)
ChildExits(t) ==
    /\ child[t].state = "running" /\ child[t].left = 0
    /\ \E s \in {"zombie"} \cup IF "reaped" \in Faults THEN {"none"} ELSE {} :
          child' = [child EXCEPT ![t].state = s, ![t].ends = {}]
    /\ UNCHANGED <<pc, open, pipe, output, located>>

(* The steps of a call that has begun, and of its child.                    *)
Caller(t) == Fork(t) \/ CloseWrite(t) \/ Read(t) \/ CloseRead(t) \/ Wait(t)
Child(t) == ChildStarts(t) \/ ChildWrites(t) \/ ChildExits(t)

-----------------------------------------------------------------------------
Addr2LineTypeOK ==
    /\ pc \in [Threads -> {"idle", "fork", "closeWrite", "read", "closeRead",
                           "wait", "done"}]
    /\ open \subseteq Ends
    /\ child \in [Threads -> Children]
    /\ pipe \in [Threads -> 0..Capacity]
    /\ output \in [Threads -> 0..MaxOutput]
    /\ located \in [Threads -> BOOLEAN]

(* A call never takes less than everything its child wrote: it stops        *)
(* reading only when the child is through, whatever was interrupted and     *)
(* whichever other children hold a copy of the writing end.                 *)
OutputComplete ==
    \A t \in Threads : pc[t] \in {"closeRead", "wait"} =>
        /\ pipe[t] = 0
        /\ child[t].left = 0
        /\ output[t] = child[t].size

(* A call that is over, however it went, leaves no descriptor open in the   *)
(* process and no child to be waited for.                                   *)
DescriptorsReturned ==
    \A t \in Threads : pc[t] \in {"idle", "done"} =>
        /\ {<<t, "r">>, <<t, "w">>} \cap open = {}
        /\ child[t].state = "none"

(* Every call comes back.  The children of other threads that hold a copy   *)
(* of its pipe end as well, because each has a reader that waits for it     *)
(* and for nothing else.                                                    *)
CallsReturn == \A t \in Threads : pc[t] # "idle" ~> pc[t] = "idle"
================================================================================
