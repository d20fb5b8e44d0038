---------------------------- MODULE LiveAllocations ----------------------------
(***************************************************************************)
(* What the memory-leak investigator promises a program: it knows which    *)
(* blocks are live and where they were allocated, counts them for each     *)
(* stack, and raises an event whenever a stack's count rises above the     *)
(* threshold and above every count there has been.  No threads, no calls   *)
(* and no tables: an allocation is one step.  MemLeakInvest implements it  *)
(* for one thread whose memory is never refused (ImplementsTracker).       *)
(***************************************************************************)
EXTENDS Naturals, FiniteSets

CONSTANTS Blocks, Stacks, NoStack, Threshold

VARIABLES
    live,        \* the stack of each tracked block
    count,       \* outstanding allocations of each stack
    peak,        \* the highest count there has been
    events,      \* events raised
    accepting    \* until the program begins to exit

trackerVars == <<live, count, peak, events, accepting>>

Outstanding(s) == Cardinality({a \in Blocks : live[a] = s})

Init ==
    /\ live = [a \in Blocks |-> NoStack]
    /\ count = [s \in Stacks |-> 0]
    /\ peak = 0
    /\ events = 0
    /\ accepting = TRUE

(* The counts are those of the live blocks. *)
Counted == count' = [s \in Stacks |-> Outstanding(s)']

Allocated(s) ==
    /\ peak' = IF count'[s] > peak THEN count'[s] ELSE peak
    /\ events' = IF count'[s] > peak /\ count'[s] > Threshold THEN events + 1 ELSE events

(* malloc or calloc from stack s. *)
Allocate(a, s) ==
    /\ accepting /\ live[a] = NoStack
    /\ live' = [live EXCEPT ![a] = s]
    /\ Counted /\ Allocated(s)
    /\ UNCHANGED accepting

(* free. *)
Release(a) ==
    /\ live[a] # NoStack
    /\ live' = [live EXCEPT ![a] = NoStack]
    /\ Counted
    /\ UNCHANGED <<peak, events, accepting>>

(* realloc that moves a tracked block: never two blocks, never none. *)
Move(a, b, s) ==
    /\ accepting /\ live[a] # NoStack /\ live[b] = NoStack
    /\ live' = [live EXCEPT ![a] = NoStack, ![b] = s]
    /\ Counted /\ Allocated(s)
    /\ UNCHANGED accepting

(* exit: what is allocated from now on is no business of the tracker. *)
Stop ==
    /\ accepting' = FALSE
    /\ UNCHANGED <<live, count, peak, events>>

Next ==
    \/ Stop
    \/ \E a \in Blocks :
          \/ Release(a)
          \/ \E s \in Stacks : Allocate(a, s) \/ \E b \in Blocks : Move(a, b, s)

Spec == Init /\ [][Next]_trackerVars
================================================================================
