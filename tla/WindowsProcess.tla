---------------------------- MODULE WindowsProcess ----------------------------
(***************************************************************************)
(* What the parts of the library rely on in a Windows process: an initial  *)
(* thread that runs the initializers, then main, then the handlers that    *)
(* atexit and _onexit registered, last one first, handlers that are        *)
(* registered meanwhile included; and other threads, which go on until the *)
(* process is over.  All of it is external to the library.                 *)
(***************************************************************************)
EXTENDS Naturals, Sequences

CONSTANTS
    Threads,
    Main,        \* the thread that starts and ends the program
    MaxCalls     \* bound: calls of all threads into the library, and loads

ASSUME MainAssumption == Main \in Threads
ASSUME MaxCallsAssumption == MaxCalls \in Nat

VARIABLES
    life,        \* "starting", "running", "exiting", "over" or "crashed"
    handlers,    \* what exit still has to run: "hooks", "stacks", "investigator"
    calls        \* how many the threads have made

Alive == life \in {"starting", "running", "exiting"}

ProcessInit ==
    /\ life = "starting"
    /\ handlers = <<>>
    /\ calls = 0

(* The initial thread calls from main; the others whenever they like. *)
Calls(t) ==
    /\ t = Main => life = "running"
    /\ calls < MaxCalls
    /\ calls' = calls + 1
===============================================================================
