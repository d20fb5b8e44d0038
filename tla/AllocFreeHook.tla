----------------------------- MODULE AllocFreeHook -----------------------------
(***************************************************************************)
(* The malloc, calloc, realloc and free of                                 *)
(* src/core/alloc_free_hook/progs_invest_alloc_free_hook_unix*.cpp: how a  *)
(* call is dispatched before, during and after the library looks up the C  *)
(* library's functions.                                                    *)
(*                                                                         *)
(* The first call of the process starts InitLibraryIfNotInitedInline, whose*)
(* four dlsym calls may allocate and free in turn.  Those nested calls, and*)
(* the call that started it all once the look-up is over, are served from a*)
(* static buffer; every later one goes to the C library or to a user hook. *)
(* All of this runs on one thread: the first malloc of a process comes     *)
(* before its second thread.                                               *)
(*                                                                         *)
(* A definition whose name ends in _Wrong is not part of the model: it is  *)
(* the definition after it with a mistake, which the property named in its *)
(* comment tells from the right one.                                       *)
(*                                                                         *)
(* The C library is external: it hands out any block it does not count as  *)
(* allocated, or refuses.  A user hook ends in the C library's function, as*)
(* the investigator's and the one of the README do.                        *)
(***************************************************************************)
EXTENDS Integers, FiniteSets

CONSTANTS
    Word,         \* numbers of a size_t, 2^64 in the code
    BufferSize,   \* MEMORY_HANDLER_INIT_MEM_SIZE
    HeaderSize,   \* sizeof(struct SMemoryHandlerInitMemData)
    Sizes,        \* sizes a call asks for, 0 included; calloc's are products
    CLibBlocks,   \* addresses the C library can hand out
    MaxBlocks,    \* bound: blocks handed out in a behaviour
    NoBlock, NoCall

ASSUME SizesAssumption == Sizes \subseteq Nat
ASSUME BufferAssumption == BufferSize \in Nat \ {0} /\ HeaderSize \in Nat \ {0}
ASSUME WordAssumption == Word \in Nat /\ BufferSize + HeaderSize + 8 < Word
ASSUME BlocksAssumption == CLibBlocks \cap Int = {} /\ MaxBlocks \in Nat

Functions == {"malloc", "calloc", "realloc", "free"}
Lookups == 4

(* The functions whose hook stands behind a handler of the library. *)
Behind == {"realloc", "free"}

VARIABLES
    started,        \* snStartedInitLibrary
    phase,          \* "idle", "lookup", "resume", or "exited" after exit(1)
    lookups,        \* dlsym calls that have answered
    entered,        \* history: times the body of the initialisation began
    outer,          \* the call that started the initialisation, or NoCall
    slot,           \* where g_malloc, g_calloc, g_realloc and g_free lead
    user,           \* where s_realloc_user and s_free_user lead
    initialOffset,  \* s_unInitialMemoryOffset
    totalSize,      \* totalSize of the header at each offset of the buffer
    clib,           \* blocks the C library counts as allocated
    blocks,         \* blocks the program holds
    serial,         \* blocks handed out so far
    misrouted       \* history: what a handler did with a pointer not its own,
                    \* and the size of that block

vars == <<started, phase, lookups, entered, outer, slot, user, initialOffset,
          totalSize, clib, blocks, serial, misrouted>>

initVars == <<started, phase, lookups, entered, outer, slot, user>>

(* A pointer into the buffer is its distance from the buffer's start. *)
InBuffer(p) == p \in 1..(BufferSize - 1)

(* What the initial handlers hand out has its header in front: where a sum   *)
(* wraps it may lie behind the buffer.                                       *)
BufferPointers == HeaderSize..(BufferSize + HeaderSize - 1)

Blocks == [ptr : CLibBlocks \cup BufferPointers, size : Sizes, id : 1..MaxBlocks]

AsSizeT(n) == n % Word

(* No sum of the handlers wraps for such a size.  A block of size 0 is what   *)
(* realloc leaves of the last element, wherever that was.                    *)
Fits(n) == n + HeaderSize + 8 + BufferSize <= Word
Ordinary(n) == n # 0 /\ Fits(n)

(* direct: through AllocFreeHookCLib*, past the slots. *)
Calls == [fn : Functions, block : Blocks \cup {NoBlock}, size : Sizes, direct : BOOLEAN]

-----------------------------------------------------------------------------
(* Memory.  Each handler gives up the blocks old and may hand out one more.  *)

Hand(old, p, n) ==
    /\ blocks' = (blocks \ old) \cup {[ptr |-> p, size |-> n, id |-> serial + 1]}
    /\ serial' = serial + 1

Drop(old) == blocks' = blocks \ old /\ UNCHANGED serial

ReturnNull == UNCHANGED <<blocks, serial>>

(* BlocksInBuffer: the header is forgotten. *)
Rounded_Wrong(n) == IF (n \div 8) % 2 = 1 THEN AsSizeT((n \div 8 + 1) * 8) ELSE n

(* AllocFreeHookCalculateRoundedMemorySizeInline: with the header, rounded   *)
(* up to a multiple of 8 if bit 3 is set and left as it is otherwise.        *)
Rounded(n) ==
    LET x == AsSizeT(n + HeaderSize)
    IN  IF (x \div 8) % 2 = 1 THEN AsSizeT((x \div 8 + 1) * 8) ELSE x

(* TypeOK: the caller gets the address of the header. *)
BehindHeader_Wrong(o) == o
BehindHeader(o) == o + HeaderSize

Room(w) == w # 0 /\ AsSizeT(initialOffset + Rounded(w)) < BufferSize

(* MemoryHandlerMallocInitialStatic, and Calloc with n the product, of which *)
(* the code sees what a size_t holds.  The header is written and             *)
(* initialOffset stays.                                                      *)
InitialMalloc(old, n) ==
    LET w == AsSizeT(n)
    IN  /\ IF Room(w)
           THEN /\ totalSize' = [totalSize EXCEPT ![initialOffset] = Rounded(w)]
                /\ Hand(old, BehindHeader(initialOffset), n)
           ELSE /\ Drop(IF w = 0 THEN old ELSE {})
                /\ UNCHANGED totalSize
        /\ UNCHANGED <<initialOffset, clib, misrouted>>

(* calloc clears what it hands out.  Where the rounding has wrapped, memset  *)
(* runs to the end of the address space: the process does not survive, which *)
(* is no step.                                                               *)
InitialCalloc(n) ==
    /\ Room(AsSizeT(n)) => Fits(AsSizeT(n))
    /\ InitialMalloc({}, n)

(* The test of realloc and free for the last element of the buffer. *)
IsLast(o) == AsSizeT(totalSize[o] + o) = initialOffset

(* What the test can find.  The first header is in front of every block; one *)
(* behind it may have been written over by the block before it.              *)
Verdicts(o) == IF o = 0 THEN {IsLast(o)} ELSE BOOLEAN

(* A pointer that does not come from the buffer has no header to look at. *)
ForeignHeader(x) ==
    /\ misrouted' = misrouted \cup {[what |-> "foreign header", size |-> x.size]}
    /\ UNCHANGED <<initialOffset, totalSize, clib, blocks, serial>>

(* "this is a last element, simply increase it, or decrease" *)
ResizeLast(x, n) ==
    LET o == x.ptr - HeaderSize
        total == IF n # 0 THEN Rounded(n) ELSE 0
        end == AsSizeT(o + total)
    IN  /\ IF end < BufferSize
           THEN /\ totalSize' = [totalSize EXCEPT ![o] = total]
                /\ initialOffset' = end
                /\ Hand({x}, x.ptr, n)
           ELSE UNCHANGED <<totalSize, initialOffset, blocks, serial>>
        /\ UNCHANGED <<clib, misrouted>>

(* MemoryHandlerReallocInitialStatic *)
InitialRealloc(x, n) ==
    IF x = NoBlock THEN InitialMalloc({}, n)
    ELSE IF x.ptr \in CLibBlocks THEN ForeignHeader(x)
    ELSE \E last \in Verdicts(x.ptr - HeaderSize) :
            IF last THEN ResizeLast(x, n) ELSE InitialMalloc({x}, n)

(* MemoryHandlerFreeInitialStatic *)
InitialFree(x) ==
    IF x = NoBlock THEN UNCHANGED <<initialOffset, totalSize, clib, blocks, serial, misrouted>>
    ELSE IF x.ptr \in CLibBlocks THEN ForeignHeader(x)
    ELSE LET o == x.ptr - HeaderSize
         IN  /\ \E last \in Verdicts(o) : initialOffset' = IF last THEN o ELSE initialOffset
             /\ Drop({x})
             /\ UNCHANGED <<totalSize, clib, misrouted>>

-----------------------------------------------------------------------------
(* The C library, reached directly or through a user hook.                   *)

(* It has no block that comes near to the end of the address space. *)
CLibMalloc(old, n) ==
    /\ \/ /\ Fits(n)
          /\ \E c \in CLibBlocks \ clib :
                /\ clib' = clib \cup {c}
                /\ Hand(old, c, n)
       \/ ReturnNull /\ UNCHANGED clib
    /\ UNCHANGED <<initialOffset, totalSize, misrouted>>

(* The C library takes back only what it handed out. *)
NotItsOwn(x) ==
    /\ misrouted' = misrouted \cup {[what |-> "not the C library's", size |-> x.size]}
    /\ UNCHANGED <<initialOffset, totalSize, clib, blocks, serial>>

CLibRealloc(x, n) ==
    IF x = NoBlock THEN CLibMalloc({}, n)
    ELSE IF x.ptr \notin clib THEN NotItsOwn(x)
    ELSE /\ \/ /\ Fits(n)
               /\ \E c \in (CLibBlocks \ clib) \cup {x.ptr} :
                     /\ clib' = (clib \ {x.ptr}) \cup {c}
                     /\ Hand({x}, c, n)
            \/ ReturnNull /\ UNCHANGED clib
         /\ UNCHANGED <<initialOffset, totalSize, misrouted>>

CLibFree(x) ==
    IF x = NoBlock THEN UNCHANGED <<initialOffset, totalSize, clib, blocks, serial, misrouted>>
    ELSE IF x.ptr \notin clib THEN NotItsOwn(x)
    ELSE /\ clib' = clib \ {x.ptr}
         /\ Drop({x})
         /\ UNCHANGED <<initialOffset, totalSize, misrouted>>

(* A call through a pointer that is still NULL. *)
NullCall ==
    /\ misrouted' = misrouted \cup {[what |-> "null call", size |-> 0]}
    /\ UNCHANGED <<initialOffset, totalSize, clib, blocks, serial>>

UserRealloc(x, n) == IF user["realloc"] = "none" THEN NullCall ELSE CLibRealloc(x, n)
UserFree(x) == IF user["free"] = "none" THEN NullCall ELSE CLibFree(x)

(* MemoryHandlerReallocFinalStatic: a block of the buffer is copied into a   *)
(* new one and forgotten, or just forgotten.                                 *)
FinalRealloc(x, n) ==
    IF x # NoBlock /\ InBuffer(x.ptr)
    THEN IF n = 0
         THEN Drop({x}) /\ UNCHANGED <<initialOffset, totalSize, clib, misrouted>>
         ELSE IF user["realloc"] = "none" THEN NullCall ELSE CLibMalloc({x}, n)
    ELSE UserRealloc(x, n)

(* CLibGetsItsOwn: blocks of the buffer are not told apart. *)
FinalFree_Wrong(x) == UserFree(x)

(* MemoryHandlerFreeFinalStatic *)
FinalFree(x) ==
    IF x # NoBlock /\ InBuffer(x.ptr)
    THEN Drop({x}) /\ UNCHANGED <<initialOffset, totalSize, clib, misrouted>>
    ELSE UserFree(x)

-----------------------------------------------------------------------------
(* Dispatch. *)

ServeInitial(c) ==
    \/ c.fn = "malloc" /\ InitialMalloc({}, c.size)
    \/ c.fn = "calloc" /\ InitialCalloc(c.size)
    \/ c.fn = "realloc" /\ InitialRealloc(c.block, c.size)
    \/ c.fn = "free" /\ InitialFree(c.block)

ServeCLib(c) ==
    \/ c.fn \in {"malloc", "calloc"} /\ CLibMalloc({}, c.size)
    \/ c.fn = "realloc" /\ CLibRealloc(c.block, c.size)
    \/ c.fn = "free" /\ CLibFree(c.block)

Serve(c) ==
    IF slot[c.fn] = "initial" THEN ServeInitial(c)
    ELSE \/ c.fn \in {"malloc", "calloc"} /\ CLibMalloc({}, c.size)
         \/ c.fn = "realloc" /\ FinalRealloc(c.block, c.size)
         \/ c.fn = "free" /\ FinalFree(c.block)

(* What a program can call: with a block it holds, or with none.  The call   *)
(* that waits for the initialisation may still be handed a block.            *)
Callable(c) ==
    /\ serial + Cardinality({outer} \ {NoCall}) < MaxBlocks
    /\ c.block \in blocks \cup {NoBlock}
    /\ c.fn \in {"malloc", "calloc"} => c.block = NoBlock
    /\ c.fn = "free" => c.size = 0
    /\ c.fn # "calloc" => c.size < Word

(* InitEnteredOnce: only a finished initialisation keeps others out. *)
BeginsInit_Wrong == slot["realloc"] = "initial"

(* The first line of every initial handler and of every setter: only the     *)
(* first call goes on into the body.                                         *)
BeginsInit == ~started

EnterInit(c) ==
    /\ started' = TRUE
    /\ entered' = entered + 1
    /\ phase' = "lookup"
    /\ outer' = c
    /\ UNCHANGED <<lookups, slot, user>>

(* malloc, calloc, realloc and free of the program, or of dlsym. *)
Call(c) ==
    /\ phase \in {"idle", "lookup"}
    /\ ~c.direct
    /\ Callable(c)
    /\ IF slot[c.fn] = "initial" /\ BeginsInit
       THEN /\ EnterInit(c)
            /\ UNCHANGED <<initialOffset, totalSize, clib, blocks, serial, misrouted>>
       ELSE /\ Serve(c)
            /\ UNCHANGED initVars

(* AllocFreeHookCLib*: the caller passes only blocks that came from there.   *)
DirectCall(c) ==
    /\ phase = "idle"
    /\ c.direct
    /\ Callable(c)
    /\ c.block # NoBlock => c.block.ptr \in CLibBlocks
    /\ IF BeginsInit
       THEN /\ EnterInit(c)
            /\ UNCHANGED <<initialOffset, totalSize, clib, blocks, serial, misrouted>>
       ELSE /\ ServeCLib(c)
            /\ UNCHANGED initVars

(* ProgramsInvestigatorAllocFreeHookInitLibraryIfNotInited *)
ApiInit ==
    /\ phase = "idle" /\ BeginsInit
    /\ EnterInit(NoCall)
    /\ UNCHANGED <<initialOffset, totalSize, clib, blocks, serial, misrouted>>

(* One dlsym that answers; without an answer the process exits. *)
Lookup ==
    /\ phase = "lookup" /\ lookups < Lookups
    /\ \/ lookups' = lookups + 1 /\ UNCHANGED phase
       \/ phase' = "exited" /\ UNCHANGED lookups
    /\ UNCHANGED <<started, entered, outer, slot, user, initialOffset, totalSize,
                   clib, blocks, serial, misrouted>>

(* HeadersOfBuffer: realloc and free stay with the initial handlers. *)
Installed_Wrong == [f \in Functions |-> IF f \in Behind THEN "initial" ELSE "C library"]
Installed == [f \in Functions |-> IF f \in Behind THEN "final" ELSE "C library"]

InstallSlots ==
    /\ phase = "lookup" /\ lookups = Lookups
    /\ slot' = Installed
    /\ user' = [f \in Behind |-> "C library"]
    /\ phase' = "resume"
    /\ UNCHANGED <<started, lookups, entered, outer, initialOffset, totalSize,
                   clib, blocks, serial, misrouted>>

(* The call that started it goes on in the handler it is in, although the    *)
(* slots have moved.                                                         *)
Resume ==
    /\ phase = "resume"
    /\ phase' = "idle"
    /\ outer' = NoCall
    /\ IF outer = NoCall
       THEN UNCHANGED <<initialOffset, totalSize, clib, blocks, serial, misrouted>>
       ELSE IF outer.direct THEN ServeCLib(outer) ELSE ServeInitial(outer)
    /\ UNCHANGED <<started, lookups, entered, slot, user>>

(* AllocFreeHookSet*Fnc.  realloc and free keep their slot: the final        *)
(* handlers stay between the program and the hook.                           *)
SetFnc(f, h) ==
    /\ phase = "idle" /\ started
    /\ \/ /\ f \in {"malloc", "calloc"}
          /\ slot' = [slot EXCEPT ![f] = h]
          /\ UNCHANGED user
       \/ /\ f \in Behind
          /\ user' = [user EXCEPT ![f] = h]
          /\ UNCHANGED slot
    /\ UNCHANGED <<started, phase, lookups, entered, outer, initialOffset, totalSize,
                   clib, blocks, serial, misrouted>>

(* crash_investigator_linux_simple_alloc_free_inc_clean, at exit; the        *)
(* destructors that follow still free.                                       *)
ExitClean ==
    /\ phase = "idle" /\ started
    /\ slot' = [slot EXCEPT !["malloc"] = "C library", !["calloc"] = "C library"]
    /\ user' = [f \in Behind |-> "C library"]
    /\ UNCHANGED <<started, phase, lookups, entered, outer, initialOffset, totalSize,
                   clib, blocks, serial, misrouted>>

-----------------------------------------------------------------------------
Init ==
    /\ started = FALSE
    /\ phase = "idle"
    /\ lookups = 0
    /\ entered = 0
    /\ outer = NoCall
    /\ slot = [f \in Functions |-> "initial"]
    /\ user = [f \in Behind |-> "none"]
    /\ initialOffset = 0
    /\ totalSize = [o \in 0..(BufferSize - 1) |-> 0]
    /\ clib = {}
    /\ blocks = {}
    /\ serial = 0
    /\ misrouted = {}

Next ==
    \/ ApiInit \/ Lookup \/ InstallSlots \/ Resume \/ ExitClean
    \/ \E f \in Functions, x \in blocks \cup {NoBlock}, n \in Sizes, d \in BOOLEAN :
          LET c == [fn |-> f, block |-> x, size |-> n, direct |-> d]
          IN  Call(c) \/ DirectCall(c)
    \/ \E f \in Functions, h \in {"C library", "user"} : SetFnc(f, h)

Spec == Init /\ [][Next]_vars

-----------------------------------------------------------------------------
TypeOK ==
    /\ started \in BOOLEAN
    /\ phase \in {"idle", "lookup", "resume", "exited"}
    /\ lookups \in 0..Lookups
    /\ entered \in Nat
    /\ outer \in Calls \cup {NoCall}
    /\ slot \in [Functions -> {"initial", "C library", "user", "final"}]
    /\ user \in [Behind -> {"none", "C library", "user"}]
    /\ initialOffset \in 0..(BufferSize - 1)
    /\ totalSize \in [0..(BufferSize - 1) -> Nat]
    /\ clib \subseteq CLibBlocks
    /\ blocks \subseteq Blocks
    /\ serial \in 0..MaxBlocks
    /\ misrouted \subseteq [what : {"foreign header", "not the C library's", "null call"},
                             size : Nat]

(* "simply forgot it": a block of the buffer, whenever it was handed out,    *)
(* never reaches the realloc or free of the C library, and those are never   *)
(* called before they are known.  For a request near the end of a size_t     *)
(* (line 203) this is false: its block may lie behind the buffer.            *)
CLibGetsItsOwn ==
    \A m \in misrouted :
        m.what # "null call" /\ (m.what = "not the C library's" => ~Ordinary(m.size))

(* The initial realloc and free compute a header only for blocks that they   *)
(* handed out themselves, on the one thread there is.                        *)
HeadersOfBuffer == \A m \in misrouted : m.what # "foreign header"

(* dlsym's own calls never start the look-up again. *)
InitEnteredOnce == entered <= 1

(* Every block that the initial handlers hand out lies in the buffer, with   *)
(* its header, whatever was handed out before, if its size is one that they  *)
(* can add to without a wrap.  A request within HeaderSize + 8 + BufferSize  *)
(* of the end of a size_t, and a calloc whose product wraps (line 261), are  *)
(* given blocks that stick out of the buffer.                                *)
BlocksInBuffer ==
    \A x \in blocks : x.ptr \notin CLibBlocks /\ Ordinary(x.size) =>
        /\ InBuffer(x.ptr)
        /\ x.ptr - HeaderSize >= 0
        /\ x.ptr + x.size <= BufferSize

(* "this is a last element": the block of the buffer that was handed out     *)
(* last ends where the next one will begin.                                  *)
NewestBlockIsLast ==
    \A x \in blocks :
        /\ x.ptr \notin CLibBlocks /\ Ordinary(x.size)
        /\ \A y \in blocks : y.id <= x.id
        => IsLast(x.ptr - HeaderSize)
=============================================================================
