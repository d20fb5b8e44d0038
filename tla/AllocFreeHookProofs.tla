-------------------------- MODULE AllocFreeHookProofs --------------------------
(***************************************************************************)
(* Proofs about AllocFreeHook, for any sizes of the buffer and its header, *)
(* any C library and any number of blocks.                                 *)
(*                                                                         *)
(* The safety properties rest on two facts.  MemoryOK: every block is one  *)
(* the C library counts as allocated, or lies behind a header inside the   *)
(* buffer, and whole in it if no sum wraps for its size; this needs no more*)
(* of the offset than that it is inside the buffer.  RoutesOK: the slots of*)
(* realloc and free lead to the initial handlers exactly as long as there  *)
(* are no blocks of the C library, and to the final ones, with a user      *)
(* function behind them, from then on.                                     *)
(***************************************************************************)
EXTENDS AllocFreeHook, FiniteSetTheorems, TLAPS

Buffered(x) ==
    /\ x.ptr \in BufferPointers
    /\ Ordinary(x.size) => x.ptr + x.size < BufferSize

MemoryOK ==
    /\ initialOffset \in 0..(BufferSize - 1)
    /\ totalSize \in [0..(BufferSize - 1) -> Nat]
    /\ clib \subseteq CLibBlocks
    /\ \A x \in blocks : x.size \in Nat /\ (Buffered(x) \/ x.ptr \in clib)
    /\ \A x, y \in blocks : x.ptr \in clib /\ x.ptr = y.ptr => x = y
    /\ misrouted \subseteq [what : {"not the C library's"}, size : Nat]
    /\ \A m \in misrouted : ~Ordinary(m.size)

memVars == <<initialOffset, totalSize, clib, blocks, misrouted>>

AllBuffered == \A x \in blocks : Buffered(x)

RoutesOK ==
    /\ phase \in {"idle", "lookup", "resume", "exited"}
    /\ started \in BOOLEAN
    /\ entered = IF started THEN 1 ELSE 0
    /\ ~started => phase = "idle" /\ blocks = {}
    /\ slot \in [Functions -> {"initial", "C library", "user", "final"}]
    /\ user \in [Behind -> {"none", "C library", "user"}]
    /\ slot["realloc"] = slot["free"]
    /\ slot["realloc"] \in {"initial", "final"}
    /\ slot["realloc"] = "initial" => slot["malloc"] = "initial" /\ slot["calloc"] = "initial"
    /\ slot["realloc"] = "initial" <=> (~started \/ phase \in {"lookup", "exited"})
    /\ slot["realloc"] = "initial" => AllBuffered
    /\ slot["realloc"] = "final" => user["realloc"] # "none" /\ user["free"] # "none"
    /\ outer # NoCall => outer.block = NoBlock /\ outer.size \in Nat

RouteInv == MemoryOK /\ RoutesOK

-----------------------------------------------------------------------------
(* Lemmas about the memory. *)

LEMMA InAWord ==
    ASSUME NEW n \in Nat
    PROVE  AsSizeT(n) \in Nat /\ (n < Word => AsSizeT(n) = n)
BY WordAssumption, BufferAssumption DEF AsSizeT

LEMMA RoundedNat ==
    ASSUME NEW n \in Nat
    PROVE  Rounded(n) \in Nat
<1> DEFINE x == AsSizeT(n + HeaderSize)
<1>1. x \in Nat
    BY InAWord, BufferAssumption
<1>2. (x \div 8 + 1) * 8 \in Nat
    BY <1>1
<1>3. AsSizeT((x \div 8 + 1) * 8) \in Nat
    BY <1>2, InAWord
<1> QED
    BY <1>1, <1>3 DEF Rounded

(* Where no sum wraps, the rounded size has room for block and header. *)
LEMMA RoundedBound ==
    ASSUME NEW n \in Nat, Fits(n)
    PROVE  Rounded(n) \in (n + HeaderSize)..(n + HeaderSize + 8)
<1> DEFINE x == n + HeaderSize
           y == (x \div 8 + 1) * 8
<1>1. x \in Nat /\ x < Word /\ x + 8 < Word
    BY WordAssumption, BufferAssumption DEF Fits
<1>2. AsSizeT(x) = x
    BY <1>1, InAWord
<1>3. y \in Nat /\ y >= x /\ y <= x + 8
    BY <1>1
<1>4. AsSizeT(y) = y
    <2> HIDE DEF y, x
    <2> QED
        BY <1>1, <1>3, InAWord, WordAssumption
<1>5. Rounded(n) = x \/ Rounded(n) = y
    BY <1>2, <1>4 DEF Rounded
<1> QED
    BY <1>1, <1>3, <1>5

(* So that what ends in the buffer did not get there by a wrap. *)
LEMMA NoWrap ==
    ASSUME NEW n \in Nat, Fits(n), NEW o \in 0..(BufferSize - 1),
           AsSizeT(o + Rounded(n)) < BufferSize
    PROVE  o + HeaderSize + n < BufferSize
<1>1. Rounded(n) \in (n + HeaderSize)..(n + HeaderSize + 8)
    BY RoundedBound
<1>2. Rounded(n) \in Nat /\ o + Rounded(n) \in Nat /\ o + Rounded(n) < Word
    BY <1>1, BufferAssumption, WordAssumption DEF Fits
<1>3. AsSizeT(o + Rounded(n)) = o + Rounded(n)
    BY <1>2, InAWord
<1> QED
    BY <1>1, <1>2, <1>3, BufferAssumption

(* No block is both in the buffer and the C library's. *)
LEMMA Apart ==
    ASSUME NEW p \in CLibBlocks
    PROVE  p \notin BufferPointers /\ ~InBuffer(p)
BY BlocksAssumption, BufferAssumption DEF InBuffer, BufferPointers

LEMMA BehindHeaderInside ==
    ASSUME NEW o \in 0..(BufferSize - 1)
    PROVE  BehindHeader(o) \in BufferPointers /\ BehindHeader(o) = o + HeaderSize
BY BufferAssumption DEF BehindHeader, BufferPointers

LEMMA HeaderOf ==
    ASSUME NEW p \in BufferPointers
    PROVE  p - HeaderSize \in 0..(BufferSize - 1) /\ p = p - HeaderSize + HeaderSize
BY BufferAssumption DEF BufferPointers

(* A block that an initial handler hands out, in its place or a new one. *)
LEMMA HandBuffered ==
    ASSUME MemoryOK, NEW old, NEW p \in BufferPointers, NEW n \in Nat, Hand(old, p, n),
           Ordinary(n) => p + n < BufferSize,
           initialOffset' \in 0..(BufferSize - 1),
           totalSize' \in [0..(BufferSize - 1) -> Nat],
           UNCHANGED <<clib, misrouted>>
    PROVE  MemoryOK' /\ (AllBuffered => AllBuffered')
<1>z. PICK z : z = [ptr |-> p, size |-> n, id |-> serial + 1]
    OBVIOUS
<1>1. z.ptr = p /\ z.size = n
    BY <1>z
<1>2. blocks' = (blocks \ old) \cup {z}
    BY <1>z DEF Hand
<1>3. Buffered(z)
    BY <1>1 DEF Buffered
<1>4. p \notin clib
    BY Apart DEF MemoryOK
<1>5. \A x \in blocks' : x.size \in Nat /\ (Buffered(x) \/ x.ptr \in clib)
    BY <1>1, <1>2, <1>3 DEF MemoryOK
<1>6. \A x, y \in blocks' : x.ptr \in clib /\ x.ptr = y.ptr => x = y
    BY <1>1, <1>2, <1>4 DEF MemoryOK
<1>7. AllBuffered => AllBuffered'
    BY <1>2, <1>3 DEF AllBuffered
<1> QED
    BY <1>5, <1>6, <1>7 DEF MemoryOK

LEMMA InitialMallocKeeps ==
    ASSUME MemoryOK, NEW old, NEW n \in Nat, InitialMalloc(old, n)
    PROVE  MemoryOK' /\ (AllBuffered => AllBuffered')
<1>w. PICK w : w = AsSizeT(n)
    OBVIOUS
<1>0. w \in Nat /\ (Fits(n) => w = n)
    BY <1>w, InAWord, BufferAssumption, WordAssumption DEF Fits
<1>1. CASE Room(w)
    <2>1. /\ totalSize' = [totalSize EXCEPT ![initialOffset] = Rounded(w)]
          /\ Hand(old, BehindHeader(initialOffset), n)
          /\ UNCHANGED <<initialOffset, clib, misrouted>>
        BY <1>1, <1>w DEF InitialMalloc
    <2>2. initialOffset \in 0..(BufferSize - 1)
        BY DEF MemoryOK
    <2>3. totalSize' \in [0..(BufferSize - 1) -> Nat]
        BY <1>0, <2>1, RoundedNat DEF MemoryOK
    <2>4. /\ BehindHeader(initialOffset) \in BufferPointers
          /\ BehindHeader(initialOffset) = initialOffset + HeaderSize
        BY <2>2, BehindHeaderInside
    <2>5. Ordinary(n) => BehindHeader(initialOffset) + n < BufferSize
        <3> SUFFICES ASSUME Fits(n) PROVE BehindHeader(initialOffset) + n < BufferSize
            BY DEF Ordinary
        <3>1. AsSizeT(initialOffset + Rounded(n)) < BufferSize
            BY <1>0, <1>1 DEF Room
        <3> QED
            BY <2>2, <2>4, <3>1, NoWrap
    <2>6. initialOffset' \in 0..(BufferSize - 1)
        BY <2>1, <2>2
    <2> QED
        BY <2>1, <2>3, <2>4, <2>5, <2>6, HandBuffered
<1>2. CASE ~Room(w)
    <2>1. blocks' \subseteq blocks /\ UNCHANGED <<totalSize, initialOffset, clib, misrouted>>
        BY <1>2, <1>w DEF InitialMalloc, Drop
    <2> QED
        BY <2>1 DEF MemoryOK, AllBuffered, Buffered
<1> QED
    BY <1>1, <1>2

LEMMA DropKeeps ==
    ASSUME MemoryOK, blocks' \subseteq blocks,
           UNCHANGED <<initialOffset, totalSize, clib, misrouted>>
    PROVE  MemoryOK' /\ (AllBuffered => AllBuffered')
BY DEF MemoryOK, AllBuffered, Buffered

LEMMA ResizeLastKeeps ==
    ASSUME MemoryOK, NEW x, NEW n \in Nat, ResizeLast(x, n), Buffered(x)
    PROVE  MemoryOK' /\ (AllBuffered => AllBuffered')
<1>o. PICK o : o = x.ptr - HeaderSize
    OBVIOUS
<1>t. PICK total : total = IF n # 0 THEN Rounded(n) ELSE 0
    OBVIOUS
<1>0. o \in 0..(BufferSize - 1) /\ x.ptr = o + HeaderSize /\ x.ptr \in BufferPointers
    BY <1>o, HeaderOf DEF Buffered
<1>1. total \in Nat
    BY <1>t, RoundedNat
<1>2. AsSizeT(o + total) \in Nat
    <2>1. o + total \in Nat
        BY <1>0, <1>1
    <2> QED
        BY <2>1, InAWord
<1>3. CASE AsSizeT(o + total) < BufferSize
    <2>1. /\ totalSize' = [totalSize EXCEPT ![o] = total]
          /\ initialOffset' = AsSizeT(o + total)
          /\ Hand({x}, x.ptr, n)
          /\ UNCHANGED <<clib, misrouted>>
        BY <1>3, <1>o, <1>t DEF ResizeLast
    <2>2. totalSize' \in [0..(BufferSize - 1) -> Nat]
        BY <1>1, <2>1 DEF MemoryOK
    <2>3. initialOffset' \in 0..(BufferSize - 1)
        BY <1>2, <1>3, <2>1, BufferAssumption
    <2>4. Ordinary(n) => x.ptr + n < BufferSize
        <3> SUFFICES ASSUME Fits(n), n # 0 PROVE x.ptr + n < BufferSize
            BY DEF Ordinary
        <3>1. AsSizeT(o + Rounded(n)) < BufferSize
            BY <1>3, <1>t
        <3> QED
            BY <1>0, <3>1, NoWrap
    <2> QED
        BY <1>0, <2>1, <2>2, <2>3, <2>4, HandBuffered
<1>4. CASE ~(AsSizeT(o + total) < BufferSize)
    <2>1. UNCHANGED <<totalSize, initialOffset, blocks, clib, misrouted>>
        BY <1>4, <1>o, <1>t DEF ResizeLast
    <2> QED
        BY <2>1, DropKeeps
<1> QED
    BY <1>3, <1>4

LEMMA InitialReallocKeeps ==
    ASSUME MemoryOK, NEW x, NEW n \in Nat, InitialRealloc(x, n),
           x = NoBlock \/ Buffered(x)
    PROVE  MemoryOK' /\ (AllBuffered => AllBuffered')
<1>1. CASE InitialMalloc({}, n) \/ InitialMalloc({x}, n)
    BY <1>1, InitialMallocKeeps
<1>2. CASE x # NoBlock /\ ResizeLast(x, n)
    BY <1>2, ResizeLastKeeps
<1> QED
    BY <1>1, <1>2, Apart DEF InitialRealloc, Buffered

LEMMA InitialFreeKeeps ==
    ASSUME MemoryOK, NEW x, InitialFree(x), x = NoBlock \/ Buffered(x)
    PROVE  MemoryOK' /\ (AllBuffered => AllBuffered')
<1>1. CASE x = NoBlock
    BY <1>1, DropKeeps DEF InitialFree
<1>2. CASE x # NoBlock
    <2>1. x.ptr \notin CLibBlocks /\ x.ptr - HeaderSize \in 0..(BufferSize - 1)
        BY <1>2, Apart, HeaderOf DEF Buffered
    <2>2. /\ blocks' \subseteq blocks /\ UNCHANGED <<totalSize, clib, misrouted>>
          /\ initialOffset' = x.ptr - HeaderSize \/ initialOffset' = initialOffset
        BY <1>2, <2>1 DEF InitialFree, Drop
    <2>3. initialOffset' \in 0..(BufferSize - 1)
        BY <2>1, <2>2 DEF MemoryOK
    <2> QED
        BY <2>2, <2>3 DEF MemoryOK, AllBuffered, Buffered
<1> QED
    BY <1>1, <1>2

(* A block that the C library hands out, fresh or in place of its own. *)
LEMMA HandCLib ==
    ASSUME MemoryOK, NEW old, NEW c \in CLibBlocks, NEW n \in Nat, NEW gone,
           clib' = (clib \ {gone}) \cup {c}, Hand(old, c, n),
           \A y \in blocks \ old : y.ptr # gone,
           c \notin clib \/ c = gone,
           UNCHANGED <<initialOffset, totalSize, misrouted>>
    PROVE  MemoryOK'
<1>z. PICK z : z = [ptr |-> c, size |-> n, id |-> serial + 1]
    OBVIOUS
<1>1. z.ptr = c /\ z.size = n
    BY <1>z
<1>2. blocks' = (blocks \ old) \cup {z}
    BY <1>z DEF Hand
<1>3. \A y \in blocks \ old : y.ptr # c
    <2>1. c \notin BufferPointers
        BY Apart
    <2> QED
        BY <2>1 DEF MemoryOK, Buffered
<1>4. \A x \in blocks' : x.size \in Nat /\ (Buffered(x)' \/ x.ptr \in clib')
    BY <1>1, <1>2 DEF MemoryOK, Buffered
<1>5. \A x, y \in blocks' : x.ptr \in clib' /\ x.ptr = y.ptr => x = y
    BY <1>1, <1>2, <1>3 DEF MemoryOK
<1> QED
    BY <1>4, <1>5 DEF MemoryOK

LEMMA CLibMallocKeeps ==
    ASSUME MemoryOK, NEW old, NEW n \in Nat, CLibMalloc(old, n)
    PROVE  MemoryOK'
<1>1. CASE ReturnNull /\ UNCHANGED clib
    <2>1. blocks' \subseteq blocks /\ UNCHANGED <<initialOffset, totalSize, clib, misrouted>>
        BY <1>1 DEF CLibMalloc, ReturnNull
    <2> QED
        BY <2>1, DropKeeps
<1>2. ASSUME NEW c \in CLibBlocks \ clib, clib' = clib \cup {c}, Hand(old, c, n)
      PROVE  MemoryOK'
    <2>1. clib' = (clib \ {c}) \cup {c} /\ c \in CLibBlocks /\ c \notin clib
        BY <1>2
    <2>2. UNCHANGED <<initialOffset, totalSize, misrouted>>
        BY DEF CLibMalloc
    <2>3. \A y \in blocks \ old : y.ptr # c
        BY <2>1, Apart DEF MemoryOK, Buffered
    <2> QED
        BY <1>2, <2>1, <2>2, <2>3, HandCLib
<1> QED
    BY <1>1, <1>2 DEF CLibMalloc

(* A pointer that is not the C library's is one from behind the buffer. *)
LEMMA MisroutedKeeps ==
    ASSUME MemoryOK, NEW x \in blocks, NotItsOwn(x), ~Ordinary(x.size)
    PROVE  MemoryOK'
<1>z. PICK z : z = [what |-> "not the C library's", size |-> x.size]
    OBVIOUS
<1>1. z \in [what : {"not the C library's"}, size : Nat] /\ z.size = x.size
    BY <1>z DEF MemoryOK
<1>2. misrouted' = misrouted \cup {z}
    BY <1>z DEF NotItsOwn
<1>3. /\ misrouted' \subseteq [what : {"not the C library's"}, size : Nat]
      /\ \A m \in misrouted' : ~Ordinary(m.size)
    BY <1>1, <1>2 DEF MemoryOK
<1>4. UNCHANGED <<initialOffset, totalSize, clib, blocks>>
    BY DEF NotItsOwn
<1> QED
    BY <1>3, <1>4 DEF MemoryOK, Buffered

(* Who calls the C library directly has a block of its own, who calls it     *)
(* from a final handler one that is not in the buffer.                       *)
Foreign(x) == x \in blocks /\ (x.ptr \in clib \/ ~Ordinary(x.size))

LEMMA OutsideIsForeign ==
    ASSUME MemoryOK, NEW x \in blocks, ~InBuffer(x.ptr)
    PROVE  Foreign(x)
<1>1. CASE Buffered(x)
    <2>1. CASE Ordinary(x.size)
        <3>1. x.ptr \in BufferPointers /\ x.ptr + x.size < BufferSize /\ x.size \in Nat
            BY <1>1, <2>1 DEF MemoryOK, Buffered
        <3>2. InBuffer(x.ptr)
            BY <3>1, BufferAssumption DEF InBuffer, BufferPointers
        <3> QED
            BY <3>2
    <2> QED
        BY <2>1 DEF Foreign
<1> QED
    BY <1>1 DEF MemoryOK, Foreign

LEMMA CLibReallocKeeps ==
    ASSUME MemoryOK, NEW x, NEW n \in Nat, CLibRealloc(x, n), x = NoBlock \/ Foreign(x)
    PROVE  MemoryOK'
<1>1. CASE x = NoBlock
    BY <1>1, CLibMallocKeeps DEF CLibRealloc
<1>2. CASE x # NoBlock /\ x.ptr \notin clib
    BY <1>2, MisroutedKeeps DEF CLibRealloc, Foreign
<1>3. CASE x # NoBlock /\ x.ptr \in clib
    <2>1. /\ \/ \E c \in (CLibBlocks \ clib) \cup {x.ptr} :
                  clib' = (clib \ {x.ptr}) \cup {c} /\ Hand({x}, c, n)
             \/ ReturnNull /\ UNCHANGED clib
          /\ UNCHANGED <<initialOffset, totalSize, misrouted>>
        BY <1>3 DEF CLibRealloc
    <2>2. \A y \in blocks \ {x} : y.ptr # x.ptr
        BY <1>3 DEF MemoryOK, Foreign
    <2>3. CASE ReturnNull /\ UNCHANGED clib
        BY <2>1, <2>3, DropKeeps DEF ReturnNull
    <2>4. ASSUME NEW c \in (CLibBlocks \ clib) \cup {x.ptr},
                 clib' = (clib \ {x.ptr}) \cup {c}, Hand({x}, c, n)
          PROVE  MemoryOK'
        <3>1. c \in CLibBlocks /\ (c \notin clib \/ c = x.ptr)
            BY <1>3, <2>4 DEF MemoryOK
        <3> QED
            BY <2>1, <2>2, <2>4, <3>1, HandCLib
    <2> QED
        BY <2>1, <2>3, <2>4
<1> QED
    BY <1>1, <1>2, <1>3

LEMMA CLibFreeKeeps ==
    ASSUME MemoryOK, NEW x, CLibFree(x), x = NoBlock \/ Foreign(x)
    PROVE  MemoryOK'
<1>1. CASE x = NoBlock
    BY <1>1, DropKeeps DEF CLibFree
<1>2. CASE x # NoBlock /\ x.ptr \notin clib
    BY <1>2, MisroutedKeeps DEF CLibFree, Foreign
<1>3. CASE x # NoBlock /\ x.ptr \in clib
    <2>1. /\ clib' = clib \ {x.ptr} /\ blocks' = blocks \ {x}
          /\ UNCHANGED <<initialOffset, totalSize, misrouted>>
        BY <1>3 DEF CLibFree, Drop
    <2>2. \A y \in blocks' : y.ptr # x.ptr
        BY <1>3, <2>1 DEF MemoryOK, Foreign
    <2> QED
        BY <2>1, <2>2 DEF MemoryOK, Buffered
<1> QED
    BY <1>1, <1>2, <1>3

LEMMA FinalReallocKeeps ==
    ASSUME MemoryOK, NEW x, NEW n \in Nat, FinalRealloc(x, n), user["realloc"] # "none",
           x = NoBlock \/ x \in blocks
    PROVE  MemoryOK'
<1>1. CASE x # NoBlock /\ InBuffer(x.ptr)
    <2>1. CASE n = 0
        BY <1>1, <2>1, DropKeeps DEF FinalRealloc, Drop
    <2>2. CASE n # 0
        BY <1>1, <2>2, CLibMallocKeeps DEF FinalRealloc
    <2> QED
        BY <2>1, <2>2
<1>2. CASE x = NoBlock \/ ~InBuffer(x.ptr)
    <2>1. CLibRealloc(x, n)
        BY <1>2 DEF FinalRealloc, UserRealloc
    <2> QED
        BY <1>2, <2>1, OutsideIsForeign, CLibReallocKeeps
<1> QED
    BY <1>1, <1>2

LEMMA FinalFreeKeeps ==
    ASSUME MemoryOK, NEW x, FinalFree(x), user["free"] # "none", x = NoBlock \/ x \in blocks
    PROVE  MemoryOK'
<1>1. CASE x # NoBlock /\ InBuffer(x.ptr)
    BY <1>1, DropKeeps DEF FinalFree, Drop
<1>2. CASE x = NoBlock \/ ~InBuffer(x.ptr)
    <2>1. CLibFree(x)
        BY <1>2 DEF FinalFree, UserFree
    <2> QED
        BY <1>2, <2>1, OutsideIsForeign, CLibFreeKeeps
<1> QED
    BY <1>1, <1>2

-----------------------------------------------------------------------------
(* Dispatch: what each way of serving a call needs. *)

LEMMA ServeInitialKeeps ==
    ASSUME MemoryOK, NEW c, ServeInitial(c), c.size \in Nat,
           c.block = NoBlock \/ Buffered(c.block)
    PROVE  MemoryOK' /\ (AllBuffered => AllBuffered')
<1>1. CASE InitialMalloc({}, c.size)
    BY <1>1, InitialMallocKeeps
<1>2. CASE InitialRealloc(c.block, c.size)
    BY <1>2, InitialReallocKeeps
<1>3. CASE InitialFree(c.block)
    BY <1>3, InitialFreeKeeps
<1> QED
    BY <1>1, <1>2, <1>3 DEF ServeInitial, InitialCalloc

LEMMA ServeCLibKeeps ==
    ASSUME MemoryOK, NEW c, ServeCLib(c), c.size \in Nat,
           c.block = NoBlock \/ Foreign(c.block)
    PROVE  MemoryOK'
<1>1. CASE CLibMalloc({}, c.size)
    BY <1>1, CLibMallocKeeps
<1>2. CASE CLibRealloc(c.block, c.size)
    BY <1>2, CLibReallocKeeps
<1>3. CASE CLibFree(c.block)
    BY <1>3, CLibFreeKeeps
<1> QED
    BY <1>1, <1>2, <1>3 DEF ServeCLib

LEMMA ServeKeeps ==
    ASSUME MemoryOK, RoutesOK, NEW c, Serve(c), c.size \in Nat, c.fn \in Functions,
           c.block \in blocks \cup {NoBlock},
           c.fn \in {"malloc", "calloc"} => c.block = NoBlock
    PROVE  MemoryOK' /\ (slot["realloc"] = "initial" => AllBuffered')
<1>1. \A x \in blocks : x.size \in Nat
    BY DEF MemoryOK
<1>2. CASE slot["realloc"] = "initial"
    <2>1. slot[c.fn] = "initial"
        BY <1>2 DEF RoutesOK, Functions
    <2>2. ServeInitial(c) /\ AllBuffered
        BY <1>2, <2>1 DEF Serve, RoutesOK
    <2> QED
        BY <1>1, <2>2, ServeInitialKeeps DEF AllBuffered
<1>3. CASE slot["realloc"] # "initial"
    <2>1. user["realloc"] # "none" /\ user["free"] # "none"
        BY <1>3 DEF RoutesOK
    <2>2. CASE c.fn \in {"malloc", "calloc"}
        <3>1. c.block = NoBlock
            BY <2>2
        <3>2. CASE slot[c.fn] = "initial"
            BY <1>3, <3>1, <3>2, ServeInitialKeeps DEF Serve
        <3>3. CASE slot[c.fn] # "initial"
            <4>1. CLibMalloc({}, c.size)
                BY <2>2, <3>3 DEF Serve
            <4> QED
                BY <1>3, <4>1, CLibMallocKeeps
        <3> QED
            BY <3>2, <3>3
    <2>3. CASE c.fn = "realloc"
        <3>1. FinalRealloc(c.block, c.size)
            BY <1>3, <2>3 DEF Serve
        <3> QED
            BY <1>3, <2>1, <3>1, FinalReallocKeeps
    <2>4. CASE c.fn = "free"
        <3>1. FinalFree(c.block)
            BY <1>3, <2>4 DEF Serve, RoutesOK
        <3> QED
            BY <1>3, <2>1, <3>1, FinalFreeKeeps
    <2> QED
        BY <2>2, <2>3, <2>4 DEF Functions
<1> QED
    BY <1>2, <1>3

-----------------------------------------------------------------------------
(* The invariant. *)

LEMMA RouteInit == Init => RouteInv
<1> SUFFICES ASSUME Init PROVE RouteInv
    OBVIOUS
<1>1. MemoryOK
    BY BufferAssumption DEF Init, MemoryOK
<1>2. RoutesOK
    BY DEF Init, RoutesOK, AllBuffered, Functions, Behind
<1> QED
    BY <1>1, <1>2 DEF RouteInv

(* Nothing but the memory changes, or nothing but the routes. *)
LEMMA MemoryStill ==
    ASSUME MemoryOK, UNCHANGED memVars
    PROVE  MemoryOK' /\ (AllBuffered => AllBuffered')
BY DEF memVars, MemoryOK, AllBuffered, Buffered

LEMMA RoutesStill ==
    ASSUME RoutesOK, UNCHANGED initVars, started,
           slot["realloc"] = "initial" => AllBuffered'
    PROVE  RoutesOK'
BY DEF RoutesOK, initVars

(* A call that enters the initialisation comes while nothing is held. *)
LEMMA EnterKeeps ==
    ASSUME RouteInv, NEW c, ~started, EnterInit(c), UNCHANGED memVars,
           c # NoCall => c.block \in blocks \cup {NoBlock} /\ c.size \in Nat
    PROVE  RouteInv'
<1>1. MemoryOK' /\ (AllBuffered => AllBuffered')
    BY MemoryStill DEF RouteInv
<1>2. blocks = {} /\ slot["realloc"] = "initial" /\ AllBuffered /\ entered = 0
    BY DEF RouteInv, RoutesOK
<1>3. /\ started' = TRUE /\ entered' = 1 /\ phase' = "lookup" /\ outer' = c
      /\ UNCHANGED <<slot, user>>
    BY <1>2 DEF EnterInit
<1>4. RoutesOK'
    BY <1>1, <1>2, <1>3 DEF RouteInv, RoutesOK
<1> QED
    BY <1>1, <1>4 DEF RouteInv

LEMMA RouteStep == RouteInv /\ [Next]_vars => RouteInv'
<1> SUFFICES ASSUME RouteInv, [Next]_vars PROVE RouteInv'
    OBVIOUS
<1> USE SizesAssumption
<1>1. CASE UNCHANGED vars
    <2>1. UNCHANGED memVars /\ UNCHANGED initVars
        BY <1>1 DEF vars, memVars, initVars
    <2>2. MemoryOK' /\ (AllBuffered => AllBuffered')
        BY <2>1, MemoryStill DEF RouteInv
    <2>3. UNCHANGED <<phase, started, entered, outer, slot, user, blocks>>
        BY <1>1 DEF vars
    <2>4. RoutesOK'
        BY <2>2, <2>3 DEF RouteInv, RoutesOK
    <2> QED
        BY <2>2, <2>4 DEF RouteInv
<1>2. CASE ApiInit
    <2>1. ~started /\ EnterInit(NoCall) /\ UNCHANGED memVars
        BY <1>2 DEF ApiInit, BeginsInit, memVars
    <2> QED
        BY <2>1, EnterKeeps
<1>3. CASE Lookup
    <2>1. MemoryOK' /\ (AllBuffered => AllBuffered')
        BY <1>3, MemoryStill DEF Lookup, memVars, RouteInv
    <2>2. /\ phase = "lookup" /\ phase' \in {"lookup", "exited"}
          /\ UNCHANGED <<started, entered, outer, slot, user, blocks>>
        BY <1>3 DEF Lookup
    <2>3. RoutesOK'
        BY <2>1, <2>2 DEF RouteInv, RoutesOK
    <2> QED
        BY <2>1, <2>3 DEF RouteInv
<1>4. CASE InstallSlots
    <2>1. MemoryOK'
        BY <1>4, MemoryStill DEF InstallSlots, Installed, memVars, RouteInv
    <2>2. /\ slot' \in [Functions -> {"initial", "C library", "user", "final"}]
          /\ slot'["realloc"] = "final" /\ slot'["free"] = "final"
        BY <1>4 DEF InstallSlots, Installed, Functions, Behind
    <2>3. /\ user' \in [Behind -> {"none", "C library", "user"}]
          /\ user'["realloc"] # "none" /\ user'["free"] # "none"
        BY <1>4 DEF InstallSlots, Installed, Behind
    <2>4. RoutesOK'
        BY <1>4, <2>2, <2>3 DEF InstallSlots, Installed, RouteInv, RoutesOK
    <2> QED
        BY <2>1, <2>4 DEF RouteInv
<1>5. CASE Resume
    <2>1. MemoryOK'
        <3>1. CASE outer = NoCall
            BY <1>5, <3>1, MemoryStill DEF Resume, memVars, RouteInv
        <3>2. CASE outer # NoCall
            BY <1>5, <3>2, ServeCLibKeeps, ServeInitialKeeps DEF Resume, RouteInv, RoutesOK
        <3> QED
            BY <3>1, <3>2
    <2>2. started /\ slot["realloc"] = "final"
        BY <1>5 DEF Resume, RouteInv, RoutesOK
    <2>3. RoutesOK'
        BY <1>5, <2>2 DEF Resume, RouteInv, RoutesOK
    <2> QED
        BY <2>1, <2>3 DEF RouteInv
<1>6. CASE ExitClean
    <2>1. MemoryOK'
        BY <1>6, MemoryStill DEF ExitClean, memVars, RouteInv
    <2>2. slot["realloc"] = "final" /\ started
        BY <1>6 DEF ExitClean, RouteInv, RoutesOK
    <2>3. /\ slot' \in [Functions -> {"initial", "C library", "user", "final"}]
          /\ slot'["realloc"] = slot["realloc"] /\ slot'["free"] = slot["free"]
        BY <1>6 DEF ExitClean, RouteInv, RoutesOK, Functions
    <2>4. /\ user' \in [Behind -> {"none", "C library", "user"}]
          /\ user'["realloc"] # "none" /\ user'["free"] # "none"
        BY <1>6 DEF ExitClean, Behind
    <2>5. RoutesOK'
        BY <1>6, <2>2, <2>3, <2>4 DEF ExitClean, RouteInv, RoutesOK
    <2> QED
        BY <2>1, <2>5 DEF RouteInv
<1>7. ASSUME NEW c, NEW x \in blocks \cup {NoBlock}, NEW n \in Sizes, NEW f \in Functions,
             NEW d \in BOOLEAN, c = [fn |-> f, block |-> x, size |-> n, direct |-> d],
             Call(c) \/ DirectCall(c)
      PROVE  RouteInv'
    <2>1. /\ c.fn \in Functions /\ c.block \in blocks \cup {NoBlock} /\ c.size \in Nat
          /\ (c.fn \in {"malloc", "calloc"} => c.block = NoBlock)
        BY <1>7 DEF Call, DirectCall, Callable
    <2>2. CASE Call(c)
        <3>1. CASE slot[c.fn] = "initial" /\ BeginsInit
            <4>1. ~started /\ EnterInit(c) /\ UNCHANGED memVars
                BY <2>2, <3>1 DEF Call, BeginsInit, memVars
            <4> QED
                BY <2>1, <4>1, EnterKeeps
        <3>2. CASE ~(slot[c.fn] = "initial" /\ BeginsInit)
            <4>1. Serve(c) /\ UNCHANGED initVars
                BY <2>2, <3>2 DEF Call
            <4>2. MemoryOK' /\ (slot["realloc"] = "initial" => AllBuffered')
                BY <2>1, <4>1, ServeKeeps DEF RouteInv
            <4>3. started
                BY <2>1, <3>2 DEF BeginsInit, RouteInv, RoutesOK, Functions
            <4>4. RoutesOK'
                BY <4>1, <4>2, <4>3, RoutesStill DEF RouteInv
            <4> QED
                BY <4>2, <4>4 DEF RouteInv
        <3> QED
            BY <3>1, <3>2
    <2>3. CASE DirectCall(c)
        <3>1. CASE BeginsInit
            <4>1. ~started /\ EnterInit(c) /\ UNCHANGED memVars
                BY <2>3, <3>1 DEF DirectCall, BeginsInit, memVars
            <4> QED
                BY <2>1, <4>1, EnterKeeps
        <3>2. CASE ~BeginsInit
            <4>1. ServeCLib(c) /\ UNCHANGED initVars /\ started /\ phase = "idle"
                BY <2>3, <3>2 DEF DirectCall, BeginsInit
            <4>2. c.block = NoBlock \/ Foreign(c.block)
                BY <2>1, <2>3, Apart DEF DirectCall, RouteInv, MemoryOK, Buffered, Foreign
            <4>3. MemoryOK'
                BY <2>1, <4>1, <4>2, ServeCLibKeeps DEF RouteInv
            <4>4. slot["realloc"] # "initial"
                BY <4>1 DEF RouteInv, RoutesOK
            <4>5. RoutesOK'
                BY <4>1, <4>4, RoutesStill DEF RouteInv
            <4> QED
                BY <4>3, <4>5 DEF RouteInv
        <3> QED
            BY <3>1, <3>2
    <2> QED
        BY <1>7, <2>2, <2>3
<1>8. ASSUME NEW f \in Functions, NEW h \in {"C library", "user"}, SetFnc(f, h)
      PROVE  RouteInv'
    <2>1. MemoryOK'
        BY <1>8, MemoryStill DEF SetFnc, memVars, RouteInv
    <2>2. slot["realloc"] = "final" /\ started
        BY <1>8 DEF SetFnc, RouteInv, RoutesOK
    <2>3. /\ slot' \in [Functions -> {"initial", "C library", "user", "final"}]
          /\ slot'["realloc"] = slot["realloc"] /\ slot'["free"] = slot["free"]
        BY <1>8 DEF SetFnc, RouteInv, RoutesOK, Functions, Behind
    <2>4. /\ user' \in [Behind -> {"none", "C library", "user"}]
          /\ user'["realloc"] # "none" /\ user'["free"] # "none"
        BY <1>8, <2>2 DEF SetFnc, RouteInv, RoutesOK, Behind
    <2>5. RoutesOK'
        BY <1>8, <2>2, <2>3, <2>4 DEF SetFnc, RouteInv, RoutesOK
    <2> QED
        BY <2>1, <2>5 DEF RouteInv
<1> QED
    <2>1. CASE \E f \in Functions, x \in blocks \cup {NoBlock}, n \in Sizes, d \in BOOLEAN :
                  LET c == [fn |-> f, block |-> x, size |-> n, direct |-> d]
                  IN  Call(c) \/ DirectCall(c)
        BY <1>7, <2>1
    <2> QED
        BY <1>1, <1>2, <1>3, <1>4, <1>5, <1>6, <1>8, <2>1 DEF Next

LEMMA RouteHolds == Spec => []RouteInv
BY RouteInit, RouteStep, PTL DEF Spec

-----------------------------------------------------------------------------
(* No block of the start-up buffer whose size wraps no sum reaches the      *)
(* realloc or free of the C library, whatever hooks are set, however calls  *)
(* nest and whatever sizes were asked for besides: the pointer test of the  *)
(* final handlers is enough.                                                *)
THEOREM CLibGetsItsOwnHolds == Spec => []CLibGetsItsOwn
<1>1. RouteInv => CLibGetsItsOwn
    BY DEF RouteInv, MemoryOK, CLibGetsItsOwn
<1> QED
    BY <1>1, RouteHolds, PTL

(* The initial realloc and free look for a header only in the buffer: the   *)
(* slots change while no block of the C library exists.                     *)
THEOREM HeadersOfBufferHolds == Spec => []HeadersOfBuffer
<1>1. RouteInv => HeadersOfBuffer
    BY DEF RouteInv, MemoryOK, HeadersOfBuffer
<1> QED
    BY <1>1, RouteHolds, PTL

(* However dlsym's own calls nest, the look-up begins once. *)
THEOREM InitEnteredOnceHolds == Spec => []InitEnteredOnce
<1>1. RouteInv => InitEnteredOnce
    <2> SUFFICES ASSUME RouteInv PROVE entered <= 1
        BY DEF InitEnteredOnce
    <2>1. entered = 0 \/ entered = 1
        BY DEF RouteInv, RoutesOK
    <2> QED
        BY <2>1
<1> QED
    BY <1>1, RouteHolds, PTL

(* A block that an initial handler hands out lies in the buffer, behind its *)
(* header, in the arithmetic of size_t: for each size that is not within    *)
(* HeaderSize + 8 + BufferSize of its end, whatever other sizes are asked   *)
(* for.                                                                     *)
THEOREM BlocksInBufferHolds == Spec => []BlocksInBuffer
<1>1. RouteInv => BlocksInBuffer
    <2> SUFFICES ASSUME RouteInv, NEW x \in blocks, x.ptr \notin CLibBlocks, Ordinary(x.size)
                 PROVE  /\ InBuffer(x.ptr)
                        /\ x.ptr - HeaderSize >= 0
                        /\ x.ptr + x.size <= BufferSize
        BY DEF BlocksInBuffer
    <2>1. x.ptr \in BufferPointers /\ x.ptr + x.size < BufferSize /\ x.size \in Nat
        BY DEF RouteInv, MemoryOK, Buffered
    <2> QED
        BY <2>1, BufferAssumption DEF InBuffer, BufferPointers
<1> QED
    BY <1>1, RouteHolds, PTL

-----------------------------------------------------------------------------
(* The types.  A call hands out one block at most, of the size it was asked *)
(* for, from the buffer or the C library, so that the call that waits for   *)
(* the initialisation finds the number it will need not yet given away.     *)
Handed(n) ==
    \/ blocks' \subseteq blocks /\ serial' = serial
    \/ \E p \in CLibBlocks \cup BufferPointers :
          /\ blocks' \subseteq blocks \cup {[ptr |-> p, size |-> n, id |-> serial + 1]}
          /\ serial' = serial + 1

TypeInv ==
    /\ lookups \in 0..Lookups
    /\ outer \in Calls \cup {NoCall}
    /\ blocks \subseteq Blocks
    /\ serial \in 0..MaxBlocks
    /\ outer # NoCall => serial < MaxBlocks

LEMMA InitialMallocHands ==
    ASSUME MemoryOK, NEW old, NEW n \in Nat, InitialMalloc(old, n)
    PROVE  Handed(n)
<1>1. CASE Room(AsSizeT(n))
    <2>1. BehindHeader(initialOffset) \in BufferPointers
        BY BehindHeaderInside DEF MemoryOK
    <2>2. Hand(old, BehindHeader(initialOffset), n)
        BY <1>1 DEF InitialMalloc
    <2> QED
        BY <2>1, <2>2 DEF Hand, Handed
<1>2. CASE ~Room(AsSizeT(n))
    BY <1>2 DEF InitialMalloc, Drop, Handed
<1> QED
    BY <1>1, <1>2

LEMMA ServeInitialHands ==
    ASSUME MemoryOK, NEW c, c.size \in Nat, ServeInitial(c),
           c.block = NoBlock \/ c.block \in blocks
    PROVE  Handed(c.size)
<1> DEFINE x == c.block
           n == c.size
<1>1. CASE InitialMalloc({}, n)
    BY <1>1, InitialMallocHands
<1>2. CASE InitialRealloc(x, n)
    <2>1. CASE InitialMalloc({}, n) \/ InitialMalloc({x}, n)
        BY <2>1, InitialMallocHands
    <2>2. CASE UNCHANGED <<blocks, serial>>
        BY <2>2 DEF Handed
    <2>3. CASE x # NoBlock /\ x.ptr \notin CLibBlocks /\ Hand({x}, x.ptr, n)
        <3>1. x.ptr \in BufferPointers
            BY <2>3 DEF MemoryOK, Buffered
        <3> QED
            BY <2>3, <3>1 DEF Hand, Handed
    <2> QED
        BY <1>2, <2>1, <2>2, <2>3 DEF InitialRealloc, ResizeLast, ForeignHeader
<1>3. CASE InitialFree(x)
    BY <1>3 DEF InitialFree, ForeignHeader, Drop, Handed
<1> QED
    BY <1>1, <1>2, <1>3 DEF ServeInitial, InitialCalloc

LEMMA CLibMallocHands ==
    ASSUME NEW old, NEW n, CLibMalloc(old, n)
    PROVE  Handed(n)
BY DEF CLibMalloc, ReturnNull, Hand, Handed

LEMMA CLibReallocHands ==
    ASSUME MemoryOK, NEW x, NEW n, CLibRealloc(x, n)
    PROVE  Handed(n)
<1>1. CASE CLibMalloc({}, n)
    BY <1>1, CLibMallocHands
<1>2. CASE UNCHANGED <<blocks, serial>>
    BY <1>2 DEF Handed
<1>3. ASSUME x.ptr \in clib, NEW c \in (CLibBlocks \ clib) \cup {x.ptr}, Hand({x}, c, n)
      PROVE  Handed(n)
    <2>1. c \in CLibBlocks
        BY <1>3 DEF MemoryOK
    <2> QED
        BY <1>3, <2>1 DEF Hand, Handed
<1> QED
    BY <1>1, <1>2, <1>3 DEF CLibRealloc, NotItsOwn, ReturnNull

LEMMA CLibFreeHands ==
    ASSUME NEW x, CLibFree(x)
    PROVE  \A n : Handed(n)
BY DEF CLibFree, NotItsOwn, Drop, Handed

LEMMA ServeCLibHands ==
    ASSUME MemoryOK, NEW c, ServeCLib(c)
    PROVE  Handed(c.size)
BY CLibMallocHands, CLibReallocHands, CLibFreeHands DEF ServeCLib

LEMMA ServeHands ==
    ASSUME MemoryOK, NEW c, c.size \in Nat, Serve(c), c.block \in blocks \cup {NoBlock}
    PROVE  Handed(c.size)
<1> DEFINE x == c.block
           n == c.size
<1>1. CASE ServeInitial(c)
    BY <1>1, ServeInitialHands
<1>2. CASE CLibMalloc({}, n)
    BY <1>2, CLibMallocHands
<1>3. CASE FinalRealloc(x, n)
    <2>1. CASE Drop({x}) \/ UNCHANGED <<blocks, serial>>
        BY <2>1 DEF Drop, Handed
    <2> QED
        BY <1>3, <2>1, CLibMallocHands, CLibReallocHands DEF FinalRealloc, UserRealloc, NullCall
<1>4. CASE FinalFree(x)
    <2>1. CASE Drop({x}) \/ UNCHANGED <<blocks, serial>>
        BY <2>1 DEF Drop, Handed
    <2> QED
        BY <1>4, <2>1, CLibFreeHands DEF FinalFree, UserFree, NullCall
<1> QED
    BY <1>1, <1>2, <1>3, <1>4 DEF Serve

LEMMA HandedKeeps ==
    ASSUME TypeInv, NEW n \in Sizes, Handed(n), serial < MaxBlocks
    PROVE  blocks' \subseteq Blocks /\ serial' \in 0..MaxBlocks /\ serial' <= serial + 1
<1>1. CASE blocks' \subseteq blocks /\ serial' = serial
    BY <1>1, BlocksAssumption DEF TypeInv
<1>2. ASSUME NEW p \in CLibBlocks \cup BufferPointers,
             blocks' \subseteq blocks \cup {[ptr |-> p, size |-> n, id |-> serial + 1]},
             serial' = serial + 1
      PROVE  blocks' \subseteq Blocks /\ serial' \in 0..MaxBlocks /\ serial' <= serial + 1
    <2>1. serial + 1 \in 1..MaxBlocks
        BY BlocksAssumption DEF TypeInv
    <2>2. [ptr |-> p, size |-> n, id |-> serial + 1] \in Blocks
        BY <2>1 DEF Blocks
    <2> QED
        BY <1>2, <2>1, <2>2, BlocksAssumption DEF TypeInv
<1> QED
    BY <1>1, <1>2 DEF Handed

(* What Callable leaves room for. *)
LEMMA CallableRoom ==
    ASSUME TypeInv, NEW c, Callable(c)
    PROVE  serial < MaxBlocks /\ (outer # NoCall => serial + 1 < MaxBlocks)
<1>1. CASE outer = NoCall
    <2>1. {outer} \ {NoCall} = {}
        BY <1>1
    <2>2. Cardinality({outer} \ {NoCall}) = 0
        BY <2>1, FS_EmptySet
    <2> QED
        BY <1>1, <2>2 DEF Callable, TypeInv
<1>2. CASE outer # NoCall
    <2>1. {outer} \ {NoCall} = {outer}
        BY <1>2
    <2>2. Cardinality({outer} \ {NoCall}) = 1
        BY <2>1, FS_Singleton
    <2> QED
        BY <1>2, <2>2, BlocksAssumption DEF Callable, TypeInv
<1> QED
    BY <1>1, <1>2

LEMMA TypeInvStep == RouteInv /\ TypeInv /\ [Next]_vars => TypeInv'
<1> SUFFICES ASSUME RouteInv, TypeInv, [Next]_vars PROVE TypeInv'
    OBVIOUS
<1>0. CASE UNCHANGED <<lookups, outer, blocks, serial>>
    BY <1>0 DEF TypeInv
<1>1. CASE UNCHANGED vars \/ InstallSlots \/ ExitClean
    BY <1>0, <1>1 DEF vars, InstallSlots, ExitClean
<1>2. CASE ApiInit
    BY <1>2 DEF ApiInit, EnterInit, TypeInv
<1>3. CASE Lookup
    BY <1>3 DEF Lookup, Lookups, TypeInv
<1>4. CASE Resume
    <2>1. outer' = NoCall /\ lookups' = lookups
        BY <1>4 DEF Resume
    <2>2. CASE outer = NoCall
        BY <1>4, <2>1, <2>2 DEF Resume, TypeInv
    <2>3. CASE outer # NoCall
        <3>1. /\ outer.size \in Sizes /\ outer.size \in Nat /\ serial < MaxBlocks
              /\ outer.block = NoBlock
            BY <2>3, SizesAssumption DEF TypeInv, Calls, RouteInv, RoutesOK
        <3>2. Handed(outer.size)
            BY <1>4, <2>3, <3>1, ServeCLibHands, ServeInitialHands DEF Resume, RouteInv
        <3> QED
            BY <2>1, <3>1, <3>2, HandedKeeps DEF TypeInv
    <2> QED
        BY <2>2, <2>3
<1>5. ASSUME NEW f \in Functions, NEW x \in blocks \cup {NoBlock}, NEW n \in Sizes,
             NEW d \in BOOLEAN, NEW c, c = [fn |-> f, block |-> x, size |-> n, direct |-> d],
             Call(c) \/ DirectCall(c)
      PROVE  TypeInv'
    <2>1. /\ c \in Calls /\ c.size \in Sizes /\ c.size \in Nat
          /\ c.block \in blocks \cup {NoBlock}
        BY <1>5, SizesAssumption DEF Calls, TypeInv
    <2>2. serial < MaxBlocks /\ (outer # NoCall => serial + 1 < MaxBlocks)
        BY <1>5, CallableRoom DEF Call, DirectCall
    <2>3. CASE EnterInit(c) /\ UNCHANGED <<blocks, serial>>
        BY <2>1, <2>2, <2>3 DEF EnterInit, TypeInv
    <2>4. CASE (Serve(c) \/ ServeCLib(c)) /\ UNCHANGED initVars
        <3>1. Handed(c.size)
            BY <2>1, <2>4, ServeHands, ServeCLibHands DEF RouteInv
        <3>2. blocks' \subseteq Blocks /\ serial' \in 0..MaxBlocks /\ serial' <= serial + 1
            BY <2>1, <2>2, <3>1, HandedKeeps
        <3>3. lookups' = lookups /\ outer' = outer
            BY <2>4 DEF initVars
        <3> QED
            BY <2>2, <3>2, <3>3, BlocksAssumption DEF TypeInv
    <2> QED
        BY <1>5, <2>3, <2>4 DEF Call, DirectCall
<1>6. ASSUME NEW f \in Functions, NEW h \in {"C library", "user"}, SetFnc(f, h)
      PROVE  TypeInv'
    BY <1>0, <1>6 DEF SetFnc
<1>7. CASE \E f \in Functions, x \in blocks \cup {NoBlock}, n \in Sizes, d \in BOOLEAN :
              LET c == [fn |-> f, block |-> x, size |-> n, direct |-> d]
              IN  Call(c) \/ DirectCall(c)
    BY <1>5, <1>7
<1> QED
    BY <1>1, <1>2, <1>3, <1>4, <1>6, <1>7 DEF Next

LEMMA TypeInvHolds == Spec => []TypeInv
<1>1. Init => TypeInv
    BY BlocksAssumption DEF Init, TypeInv, Lookups
<1>2. Spec => []RouteInv
    BY RouteHolds
<1> QED
    BY <1>1, <1>2, TypeInvStep, PTL DEF Spec

(* Every handler leaves blocks, offsets and routes of their types, the      *)
(* blocks of the buffer inside it.                                          *)
THEOREM TypeCorrect == Spec => []TypeOK
<1>1. Spec => [](RouteInv /\ TypeInv)
    BY RouteHolds, TypeInvHolds, PTL
<1>2. RouteInv /\ TypeInv => TypeOK
    <2> SUFFICES ASSUME RouteInv, TypeInv PROVE TypeOK
        OBVIOUS
    <2>1. initialOffset \in 0..(BufferSize - 1)
        BY BufferAssumption DEF RouteInv, MemoryOK
    <2>2. entered = 0 \/ entered = 1
        BY DEF RouteInv, RoutesOK
    <2>3. entered \in Nat
        BY <2>2
    <2>4. misrouted \subseteq [what : {"foreign header", "not the C library's", "null call"},
                               size : Nat]
        BY DEF RouteInv, MemoryOK
    <2> QED
        BY <2>1, <2>3, <2>4 DEF RouteInv, MemoryOK, RoutesOK, TypeInv, TypeOK
<1> QED
    BY <1>1, <1>2, PTL

-----------------------------------------------------------------------------
(* As long as no request comes near to the end of a size_t, the start-up    *)
(* buffer is a single place: its offset never moves, so that the branch of  *)
(* realloc and free for "a last element" is never taken.                    *)
OffsetNeverMoves ==
    /\ initialOffset = 0
    /\ \A x \in blocks : x.ptr \notin CLibBlocks => x.ptr = HeaderSize

FirstPlace ==
    /\ OffsetNeverMoves
    /\ (\E x \in blocks : x.ptr \notin CLibBlocks) => totalSize[0] \in 1..(Word - 1)

(* A step that leaves the buffer alone, and hands out nothing of it. *)
Elsewhere ==
    /\ UNCHANGED <<initialOffset, totalSize>>
    /\ \A y \in blocks' : y \in blocks \/ y.ptr \in CLibBlocks

LEMMA ElsewhereKeeps ==
    ASSUME FirstPlace, Elsewhere
    PROVE  FirstPlace'
BY DEF FirstPlace, OffsetNeverMoves, Elsewhere

LEMMA HandElsewhere ==
    ASSUME NEW old, NEW c \in CLibBlocks, NEW n, Hand(old, c, n),
           UNCHANGED <<initialOffset, totalSize>>
    PROVE  Elsewhere
BY DEF Hand, Elsewhere

LEMMA CLibElsewhere ==
    ASSUME MemoryOK, NEW x, NEW n,
           (\E old : CLibMalloc(old, n)) \/ CLibRealloc(x, n) \/ CLibFree(x)
    PROVE  Elsewhere
<1>1. CASE blocks' \subseteq blocks /\ UNCHANGED <<initialOffset, totalSize>>
    BY <1>1 DEF Elsewhere
<1>2. ASSUME NEW old, CLibMalloc(old, n) PROVE Elsewhere
    <2>1. CASE ReturnNull
        BY <1>1, <1>2, <2>1 DEF CLibMalloc, ReturnNull
    <2>2. ASSUME NEW c \in CLibBlocks, Hand(old, c, n) PROVE Elsewhere
        BY <1>2, <2>2, HandElsewhere DEF CLibMalloc
    <2> QED
        BY <1>2, <2>1, <2>2 DEF CLibMalloc
<1>3. CASE CLibRealloc(x, n)
    <2>1. CASE CLibMalloc({}, n)
        BY <1>2, <2>1
    <2>2. CASE UNCHANGED <<initialOffset, totalSize, blocks>>
        BY <1>1, <2>2
    <2>3. ASSUME NEW c \in CLibBlocks, Hand({x}, c, n), UNCHANGED <<initialOffset, totalSize>>
          PROVE  Elsewhere
        BY <2>3, HandElsewhere
    <2> QED
        BY <1>3, <2>1, <2>2, <2>3 DEF CLibRealloc, NotItsOwn, ReturnNull, MemoryOK
<1>4. CASE CLibFree(x)
    BY <1>1, <1>4 DEF CLibFree, NotItsOwn, Drop
<1> QED
    BY <1>2, <1>3, <1>4

LEMMA FinalElsewhere ==
    ASSUME MemoryOK, NEW x, NEW n, FinalRealloc(x, n) \/ FinalFree(x)
    PROVE  Elsewhere
<1>1. CASE Drop({x}) /\ UNCHANGED <<initialOffset, totalSize>>
    BY <1>1 DEF Drop, Elsewhere
<1>2. CASE NullCall
    BY <1>2 DEF NullCall, Elsewhere
<1>3. CASE CLibMalloc({x}, n) \/ CLibRealloc(x, n) \/ CLibFree(x)
    BY <1>3, CLibElsewhere
<1> QED
    BY <1>1, <1>2, <1>3 DEF FinalRealloc, FinalFree, UserRealloc, UserFree

LEMMA InitialMallocFirst ==
    ASSUME MemoryOK, FirstPlace, NEW old, NEW n \in Nat, Fits(n), InitialMalloc(old, n)
    PROVE  FirstPlace'
<1>0. AsSizeT(n) = n
    BY InAWord, BufferAssumption, WordAssumption DEF Fits
<1>1. CASE Room(n)
    <2>1. /\ totalSize' = [totalSize EXCEPT ![0] = Rounded(n)]
          /\ Hand(old, HeaderSize, n)
          /\ UNCHANGED initialOffset
        BY <1>0, <1>1, BufferAssumption
        DEF InitialMalloc, BehindHeader, FirstPlace, OffsetNeverMoves
    <2>2. totalSize'[0] = Rounded(n)
        <3>1. 0 \in 0..(BufferSize - 1)
            BY BufferAssumption
        <3>2. DOMAIN totalSize = 0..(BufferSize - 1)
            BY DEF MemoryOK
        <3> QED
            BY <2>1, <3>1, <3>2
    <2>3. Rounded(n) \in 1..(Word - 1)
        BY RoundedBound, BufferAssumption, WordAssumption DEF Fits
    <2>4. \A y \in blocks' : y \in blocks \/ y.ptr = HeaderSize
        BY <2>1 DEF Hand
    <2> QED
        BY <2>1, <2>2, <2>3, <2>4 DEF FirstPlace, OffsetNeverMoves
<1>2. CASE ~Room(n)
    <2>1. blocks' \subseteq blocks /\ UNCHANGED <<totalSize, initialOffset>>
        BY <1>0, <1>2 DEF InitialMalloc, Drop
    <2> QED
        BY <2>1, ElsewhereKeeps DEF Elsewhere
<1> QED
    BY <1>1, <1>2

(* What the buffer holds is never its last element: the header says a       *)
(* positive size and the offset stays 0.                                    *)
LEMMA NeverLast ==
    ASSUME FirstPlace, NEW x \in blocks, x.ptr \notin CLibBlocks
    PROVE  Verdicts(x.ptr - HeaderSize) = {FALSE}
<1>1. x.ptr - HeaderSize = 0 /\ initialOffset = 0
    BY BufferAssumption DEF FirstPlace, OffsetNeverMoves
<1>2. totalSize[0] \in 1..(Word - 1)
    BY DEF FirstPlace
<1>3. AsSizeT(totalSize[0] + 0) = totalSize[0]
    BY <1>2, InAWord, WordAssumption, BufferAssumption
<1>4. IsLast(0) = FALSE
    BY <1>1, <1>2, <1>3 DEF IsLast
<1>5. Verdicts(0) = {IsLast(0)}
    BY DEF Verdicts
<1>6. Verdicts(0) = {FALSE}
    BY <1>4, <1>5, Zenon
<1> QED
    BY <1>1, <1>6

LEMMA ServeInitialFirst ==
    ASSUME MemoryOK, FirstPlace, NEW c, c.size \in Nat, Fits(c.size), ServeInitial(c),
           c.block \in blocks \cup {NoBlock}
    PROVE  FirstPlace'
<1> DEFINE x == c.block
           n == c.size
<1>1. CASE InitialMalloc({}, n) \/ InitialMalloc({x}, n)
    BY <1>1, InitialMallocFirst
<1>2. CASE UNCHANGED <<initialOffset, totalSize, blocks>>
    BY <1>2, ElsewhereKeeps DEF Elsewhere
<1>3. x # NoBlock /\ x.ptr \notin CLibBlocks => Verdicts(x.ptr - HeaderSize) = {FALSE}
    BY NeverLast
<1>4. CASE InitialRealloc(x, n)
    BY <1>1, <1>2, <1>3, <1>4 DEF InitialRealloc, ForeignHeader
<1>5. CASE InitialFree(x)
    <2>1. CASE UNCHANGED initialOffset /\ Drop({x}) /\ UNCHANGED totalSize
        BY <2>1, ElsewhereKeeps DEF Drop, Elsewhere
    <2> QED
        BY <1>2, <1>3, <1>5, <2>1 DEF InitialFree, ForeignHeader
<1> QED
    BY <1>1, <1>4, <1>5 DEF ServeInitial, InitialCalloc

LEMMA FirstPlaceStep ==
    ASSUME \A n \in Sizes : Fits(n)
    PROVE  RouteInv /\ TypeInv /\ FirstPlace /\ [Next]_vars => FirstPlace'
<1> SUFFICES ASSUME RouteInv, TypeInv, FirstPlace, [Next]_vars PROVE FirstPlace'
    OBVIOUS
<1>0. CASE UNCHANGED <<initialOffset, totalSize, blocks>>
    BY <1>0, ElsewhereKeeps DEF Elsewhere
<1>1. CASE UNCHANGED vars \/ ApiInit \/ Lookup \/ InstallSlots \/ ExitClean
    BY <1>0, <1>1 DEF vars, ApiInit, Lookup, InstallSlots, ExitClean
<1>2. CASE Resume /\ outer # NoCall
    <2>1. outer.size \in Sizes /\ outer.size \in Nat /\ outer.block = NoBlock
        BY <1>2, SizesAssumption DEF RouteInv, RoutesOK, TypeInv, Calls
    <2>2. CASE ServeInitial(outer)
        BY <2>1, <2>2, ServeInitialFirst DEF RouteInv
    <2>3. CASE ServeCLib(outer)
        BY <2>3, CLibElsewhere, ElsewhereKeeps DEF ServeCLib, RouteInv
    <2> QED
        BY <1>2, <2>2, <2>3 DEF Resume
<1>3. ASSUME NEW f \in Functions, NEW x \in blocks \cup {NoBlock}, NEW n \in Sizes,
             NEW d \in BOOLEAN, NEW c, c = [fn |-> f, block |-> x, size |-> n, direct |-> d],
             Call(c) \/ DirectCall(c)
      PROVE  FirstPlace'
    <2>1. c.size \in Sizes /\ c.size \in Nat /\ c.block \in blocks \cup {NoBlock}
        BY <1>3, SizesAssumption
    <2>2. CASE ServeInitial(c)
        BY <2>1, <2>2, ServeInitialFirst DEF RouteInv
    <2>3. CASE ServeCLib(c) \/ (Serve(c) /\ slot[c.fn] # "initial")
        <3>1. Elsewhere
            BY <2>3, CLibElsewhere, FinalElsewhere DEF ServeCLib, Serve, RouteInv
        <3> QED
            BY <3>1, ElsewhereKeeps
    <2> QED
        BY <1>0, <1>3, <2>2, <2>3 DEF Call, DirectCall, Serve
<1>4. ASSUME NEW f \in Functions, NEW h \in {"C library", "user"}, SetFnc(f, h)
      PROVE  FirstPlace'
    BY <1>0, <1>4 DEF SetFnc
<1>5. CASE Resume /\ outer = NoCall
    BY <1>0, <1>5 DEF Resume
<1>6. CASE \E f \in Functions, x \in blocks \cup {NoBlock}, n \in Sizes, d \in BOOLEAN :
              LET c == [fn |-> f, block |-> x, size |-> n, direct |-> d]
              IN  Call(c) \/ DirectCall(c)
    BY <1>3, <1>6
<1> QED
    BY <1>1, <1>2, <1>4, <1>5, <1>6 DEF Next

(* Without a request near the end of a size_t the offset never moves.        *)
THEOREM OffsetNeverMovesHolds ==
    ASSUME \A n \in Sizes : Fits(n)
    PROVE  Spec => []OffsetNeverMoves
<1>1. Init => FirstPlace
    BY DEF Init, FirstPlace, OffsetNeverMoves
<1>2. Spec => [](RouteInv /\ TypeInv)
    BY RouteHolds, TypeInvHolds, PTL
<1>3. RouteInv /\ TypeInv /\ FirstPlace /\ [Next]_vars => FirstPlace'
    BY FirstPlaceStep
<1>4. FirstPlace => OffsetNeverMoves
    BY DEF FirstPlace
<1> QED
    BY <1>1, <1>2, <1>3, <1>4, PTL DEF Spec
=============================================================================
