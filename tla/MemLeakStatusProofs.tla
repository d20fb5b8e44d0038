-------------------------- MODULE MemLeakStatusProofs --------------------------
(***************************************************************************)
(* The statistics of MemLeakInvest agree with its memory table.  The byte  *)
(* count is compared with a sum over a set, which the community modules    *)
(* compute by recursion: the first section proves what the recursion       *)
(* computes on the finite set Addrs, every time from a smallest            *)
(* counterexample instead of an induction rule.                            *)
(***************************************************************************)
EXTENDS MemLeakThreadProofs

-----------------------------------------------------------------------------
Chosen(s) == CHOOSE x \in s : TRUE

(* f adds up the sizes of the subsets of T. *)
AddsUp(f, h, T) ==
    f = [s \in SUBSET T |-> IF s = {} THEN 0 ELSE h[Chosen(s)].size + f[s \ {Chosen(s)}]]

SumTable(h, T) == CHOOSE f : AddsUp(f, h, T)
SizeSum(h, T) == SumTable(h, T)[T]

(* A collection of sets of addresses has a smallest member. *)
LEMMA SmallestSet ==
    ASSUME NEW B, B \subseteq SUBSET Addrs, B # {}
    PROVE  \E m \in B : \A c \in B : c \subseteq m => c = m
<1> DEFINE R == StrictSubsetOrdering(Addrs)
<1>1. IsWellFoundedOn(R, SUBSET Addrs)
  <2>1. FiniteSubsetsOf(Addrs) = SUBSET Addrs
    BY AddrsAssumption, FS_FiniteSubsetsOfFinite
  <2>2. IsWellFoundedOn(R, FiniteSubsetsOf(Addrs))
    BY FS_StrictSubsetOrderingWellFounded
  <2> QED
    BY <2>1, <2>2
<1> HIDE DEF R
<1>2. \E m \in B : \A c \in B : ~(<<c, m>> \in R)
  BY <1>1, WFMin
<1> QED
  BY <1>2 DEF R, StrictSubsetOrdering

LEMMA ChosenIn ==
    ASSUME NEW s, s # {}
    PROVE  Chosen(s) \in s
BY DEF Chosen

LEMMA AddsUpAt ==
    ASSUME NEW f, NEW h, NEW T, AddsUp(f, h, T), NEW s \in SUBSET T
    PROVE  f[s] = IF s = {} THEN 0 ELSE h[Chosen(s)].size + f[s \ {Chosen(s)}]
<1> DEFINE F == [u \in SUBSET T |-> IF u = {} THEN 0 ELSE h[Chosen(u)].size + f[u \ {Chosen(u)}]]
<1>1. f = F
  BY DEF AddsUp
<1>2. F[s] = IF s = {} THEN 0 ELSE h[Chosen(s)].size + f[s \ {Chosen(s)}]
  OBVIOUS
<1> QED
  BY <1>1, <1>2

(* Two such functions agree where the tables they read agree. *)
LEMMA AddsUpUnique ==
    ASSUME NEW T \in SUBSET Addrs, NEW U \in SUBSET Addrs, NEW f, NEW g, NEW h, NEW k,
           AddsUp(f, h, T), AddsUp(g, k, U), \A a \in T \cap U : h[a].size = k[a].size,
           NEW s \in SUBSET (T \cap U)
    PROVE  f[s] = g[s]
<1> DEFINE B == {r \in SUBSET (T \cap U) : f[r] # g[r]}
<1> SUFFICES ASSUME B # {} PROVE FALSE
  OBVIOUS
<1>0. B \subseteq SUBSET Addrs /\ B # {}
  OBVIOUS
<1>1. PICK m \in B : \A c \in B : c \subseteq m => c = m
  <2> HIDE DEF B
  <2> QED
    BY <1>0, SmallestSet
<1>2. /\ f[m] = IF m = {} THEN 0 ELSE h[Chosen(m)].size + f[m \ {Chosen(m)}]
      /\ g[m] = IF m = {} THEN 0 ELSE k[Chosen(m)].size + g[m \ {Chosen(m)}]
  <2>1. m \in SUBSET T /\ m \in SUBSET U
    BY <1>1
  <2> HIDE DEF B
  <2>2. AddsUp(f, h, T) /\ AddsUp(g, k, U)
    OBVIOUS
  <2>3. f[m] = IF m = {} THEN 0 ELSE h[Chosen(m)].size + f[m \ {Chosen(m)}]
    BY ONLY <2>1, <2>2, AddsUpAt
  <2>4. g[m] = IF m = {} THEN 0 ELSE k[Chosen(m)].size + g[m \ {Chosen(m)}]
    BY ONLY <2>1, <2>2, AddsUpAt
  <2> QED
    BY <2>3, <2>4
<1>3. m # {}
  BY <1>2
<1>4. Chosen(m) \in m
  BY <1>3, ChosenIn
<1>5. f[m \ {Chosen(m)}] = g[m \ {Chosen(m)}]
  BY <1>1, <1>4
<1> QED
  BY <1>2, <1>3, <1>4, <1>5

LEMMA AddsUpExists ==
    ASSUME NEW h, NEW T \in SUBSET Addrs
    PROVE  AddsUp(SumTable(h, T), h, T)
<1> DEFINE B == {U \in SUBSET Addrs : ~ \E f : AddsUp(f, h, U)}
<1>1. B = {}
  <2> SUFFICES ASSUME B # {} PROVE FALSE
    OBVIOUS
  <2>0. B \subseteq SUBSET Addrs /\ B # {}
    OBVIOUS
  <2>1. PICK m \in B : \A c \in B : c \subseteq m => c = m
    <3> HIDE DEF B
    <3> QED
      BY <2>0, SmallestSet
  <2>2. ASSUME NEW s \in SUBSET m, s # m PROVE AddsUp(SumTable(h, s), h, s)
    BY <2>1, <2>2 DEF SumTable
  <2> DEFINE F == [s \in SUBSET m |->
                      IF s = {} THEN 0
                      ELSE h[Chosen(s)].size + SumTable(h, s \ {Chosen(s)})[s \ {Chosen(s)}]]
  <2>3. ASSUME NEW s \in SUBSET m, s # {}
        PROVE  F[s \ {Chosen(s)}] = SumTable(h, s \ {Chosen(s)})[s \ {Chosen(s)}]
    <3> DEFINE r == s \ {Chosen(s)}
               q == r \ {Chosen(r)}
    <3>1. r \in SUBSET m /\ r # m /\ q \in SUBSET r
      BY <2>3, ChosenIn
    <3>2. AddsUp(SumTable(h, r), h, r)
      BY <2>2, <3>1
    <3>3. F[r] = IF r = {} THEN 0 ELSE h[Chosen(r)].size + SumTable(h, q)[q]
      BY <3>1
    <3> HIDE DEF r, F
    <3>4. SumTable(h, r)[r] = IF r = {} THEN 0 ELSE h[Chosen(r)].size + SumTable(h, r)[q]
      BY <3>2, AddsUpAt
    <3>5. CASE r # {}
      <4>1. q # m /\ AddsUp(SumTable(h, q), h, q)
        BY <2>2, <3>1, <3>5, ChosenIn
      <4>2. q \in SUBSET (r \cap q) /\ r \in SUBSET Addrs /\ q \in SUBSET Addrs
        BY <2>1, <3>1
      <4>3. SumTable(h, r)[q] = SumTable(h, q)[q]
        <5> HIDE DEF q
        <5> QED
          BY <3>2, <4>1, <4>2, AddsUpUnique
      <4> QED
        BY <3>3, <3>4, <4>3, <3>5 DEF r
    <3> QED
      BY <3>3, <3>4, <3>5 DEF r
  <2>4. AddsUp(F, h, m)
    BY <2>3 DEF AddsUp
  <2> QED
    BY <2>1, <2>4
<1> QED
  BY <1>1 DEF SumTable

(* What the sum is, and that it is an integer if the sizes are. *)
LEMMA SizeSumAt ==
    ASSUME NEW h, NEW T \in SUBSET Addrs
    PROVE  SizeSum(h, T) = IF T = {} THEN 0 ELSE h[Chosen(T)].size + SizeSum(h, T \ {Chosen(T)})
<1> DEFINE r == T \ {Chosen(T)}
<1>1. AddsUp(SumTable(h, T), h, T) /\ AddsUp(SumTable(h, r), h, r)
  BY AddsUpExists
<1>2. r \in SUBSET Addrs /\ r \in SUBSET (T \cap r)
  OBVIOUS
<1> HIDE DEF r
<1>3. SumTable(h, T)[r] = SumTable(h, r)[r]
  BY <1>1, <1>2, AddsUpUnique
<1>4. SumTable(h, T)[T] = IF T = {} THEN 0 ELSE h[Chosen(T)].size + SumTable(h, T)[T \ {Chosen(T)}]
  BY <1>1, AddsUpAt
<1> QED
  BY <1>3, <1>4 DEF SizeSum, r

LEMMA SizeSumSame ==
    ASSUME NEW h, NEW k, NEW T \in SUBSET Addrs, \A a \in T : h[a].size = k[a].size
    PROVE  SizeSum(h, T) = SizeSum(k, T)
<1>1. AddsUp(SumTable(h, T), h, T) /\ AddsUp(SumTable(k, T), k, T)
  BY AddsUpExists
<1>2. T \in SUBSET (T \cap T) /\ \A a \in T \cap T : h[a].size = k[a].size
  OBVIOUS
<1> QED
  BY <1>1, <1>2, AddsUpUnique DEF SizeSum

LEMMA SizeSumInt ==
    ASSUME NEW h, NEW T \in SUBSET Addrs, \A a \in T : h[a].size \in Int
    PROVE  SizeSum(h, T) \in Int
<1> DEFINE B == {U \in SUBSET T : SizeSum(h, U) \notin Int}
<1> SUFFICES ASSUME B # {} PROVE FALSE
  OBVIOUS
<1>0. B \subseteq SUBSET Addrs /\ B # {}
  OBVIOUS
<1>1. PICK m \in B : \A c \in B : c \subseteq m => c = m
  <2> HIDE DEF B
  <2> QED
    BY <1>0, SmallestSet
<1>2. SizeSum(h, m) = IF m = {} THEN 0 ELSE h[Chosen(m)].size + SizeSum(h, m \ {Chosen(m)})
  BY SizeSumAt
<1>3. m # {} => SizeSum(h, m \ {Chosen(m)}) \in Int /\ h[Chosen(m)].size \in Int
  BY <1>1, ChosenIn
<1> QED
  BY <1>2, <1>3

(* Any element may be taken out first. *)
LEMMA SizeSumRemove ==
    ASSUME NEW h, NEW T \in SUBSET Addrs, \A a \in T : h[a].size \in Int, NEW a \in T
    PROVE  SizeSum(h, T) = h[a].size + SizeSum(h, T \ {a})
<1> DEFINE B == {U \in SUBSET T : \E x \in U : SizeSum(h, U) # h[x].size + SizeSum(h, U \ {x})}
<1> SUFFICES ASSUME B # {} PROVE FALSE
  OBVIOUS
<1>0. B \subseteq SUBSET Addrs /\ B # {}
  OBVIOUS
<1>1. PICK m \in B : \A c \in B : c \subseteq m => c = m
  <2> HIDE DEF B
  <2> QED
    BY <1>0, SmallestSet
<1>2. PICK x \in m : SizeSum(h, m) # h[x].size + SizeSum(h, m \ {x})
  OBVIOUS
<1> DEFINE c == Chosen(m)
<1>3. c \in m /\ m \in SUBSET Addrs /\ SizeSum(h, m) = h[c].size + SizeSum(h, m \ {c})
  BY <1>2, ChosenIn, SizeSumAt
<1> HIDE DEF c
<1>4. x # c
  BY <1>2, <1>3
<1>5. m \ {c} \notin B /\ m \ {x} \notin B
  BY <1>1, <1>2, <1>3
<1>6. SizeSum(h, m \ {c}) = h[x].size + SizeSum(h, (m \ {c}) \ {x})
  BY <1>2, <1>3, <1>4, <1>5
<1>7. SizeSum(h, m \ {x}) = h[c].size + SizeSum(h, (m \ {x}) \ {c})
  BY <1>2, <1>3, <1>4, <1>5
<1>8. (m \ {c}) \ {x} = (m \ {x}) \ {c}
  OBVIOUS
<1>9. h[x].size \in Int /\ h[c].size \in Int /\ SizeSum(h, (m \ {x}) \ {c}) \in Int
  BY <1>1, <1>2, <1>3, SizeSumInt
<1> HIDE DEF B
<1>10. SizeSum(h, m) = h[x].size + SizeSum(h, m \ {x})
  <2> DEFINE u == SizeSum(h, (m \ {x}) \ {c})
             p == h[x].size
             q == h[c].size
             v == SizeSum(h, m \ {x})
  <2>1. SizeSum(h, m) = q + (p + u) /\ v = q + u /\ p \in Int /\ q \in Int /\ u \in Int
    BY <1>3, <1>6, <1>7, <1>8, <1>9
  <2> HIDE DEF u, p, q, v
  <2>2. SizeSum(h, m) = p + v
    BY <2>1
  <2> QED
    BY <2>2 DEF p, v
<1> QED
  BY <1>2, <1>10


-----------------------------------------------------------------------------
(* The two statistics of a book. *)
StatusOf(b) ==
    /\ b.allocatedItemsCount = Cardinality(Tracked(b))
    /\ b.memoryAllocatedInBytes = SizeSum(b.hashByMemory, Tracked(b))

LEMMA StatusAsSum == StatusMatchesTable <=> StatusOf(book)
BY DEF StatusMatchesTable, StatusOf, MapThenSumSet, MapThenFoldSet, SizeSum, SumTable, AddsUp, Chosen

LEMMA TrackedSizes ==
    ASSUME NEW b \in Books
    PROVE  /\ Tracked(b) \in SUBSET Addrs /\ IsFiniteSet(Tracked(b))
           /\ \A a \in Tracked(b) : b.hashByMemory[a].size \in Int
<1>1. \A e \in Entries : e.size \in Int
  <2>1. \A e \in Entries : e.size \in Sizes
    BY DEF Entries
  <2> QED
    BY <2>1, SizeIsNat
<1>2. \A a \in Tracked(b) : b.hashByMemory[a] \in Entries
  BY DEF Books, Tracked
<1> QED
  BY <1>1, <1>2, AddrsAssumption, FS_Subset DEF Tracked

LEMMA AddByStackStatus ==
    ASSUME NEW b \in Books, NEW s \in Stacks, StatusOf(b)
    PROVE  StatusOf(AddByStack(b, s))
<1>1. /\ AddByStack(b, s).allocatedItemsCount = b.allocatedItemsCount
      /\ AddByStack(b, s).memoryAllocatedInBytes = b.memoryAllocatedInBytes
      /\ AddByStack(b, s).hashByMemory = b.hashByMemory
  BY DEF AddByStack, Books
<1> QED
  BY <1>1 DEF StatusOf, Tracked

LEMMA AddByMemoryStatus ==
    ASSUME NEW b \in Books, NEW a \in Addrs, NEW s \in Stacks, NEW n \in Sizes, StatusOf(b)
    PROVE  StatusOf(AddByMemory(b, a, s, n))
<1>1. CASE b.hashByMemory[a] # NoEntry
  BY <1>1 DEF AddByMemory
<1>2. CASE b.hashByMemory[a] = NoEntry
  <2> DEFINE c == AddByMemory(b, a, s, n)
             T == Tracked(b)
             U == T \cup {a}
             h == b.hashByMemory
             k == c.hashByMemory
  <2>1. /\ c.allocatedItemsCount = b.allocatedItemsCount + 1
        /\ c.memoryAllocatedInBytes = b.memoryAllocatedInBytes + n
        /\ k = [h EXCEPT ![a] = [stack |-> s, size |-> n]]
    BY <1>2 DEF AddByMemory, Books
  <2>2. h \in [Addrs -> Entries \cup {NoEntry}] /\ n \in Int
    BY SizesAssumption DEF Books
  <2>3. k[a].size = n /\ \A x \in T : k[x].size = h[x].size
    BY <1>2, <2>1, <2>2 DEF Tracked
  <2>4. Tracked(c) = U
    BY TrackedAfter
  <2>5. c \in Books
    BY AddByMemoryType
  <2>6. /\ T \in SUBSET Addrs /\ IsFiniteSet(T) /\ U \in SUBSET Addrs
        /\ \A x \in U : k[x].size \in Int
    BY <2>4, <2>5, TrackedSizes
  <2>7. a \notin T /\ a \in U /\ U \ {a} = T
    BY <1>2 DEF Tracked
  <2> HIDE DEF c, T, U, h, k
  <2>8. Cardinality(U) = Cardinality(T) + 1
    BY <2>6, <2>7, FS_AddElement DEF U
  <2>9. SizeSum(k, U) = n + SizeSum(h, T)
    BY <2>3, <2>6, <2>7, SizeSumRemove, SizeSumSame
  <2>10. SizeSum(h, T) \in Int
    BY TrackedSizes, SizeSumInt DEF h, T
  <2> QED
    BY <2>1, <2>2, <2>4, <2>8, <2>9, <2>10 DEF StatusOf, c, T, h, k
<1> QED
  BY <1>1, <1>2

LEMMA RemMemoryStatus ==
    ASSUME NEW b \in Books, NEW a \in Addrs, StatusOf(b)
    PROVE  StatusOf(RemMemory(b, a))
<1>1. CASE b.hashByMemory[a] = NoEntry
  BY <1>1 DEF RemMemory
<1>2. CASE b.hashByMemory[a] # NoEntry
  <2> DEFINE c == RemMemory(b, a)
             T == Tracked(b)
             U == T \ {a}
             h == b.hashByMemory
             k == c.hashByMemory
  <2>1. /\ c.allocatedItemsCount = b.allocatedItemsCount - 1
        /\ c.memoryAllocatedInBytes = b.memoryAllocatedInBytes - h[a].size
        /\ k = [h EXCEPT ![a] = NoEntry]
    BY <1>2 DEF RemMemory, BytesOf, Books
  <2>2. h \in [Addrs -> Entries \cup {NoEntry}]
    BY DEF Books
  <2>3. \A x \in U : k[x].size = h[x].size
    BY <2>1, <2>2 DEF Tracked
  <2>4. Tracked(c) = U
    BY TrackedAfterRemoval
  <2>5. /\ T \in SUBSET Addrs /\ IsFiniteSet(T) /\ U \in SUBSET Addrs
        /\ \A x \in T : h[x].size \in Int
    BY TrackedSizes
  <2>6. a \in T
    BY <1>2 DEF Tracked
  <2> HIDE DEF c, T, U, h, k
  <2>7. Cardinality(U) = Cardinality(T) - 1
    BY <2>5, <2>6, FS_RemoveElement DEF U
  <2>8. SizeSum(h, T) = h[a].size + SizeSum(h, U)
    BY <2>5, <2>6, SizeSumRemove DEF U
  <2>9. SizeSum(k, U) = SizeSum(h, U)
    BY <2>3, <2>5, SizeSumSame
  <2>10. h[a].size \in Int /\ SizeSum(h, U) \in Int
    BY <2>5, <2>6, SizeSumInt DEF U
  <2> QED
    BY <2>1, <2>4, <2>7, <2>8, <2>9, <2>10 DEF StatusOf, c, T, h, k
<1> QED
  BY <1>1, <1>2

LEMMA StatusStep == TypeOK /\ StatusOf(book) /\ BookStep => StatusOf(book')
<1> SUFFICES ASSUME book \in Books, StatusOf(book), BookStep
             PROVE  StatusOf(book')
  BY DEF TypeOK
<1>1. ASSUME NEW a \in Addrs
      PROVE  RemMemory(book, a) \in Books /\ StatusOf(RemMemory(book, a))
  BY RemMemoryType, RemMemoryStatus
<1>2. ASSUME NEW a \in Addrs, NEW s \in Stacks
      PROVE  /\ AddByStack(RemMemory(book, a), s) \in Books
             /\ StatusOf(AddByStack(RemMemory(book, a), s))
  BY <1>1, AddByStackType, AddByStackStatus
<1>3. ASSUME NEW a \in Addrs, NEW b \in Addrs, NEW s \in Stacks, NEW n \in Sizes
      PROVE  StatusOf(AddByMemory(AddByStack(RemMemory(book, a), s), b, s, n))
  BY <1>2, AddByMemoryStatus
<1> QED
  BY <1>1, <1>2, <1>3, AddByStackStatus, AddByMemoryStatus DEF BookStep

(* StatusMatchesTable: with any number of threads and whatever fails, the    *)
(* number of items and the number of bytes that a reader of                  *)
(* ProgsInvestMemLeakInvestStatusPtr sees are those of the memory table.     *)
THEOREM StatusMatchesTableHolds == Spec => []StatusMatchesTable
<1>1. Init => StatusOf(book)
  <2> SUFFICES ASSUME Init PROVE StatusOf(book)
    OBVIOUS
  <2>1. /\ Tracked(book) = {}
        /\ book.allocatedItemsCount = 0 /\ book.memoryAllocatedInBytes = 0
    BY DEF Init, EmptyBook, Tracked
  <2>2. SizeSum(book.hashByMemory, {}) = 0
    BY SizeSumAt
  <2> QED
    BY <2>1, <2>2, FS_EmptySet DEF StatusOf
<1>2. TypeOK /\ FramesOK /\ StatusOf(book) /\ [Next]_vars => StatusOf(book)'
  <2> SUFFICES ASSUME TypeOK, FramesOK, StatusOf(book), [Next]_vars PROVE StatusOf(book')
    BY DEF StatusOf, Tracked, SizeSum, SumTable, AddsUp
  <2> QED
    BY BookMoves, StatusStep
<1> QED
  BY <1>1, <1>2, StatusAsSum, TypeCorrect, PTL DEF Spec
===============================================================================
