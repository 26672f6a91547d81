------------------------ MODULE ResidentForwardProofs ------------------------
(***************************************************************************)
(* For every number of layers, every combination of the fusion toggles,    *)
(* every slab and any number of forwards, some of which raise: what a      *)
(* layer still reads is in memory that is not handed out again             *)
(* (NeededIsHeld), and memory does not grow with the tokens (HeapSteady).  *)
(* With every combination of the toggles but the two that drop an          *)
(* operation, residuals, cached rows and logits are the reference's        *)
(* (SameForward).                                                          *)
(*                                                                         *)
(* None is inductive.  The residual is freed or overwritten at the         *)
(* layer's end, also when nothing reads it any more, so it has to be held  *)
(* all the time (Live); an operation in place must hit its own buffers     *)
(* only (Apart); where the heap is counted, it must be known after every   *)
(* operation (HeapIs, HostHeapIs); and for the values, every name still    *)
(* needed holds the right one, stage by stage (Right).                     *)
(*                                                                         *)
(* First what one operation does: the buffers it is given are new and      *)
(* different, each name it gives points to its own of them, and every      *)
(* other place keeps what it held, but for those written in place.  Then,  *)
(* operation by operation, the names its work gives.  On that what stays   *)
(* held, and on that the values: that a place keeps its value until it is  *)
(* read is what MemInv is for.  The residual "x" alone may be overwritten  *)
(* early: the carry fused into the down projection writes its home.        *)
(***************************************************************************)
EXTENDS ResidentForward, FiniteSetTheorems, SequenceTheorems, TLAPS

\* Where a buffer may be that is not to be overwritten: slab memory below the
\* bump pointer, or memory of cuMemAlloc that free_scratch leaves alone.
HeapHeld == {a \in {"heap"} \X Nat \X Nat : a[2] \in heap \ scratch}
SlabHeld == {a \in {"slab"} \X Nat \X Nat : On("SLAB") /\ a[2] < off}
Work     == HeapHeld \cup SlabHeld

Memory ==
  /\ off \in 0..SlabCap
  /\ heap \in SUBSET Nat /\ IsFiniteSet(heap)
  /\ scratch \in SUBSET heap
-----------------------------------------------------------------------------
(* The buffers cuMemAlloc gives.                                           *)

\* A set of numbers has a least one.
LEMMA LeastNumber ==
  ASSUME NEW T \in SUBSET Nat, T # {}
  PROVE  \E m \in T : \A k \in T : m <= k
<1> DEFINE R == OpToRel(<, Nat)
<1>1. IsWellFoundedOn(R, Nat)
  BY NatLessThanWellFounded
<1>2. \A k, n \in Nat : <<k, n>> \in R <=> k < n
  BY DEF OpToRel
<1> HIDE DEF R
<1>3. PICK m \in T : \A k \in T : ~ (<<k, m>> \in R)
  BY <1>1, WFMin
<1>4. ASSUME NEW k \in T PROVE m <= k
  <2>1. k \in Nat /\ m \in Nat
    OBVIOUS
  <2>2. ~ (k < m)
    BY <1>2, <1>3, <2>1, Zenon
  <2> QED BY <2>1, <2>2
<1> QED BY <1>4

\* There always is an i-th free buffer, and it is free.
LEMMA NthFreeIs ==
  ASSUME Memory, NEW i \in Nat \ {0}
  PROVE  NthFree(i) \in Nat \ heap /\ Cardinality((0..NthFree(i)) \ heap) = i
<1> DEFINE Free(b) == (0..b) \ heap
           most    == Cardinality(heap) + i
<1>h. heap \in SUBSET Nat /\ IsFiniteSet(heap) /\ Cardinality(heap) \in Nat
  BY FS_CardinalityType DEF Memory
<1>1. ASSUME NEW b \in Nat
      PROVE  /\ IsFiniteSet(Free(b)) /\ Cardinality(Free(b)) \in Nat
             /\ Cardinality(Free(b)) >= b + 1 - Cardinality(heap)
  <2>1. IsFiniteSet(0..b) /\ Cardinality(0..b) = b + 1
    BY FS_Interval
  <2>2. IsFiniteSet(Free(b)) /\ Cardinality(Free(b)) = Cardinality(0..b) - Cardinality((0..b) \cap heap)
    BY <2>1, FS_Difference
  <2>3. Cardinality((0..b) \cap heap) <= Cardinality(heap) /\ IsFiniteSet((0..b) \cap heap)
    BY <1>h, FS_Intersection
  <2>4. Cardinality((0..b) \cap heap) \in Nat /\ Cardinality(Free(b)) \in Nat
    BY <2>2, <2>3, FS_CardinalityType
  <2> HIDE DEF Free
  <2> QED BY <1>h, <2>1, <2>2, <2>3, <2>4
<1>2. Free(0) = IF 0 \in heap THEN {} ELSE {0}
  OBVIOUS
<1>3. ASSUME NEW b \in Nat \ {0}
      PROVE  Free(b) = IF b \in heap THEN Free(b - 1) ELSE Free(b - 1) \cup {b}
  <2>1. 0..b = (0..(b - 1)) \cup {b}
    OBVIOUS
  <2> QED BY <2>1
<1>4. ASSUME NEW b \in Nat \ {0}
      PROVE  Cardinality(Free(b)) = Cardinality(Free(b - 1)) + (IF b \in heap THEN 0 ELSE 1)
  <2>1. b - 1 \in Nat /\ b \notin Free(b - 1)
    OBVIOUS
  <2>2. IsFiniteSet(Free(b - 1)) /\ Cardinality(Free(b - 1)) \in Nat
    BY <1>1, <2>1
  <2> HIDE DEF Free
  <2>3. CASE b \in heap
    BY <1>3, <2>2, <2>3
  <2>4. CASE b \notin heap
    BY <1>3, <2>1, <2>2, <2>4, FS_AddElement
  <2> QED BY <2>3, <2>4
<1>5. Cardinality(Free(0)) = IF 0 \in heap THEN 0 ELSE 1
  <2>1. Cardinality({}) = 0 /\ Cardinality({0}) = 1
    BY FS_EmptySet, FS_Singleton
  <2> HIDE DEF Free
  <2> QED BY <1>2, <2>1
<1> HIDE DEF Free
<1>6. most \in Nat /\ Cardinality(Free(most)) >= i
  BY <1>h, <1>1
<1> DEFINE T == {b \in Nat : Cardinality(Free(b)) >= i}
<1>7. PICK b \in T : \A k \in T : b <= k
  <2>1. T \in SUBSET Nat /\ T # {}
    BY <1>6
  <2> HIDE DEF T
  <2> QED BY <2>1, LeastNumber
<1>8. b \in 0..most
  BY <1>6, <1>7, <1>h
<1>9. b \notin heap /\ Cardinality(Free(b)) = i
  <2>1. CASE b = 0
    BY <1>5, <1>7, <2>1
  <2>2. CASE b # 0
    <3>1. b - 1 \in Nat /\ b - 1 \notin T
      BY <1>7, <2>2
    <3>2. Cardinality(Free(b - 1)) < i /\ Cardinality(Free(b - 1)) \in Nat
      BY <1>1, <3>1
    <3> QED BY <1>4, <1>7, <2>2, <3>2
  <2> QED BY <2>1, <2>2
<1>10. \E c \in 0..most : c \notin heap /\ Cardinality((0..c) \ heap) = i
  BY <1>8, <1>9 DEF Free
<1>11. NthFree(i) \in 0..most /\ NthFree(i) \notin heap /\ Cardinality((0..NthFree(i)) \ heap) = i
  BY <1>10 DEF NthFree
<1> QED BY <1>6, <1>11

\* Different numbers give different buffers.
LEMMA NthFreeDiffer ==
  ASSUME Memory, NEW i \in Nat \ {0}, NEW j \in Nat \ {0}, NthFree(i) = NthFree(j)
  PROVE  i = j
BY NthFreeIs

\* So an operation's buffers are new and different from each other.
LEMMA SlotsAreNew ==
  ASSUME Memory, NEW i \in Nat \ {0}, NEW j \in Nat \ {0}
  PROVE  /\ Slot(i) \in Nat
         /\ IF On("SLAB") THEN Slot(i) = off + i - 1 ELSE Slot(i) \notin heap
         /\ Slot(i) = Slot(j) => i = j
<1>1. off \in Nat
  BY DEF Memory
<1>2. CASE On("SLAB")
  BY <1>1, <1>2 DEF Slot
<1>3. CASE ~On("SLAB")
  BY <1>3, NthFreeIs, NthFreeDiffer DEF Slot
<1> QED BY <1>2, <1>3
-----------------------------------------------------------------------------
(* An operation's work: which names it gives which values.                 *)

IsWork(w) == w \in Seq(Range(w))

NamedAt(w, n, i, p) == i \in DOMAIN w /\ p \in DOMAIN w[i].names /\ w[i].names[p] = n

Names(w) == UNION {Range(w[i].names) : i \in DOMAIN w}

\* The work has one place for the name, of the value v, and it is not scratch.
GivesAt(w, n, v, i, p) ==
  /\ NamedAt(w, n, i, p) /\ \A j, r : NamedAt(w, n, j, r) => j = i /\ r = p
  /\ p \in Nat /\ p \in DOMAIN w[i].vals /\ w[i].vals[p] = v
  /\ ~w[i].scratch
Gives(w, n, v) == \E i, p : GivesAt(w, n, v, i, p)

LEMMA WorkDomain ==
  ASSUME NEW w, IsWork(w)
  PROVE  Len(w) \in Nat /\ DOMAIN w = 1..Len(w)
BY LenProperties DEF IsWork

LEMMA NamesAre ==
  ASSUME NEW w, NEW n
  PROVE  n \in Names(w) <=> \E i, p : NamedAt(w, n, i, p)
BY DEF Names, NamedAt, Range

\* Works in a row.
Joined(c, a, b) ==
  /\ IsWork(c)
  /\ \A i \in DOMAIN a : i \in DOMAIN c /\ c[i] = a[i]
  /\ \A i \in DOMAIN b : Len(a) + i \in DOMAIN c /\ c[Len(a) + i] = b[i]
  /\ \A i \in DOMAIN c : i \in DOMAIN a \/ \E k \in DOMAIN b : i = Len(a) + k

LEMMA Concat ==
  ASSUME NEW a, NEW b, IsWork(a), IsWork(b)
  PROVE  Joined(a \o b, a, b)
<1> DEFINE S == Range(a) \cup Range(b)
           c == a \o b
<1>1. a \in Seq(S) /\ b \in Seq(S)
  BY SeqMonotonic DEF IsWork
<1>2. /\ a \o b \in Seq(S) /\ Len(a \o b) = Len(a) + Len(b)
      /\ \A i \in 1 .. Len(a) + Len(b) :
           (a \o b)[i] = IF i <= Len(a) THEN a[i] ELSE b[i - Len(a)]
  <2> HIDE DEF S
  <2> QED BY <1>1, ConcatProperties
<1>3. /\ c \in Seq(S) /\ Len(c) = Len(a) + Len(b)
      /\ \A i \in 1 .. Len(a) + Len(b) : c[i] = IF i <= Len(a) THEN a[i] ELSE b[i - Len(a)]
  BY <1>2
<1> HIDE DEF S, c
<1>4. IsWork(c)
  BY <1>3, SeqOfRange DEF IsWork
<1>5. /\ DOMAIN c = 1..(Len(a) + Len(b)) /\ DOMAIN a = 1..Len(a) /\ DOMAIN b = 1..Len(b)
      /\ Len(a) \in Nat /\ Len(b) \in Nat
  BY <1>3, <1>4, WorkDomain
<1>6. ASSUME NEW i \in DOMAIN c PROVE i \in DOMAIN a \/ \E k \in DOMAIN b : i = Len(a) + k
  <2>1. CASE i > Len(a)
    <3>1. i - Len(a) \in DOMAIN b /\ i = Len(a) + (i - Len(a))
      BY <1>5, <2>1
    <3> QED BY <3>1
  <2>2. CASE i <= Len(a)
    BY <1>5, <2>2
  <2> QED BY <1>5, <2>1, <2>2
<1>7. \A i \in DOMAIN a : i \in DOMAIN c /\ c[i] = a[i]
  BY <1>3, <1>5
<1>8. \A i \in DOMAIN b : Len(a) + i \in DOMAIN c /\ c[Len(a) + i] = b[i]
  BY <1>3, <1>5
<1>9. Joined(c, a, b)
  BY <1>4, <1>6, <1>7, <1>8 DEF Joined
<1> QED BY <1>9 DEF c

LEMMA NamedInJoin ==
  ASSUME NEW a, NEW b, NEW c, Joined(c, a, b), NEW n, NEW i, NEW p
  PROVE  /\ NamedAt(a, n, i, p) => NamedAt(c, n, i, p)
         /\ NamedAt(b, n, i, p) => NamedAt(c, n, Len(a) + i, p)
         /\ NamedAt(c, n, i, p) => \/ NamedAt(a, n, i, p)
                                   \/ \E k : NamedAt(b, n, k, p) /\ i = Len(a) + k
BY DEF Joined, NamedAt

LEMMA NamesConcat ==
  ASSUME NEW a, NEW b, IsWork(a), IsWork(b)
  PROVE  IsWork(a \o b) /\ Names(a \o b) = Names(a) \cup Names(b)
<1> DEFINE c == a \o b
<1>1. Joined(c, a, b)
  BY Concat
<1> HIDE DEF c
<1>2. ASSUME NEW n, n \in Names(c) PROVE n \in Names(a) \cup Names(b)
  <2>1. PICK i, p : NamedAt(c, n, i, p)
    BY <1>2, NamesAre
  <2>2. (\E k : NamedAt(a, n, k, p)) \/ (\E k : NamedAt(b, n, k, p))
    BY <1>1, <2>1, NamedInJoin
  <2> QED BY <2>2, NamesAre
<1>3. ASSUME NEW n, n \in Names(a) \cup Names(b) PROVE n \in Names(c)
  <2>1. CASE n \in Names(a)
    <3>1. PICK i, p : NamedAt(a, n, i, p)
      BY <2>1, NamesAre
    <3>2. NamedAt(c, n, i, p)
      BY <1>1, <3>1, NamedInJoin
    <3> QED BY <3>2, NamesAre
  <2>2. CASE n \in Names(b)
    <3>1. PICK i, p : NamedAt(b, n, i, p)
      BY <2>2, NamesAre
    <3>2. NamedAt(c, n, Len(a) + i, p)
      BY <1>1, <3>1, NamedInJoin
    <3> QED BY <3>2, NamesAre
  <2> QED BY <1>3, <2>1, <2>2
<1> QED BY <1>1, <1>2, <1>3 DEF c, Joined

\* What one of them gives they give together, if the other does not use the name.
LEMMA GivesFirst ==
  ASSUME NEW a, NEW b, IsWork(a), IsWork(b), NEW n, NEW v, Gives(a, n, v), n \notin Names(b)
  PROVE  Gives(a \o b, n, v)
<1> DEFINE c == a \o b
<1>1. Joined(c, a, b)
  BY Concat
<1> HIDE DEF c
<1>2. PICK i, p : GivesAt(a, n, v, i, p)
  BY DEF Gives
<1>3. c[i] = a[i]
  BY <1>1, <1>2 DEF Joined, GivesAt, NamedAt
<1>4. ASSUME NEW j, NEW r, NamedAt(c, n, j, r) PROVE j = i /\ r = p
  <2>1. NamedAt(a, n, j, r)
    BY <1>1, <1>4, NamesAre, NamedInJoin
  <2> QED BY <1>2, <2>1 DEF GivesAt
<1>5. NamedAt(c, n, i, p)
  BY <1>1, <1>2, NamedInJoin DEF GivesAt
<1>6. GivesAt(c, n, v, i, p)
  BY <1>2, <1>3, <1>4, <1>5 DEF GivesAt
<1> QED BY <1>6 DEF Gives, c

LEMMA GivesSecond ==
  ASSUME NEW a, NEW b, IsWork(a), IsWork(b), NEW n, NEW v, Gives(b, n, v), n \notin Names(a)
  PROVE  Gives(a \o b, n, v)
<1> DEFINE c == a \o b
<1>1. Joined(c, a, b)
  BY Concat
<1> HIDE DEF c
<1>2. PICK i, p : GivesAt(b, n, v, i, p)
  BY DEF Gives
<1>3. c[Len(a) + i] = b[i]
  BY <1>1, <1>2 DEF Joined, GivesAt, NamedAt
<1>4. ASSUME NEW j, NEW r, NamedAt(c, n, j, r) PROVE j = Len(a) + i /\ r = p
  <2>1. PICK k : NamedAt(b, n, k, r) /\ j = Len(a) + k
    BY <1>1, <1>4, NamesAre, NamedInJoin
  <2> QED BY <1>2, <2>1 DEF GivesAt
<1>5. NamedAt(c, n, Len(a) + i, p)
  BY <1>1, <1>2, NamedInJoin DEF GivesAt
<1>6. GivesAt(c, n, v, Len(a) + i, p)
  BY <1>2, <1>3, <1>4, <1>5 DEF GivesAt
<1> QED BY <1>6 DEF Gives, c

\* A buffer gives its names.
LEMMA GivesBuffer ==
  ASSUME NEW k \in Nat, NEW ns, NEW vs, DOMAIN ns = 1..k, DOMAIN vs = 1..k,
         \A p, r \in 1..k : ns[p] = ns[r] => p = r
  PROVE  LET w == <<Buffer(ns, vs)>>
         IN  /\ IsWork(w) /\ Names(w) = Range(ns)
             /\ \A p \in 1..k : Gives(w, ns[p], vs[p])
<1> DEFINE w == <<Buffer(ns, vs)>>
<1>1. DOMAIN w = {1} /\ w[1] = Buffer(ns, vs) /\ Len(w) = 1
  OBVIOUS
<1>2. IsWork(w)
  BY DEF IsWork, Range
<1>3. /\ Buffer(ns, vs).names = ns /\ Buffer(ns, vs).vals = vs /\ ~Buffer(ns, vs).scratch
  BY DEF Buffer
<1> HIDE DEF w
<1>4. Names(w) = Range(ns)
  BY <1>1, <1>3 DEF Names
<1>5. ASSUME NEW p \in 1..k PROVE GivesAt(w, ns[p], vs[p], 1, p)
  BY <1>1, <1>3 DEF GivesAt, NamedAt
<1>6. \A p \in 1..k : Gives(w, ns[p], vs[p])
  BY <1>5 DEF Gives
<1> QED BY <1>2, <1>4, <1>6 DEF w

\* Temporary and scratch buffers have no names, and one output has one.
LEMMA NamelessWork ==
  ASSUME NEW v, NEW u
  PROVE  /\ IsWork(<< >>) /\ Names(<< >>) = {}
         /\ IsWork(<<Temp(v)>>) /\ Names(<<Temp(v)>>) = {}
         /\ IsWork(<<Scratch(v), Scratch(u)>>) /\ Names(<<Scratch(v), Scratch(u)>>) = {}
<1>1. IsWork(<< >>) /\ IsWork(<<Temp(v)>>) /\ IsWork(<<Scratch(v), Scratch(u)>>)
  BY DEF IsWork, Range
<1>2. Temp(v).names = << >> /\ Scratch(v).names = << >> /\ Scratch(u).names = << >>
  BY DEF Temp, Scratch, Buffer
<1>3. Range(<< >>) = {}
  BY DEF Range
<1>4. Names(<< >>) = {}
  BY DEF Names
<1>5. Names(<<Temp(v)>>) = {}
  BY <1>2, <1>3 DEF Names
<1>6. Names(<<Scratch(v), Scratch(u)>>) = {}
  <2>1. DOMAIN <<Scratch(v), Scratch(u)>> = {1, 2}
    OBVIOUS
  <2> QED BY <1>2, <1>3, <2>1 DEF Names
<1> QED BY <1>1, <1>4, <1>5, <1>6

LEMMA GivesOut ==
  ASSUME NEW n, NEW v
  PROVE  IsWork(<<Out(n, v)>>) /\ Names(<<Out(n, v)>>) = {n} /\ Gives(<<Out(n, v)>>, n, v)
<1> DEFINE ns == <<n>>
           vs == <<v>>
<1>1. DOMAIN ns = 1..1 /\ DOMAIN vs = 1..1 /\ Range(ns) = {n} /\ ns[1] = n /\ vs[1] = v
  BY DEF Range
<1>2. \A p, r \in 1..1 : ns[p] = ns[r] => p = r
  OBVIOUS
<1> HIDE DEF ns, vs
<1>3. /\ IsWork(<<Buffer(ns, vs)>>) /\ Names(<<Buffer(ns, vs)>>) = Range(ns)
      /\ \A p \in 1..1 : Gives(<<Buffer(ns, vs)>>, ns[p], vs[p])
  BY <1>1, <1>2, GivesBuffer
<1>4. Out(n, v) = Buffer(ns, vs)
  BY DEF Out, ns, vs
<1> QED BY <1>1, <1>3, <1>4
-----------------------------------------------------------------------------
(* The works of the linears: they give their outputs.                      *)

\* Outputs under different names.
Proper(ns, vs, k) ==
  /\ k \in Nat /\ DOMAIN ns = 1..k /\ DOMAIN vs = 1..k
  /\ \A p, r \in 1..k : ns[p] = ns[r] => p = r

\* The work gives these outputs and names nothing else.
GivesAll(w, ns, vs, k) ==
  /\ IsWork(w) /\ Names(w) = Range(ns)
  /\ \A p \in 1..k : Gives(w, ns[p], vs[p])

LEMMA OneBuffer ==
  ASSUME NEW ns, NEW vs, NEW k, Proper(ns, vs, k)
  PROVE  GivesAll(<<Buffer(ns, vs)>>, ns, vs, k)
BY GivesBuffer DEF Proper, GivesAll

\* After work without names.
LEMMA GivesAfter ==
  ASSUME NEW w0, NEW w, NEW ns, NEW vs, NEW k, GivesAll(w, ns, vs, k),
         IsWork(w0), Names(w0) = {}
  PROVE  GivesAll(w0 \o w, ns, vs, k)
<1>1. IsWork(w) /\ Names(w) = Range(ns) /\ \A p \in 1..k : Gives(w, ns[p], vs[p])
  BY DEF GivesAll
<1>2. IsWork(w0 \o w) /\ Names(w0 \o w) = Range(ns)
  BY <1>1, NamesConcat
<1>3. \A p \in 1..k : Gives(w0 \o w, ns[p], vs[p])
  BY <1>1, GivesSecond
<1> QED BY <1>2, <1>3 DEF GivesAll

LEMMA LinearGives ==
  ASSUME NEW x, NEW ns, NEW vs, NEW k, Proper(ns, vs, k)
  PROVE  GivesAll(LinearWork(x, ns, vs), ns, vs, k)
<1> DEFINE w0 == IF InKernelQuant THEN << >> ELSE QuantScratch(x)
<1>1. IsWork(w0) /\ Names(w0) = {}
  BY NamelessWork DEF QuantScratch
<1>2. LinearWork(x, ns, vs) = w0 \o <<Buffer(ns, vs)>>
  BY DEF LinearWork
<1> HIDE DEF w0
<1> QED BY <1>1, <1>2, OneBuffer, GivesAfter

LEMMA AddResGives ==
  ASSUME NEW x, NEW ns, NEW vs, NEW k, Proper(ns, vs, k)
  PROVE  GivesAll(AddResWork(x, ns, vs), ns, vs, k)
<1> DEFINE w0 == QuantScratch(x)
<1>1. IsWork(w0) /\ Names(w0) = {}
  BY NamelessWork DEF QuantScratch
<1>2. AddResWork(x, ns, vs) = w0 \o <<Buffer(ns, vs)>>
  BY DEF AddResWork
<1> HIDE DEF w0
<1> QED BY <1>1, <1>2, OneBuffer, GivesAfter

\* A linear whose output has no name.
LEMMA LinearNameless ==
  ASSUME NEW x, NEW vs
  PROVE  IsWork(LinearWork(x, << >>, vs)) /\ Names(LinearWork(x, << >>, vs)) = {}
<1> DEFINE w0 == IF InKernelQuant THEN << >> ELSE QuantScratch(x)
           w1 == <<Buffer(<< >>, vs)>>
<1>1. IsWork(w0) /\ Names(w0) = {}
  BY NamelessWork DEF QuantScratch
<1>2. IsWork(w1) /\ Names(w1) = {}
  <2>1. w1[1].names = << >> /\ DOMAIN w1 = {1} /\ Range(<< >>) = {}
    BY DEF Buffer, Range
  <2>2. IsWork(w1)
    BY DEF IsWork, Range
  <2> HIDE DEF w1
  <2> QED BY <2>1, <2>2 DEF Names
<1>3. LinearWork(x, << >>, vs) = w0 \o w1
  BY DEF LinearWork
<1> DEFINE c == w0 \o w1
<1> HIDE DEF w0, w1
<1>4. IsWork(c) /\ Names(c) = {} \cup {}
  BY <1>1, <1>2, NamesConcat
<1>5. LinearWork(x, << >>, vs) = c
  BY <1>3
<1> HIDE DEF c
<1> QED BY <1>4, <1>5

\* The outputs of one GEMV with their biases.
LEMMA BiasedGives ==
  ASSUME NEW x, NEW ns, NEW k, Proper(ns, [i \in DOMAIN ns |-> Biased(x, ns[i])], k)
  PROVE  GivesAll(BiasedWork(x, ns), ns, [i \in DOMAIN ns |-> Biased(x, ns[i])], k)
<1> DEFINE biased == [i \in DOMAIN ns |-> Biased(x, ns[i])]
           plain  == [i \in DOMAIN ns |-> Lin(x, ns[i])]
<1>1. CASE On("BIAS_FOLD") /\ On("ADDRES_FUSED")
  <2>1. BiasedWork(x, ns) = AddResWork(x, ns, biased)
    BY <1>1 DEF BiasedWork
  <2> HIDE DEF biased
  <2>2. GivesAll(AddResWork(x, ns, biased), ns, biased, k)
    BY AddResGives DEF biased
  <2> QED BY <2>1, <2>2 DEF biased
<1>2. CASE ~(On("BIAS_FOLD") /\ On("ADDRES_FUSED"))
  <2>1. BiasedWork(x, ns) = LinearWork(x, << >>, plain) \o <<Buffer(ns, biased)>>
    BY <1>2 DEF BiasedWork
  <2>2. Proper(ns, biased, k)
    OBVIOUS
  <2> HIDE DEF biased, plain
  <2>3. IsWork(LinearWork(x, << >>, plain)) /\ Names(LinearWork(x, << >>, plain)) = {}
    BY LinearNameless
  <2>4. GivesAll(<<Buffer(ns, biased)>>, ns, biased, k)
    BY <2>2, OneBuffer
  <2>5. GivesAll(BiasedWork(x, ns), ns, biased, k)
    BY <2>1, <2>3, <2>4, GivesAfter
  <2> QED BY <2>5 DEF biased
<1> QED BY <1>1, <1>2
-----------------------------------------------------------------------------
(* What an operation does to memory, and to the names.                     *)

\* The places that outlive the buffers of an operation.
Fixed == {ResidIn, ResidOut, Tensor("xh"), Tensor("yh")}

LEMMA PartsAre ==
  ASSUME NEW s, NEW c
  PROVE  c \in Parts(s) <=> \E i \in DOMAIN s : \E p \in DOMAIN s[i] : c = <<i, p>>
BY DEF Parts

\* A new buffer is at a place of its own.
LEMMA NewPlace ==
  ASSUME Memory, NEW w, IsWork(w), NEW i \in DOMAIN w, NEW p
  PROVE  /\ Loc(i, p) \notin Work \cup Fixed
         /\ \A j \in DOMAIN w : \A r : Loc(i, p) = Loc(j, r) => i = j /\ p = r
<1>1. \A j \in DOMAIN w : j \in Nat \ {0}
  BY WorkDomain
<1>2. /\ Slot(i) \in Nat
      /\ IF On("SLAB") THEN Slot(i) = off + i - 1 ELSE Slot(i) \notin heap
  BY <1>1, SlotsAreNew
<1>3. \A j \in DOMAIN w : Slot(i) = Slot(j) => i = j
  BY <1>1, SlotsAreNew
<1>4. Loc(i, p) = <<IF On("SLAB") THEN "slab" ELSE "heap", Slot(i), p>>
  BY DEF Loc
<1>5. Loc(i, p) \notin Fixed
  BY <1>4 DEF Fixed, ResidIn, ResidOut, Tensor
<1>6. Loc(i, p) \notin Work
  BY <1>1, <1>2, <1>4 DEF Work, HeapHeld, SlabHeld, Memory
<1>7. ASSUME NEW j \in DOMAIN w, NEW r, Loc(i, p) = Loc(j, r) PROVE i = j /\ p = r
  BY <1>3, <1>7 DEF Loc
<1> QED BY <1>5, <1>6, <1>7

\* Memory stays as it should be, and what was held is still held.
LEMMA LaunchMemory ==
  ASSUME Memory, NEW w, IsWork(w), NEW pl, NEW nx, Launch(w, pl, nx)
  PROVE  /\ Memory' /\ Work \subseteq Work' /\ HeapHeld \subseteq HeapHeld'
         /\ \A i \in DOMAIN w : \A p \in Nat : ~w[i].scratch => Loc(i, p) \in Work'
         /\ On("SLAB") => heap' = heap
<1>1. DOMAIN w = 1..Len(w) /\ Len(w) \in Nat
  BY WorkDomain
<1>2. setup' = setup /\ Fits(Len(w)) /\ Allocate(w)
  BY DEF Launch
<1>3. \A i \in DOMAIN w : Slot(i) \in Nat
  BY <1>1, SlotsAreNew
<1>4. \A i, j \in DOMAIN w : Slot(i) = Slot(j) => i = j
  BY <1>1, SlotsAreNew
<1>5. CASE On("SLAB")
  <2>1. off' = off + Len(w) /\ heap' = heap /\ scratch' = scratch /\ off + Len(w) <= SlabCap
    BY <1>2, <1>5 DEF Allocate, Fits
  <2>2. Memory'
    BY <1>1, <1>2, <2>1 DEF Memory, SlabCap
  <2>3. Work \subseteq Work' /\ HeapHeld \subseteq HeapHeld'
    BY <1>1, <1>2, <2>1 DEF Work, HeapHeld, SlabHeld, Memory, On
  <2>4. ASSUME NEW i \in DOMAIN w, NEW p \in Nat PROVE Loc(i, p) \in Work'
    <3>1. Slot(i) = off + i - 1 /\ off \in Nat
      BY <1>1, <1>5, SlotsAreNew DEF Memory
    <3>2. Loc(i, p) = <<"slab", off + i - 1, p>>
      BY <1>5, <3>1 DEF Loc
    <3>3. off + i - 1 \in Nat /\ off + i - 1 < off'
      BY <1>1, <2>1, <3>1
    <3>4. On("SLAB")'
      BY <1>2, <1>5 DEF On
    <3>5. Loc(i, p) \in SlabHeld'
      BY <3>2, <3>3, <3>4 DEF SlabHeld
    <3> QED BY <3>5 DEF Work
  <2> QED BY <2>1, <2>2, <2>3, <2>4
<1>6. CASE ~On("SLAB")
  <2> DEFINE A == {Slot(i) : i \in DOMAIN w}
             B == {Slot(i) : i \in {j \in DOMAIN w : w[j].scratch}}
  <2>1. off' = off /\ heap' = heap \cup A /\ scratch' = scratch \cup B
    BY <1>2, <1>6 DEF Allocate
  <2>2. A \in SUBSET Nat /\ B \in SUBSET A /\ A \cap heap = {}
    BY <1>1, <1>3, <1>6, SlotsAreNew
  <2>3. IsFiniteSet(A)
    <3>1. IsFiniteSet(1..Len(w))
      BY <1>1, FS_Interval
    <3> DEFINE f == [i \in 1..Len(w) |-> Slot(i)]
    <3>2. f \in Surjection(1..Len(w), A)
      BY <1>1 DEF Surjection
    <3> HIDE DEF A, f
    <3> QED BY <3>1, <3>2, FS_Surjection
  <2>4. \A i \in DOMAIN w : ~w[i].scratch => Slot(i) \in A \ B
    BY <1>4
  <2> HIDE DEF A, B
  <2>5. Memory'
    <3>1. IsFiniteSet(heap \cup A)
      BY <2>3, FS_Union DEF Memory
    <3> QED BY <1>2, <2>1, <2>2, <3>1 DEF Memory, SlabCap
  <2>6. HeapHeld \subseteq HeapHeld'
    BY <2>1, <2>2 DEF HeapHeld, Memory
  <2>7. Work \subseteq Work'
    BY <1>2, <1>6, <2>6 DEF Work, SlabHeld, On
  <2>8. ASSUME NEW i \in DOMAIN w, NEW p \in Nat, ~w[i].scratch PROVE Loc(i, p) \in Work'
    <3>1. Slot(i) \in A \ B /\ Slot(i) \in Nat /\ Slot(i) \notin heap
      BY <1>1, <1>3, <1>6, <2>4, <2>8, SlotsAreNew
    <3>2. Loc(i, p) = <<"heap", Slot(i), p>>
      BY <1>6 DEF Loc
    <3>3. Slot(i) \in heap' \ scratch'
      BY <2>1, <3>1 DEF Memory
    <3>4. Loc(i, p) \in HeapHeld'
      BY <3>1, <3>2, <3>3 DEF HeapHeld
    <3> QED BY <3>4 DEF Work
  <2> QED BY <1>6, <2>5, <2>6, <2>7, <2>8
<1> QED BY <1>5, <1>6

\* A name the work gives points to its buffer, which holds the value.
LEMMA LaunchGives ==
  ASSUME Memory, NEW w, IsWork(w), NEW pl, NEW nx, Launch(w, pl, nx),
         NEW n, NEW v, NEW i, NEW p, GivesAt(w, n, v, i, p)
  PROVE  /\ n \in DOMAIN ptr' /\ ptr'[n] = Loc(i, p) /\ Read(n)' = v
         /\ Loc(i, p) \in Work' /\ Loc(i, p) \notin Work \cup Fixed
<1> DEFINE vals  == [k \in DOMAIN w |-> w[k].vals]
           names == [k \in DOMAIN w |-> w[k].names]
           c0    == <<i, p>>
           At(a) == {c \in Parts(vals) : Loc(c[1], c[2]) = a}
           Of(m) == {c \in Parts(names) : names[c[1]][c[2]] = m}
           newL  == {Loc(c[1], c[2]) : c \in Parts(vals)}
           newN  == {names[c[1]][c[2]] : c \in Parts(names)}
<1>1. /\ i \in DOMAIN w /\ p \in DOMAIN w[i].names /\ w[i].names[p] = n /\ p \in Nat
      /\ p \in DOMAIN w[i].vals /\ w[i].vals[p] = v /\ ~w[i].scratch
      /\ \A j, r : NamedAt(w, n, j, r) => j = i /\ r = p
  BY DEF GivesAt, NamedAt
<1>2. c0 \in Parts(names)
  BY <1>1, PartsAre
<1>3. ASSUME NEW c \in Of(n) PROVE c = c0
  <2>1. PICK j \in DOMAIN names : \E r \in DOMAIN names[j] : c = <<j, r>>
    BY PartsAre
  <2>2. PICK r \in DOMAIN names[j] : c = <<j, r>>
    BY <2>1
  <2>3. NamedAt(w, n, j, r)
    BY <2>1, <2>2 DEF NamedAt
  <2> QED BY <1>1, <2>2, <2>3
<1>4. n \in newN /\ Of(n) = {c0}
  <2>1. names[c0[1]][c0[2]] = n
    BY <1>1
  <2> QED BY <1>2, <1>3, <2>1
<1>5. n \in DOMAIN Pointed(w) /\ Pointed(w)[n] = Loc(i, p)
  <2>1. Pointed(w) = [m \in newN \cup DOMAIN ptr |->
                        IF m \in newN THEN LET c == CHOOSE c \in Of(m) : TRUE IN Loc(c[1], c[2])
                                       ELSE ptr[m]]
    BY DEF Pointed
  <2>2. (CHOOSE c \in Of(n) : TRUE) = c0
    BY <1>4
  <2> HIDE DEF newN, Of
  <2> QED BY <1>4, <2>1, <2>2
<1>6. c0 \in Parts(vals)
  BY <1>1, PartsAre
<1>7. ASSUME NEW c \in At(Loc(i, p)) PROVE c = c0
  <2>1. PICK j \in DOMAIN vals : \E r \in DOMAIN vals[j] : c = <<j, r>>
    BY PartsAre
  <2>2. PICK r \in DOMAIN vals[j] : c = <<j, r>>
    BY <2>1
  <2>3. Loc(i, p) = Loc(j, r) /\ j \in DOMAIN w
    BY <2>1, <2>2
  <2> QED BY <1>1, <2>2, <2>3, NewPlace
<1>8. Loc(i, p) \in newL /\ At(Loc(i, p)) = {c0}
  BY <1>6, <1>7
<1>9. Loc(i, p) \in DOMAIN Written(w, pl) /\ Written(w, pl)[Loc(i, p)] = v
  <2>1. Written(w, pl) =
          [a \in newL \cup DOMAIN pl \cup DOMAIN mem |->
             CASE a \in newL -> LET c == CHOOSE c \in At(a) : TRUE IN vals[c[1]][c[2]]
               [] a \in DOMAIN pl \ newL -> pl[a]
               [] OTHER -> mem[a]]
    BY DEF Written
  <2>2. (CHOOSE c \in At(Loc(i, p)) : TRUE) = c0
    BY <1>8
  <2>3. vals[c0[1]][c0[2]] = v
    BY <1>1
  <2> HIDE DEF newL, At, vals, c0
  <2>4. Loc(i, p) \in newL
    BY <1>8
  <2> QED BY <2>1, <2>2, <2>3, <2>4
<1>10. mem' = Written(w, pl) /\ ptr' = Pointed(w)
  BY DEF Launch
<1>11. Read(n)' = v
  BY <1>5, <1>9, <1>10 DEF Read
<1> QED BY <1>1, <1>5, <1>10, <1>11, NewPlace, LaunchMemory

\* What lives at a place that outlives the operation, it changes in place only.
LEMMA LaunchWrites ==
  ASSUME Memory, NEW w, IsWork(w), NEW pl, NEW nx, Launch(w, pl, nx),
         NEW a \in Work \cup Fixed
  PROVE  /\ a \in DOMAIN mem' <=> a \in DOMAIN pl \cup DOMAIN mem
         /\ a \in DOMAIN pl => mem'[a] = pl[a]
         /\ a \in DOMAIN mem \ DOMAIN pl => mem'[a] = mem[a]
<1> DEFINE vals  == [k \in DOMAIN w |-> w[k].vals]
           At(b) == {c \in Parts(vals) : Loc(c[1], c[2]) = b}
           newL  == {Loc(c[1], c[2]) : c \in Parts(vals)}
<1>1. a \notin newL
  <2>1. ASSUME NEW c \in Parts(vals) PROVE Loc(c[1], c[2]) # a
    <3>1. PICK j \in DOMAIN vals : \E r \in DOMAIN vals[j] : c = <<j, r>>
      BY PartsAre
    <3>2. PICK r \in DOMAIN vals[j] : c = <<j, r>>
      BY <3>1
    <3>3. j \in DOMAIN w /\ c[1] = j
      BY <3>1, <3>2
    <3> QED BY <3>3, NewPlace
  <2> QED BY <2>1
<1>2. mem' =
          [b \in newL \cup DOMAIN pl \cup DOMAIN mem |->
             CASE b \in newL -> LET c == CHOOSE c \in At(b) : TRUE IN vals[c[1]][c[2]]
               [] b \in DOMAIN pl \ newL -> pl[b]
               [] OTHER -> mem[b]]
  BY DEF Launch, Written
<1> HIDE DEF newL, At, vals
<1> QED BY <1>1, <1>2

LEMMA LaunchKeeps ==
  ASSUME Memory, NEW w, IsWork(w), NEW pl, NEW nx, Launch(w, pl, nx),
         NEW n \in DOMAIN ptr, n \notin Names(w), ptr[n] \in Work \cup Fixed
  PROVE  /\ n \in DOMAIN ptr' /\ ptr'[n] = ptr[n]
         /\ Read(n)' = IF ptr[n] \in DOMAIN pl THEN pl[ptr[n]] ELSE Read(n)
<1> DEFINE names == [k \in DOMAIN w |-> w[k].names]
           Of(m) == {c \in Parts(names) : names[c[1]][c[2]] = m}
           newN  == {names[c[1]][c[2]] : c \in Parts(names)}
<1>1. n \notin newN
  <2>1. ASSUME NEW c \in Parts(names) PROVE names[c[1]][c[2]] # n
    <3>1. PICK j \in DOMAIN names : \E r \in DOMAIN names[j] : c = <<j, r>>
      BY PartsAre
    <3>2. PICK r \in DOMAIN names[j] : c = <<j, r>>
      BY <3>1
    <3>3. NamedAt(w, names[j][r], j, r)
      BY <3>1, <3>2 DEF NamedAt
    <3>4. names[c[1]][c[2]] \in Names(w)
      BY <3>2, <3>3, NamesAre
    <3> QED BY <3>4
  <2> QED BY <2>1
<1>2. ptr' = [m \in newN \cup DOMAIN ptr |->
                IF m \in newN THEN LET c == CHOOSE c \in Of(m) : TRUE IN Loc(c[1], c[2])
                               ELSE ptr[m]]
  BY DEF Launch, Pointed
<1> HIDE DEF newN, Of, names
<1>3. n \in DOMAIN ptr' /\ ptr'[n] = ptr[n]
  BY <1>1, <1>2
<1> QED BY <1>3, LaunchWrites DEF Read
-----------------------------------------------------------------------------
(* The work of every operation.                                            *)

\* One output at the end of work that does not use its name.
LEMMA ThenOut ==
  ASSUME NEW w, IsWork(w), NEW n, NEW v, n \notin Names(w)
  PROVE  LET c == w \o <<Out(n, v)>>
         IN  IsWork(c) /\ Names(c) = Names(w) \cup {n} /\ Gives(c, n, v)
<1>1. IsWork(<<Out(n, v)>>) /\ Names(<<Out(n, v)>>) = {n} /\ Gives(<<Out(n, v)>>, n, v)
  BY GivesOut
<1> DEFINE o == <<Out(n, v)>>
<1> HIDE DEF o
<1>2. IsWork(w \o o) /\ Names(w \o o) = Names(w) \cup {n}
  BY <1>1, NamesConcat DEF o
<1>3. Gives(w \o o, n, v)
  BY <1>1, GivesSecond DEF o
<1> QED BY <1>2, <1>3 DEF o

\* One output, or two, of a work that gives all of its own.
LEMMA GivesOne ==
  ASSUME NEW w, NEW n, NEW v, GivesAll(w, <<n>>, <<v>>, 1)
  PROVE  IsWork(w) /\ Names(w) = {n} /\ Gives(w, n, v)
<1>1. Range(<<n>>) = {n}
  BY DEF Range
<1>2. 1 \in 1..1 /\ <<n>>[1] = n /\ <<v>>[1] = v
  OBVIOUS
<1>3. IsWork(w) /\ Names(w) = {n} /\ Gives(w, <<n>>[1], <<v>>[1])
  BY <1>1, <1>2 DEF GivesAll
<1> QED BY <1>2, <1>3

LEMMA ProperOne ==
  ASSUME NEW n, NEW v
  PROVE  Proper(<<n>>, <<v>>, 1)
BY DEF Proper

LEMMA LinearOne ==
  ASSUME NEW x, NEW n, NEW v
  PROVE  LET w == LinearWork(x, <<n>>, <<v>>)
         IN  IsWork(w) /\ Names(w) = {n} /\ Gives(w, n, v)
<1> DEFINE w == LinearWork(x, <<n>>, <<v>>)
<1>1. GivesAll(w, <<n>>, <<v>>, 1)
  BY ProperOne, LinearGives
<1> HIDE DEF w
<1>2. IsWork(w) /\ Names(w) = {n} /\ Gives(w, n, v)
  BY <1>1, GivesOne
<1> QED BY <1>2 DEF w

LEMMA AddResOne ==
  ASSUME NEW x, NEW n, NEW v
  PROVE  LET w == AddResWork(x, <<n>>, <<v>>)
         IN  IsWork(w) /\ Names(w) = {n} /\ Gives(w, n, v)
<1> DEFINE w == AddResWork(x, <<n>>, <<v>>)
<1>1. GivesAll(w, <<n>>, <<v>>, 1)
  BY ProperOne, AddResGives
<1> HIDE DEF w
<1>2. IsWork(w) /\ Names(w) = {n} /\ Gives(w, n, v)
  BY <1>1, GivesOne
<1> QED BY <1>2 DEF w

LEMMA BiasedOne ==
  ASSUME NEW x, NEW n
  PROVE  LET w == BiasedWork(x, <<n>>)
         IN  IsWork(w) /\ Names(w) = {n} /\ Gives(w, n, Biased(x, n))
<1> DEFINE w  == BiasedWork(x, <<n>>)
           ns == <<n>>
           bs == [i \in DOMAIN ns |-> Biased(x, ns[i])]
<1>1. Proper(ns, bs, 1) /\ 1 \in 1..1 /\ ns[1] = n /\ bs[1] = Biased(x, n) /\ Range(ns) = {n}
  BY DEF Proper, Range
<1>2. GivesAll(w, ns, bs, 1)
  <2> HIDE DEF ns
  <2> QED BY <1>1, BiasedGives DEF ns
<1> HIDE DEF w, ns, bs
<1>3. IsWork(w) /\ Names(w) = {n} /\ Gives(w, n, Biased(x, n))
  BY <1>1, <1>2 DEF GivesAll
<1> QED BY <1>3 DEF w, ns

\* Q, K and V, from one GEMV or from three.
GivesQkv(w, h) ==
  /\ IsWork(w) /\ Names(w) = {"q", "k", "v"}
  /\ \A n \in {"q", "k", "v"} : Gives(w, n, Biased(h, n))

LEMMA QkvOfOne ==
  ASSUME NEW h
  PROVE  GivesQkv(BiasedWork(h, <<"q", "k", "v">>), h)
<1> DEFINE ns == <<"q", "k", "v">>
           w  == BiasedWork(h, ns)
           bs == [i \in DOMAIN ns |-> Biased(h, ns[i])]
<1>1. /\ Proper(ns, bs, 3) /\ Range(ns) = {"q", "k", "v"}
      /\ ns[1] = "q" /\ ns[2] = "k" /\ ns[3] = "v"
      /\ bs[1] = Biased(h, "q") /\ bs[2] = Biased(h, "k") /\ bs[3] = Biased(h, "v")
  BY DEF Proper, Range
<1>2. GivesAll(w, ns, bs, 3)
  <2> HIDE DEF ns
  <2> QED BY <1>1, BiasedGives
<1>3. 1 \in 1..3 /\ 2 \in 1..3 /\ 3 \in 1..3
  OBVIOUS
<1> HIDE DEF w, ns, bs
<1>4. IsWork(w) /\ Names(w) = {"q", "k", "v"} /\ Gives(w, ns[1], bs[1])
         /\ Gives(w, ns[2], bs[2]) /\ Gives(w, ns[3], bs[3])
  BY <1>1, <1>2, <1>3 DEF GivesAll
<1>5. GivesQkv(w, h)
  BY <1>1, <1>4 DEF GivesQkv
<1> QED BY <1>5 DEF w, ns

LEMMA QkvOfThree ==
  ASSUME NEW h
  PROVE  GivesQkv(BiasedWork(h, <<"q">>) \o BiasedWork(h, <<"k">>) \o BiasedWork(h, <<"v">>), h)
<1> DEFINE a == BiasedWork(h, <<"q">>)
           b == BiasedWork(h, <<"k">>)
           c == BiasedWork(h, <<"v">>)
           d == a \o b
           e == d \o c
<1>1. /\ IsWork(a) /\ Names(a) = {"q"} /\ Gives(a, "q", Biased(h, "q"))
      /\ IsWork(b) /\ Names(b) = {"k"} /\ Gives(b, "k", Biased(h, "k"))
      /\ IsWork(c) /\ Names(c) = {"v"} /\ Gives(c, "v", Biased(h, "v"))
  BY BiasedOne
<1> HIDE DEF a, b, c
<1>2. /\ IsWork(d) /\ Names(d) = {"q"} \cup {"k"}
      /\ Gives(d, "q", Biased(h, "q")) /\ Gives(d, "k", Biased(h, "k"))
  <2>1. IsWork(a \o b) /\ Names(a \o b) = {"q"} \cup {"k"}
    BY <1>1, NamesConcat
  <2>2. Gives(a \o b, "q", Biased(h, "q"))
    BY <1>1, GivesFirst
  <2>3. Gives(a \o b, "k", Biased(h, "k"))
    BY <1>1, GivesSecond
  <2> QED BY <2>1, <2>2, <2>3
<1> HIDE DEF d
<1>3. IsWork(d \o c) /\ Names(d \o c) = ({"q"} \cup {"k"}) \cup {"v"}
  BY <1>1, <1>2, NamesConcat
<1>4. Gives(d \o c, "q", Biased(h, "q")) /\ Gives(d \o c, "k", Biased(h, "k"))
  BY <1>1, <1>2, GivesFirst
<1>5. Gives(d \o c, "v", Biased(h, "v"))
  BY <1>1, <1>2, GivesSecond
<1> HIDE DEF e
<1>6. IsWork(e) /\ Names(e) = {"q", "k", "v"} /\ Gives(e, "q", Biased(h, "q"))
        /\ Gives(e, "k", Biased(h, "k")) /\ Gives(e, "v", Biased(h, "v"))
  BY <1>3, <1>4, <1>5 DEF e
<1>7. GivesQkv(e, h)
  BY <1>6 DEF GivesQkv
<1> QED BY <1>7 DEF a, b, c, d, e

\* Attention's output, after rope's scratch.
LEMMA AttendGives ==
  ASSUME NEW v
  PROVE  LET w == RopeScratch \o <<Out("y", v)>>
         IN  IsWork(w) /\ Names(w) = {"y"} /\ Gives(w, "y", v)
<1> DEFINE r == RopeScratch
           w == r \o <<Out("y", v)>>
<1>1. IsWork(r) /\ Names(r) = {}
  BY NamelessWork DEF RopeScratch
<1> HIDE DEF r
<1>2. IsWork(w) /\ Names(w) = {} \cup {"y"} /\ Gives(w, "y", v)
  BY <1>1, ThenOut
<1> QED BY <1>2 DEF r

\* The output projection and its addition, fused or not.
LEMMA OProjGives ==
  ASSUME NEW y, NEW vs, NEW res
  PROVE  LET w == IF On("ADDRES_FUSED") THEN AddResWork(y, <<"xres">>, <<res>>)
                  ELSE LinearWork(y, << >>, vs) \o <<Out("xres", res)>>
         IN  IsWork(w) /\ Names(w) = {"xres"} /\ Gives(w, "xres", res)
<1>1. LET w == AddResWork(y, <<"xres">>, <<res>>)
      IN  IsWork(w) /\ Names(w) = {"xres"} /\ Gives(w, "xres", res)
  BY AddResOne
<1> DEFINE l == LinearWork(y, << >>, vs)
           w == l \o <<Out("xres", res)>>
<1>2. IsWork(l) /\ Names(l) = {}
  BY LinearNameless
<1> HIDE DEF l
<1>3. IsWork(w) /\ Names(w) = {} \cup {"xres"} /\ Gives(w, "xres", res)
  BY <1>2, ThenOut
<1>4. IsWork(w) /\ Names(w) = {"xres"} /\ Gives(w, "xres", res)
  BY <1>3
<1> QED BY <1>1, <1>4 DEF l

\* The gate and up projections of one GEMV, or of two after the norm.
GivesGateUp(w, g, u) ==
  IsWork(w) /\ {"g", "u"} \subseteq Names(w) /\ Names(w) \subseteq {"h2", "g", "u"}
    /\ Gives(w, "g", g) /\ Gives(w, "u", u)

LEMMA GateUpOfOne ==
  ASSUME NEW x, NEW g, NEW u
  PROVE  GivesGateUp(LinearWork(x, <<"g", "u">>, <<g, u>>), g, u)
<1> DEFINE ns == <<"g", "u">>
           vs == <<g, u>>
           w  == LinearWork(x, ns, vs)
<1>1. /\ Proper(ns, vs, 2) /\ Range(ns) = {"g", "u"} /\ 1 \in 1..2 /\ 2 \in 1..2
      /\ ns[1] = "g" /\ ns[2] = "u" /\ vs[1] = g /\ vs[2] = u
  BY DEF Proper, Range
<1> HIDE DEF ns, vs
<1>2. GivesAll(w, ns, vs, 2)
  BY <1>1, LinearGives
<1> HIDE DEF w
<1>3. IsWork(w) /\ Names(w) = {"g", "u"} /\ Gives(w, ns[1], vs[1]) /\ Gives(w, ns[2], vs[2])
  BY <1>1, <1>2 DEF GivesAll
<1>4. GivesGateUp(w, g, u)
  BY <1>1, <1>3 DEF GivesGateUp
<1> QED BY <1>4 DEF w, ns, vs

LEMMA GateUpGives ==
  ASSUME NEW h2, NEW g, NEW u
  PROVE  GivesGateUp(<<Out("h2", h2)>> \o
           (IF On("FUSE_GATEUP") THEN LinearWork(h2, <<"g", "u">>, <<g, u>>)
            ELSE LinearWork(h2, <<"g">>, <<g>>) \o LinearWork(h2, <<"u">>, <<u>>)), g, u)
<1> DEFINE a == <<Out("h2", h2)>>
           b == LinearWork(h2, <<"g", "u">>, <<g, u>>)
           c == LinearWork(h2, <<"g">>, <<g>>)
           d == LinearWork(h2, <<"u">>, <<u>>)
           e == IF On("FUSE_GATEUP") THEN b ELSE c \o d
           w == a \o e
<1>1. IsWork(a) /\ Names(a) = {"h2"}
  BY GivesOut
<1>2. IsWork(b) /\ Names(b) \subseteq {"g", "u", "h2"} /\ Gives(b, "g", g) /\ Gives(b, "u", u)
  BY GateUpOfOne DEF GivesGateUp
<1>3. GivesAll(b, <<"g", "u">>, <<g, u>>, 2)
  <2>1. Proper(<<"g", "u">>, <<g, u>>, 2)
    BY DEF Proper
  <2> QED BY <2>1, LinearGives
<1>4. Names(b) = {"g", "u"}
  <2>1. Range(<<"g", "u">>) = {"g", "u"}
    BY DEF Range
  <2> QED BY <1>3, <2>1 DEF GivesAll
<1>5. /\ IsWork(c) /\ Names(c) = {"g"} /\ Gives(c, "g", g)
      /\ IsWork(d) /\ Names(d) = {"u"} /\ Gives(d, "u", u)
  BY LinearOne
<1> HIDE DEF a, b, c, d
<1>6. IsWork(c \o d) /\ Names(c \o d) = {"g"} \cup {"u"}
  BY <1>5, NamesConcat
<1>7. Gives(c \o d, "g", g)
  BY <1>5, GivesFirst
<1>8. Gives(c \o d, "u", u)
  BY <1>5, GivesSecond
<1>9. IsWork(e) /\ Names(e) = {"g"} \cup {"u"} /\ Gives(e, "g", g) /\ Gives(e, "u", u)
  <2>1. CASE On("FUSE_GATEUP")
    BY <1>2, <1>4, <2>1
  <2>2. CASE ~On("FUSE_GATEUP")
    <3>1. e = c \o d
      BY <2>2
    <3> HIDE DEF e
    <3> QED BY <1>6, <1>7, <1>8, <3>1
  <2> QED BY <2>1, <2>2
<1> HIDE DEF e
<1>10. IsWork(a \o e) /\ Names(a \o e) = {"h2"} \cup ({"g"} \cup {"u"})
  BY <1>1, <1>9, NamesConcat
<1>11. Gives(a \o e, "g", g) /\ Gives(a \o e, "u", u)
  BY <1>1, <1>9, GivesSecond
<1> HIDE DEF w
<1>12. IsWork(w) /\ Names(w) = {"h2"} \cup ({"g"} \cup {"u"}) /\ Gives(w, "g", g) /\ Gives(w, "u", u)
  BY <1>10, <1>11 DEF w
<1>13. GivesGateUp(w, g, u)
  BY <1>12 DEF GivesGateUp
<1> QED BY <1>13 DEF a, b, c, d, e, w

\* The down projection, in its three forms.
LEMMA DownAddResGives ==
  ASSUME NEW gu, NEW out
  PROVE  LET w == (IF SiluFused THEN << >> ELSE <<Out("gu", gu)>>) \o QuantScratch(gu)
                    \o (IF CarryFused THEN << >> ELSE <<Out("out", out)>>)
         IN  IsWork(w) /\ Names(w) \subseteq {"gu", "out"} /\ (~CarryFused => Gives(w, "out", out))
<1> DEFINE a == IF SiluFused THEN << >> ELSE <<Out("gu", gu)>>
           b == QuantScratch(gu)
           c == IF CarryFused THEN << >> ELSE <<Out("out", out)>>
           d == a \o b
           w == d \o c
<1>1. IsWork(a) /\ Names(a) \subseteq {"gu"}
  BY NamelessWork, GivesOut
<1>2. IsWork(b) /\ Names(b) = {}
  BY NamelessWork DEF QuantScratch
<1>3. IsWork(c) /\ Names(c) \subseteq {"out"} /\ (~CarryFused => Gives(c, "out", out))
  BY NamelessWork, GivesOut
<1> HIDE DEF a, b, c
<1>4. IsWork(d) /\ Names(d) = Names(a) \cup {}
  BY <1>1, <1>2, NamesConcat
<1> HIDE DEF d
<1>5. IsWork(d \o c) /\ Names(d \o c) = Names(d) \cup Names(c)
  BY <1>3, <1>4, NamesConcat
<1>6. ~CarryFused => Gives(d \o c, "out", out)
  <2>1. "out" \notin Names(d)
    BY <1>1, <1>4
  <2> QED BY <1>3, <1>4, <2>1, GivesSecond
<1> HIDE DEF w
<1>7. IsWork(w) /\ Names(w) \subseteq {"gu", "out"} /\ (~CarryFused => Gives(w, "out", out))
  BY <1>1, <1>3, <1>4, <1>5, <1>6 DEF w
<1> QED BY <1>7 DEF a, b, c, d, w

LEMMA DownGives ==
  ASSUME NEW w0, IsWork(w0), Names(w0) = {"gu"}, NEW gu, NEW vs, NEW out
  PROVE  LET w == w0 \o LinearWork(gu, << >>, vs) \o <<Out("out", out)>>
         IN  IsWork(w) /\ Names(w) = {"gu", "out"} /\ Gives(w, "out", out)
<1> DEFINE l == LinearWork(gu, << >>, vs)
           d == w0 \o l
           w == d \o <<Out("out", out)>>
<1>1. IsWork(l) /\ Names(l) = {}
  BY LinearNameless
<1> HIDE DEF l
<1>2. IsWork(d) /\ Names(d) = {"gu"} \cup {}
  BY <1>1, NamesConcat
<1> HIDE DEF d
<1>3. IsWork(w) /\ Names(w) = Names(d) \cup {"out"} /\ Gives(w, "out", out)
  BY <1>2, ThenOut
<1>4. IsWork(w) /\ Names(w) = {"gu", "out"} /\ Gives(w, "out", out)
  BY <1>2, <1>3
<1> QED BY <1>4 DEF l, d

LEMMA TwiceComputed ==
  ASSUME NEW gu
  PROVE  /\ IsWork(<<Out("gu", gu), Temp(gu)>>) /\ Names(<<Out("gu", gu), Temp(gu)>>) = {"gu"}
         /\ IsWork(<<Out("gu", gu)>>) /\ Names(<<Out("gu", gu)>>) = {"gu"}
<1> DEFINE w == <<Out("gu", gu), Temp(gu)>>
<1>1. DOMAIN w = {1, 2} /\ w[1] = Out("gu", gu) /\ w[2] = Temp(gu)
  OBVIOUS
<1>2. IsWork(w)
  BY DEF IsWork, Range
<1>3. Out("gu", gu).names = <<"gu">> /\ Temp(gu).names = << >>
  BY DEF Out, Temp, Buffer
<1>4. Range(<<"gu">>) = {"gu"} /\ Range(<< >>) = {}
  BY DEF Range
<1> HIDE DEF w
<1>5. Names(w) = {"gu"}
  BY <1>1, <1>3, <1>4 DEF Names
<1> QED BY <1>2, <1>5, GivesOut DEF w
-----------------------------------------------------------------------------
(* What stays held, and how much of the heap.                              *)

\* The residual has two homes for ever with GRAPH_PREP.
Carried == On("GRAPH_PREP") /\ ~OnHost

Home(n) ==
  CASE n \in {"xh", "yh"} -> {Tensor(n)}
    [] n = "x" -> IF Carried THEN {ResidIn, ResidOut} ELSE HeapHeld
    [] OTHER -> Work

Held(n) == n \in DOMAIN ptr /\ ptr[n] \in Home(n)

\* What is held although the operations to come may not read it: the residual.
Live ==
  Needed
    \cup (IF pc \in {"idle", "upload"} \/ (pc = "final" /\ OnHost) THEN {} ELSE {"x"})
    \cup (IF OnHost /\ pc # "idle" THEN {"xh"} ELSE {})

Places == \A n \in Live : Held(n)
Apart  == \A m, n \in Live : m # n => ptr[m] # ptr[n]

Stages == {"idle", "upload", "attn_norm", "qkv", "kv_quant", "attend", "y", "o_proj", "xd2",
           "add", "ffn", "down", "carry", "final"}

Control ==
  /\ setup \in Setups /\ pc \in Stages /\ layer \in Layers
  /\ fwd \in Nat /\ raises \in Nat
  /\ pc \in {"upload", "y", "xd2", "add"} => OnHost
  /\ pc = "kv_quant" => ~On("FUSE_QKV")
  /\ pc # "idle" => fwd > 0
  /\ pc = "final" => layer = NLayers
  /\ DOMAIN cache = Layers

\* With the slab and no forward that raised: the residual alone is on the heap,
\* and the slab is free between forwards.
HeapIs ==
  On("SLAB") /\ raises = 0 =>
    /\ pc \in {"idle", "final"} => off = 0
    /\ ~OnHost => heap = IF pc = "idle" \/ On("GRAPH_PREP") THEN {} ELSE {ptr["x"][2]}

\* With attention on the host, the uploads of this layer so far are there too.
Uploads == CASE pc = "upload" -> 0
             [] pc \in {"attn_norm", "qkv", "kv_quant", "attend", "y"} -> 1
             [] pc \in {"o_proj", "xd2"} -> 2
             [] OTHER -> 3

\* Layers whose uploads are all there.
LayersDone == IF pc = "idle" THEN NLayers * fwd ELSE NLayers * (fwd - 1) + (layer - 1)

HostHeapIs ==
  On("SLAB") /\ raises = 0 /\ OnHost =>
    Cardinality(heap) = 3 * LayersDone + (IF pc = "idle" THEN 0 ELSE Uploads)

MemInv == Control /\ Memory /\ Places /\ Apart /\ HeapIs /\ HostHeapIs
-----------------------------------------------------------------------------
(* The invariant, operation by operation.                                  *)

LEMMA SetupFacts ==
  ASSUME setup \in Setups
  PROVE  SlabCap \in Nat /\ NLayers \in Nat \ {0}
BY ForwardAssumption DEF SlabCap

\* A name that is held is at a place that outlives the operations.
LEMMA HeldPlace ==
  ASSUME NEW n, Held(n)
  PROVE  /\ n \in DOMAIN ptr /\ ptr[n] \in Work \cup Fixed
         /\ n \notin {"x", "xh", "yh"} => ptr[n] \in Work
BY DEF Held, Home, Work, Fixed

\* An operation holds what it keeps and what it gives.
LEMMA LaunchHolds ==
  ASSUME Memory, Places, Apart,
         NEW w, IsWork(w), NEW pl, NEW nx, Launch(w, pl, nx), NEW Keep, NEW New,
         Keep \subseteq Live, Keep \cap Names(w) = {}, New \cap {"x", "xh", "yh"} = {},
         \A n \in New : \E v : Gives(w, n, v),
         Live' \subseteq Keep \cup New
  PROVE  Places' /\ Apart'
<1>0. setup' = setup /\ Work \subseteq Work' /\ HeapHeld \subseteq HeapHeld'
  BY LaunchMemory DEF Launch
<1>1. ASSUME NEW n \in Keep
      PROVE  n \in DOMAIN ptr /\ Held(n) /\ ptr'[n] = ptr[n] /\ n \in DOMAIN ptr'
  <2>1. Held(n) /\ n \in DOMAIN ptr /\ ptr[n] \in Work \cup Fixed
    BY HeldPlace DEF Places
  <2>2. n \notin Names(w)
    OBVIOUS
  <2> QED BY <2>1, <2>2, LaunchKeeps
<1>2. ASSUME NEW n \in Keep PROVE Held(n)'
  <2>1. Home(n) \subseteq Home(n)'
    BY <1>0 DEF Home, Carried, OnHost, On
  <2> QED BY <1>1, <2>1 DEF Held
<1>3. ASSUME NEW n \in New
      PROVE  \E i, p : /\ NamedAt(w, n, i, p) /\ n \in DOMAIN ptr' /\ ptr'[n] = Loc(i, p)
                       /\ ptr'[n] \in Work' /\ ptr'[n] \notin Work \cup Fixed
  <2>1. PICK v : Gives(w, n, v)
    OBVIOUS
  <2>2. PICK i, p : GivesAt(w, n, v, i, p)
    BY <2>1 DEF Gives
  <2> QED BY <2>2, LaunchGives DEF GivesAt
<1>4. ASSUME NEW n \in New PROVE Held(n)'
  <2>1. n \notin {"x", "xh", "yh"}
    OBVIOUS
  <2>2. Home(n)' = Work'
    BY <2>1 DEF Home
  <2> QED BY <1>3, <2>2 DEF Held
<1>5. Places'
  <2>1. ASSUME NEW n \in Live' PROVE Held(n)'
    BY <1>2, <1>4
  <2> QED BY <2>1 DEF Places
<1>6. ASSUME NEW m \in Live', NEW n \in Live', m # n PROVE ptr'[m] # ptr'[n]
  <2>1. CASE m \in Keep /\ n \in Keep
    <3>1. m \in Live /\ n \in Live
      BY <2>1
    <3>2. ptr[m] # ptr[n]
      BY <1>6, <3>1 DEF Apart
    <3> QED BY <1>1, <2>1, <3>2
  <2>2. CASE m \in Keep /\ n \in New
    BY <1>1, <1>3, <2>2, HeldPlace
  <2>3. CASE m \in New /\ n \in Keep
    BY <1>1, <1>3, <2>3, HeldPlace
  <2>4. CASE m \in New /\ n \in New
    <3>1. PICK i, p : NamedAt(w, m, i, p) /\ ptr'[m] = Loc(i, p)
      BY <1>3, <2>4
    <3>2. PICK j, r : NamedAt(w, n, j, r) /\ ptr'[n] = Loc(j, r)
      BY <1>3, <2>4
    <3>3. i # j \/ p # r
      BY <1>6, <3>1, <3>2 DEF NamedAt
    <3> QED BY <3>1, <3>2, <3>3, NewPlace DEF NamedAt
  <2> QED BY <2>1, <2>2, <2>3, <2>4
<1>7. Apart'
  BY <1>6 DEF Apart
<1> QED BY <1>5, <1>7

\* A forward ends early: nothing is read any more.
LEMMA AbandonHolds ==
  ASSUME Control, Memory, Abandon, off' \in 0..SlabCap, DOMAIN cache' = Layers
  PROVE  MemInv'
<1>1. /\ setup' = setup /\ layer' = layer /\ fwd' = fwd /\ raises' = raises + 1 /\ pc' = "idle"
      /\ heap' = heap /\ scratch' = scratch
  BY DEF Abandon
<1>2. Control'
  BY <1>1 DEF Control, Stages
<1>3. Memory'
  BY <1>1 DEF Memory, SlabCap
<1>4. Live' = {}
  BY <1>1 DEF Live, Needed
<1>5. Places' /\ Apart'
  BY <1>4 DEF Places, Apart
<1>6. raises' # 0
  BY <1>1 DEF Control
<1> QED BY <1>2, <1>3, <1>5, <1>6 DEF MemInv, HeapIs, HostHeapIs

\* The next operation of the layer.
Continues(nx) ==
  /\ nx \in Stages \ {"idle", "upload", "final"}
  /\ nx \in {"y", "xd2", "add"} => OnHost
  /\ nx = "kv_quant" => ~On("FUSE_QKV")

\* Every operation on buffers, also when the slab is too small for it.
LEMMA OperationHolds ==
  ASSUME MemInv, NEW w, IsWork(w), NEW pl, NEW nx, Launch(w, pl, nx), Continues(nx),
         DOMAIN cache' = Layers, pc \notin {"idle", "final"},
         OnHost => Uploads' = Uploads,
         NEW Keep, NEW New, "x" \in Keep,
         Keep \subseteq Live, Keep \cap Names(w) = {}, New \cap {"x", "xh", "yh"} = {},
         \A n \in New : \E v : Gives(w, n, v),
         Live' \subseteq Keep \cup New
  PROVE  MemInv'
<1>1. /\ setup' = setup /\ layer' = layer /\ fwd' = fwd /\ raises' = raises /\ pc' = nx
      /\ Memory' /\ (On("SLAB") => heap' = heap)
  BY LaunchMemory DEF Launch, MemInv
<1>2. Control'
  BY <1>1 DEF MemInv, Control, Continues, OnHost, On
<1>3. Places' /\ Apart'
  BY LaunchHolds DEF MemInv
<1>4. ptr'["x"] = ptr["x"]
  <2>1. Held("x")
    BY DEF MemInv, Places
  <2> QED BY <2>1, HeldPlace, LaunchKeeps DEF MemInv
<1>5. HeapIs'
  BY <1>1, <1>4 DEF MemInv, HeapIs, Continues, OnHost, On
<1>6. HostHeapIs'
  <2>1. SUFFICES ASSUME On("SLAB"), raises = 0, OnHost
                 PROVE  Cardinality(heap)' = 3 * LayersDone' + (IF pc' = "idle" THEN 0 ELSE Uploads')
    BY <1>1 DEF HostHeapIs, OnHost, On
  <2>2. LayersDone' = LayersDone
    BY <1>1 DEF LayersDone, Continues
  <2>3. Cardinality(heap) = 3 * LayersDone + Uploads
    BY <2>1 DEF MemInv, HostHeapIs
  <2> QED BY <1>1, <2>1, <2>2, <2>3 DEF Continues
<1> QED BY <1>1, <1>2, <1>3, <1>5, <1>6 DEF MemInv

LEMMA OverflowHolds ==
  ASSUME MemInv, Overflow, DOMAIN cache' = Layers
  PROVE  MemInv'
BY AbandonHolds, SetupFacts DEF MemInv, Overflow, Control

\* Either of them, for an operation that leaves the cache alone.
LEMMA LaunchOrOverflowHolds ==
  ASSUME MemInv, NEW w, IsWork(w), NEW pl, NEW nx, LaunchOrOverflow(w, pl, nx), Continues(nx),
         pc \notin {"idle", "final"},
         NEW Keep, NEW New, "x" \in Keep,
         Keep \subseteq Live, Keep \cap Names(w) = {}, New \cap {"x", "xh", "yh"} = {},
         \A n \in New : \E v : Gives(w, n, v),
         setup' = setup /\ pc' = nx =>
           Live' \subseteq Keep \cup New /\ (OnHost => Uploads' = Uploads)
  PROVE  MemInv'
<1>1. DOMAIN cache' = Layers
  BY DEF LaunchOrOverflow, MemInv, Control
<1>2. CASE Launch(w, pl, nx)
  <2>1. setup' = setup /\ pc' = nx
    BY <1>2 DEF Launch
  <2> QED BY <1>1, <1>2, <2>1, OperationHolds
<1>3. CASE Overflow
  BY <1>1, <1>3, OverflowHolds
<1> QED BY <1>2, <1>3 DEF LaunchOrOverflow

\* The residuals a layer keeps to its end.
Residuals == {"x"} \cup (IF OnHost THEN {"xh"} ELSE {})

LEMMA AttnNormHolds ==
  ASSUME MemInv, AttnNorm
  PROVE  MemInv'
<1> DEFINE w    == <<Out("h", Rms(Read("x"), "attn_norm"))>>
           Keep == Residuals
           New  == {"h"}
<1>1. IsWork(w) /\ Names(w) = {"h"} /\ \E v : Gives(w, "h", v)
  BY GivesOut
<1>2. pc = "attn_norm" /\ LaunchOrOverflow(w, Nowhere, "qkv")
  BY DEF AttnNorm
<1>3. /\ "x" \in Keep /\ Keep \subseteq Live /\ Keep \cap Names(w) = {}
      /\ pc \notin {"idle", "final"} /\ Continues("qkv")
  BY <1>1, <1>2 DEF Residuals, Live, Needed, Continues, Stages
<1>4. setup' = setup /\ pc' = "qkv" =>
        Live' \subseteq Keep \cup New /\ (OnHost => Uploads' = Uploads)
  BY <1>2 DEF Residuals, Live, Needed, Uploads, OnHost, On
<1>5. New \cap {"x", "xh", "yh"} = {} /\ \A n \in New : \E v : Gives(w, n, v)
  BY <1>1
<1> HIDE DEF w, Keep, New
<1> QED BY <1>1, <1>2, <1>3, <1>4, <1>5, LaunchOrOverflowHolds

LEMMA QkvHolds ==
  ASSUME MemInv, QkvFused \/ QkvSeparate
  PROVE  MemInv'
<1> DEFINE h    == Read("h")
           one  == BiasedWork(h, <<"q", "k", "v">>)
           all  == BiasedWork(h, <<"q">>) \o BiasedWork(h, <<"k">>) \o BiasedWork(h, <<"v">>)
           Keep == Residuals
           New  == {"q", "k", "v"}
<1>1. pc = "qkv"
  BY DEF QkvFused, QkvSeparate
<1>2. "x" \in Keep /\ Keep \subseteq Live /\ pc \notin {"idle", "final"} /\ Keep \cap New = {}
  BY <1>1 DEF Residuals, Live, Needed
<1>3. \A nx \in {"attend", "kv_quant"} : setup' = setup /\ pc' = nx =>
        Live' \subseteq Keep \cup New /\ (OnHost => Uploads' = Uploads)
  BY <1>1 DEF Residuals, Live, Needed, Uploads, OnHost, On
<1>4. New \cap {"x", "xh", "yh"} = {}
  OBVIOUS
<1>5. CASE QkvFused
  <2>1. LaunchOrOverflow(one, Nowhere, "attend")
    BY <1>5 DEF QkvFused
  <2>2. IsWork(one) /\ Names(one) = New /\ \A n \in New : \E v : Gives(one, n, v)
    BY QkvOfOne DEF GivesQkv
  <2>3. Continues("attend")
    BY DEF Continues, Stages
  <2> HIDE DEF one, Keep, New
  <2> QED BY <1>2, <1>3, <1>4, <2>1, <2>2, <2>3, LaunchOrOverflowHolds
<1>6. CASE QkvSeparate
  <2>1. LaunchOrOverflow(all, Nowhere, "kv_quant")
    BY <1>6 DEF QkvSeparate
  <2>2. IsWork(all) /\ Names(all) = New /\ \A n \in New : \E v : Gives(all, n, v)
    BY QkvOfThree DEF GivesQkv
  <2>3. Continues("kv_quant")
    BY <1>6 DEF Continues, Stages, QkvSeparate
  <2> HIDE DEF all, Keep, New
  <2> QED BY <1>2, <1>3, <1>4, <2>1, <2>2, <2>3, LaunchOrOverflowHolds
<1> QED BY <1>5, <1>6

LEMMA KvQuantHolds ==
  ASSUME MemInv, KvQuant
  PROVE  MemInv'
<1> DEFINE pl   == [a \in {ptr["k"], ptr["v"]} |-> KvQ(mem[a])]
           Keep == Residuals \cup {"q", "k", "v"}
           New  == {}
<1>1. IsWork(<< >>) /\ Names(<< >>) = {}
  BY NamelessWork
<1>2. pc = "kv_quant" /\ LaunchOrOverflow(<< >>, pl, "attend")
  BY DEF KvQuant
<1>3. /\ "x" \in Keep /\ Keep \subseteq Live
      /\ pc \notin {"idle", "final"} /\ Continues("attend")
  BY <1>2 DEF Residuals, Live, Needed, Continues, Stages
<1>4. setup' = setup /\ pc' = "attend" =>
        Live' \subseteq Keep \cup New /\ (OnHost => Uploads' = Uploads)
  BY <1>2 DEF Residuals, Live, Needed, Uploads, OnHost, On
<1> HIDE DEF pl, Keep
<1> QED BY <1>1, <1>2, <1>3, <1>4, LaunchOrOverflowHolds

\* Attention allocates after the row has been appended.
LEMMA AttendHolds ==
  ASSUME MemInv, Attend \/ AttendOverflow
  PROVE  MemInv'
<1> DEFINE w    == RopeScratch \o <<Out("y", Attention(Rope(Read("q")), Append1[layer]))>>
           pl   == [a \in {ptr["q"], ptr["k"]} |-> Rope(mem[a])]
           Keep == {"x"}
           New  == {"y"}
<1>1. IsWork(w) /\ Names(w) = {"y"} /\ \E v : Gives(w, "y", v)
  BY AttendGives
<1>2. pc = "attend" /\ ~OnHost
  BY DEF Attend, AttendOverflow
<1>3. DOMAIN cache' = Layers
  BY DEF Attend, AttendOverflow, Append1, MemInv, Control
<1>4. CASE Attend
  <2>1. Launch(w, pl, "o_proj")
    BY <1>4 DEF Attend
  <2>2. /\ "x" \in Keep /\ Keep \subseteq Live /\ Keep \cap Names(w) = {}
        /\ pc \notin {"idle", "final"} /\ Continues("o_proj")
    BY <1>1, <1>2 DEF Live, Needed, Continues, Stages
  <2>3. setup' = setup /\ pc' = "o_proj"
    BY <2>1 DEF Launch
  <2>4. Live' \subseteq Keep \cup New
    BY <1>2, <2>3 DEF Live, Needed, OnHost, On
  <2>5. New \cap {"x", "xh", "yh"} = {} /\ \A n \in New : \E v : Gives(w, n, v)
    BY <1>1
  <2> HIDE DEF w, pl, Keep, New
  <2> QED BY <1>1, <1>2, <1>3, <2>1, <2>2, <2>4, <2>5, OperationHolds
<1>5. CASE AttendOverflow
  BY <1>3, <1>5, OverflowHolds DEF AttendOverflow
<1> QED BY <1>4, <1>5

LEMMA OProjHolds ==
  ASSUME MemInv, OProj \/ HostOProj
  PROVE  MemInv'
<1> DEFINE y  == Read("y")
           vs == <<Lin(y, "attn_output")>>
<1>1. pc = "o_proj" /\ pc \notin {"idle", "final"}
  BY DEF OProj, HostOProj
<1>2. CASE OProj
  <2> DEFINE res  == Add(Read("x"), Lin(y, "attn_output"))
             w    == IF On("ADDRES_FUSED") THEN AddResWork(y, <<"xres">>, <<res>>)
                     ELSE LinearWork(y, << >>, vs) \o <<Out("xres", res)>>
             Keep == {"x"}
             New  == {"xres"}
  <2>1. LaunchOrOverflow(w, Nowhere, "ffn") /\ ~OnHost
    BY <1>2 DEF OProj
  <2>2. IsWork(w) /\ Names(w) = {"xres"} /\ \E v : Gives(w, "xres", v)
    <3> HIDE DEF res, vs, y
    <3> QED BY OProjGives
  <2>3. "x" \in Keep /\ Keep \subseteq Live /\ Keep \cap Names(w) = {} /\ Continues("ffn")
    <3> HIDE DEF w
    <3> QED BY <1>1, <2>2 DEF Live, Needed, Continues, Stages
  <2>4. setup' = setup /\ pc' = "ffn" =>
          Live' \subseteq Keep \cup New /\ (OnHost => Uploads' = Uploads)
    BY <2>1 DEF Live, Needed, OnHost, On
  <2> HIDE DEF w
  <2>5. New \cap {"x", "xh", "yh"} = {} /\ \A n \in New : \E v : Gives(w, n, v)
    BY <2>2
  <2> HIDE DEF Keep, New
  <2> QED BY <1>1, <2>1, <2>2, <2>3, <2>4, <2>5, LaunchOrOverflowHolds
<1>3. CASE HostOProj
  <2> DEFINE w    == LinearWork(y, <<"od">>, vs)
             Keep == {"x", "xh"}
             New  == {"od"}
  <2>1. LaunchOrOverflow(w, Nowhere, "xd2") /\ OnHost
    BY <1>3 DEF HostOProj
  <2>2. IsWork(w) /\ Names(w) = {"od"} /\ \E v : Gives(w, "od", v)
    BY LinearOne
  <2>3. "x" \in Keep /\ Keep \subseteq Live /\ Keep \cap Names(w) = {} /\ Continues("xd2")
    <3> HIDE DEF w
    <3> QED BY <1>1, <2>1, <2>2 DEF Live, Needed, Continues, Stages
  <2>4. setup' = setup /\ pc' = "xd2" =>
          Live' \subseteq Keep \cup New /\ (OnHost => Uploads' = Uploads)
    BY <1>1, <2>1 DEF Live, Needed, Uploads, OnHost, On
  <2> HIDE DEF w
  <2>5. New \cap {"x", "xh", "yh"} = {} /\ \A n \in New : \E v : Gives(w, n, v)
    BY <2>2
  <2> HIDE DEF Keep, New
  <2> QED BY <1>1, <2>1, <2>2, <2>3, <2>4, <2>5, LaunchOrOverflowHolds
<1> QED BY <1>2, <1>3

LEMMA HostAddHolds ==
  ASSUME MemInv, HostAdd
  PROVE  MemInv'
<1> DEFINE w    == <<Out("xres", Add(Read("x"), Read("od")))>>
           Keep == Residuals
           New  == {"xres"}
<1>1. IsWork(w) /\ Names(w) = {"xres"} /\ \E v : Gives(w, "xres", v)
  BY GivesOut
<1>2. pc = "add" /\ LaunchOrOverflow(w, Nowhere, "ffn")
  BY DEF HostAdd
<1> HIDE DEF w
<1>3. /\ "x" \in Keep /\ Keep \subseteq Live /\ Keep \cap Names(w) = {}
      /\ pc \notin {"idle", "final"} /\ Continues("ffn")
  BY <1>1, <1>2 DEF Residuals, Live, Needed, Continues, Stages
<1>4. setup' = setup /\ pc' = "ffn" =>
        Live' \subseteq Keep \cup New /\ (OnHost => Uploads' = Uploads)
  BY <1>2 DEF Residuals, Live, Needed, Uploads, OnHost, On
<1>5. New \cap {"x", "xh", "yh"} = {} /\ \A n \in New : \E v : Gives(w, n, v)
  BY <1>1
<1> HIDE DEF Keep, New
<1> QED BY <1>1, <1>2, <1>3, <1>4, <1>5, LaunchOrOverflowHolds

LEMMA GateUpHolds ==
  ASSUME MemInv, GateUp \/ GateUpRmsFused
  PROVE  MemInv'
<1> DEFINE Keep == Residuals \cup {"xres"}
           New  == {"g", "u"}
<1>1. pc = "ffn" /\ pc \notin {"idle", "final"}
  BY DEF GateUp, GateUpRmsFused
<1>2. /\ "x" \in Keep /\ Keep \subseteq Live /\ Continues("down")
      /\ Keep \cap {"h2", "g", "u"} = {}
  BY <1>1 DEF Residuals, Live, Needed, Continues, Stages
<1>3. setup' = setup /\ pc' = "down" =>
        Live' \subseteq Keep \cup New /\ (OnHost => Uploads' = Uploads)
  BY <1>1 DEF Residuals, Live, Needed, Uploads, OnHost, On
<1>4. New \cap {"x", "xh", "yh"} = {}
  OBVIOUS
<1>5. ASSUME NEW w, LaunchOrOverflow(w, Nowhere, "down"), NEW g, NEW u, GivesGateUp(w, g, u)
      PROVE  MemInv'
  <2>1. /\ IsWork(w) /\ Keep \cap Names(w) = {}
        /\ \A n \in New : \E v : Gives(w, n, v)
    BY <1>2, <1>5 DEF GivesGateUp
  <2> HIDE DEF Keep, New
  <2> QED BY <1>1, <1>2, <1>3, <1>4, <1>5, <2>1, LaunchOrOverflowHolds
<1>6. CASE GateUp
  <2> DEFINE h2 == Rms(Read("xres"), "ffn_norm")
             g  == Lin(h2, "ffn_gate")
             u  == Lin(h2, "ffn_up")
             w  == <<Out("h2", h2)>> \o
                     (IF On("FUSE_GATEUP") THEN LinearWork(h2, <<"g", "u">>, <<g, u>>)
                      ELSE LinearWork(h2, <<"g">>, <<g>>) \o LinearWork(h2, <<"u">>, <<u>>))
  <2>1. LaunchOrOverflow(w, Nowhere, "down")
    BY <1>6 DEF GateUp
  <2>2. GivesGateUp(w, g, u)
    <3> HIDE DEF h2, g, u
    <3> QED BY GateUpGives
  <2> HIDE DEF w, g, u
  <2> QED BY <1>5, <2>1, <2>2
<1>7. CASE GateUpRmsFused
  <2> DEFINE z == GateUpInput
             g == Lin(z, "ffn_gate")
             u == Lin(z, "ffn_up")
             w == LinearWork(z, <<"g", "u">>, <<g, u>>)
  <2>1. LaunchOrOverflow(w, Nowhere, "down")
    BY <1>7 DEF GateUpRmsFused
  <2>2. GivesGateUp(w, g, u)
    <3> HIDE DEF z, g, u
    <3> QED BY GateUpOfOne
  <2> HIDE DEF w, g, u
  <2> QED BY <1>5, <2>1, <2>2
<1> QED BY <1>6, <1>7

LEMMA DownHolds ==
  ASSUME MemInv, DownAddRes \/ DownAdd \/ HostDown
  PROVE  MemInv'
<1> DEFINE gu   == Silu(Read("g"), Read("u"))
           vs   == <<Lin(gu, "ffn_down")>>
           Keep == Residuals
           New  == IF CarryFused /\ ~OnHost THEN {} ELSE {"out"}
<1>1. pc = "down" /\ pc \notin {"idle", "final"}
  BY DEF DownAddRes, DownAdd, HostDown
<1>2. /\ "x" \in Keep /\ Keep \subseteq Live /\ Continues("carry")
      /\ Keep \cap {"gu", "out"} = {} /\ New \subseteq {"out"} /\ New \cap {"x", "xh", "yh"} = {}
  BY <1>1 DEF Residuals, Live, Needed, Continues, Stages
<1>3. setup' = setup /\ pc' = "carry" =>
        Live' \subseteq Keep \cup New /\ (OnHost => Uploads' = Uploads)
  BY <1>1 DEF Residuals, Live, Needed, Uploads, CarryFused, OnHost, On
<1>4. ASSUME NEW w, NEW pl, LaunchOrOverflow(w, pl, "carry"), IsWork(w),
             Names(w) \subseteq {"gu", "out"}, New # {} => \E v : Gives(w, "out", v)
      PROVE  MemInv'
  <2>1. /\ Keep \cap Names(w) = {}
        /\ \A n \in New : \E v : Gives(w, n, v)
    BY <1>2, <1>4
  <2> HIDE DEF Keep, New
  <2> QED BY <1>1, <1>2, <1>3, <1>4, <2>1, LaunchOrOverflowHolds
<1>5. CASE DownAddRes
  <2> DEFINE w  == (IF SiluFused THEN << >> ELSE <<Out("gu", gu)>>) \o QuantScratch(gu)
                     \o (IF CarryFused THEN << >> ELSE <<Out("out", DownOut)>>)
             pl == IF CarryFused THEN [a \in {ResidOut} |-> DownOut] ELSE Nowhere
  <2>1. LaunchOrOverflow(w, pl, "carry") /\ ~OnHost
    BY <1>5 DEF DownAddRes
  <2>2. IsWork(w) /\ Names(w) \subseteq {"gu", "out"} /\ (~CarryFused => \E v : Gives(w, "out", v))
    <3> HIDE DEF gu
    <3> QED BY DownAddResGives
  <2>3. New # {} => ~CarryFused
    BY <2>1
  <2> HIDE DEF w, pl, New
  <2> QED BY <1>4, <2>1, <2>2, <2>3
<1>6. CASE DownAdd
  <2> DEFINE w == <<Out("gu", gu), Temp(gu)>> \o LinearWork(gu, << >>, vs) \o <<Out("out", DownOut)>>
  <2>1. LaunchOrOverflow(w, Nowhere, "carry")
    BY <1>6 DEF DownAdd
  <2>2. IsWork(w) /\ Names(w) = {"gu", "out"} /\ \E v : Gives(w, "out", v)
    <3> HIDE DEF gu, vs
    <3> QED BY TwiceComputed, DownGives
  <2> HIDE DEF w, New
  <2> QED BY <1>4, <2>1, <2>2
<1>7. CASE HostDown
  <2> DEFINE w == <<Out("gu", gu)>> \o LinearWork(gu, << >>, vs) \o <<Out("out", DownOut)>>
  <2>1. LaunchOrOverflow(w, Nowhere, "carry")
    BY <1>7 DEF HostDown
  <2>2. IsWork(w) /\ Names(w) = {"gu", "out"} /\ \E v : Gives(w, "out", v)
    <3> HIDE DEF gu, vs
    <3> QED BY TwiceComputed, DownGives
  <2> HIDE DEF w, New
  <2> QED BY <1>4, <2>1, <2>2
<1> QED BY <1>5, <1>6, <1>7
-----------------------------------------------------------------------------
(* Where the residual moves.                                               *)

\* The first free buffer.
LEMMA FreshBuffer ==
  ASSUME Memory
  PROVE  /\ NthFree(1) \in Nat /\ NthFree(1) \notin heap /\ NthFree(1) \notin scratch
         /\ OnHeap(NthFree(1)) \notin Work \cup Fixed
         /\ IsFiniteSet(heap \cup {NthFree(1)})
         /\ Cardinality(heap \cup {NthFree(1)}) = Cardinality(heap) + 1
         /\ Cardinality(heap) \in Nat
<1>0. 1 \in Nat \ {0}
  OBVIOUS
<1>1. NthFree(1) \in Nat /\ NthFree(1) \notin heap
  BY <1>0, NthFreeIs
<1>2. OnHeap(NthFree(1)) \notin Work \cup Fixed
  BY <1>1 DEF OnHeap, Work, HeapHeld, SlabHeld, Fixed, ResidIn, ResidOut, Tensor
<1>3. IsFiniteSet(heap) /\ scratch \subseteq heap
  BY DEF Memory
<1> QED BY <1>1, <1>2, <1>3, FS_AddElement, FS_CardinalityType

\* free_scratch leaves what is held outside the slab.
LEMMA FreeScratchHolds ==
  ASSUME Memory, setup \in Setups, setup' = setup, NEW m, NEW live \in SUBSET Nat, IsFiniteSet(live),
         On("SLAB") => scratch \subseteq live,
         FreeScratch(m, live)
  PROVE  /\ Memory' /\ heap' \ scratch' = live \ scratch
         /\ On("SLAB") => off' = 0 /\ heap' = live
<1>1. CASE On("SLAB")
  <2>1. off' = 0 /\ heap' = live /\ scratch' = scratch
    BY <1>1 DEF FreeScratch
  <2>2. Memory'
    BY <1>1, <2>1, SetupFacts DEF Memory, SlabCap
  <2> QED BY <2>1, <2>2
<1>2. CASE ~On("SLAB")
  <2>1. IsFiniteSet(live \ scratch)
    BY FS_Difference
  <2> QED BY <1>2, <2>1, SetupFacts DEF FreeScratch, Memory, SlabCap
<1> QED BY <1>1, <1>2

LEMMA BeginHolds ==
  ASSUME MemInv, Begin
  PROVE  MemInv'
<1> DEFINE new  == NthFree(1)
           home == IF On("GRAPH_PREP") THEN ResidIn ELSE OnHeap(new)
<1>1. /\ pc = "idle" /\ ~OnHost /\ fwd' = fwd + 1 /\ layer' = 1 /\ pc' = "attn_norm"
      /\ ptr' = [n \in {"x"} \cup DOMAIN ptr |-> IF n = "x" THEN home ELSE ptr[n]]
      /\ heap' = IF On("GRAPH_PREP") THEN heap ELSE heap \cup {new}
      /\ setup' = setup /\ off' = off /\ scratch' = scratch /\ cache' = cache /\ raises' = raises
  BY DEF Begin
<1>2. /\ new \in Nat /\ new \notin heap /\ new \notin scratch /\ IsFiniteSet(heap \cup {new})
  BY FreshBuffer DEF MemInv
<1> HIDE DEF new
<1>3. Control'
  BY <1>1, SetupFacts DEF MemInv, Control, Stages, Layers
<1>4. Memory'
  BY <1>1, <1>2 DEF MemInv, Memory, SlabCap
<1>5. Live' = {"x"}
  BY <1>1 DEF Live, Needed, OnHost, On
<1>6. ptr'["x"] = home /\ "x" \in DOMAIN ptr'
  BY <1>1
<1>7. Held("x")'
  <2>1. CASE On("GRAPH_PREP")
    BY <1>1, <1>6, <2>1 DEF Held, Home, Carried, OnHost, On
  <2>2. CASE ~On("GRAPH_PREP")
    <3>1. OnHeap(new) \in HeapHeld'
      BY <1>1, <1>2, <2>2 DEF HeapHeld, OnHeap
    <3> QED BY <1>1, <1>6, <2>2, <3>1 DEF Held, Home, Carried, OnHost, On
  <2> QED BY <2>1, <2>2
<1>8. Places' /\ Apart'
  BY <1>5, <1>7 DEF Places, Apart
<1>9. HeapIs'
  BY <1>1, <1>6 DEF MemInv, HeapIs, OnHost, On, OnHeap
<1>10. HostHeapIs'
  BY <1>1 DEF HostHeapIs, OnHost, On
<1> QED BY <1>3, <1>4, <1>8, <1>9, <1>10 DEF MemInv

LEMMA HostBeginHolds ==
  ASSUME MemInv, HostBegin
  PROVE  MemInv'
<1>1. /\ pc = "idle" /\ OnHost /\ fwd' = fwd + 1 /\ layer' = 1 /\ pc' = "upload"
      /\ ptr' = Point("xh", Tensor("xh"))
      /\ setup' = setup /\ off' = off /\ heap' = heap /\ scratch' = scratch /\ cache' = cache
      /\ raises' = raises
  BY DEF HostBegin
<1>2. Control'
  BY <1>1, SetupFacts DEF MemInv, Control, Stages, Layers, OnHost, On
<1>3. Memory'
  BY <1>1 DEF MemInv, Memory, SlabCap
<1>4. Live' = {"xh"}
  BY <1>1 DEF Live, Needed, OnHost, On
<1>5. Held("xh")'
  BY <1>1 DEF Held, Home, Point
<1>6. Places' /\ Apart'
  BY <1>4, <1>5 DEF Places, Apart
<1>7. HeapIs'
  BY <1>1 DEF HeapIs, OnHost, On
<1>8. HostHeapIs'
  <2>1. LayersDone' = LayersDone /\ Uploads' = 0
    BY <1>1, SetupFacts DEF LayersDone, Uploads, MemInv, Control
  <2> QED BY <1>1, <2>1, FreshBuffer, SetupFacts DEF MemInv, HostHeapIs, OnHost, On, LayersDone, Control
<1> QED BY <1>2, <1>3, <1>6, <1>7, <1>8 DEF MemInv

LEMMA HostUploadHolds ==
  ASSUME MemInv, HostUpload
  PROVE  MemInv'
<1> DEFINE new == NthFree(1)
<1>1. PICK from, to, nx :
        /\ \/ pc = "upload" /\ to = "x" /\ nx = "attn_norm"
           \/ pc = "y" /\ to = "y" /\ nx = "o_proj"
           \/ pc = "xd2" /\ to = "x" /\ nx = "add"
        /\ Upload(from, to) /\ pc' = nx
  BY DEF HostUpload
<1>2. /\ heap' = heap \cup {new} /\ ptr' = Point(to, OnHeap(new))
      /\ setup' = setup /\ layer' = layer /\ fwd' = fwd /\ off' = off /\ scratch' = scratch
      /\ cache' = cache /\ raises' = raises
  BY <1>1 DEF Upload
<1>3. /\ new \in Nat /\ new \notin heap /\ new \notin scratch /\ IsFiniteSet(heap \cup {new})
      /\ OnHeap(new) \notin Work \cup Fixed /\ Cardinality(heap \cup {new}) = Cardinality(heap) + 1
      /\ Cardinality(heap) \in Nat
  BY FreshBuffer DEF MemInv
<1> HIDE DEF new
<1>4. OnHost
  BY <1>1 DEF MemInv, Control
<1>5. Control'
  BY <1>1, <1>2, <1>4 DEF MemInv, Control, Stages, OnHost, On
<1>6. Memory'
  BY <1>2, <1>3 DEF MemInv, Memory, SlabCap
<1>7. to \in {"x", "y"} /\ Live' \ {to} \subseteq Live
  BY <1>1, <1>2, <1>4 DEF Live, Needed, OnHost, On
<1>8. ptr'[to] = OnHeap(new) /\ to \in DOMAIN ptr' /\ OnHeap(new) \in HeapHeld'
  BY <1>2, <1>3 DEF Point, HeapHeld, OnHeap
<1>9. Held(to)'
  BY <1>2, <1>4, <1>7, <1>8 DEF Held, Home, Work, Carried, OnHost, On
<1>10. ASSUME NEW n \in Live' \ {to}
       PROVE  n \in Live /\ Held(n)' /\ ptr'[n] = ptr[n] /\ ptr[n] \in Work \cup Fixed
  <2>1. n \in Live /\ Held(n) /\ n \in DOMAIN ptr /\ ptr[n] \in Work \cup Fixed
    BY <1>7, HeldPlace DEF MemInv, Places
  <2>2. ptr'[n] = ptr[n] /\ n \in DOMAIN ptr'
    BY <1>2, <2>1 DEF Point
  <2>3. HeapHeld \subseteq HeapHeld' /\ SlabHeld' = SlabHeld
    BY <1>2 DEF HeapHeld, SlabHeld, On
  <2> QED BY <1>2, <2>1, <2>2, <2>3 DEF Held, Home, Work, Carried, OnHost, On
<1>11. Places'
  <2>1. ASSUME NEW n \in Live' PROVE Held(n)'
    BY <1>9, <1>10
  <2> QED BY <2>1 DEF Places
<1>12. ASSUME NEW m \in Live', NEW n \in Live', m # n PROVE ptr'[m] # ptr'[n]
  <2>1. CASE m # to /\ n # to
    <3>1. m \in Live /\ n \in Live /\ ptr'[m] = ptr[m] /\ ptr'[n] = ptr[n]
      BY <1>10, <2>1
    <3>2. ptr[m] # ptr[n]
      BY <1>12, <3>1 DEF MemInv, Apart
    <3> QED BY <3>1, <3>2
  <2>2. CASE m = to \/ n = to
    BY <1>3, <1>8, <1>10, <1>12, <2>2
  <2> QED BY <2>1, <2>2
<1>13. Apart'
  BY <1>12 DEF Apart
<1>14. HeapIs'
  BY <1>1, <1>2, <1>4 DEF HeapIs, OnHost, On
<1>15. HostHeapIs'
  <2>1. SUFFICES ASSUME On("SLAB"), raises = 0
                 PROVE  Cardinality(heap)' = 3 * LayersDone' + (IF pc' = "idle" THEN 0 ELSE Uploads')
    BY <1>2 DEF HostHeapIs, OnHost, On
  <2>2. LayersDone' = LayersDone /\ LayersDone \in Int /\ pc # "idle" /\ pc' # "idle"
    BY <1>1, <1>2, SetupFacts DEF LayersDone, MemInv, Control, Layers
  <2>3. Uploads' = Uploads + 1 /\ Uploads \in Nat
    BY <1>1 DEF Uploads
  <2>4. Cardinality(heap) = 3 * LayersDone + Uploads
    BY <1>4, <2>1, <2>2 DEF MemInv, HostHeapIs
  <2> QED BY <1>2, <1>3, <2>2, <2>3, <2>4
<1> QED BY <1>5, <1>6, <1>11, <1>13, <1>14, <1>15 DEF MemInv

LEMMA HostAttendHolds ==
  ASSUME MemInv, HostAttend
  PROVE  MemInv'
<1>1. /\ pc = "attend" /\ OnHost /\ pc' = "y" /\ ptr' = Point("yh", Tensor("yh"))
      /\ setup' = setup /\ layer' = layer /\ fwd' = fwd /\ raises' = raises
      /\ \E m : FreeScratch(m, heap)
  BY DEF HostAttend
<1>2. /\ Memory' /\ heap' \ scratch' = heap \ scratch
      /\ On("SLAB") => heap' = heap
  BY <1>1, FreeScratchHolds DEF MemInv, Memory, Control
<1>3. DOMAIN cache' = Layers
  BY DEF HostAttend, Append1, MemInv, Control
<1>4. Control'
  BY <1>1, <1>3 DEF MemInv, Control, Stages, OnHost, On
<1>5. Live' = {"x", "xh", "yh"} /\ {"x", "xh"} \subseteq Live
  BY <1>1 DEF Live, Needed, OnHost, On
<1>6. HeapHeld' = HeapHeld
  BY <1>2 DEF HeapHeld
<1>7. /\ Held("x") /\ Held("xh") /\ ptr["xh"] = Tensor("xh") /\ ptr["x"] \in HeapHeld
      /\ {"x", "xh"} \subseteq DOMAIN ptr
  BY <1>1, <1>5 DEF MemInv, Places, Held, Home, Carried
<1>8. /\ ptr'["x"] = ptr["x"] /\ ptr'["xh"] = ptr["xh"] /\ ptr'["yh"] = Tensor("yh")
      /\ {"x", "xh", "yh"} \subseteq DOMAIN ptr'
  BY <1>1, <1>7 DEF Point
<1>9. Places'
  <2>1. Held("x")' /\ Held("xh")' /\ Held("yh")'
    BY <1>1, <1>6, <1>7, <1>8 DEF Held, Home, Carried, OnHost, On
  <2> QED BY <1>5, <2>1 DEF Places
<1>10. Apart'
  <2>1. ptr["x"] # Tensor("xh") /\ ptr["x"] # Tensor("yh") /\ Tensor("xh") # Tensor("yh")
    BY <1>7 DEF HeapHeld, Tensor
  <2> QED BY <1>5, <1>7, <1>8, <2>1 DEF Apart
<1>11. HeapIs'
  BY <1>1 DEF HeapIs, OnHost, On
<1>12. HostHeapIs'
  <2>1. LayersDone' = LayersDone /\ Uploads' = Uploads
    BY <1>1 DEF LayersDone, Uploads
  <2> QED BY <1>1, <1>2, <2>1 DEF MemInv, HostHeapIs, OnHost, On
<1> QED BY <1>2, <1>4, <1>9, <1>10, <1>11, <1>12 DEF MemInv

LEMMA CarryHolds ==
  ASSUME MemInv, CarryFixed \/ CarryCopied
  PROVE  MemInv'
<1> DEFINE new == NthFree(1)
<1>1. /\ pc = "carry" /\ ~OnHost /\ pc' = NextOp /\ layer' = NextLayer
      /\ setup' = setup /\ fwd' = fwd /\ cache' = cache /\ raises' = raises
  BY DEF CarryFixed, CarryCopied
<1>2. /\ new \in Nat /\ new \notin heap /\ new \notin scratch /\ IsFiniteSet(heap \cup {new})
  BY FreshBuffer DEF MemInv
<1> HIDE DEF new
<1>3. Control'
  BY <1>1, SetupFacts DEF MemInv, Control, Stages, Layers, NextOp, NextLayer
<1>4. pc' \in {"attn_norm", "final"} /\ Live' = {"x"} /\ "x" \in Live
  BY <1>1 DEF Live, Needed, NextOp, OnHost, On
<1>5. Held("x")
  BY <1>4 DEF MemInv, Places
<1>6. CASE CarryFixed
  <2>1. On("GRAPH_PREP") /\ (\E m : FreeScratch(m, heap)) /\ ptr' = [ptr EXCEPT !["x"] = ResidOut]
    BY <1>6 DEF CarryFixed, CarryHome
  <2>2. Memory' /\ (On("SLAB") => off' = 0 /\ heap' = heap)
    BY <1>1, <2>1, FreeScratchHolds DEF MemInv, Memory, Control
  <2>3. ptr'["x"] = ResidOut /\ "x" \in DOMAIN ptr'
    BY <1>5, <2>1 DEF Held
  <2>4. Held("x")'
    BY <1>1, <2>1, <2>3 DEF Held, Home, Carried, OnHost, On
  <2>5. Places' /\ Apart'
    BY <1>4, <2>4 DEF Places, Apart
  <2>6. HeapIs' /\ HostHeapIs'
    BY <1>1, <2>1, <2>2 DEF MemInv, HeapIs, HostHeapIs, OnHost, On
  <2> QED BY <1>3, <2>2, <2>5, <2>6 DEF MemInv
<1>7. CASE CarryCopied
  <2> DEFINE old  == ptr["x"][2]
             live == (heap \cup {new}) \ {old}
  <2>1. /\ ~On("GRAPH_PREP") /\ (\E m : FreeScratch(m, live))
        /\ ptr' = [ptr EXCEPT !["x"] = OnHeap(new)]
    BY <1>7 DEF CarryCopied, OwnedResidual, new
  <2>2. ptr["x"] \in HeapHeld /\ "x" \in DOMAIN ptr /\ old \in heap \ scratch
    BY <1>5, <2>1 DEF Held, Home, Carried, HeapHeld
  <2>3. live \in SUBSET Nat /\ IsFiniteSet(live) /\ scratch \subseteq live
    <3>1. IsFiniteSet(live)
      BY <1>2, FS_Difference
    <3> QED BY <1>2, <2>2, <3>1 DEF MemInv, Memory
  <2> HIDE DEF live
  <2>4. Memory' /\ heap' \ scratch' = live \ scratch /\ (On("SLAB") => off' = 0 /\ heap' = live)
    BY <1>1, <2>1, <2>3, FreeScratchHolds DEF MemInv, Control
  <2>5. ptr'["x"] = OnHeap(new) /\ "x" \in DOMAIN ptr'
    BY <2>1, <2>2
  <2>6. Held("x")'
    <3>1. new \in live \ scratch
      BY <1>2, <2>2 DEF live
    <3>2. OnHeap(new) \in HeapHeld'
      BY <1>2, <2>4, <3>1 DEF HeapHeld, OnHeap
    <3> QED BY <1>1, <2>1, <2>5, <3>2 DEF Held, Home, Carried, OnHost, On
  <2>7. Places' /\ Apart'
    BY <1>4, <2>6 DEF Places, Apart
  <2>8. HeapIs'
    <3>1. SUFFICES ASSUME On("SLAB"), raises = 0 PROVE off' = 0 /\ heap' = {ptr'["x"][2]}
      BY <1>1, <1>4, <2>1 DEF HeapIs, OnHost, On
    <3>2. heap = {old}
      BY <1>1, <2>1, <3>1 DEF MemInv, HeapIs
    <3>3. live = {new} /\ ptr'["x"][2] = new
      BY <1>2, <2>2, <2>5, <3>2 DEF live, OnHeap
    <3> QED BY <2>4, <3>1, <3>3
  <2>9. HostHeapIs'
    BY <1>1 DEF HostHeapIs, OnHost, On
  <2> QED BY <1>3, <2>4, <2>7, <2>8, <2>9 DEF MemInv
<1> QED BY <1>6, <1>7

LEMMA HostCarryHolds ==
  ASSUME MemInv, HostCarry
  PROVE  MemInv'
<1>1. /\ pc = "carry" /\ OnHost /\ layer' = NextLayer /\ ptr' = ptr
      /\ pc' = IF layer < NLayers THEN "upload" ELSE "final"
      /\ setup' = setup /\ fwd' = fwd /\ cache' = cache /\ raises' = raises
      /\ \E m : FreeScratch(m, heap)
  BY DEF HostCarry
<1>2. Memory' /\ (On("SLAB") => off' = 0 /\ heap' = heap)
  BY <1>1, FreeScratchHolds DEF MemInv, Memory, Control
<1>3. Control'
  BY <1>1, SetupFacts DEF MemInv, Control, Stages, Layers, NextLayer, OnHost, On
<1>4. Live' = {"xh"} /\ "xh" \in Live
  <2>1. pc' \in {"upload", "final"} /\ OnHost'
    BY <1>1 DEF OnHost, On
  <2>2. Live' = {"xh"}
    BY <2>1 DEF Live, Needed
  <2>3. "xh" \in Live
    BY <1>1 DEF Live
  <2> QED BY <2>2, <2>3
<1>5. Held("xh")'
  BY <1>1, <1>4 DEF MemInv, Places, Held, Home
<1>6. Places' /\ Apart'
  BY <1>4, <1>5 DEF Places, Apart
<1>7. HeapIs'
  BY <1>1, <1>2 DEF HeapIs, OnHost, On
<1>8. HostHeapIs'
  <2>1. SUFFICES ASSUME On("SLAB"), raises = 0
                 PROVE  Cardinality(heap) = 3 * LayersDone' + Uploads'
    BY <1>1, <1>2 DEF HostHeapIs, OnHost, On
  <2>2. Cardinality(heap) = 3 * LayersDone + 3
    BY <1>1, <2>1 DEF MemInv, HostHeapIs, Uploads
  <2>3. layer \in 1..NLayers /\ NLayers \in Nat /\ fwd \in Nat
    BY SetupFacts DEF MemInv, Control, Layers
  <2>4. CASE layer < NLayers
    <3>1. LayersDone' = LayersDone + 1 /\ Uploads' = 0
      BY <1>1, <2>3, <2>4 DEF LayersDone, Uploads, NextLayer
    <3>2. LayersDone \in Int
      BY <1>1, <2>3 DEF LayersDone
    <3> QED BY <2>2, <3>1, <3>2
  <2>5. CASE ~(layer < NLayers)
    <3>1. LayersDone' = LayersDone /\ Uploads' = 3
      BY <1>1, <2>3, <2>5 DEF LayersDone, Uploads, NextLayer
    <3> QED BY <2>2, <3>1
  <2> QED BY <2>4, <2>5
<1> QED BY <1>2, <1>3, <1>6, <1>7, <1>8 DEF MemInv

\* The forward's end.
LEMMA EndHolds ==
  ASSUME MemInv, DeviceLogits \/ HostLogits \/ HostFinal
  PROVE  MemInv'
<1>1. /\ pc = "final" /\ pc' = "idle"
      /\ setup' = setup /\ layer' = layer /\ fwd' = fwd /\ cache' = cache /\ raises' = raises
      /\ ptr' = ptr /\ off' = off /\ scratch' = scratch
  BY DEF DeviceLogits, HostLogits, HostFinal
<1>2. heap' \in SUBSET heap
  BY DEF DeviceLogits, HostLogits, HostFinal
<1>3. Control'
  BY <1>1 DEF MemInv, Control, Stages
<1>4. Live' = {}
  BY <1>1 DEF Live, Needed
<1>5. Places' /\ Apart'
  BY <1>4 DEF Places, Apart
<1>6. CASE DeviceLogits \/ HostFinal
  <2>1. heap' = heap
    BY <1>6 DEF DeviceLogits, HostFinal
  <2>2. Memory'
    BY <1>1, <2>1 DEF MemInv, Memory, SlabCap
  <2>3. HeapIs'
    BY <1>1, <1>6, <2>1 DEF MemInv, HeapIs, OnHost, On, DeviceLogits, HostFinal
  <2>4. HostHeapIs'
    <3>1. SUFFICES ASSUME On("SLAB"), raises = 0, OnHost
                   PROVE  Cardinality(heap) = 3 * LayersDone' + 0
      BY <1>1, <2>1 DEF HostHeapIs, OnHost, On
    <3>2. Cardinality(heap) = 3 * LayersDone + 3
      BY <1>1, <3>1 DEF MemInv, HostHeapIs, Uploads
    <3>3. layer = NLayers /\ NLayers \in Nat /\ fwd \in Nat
      BY <1>1, SetupFacts DEF MemInv, Control
    <3>4. LayersDone' = LayersDone + 1 /\ LayersDone \in Int
      BY <1>1, <3>3 DEF LayersDone
    <3> QED BY <3>2, <3>4
  <2> QED BY <1>3, <1>5, <2>2, <2>3, <2>4 DEF MemInv
<1>7. CASE HostLogits
  <2>1. ~OnHost /\ heap' = heap \ OwnedResidual
    BY <1>7 DEF HostLogits
  <2>2. "x" \in Live
    BY <1>1, <2>1 DEF Live, Needed
  <2>3. ~On("GRAPH_PREP") => ptr["x"] \in HeapHeld
    BY <2>1, <2>2 DEF MemInv, Places, Held, Home, Carried
  <2>4. OwnedResidual \cap scratch = {}
    BY <2>3 DEF OwnedResidual, HeapHeld
  <2>5. Memory'
    <3>1. IsFiniteSet(heap')
      BY <1>2, FS_Subset DEF MemInv, Memory
    <3> QED BY <1>1, <2>1, <2>4, <3>1 DEF MemInv, Memory, SlabCap
  <2>6. HeapIs'
    BY <1>1, <2>1 DEF MemInv, HeapIs, OwnedResidual, OnHost, On
  <2>7. HostHeapIs'
    BY <1>1, <2>1 DEF HostHeapIs, OnHost, On
  <2> QED BY <1>3, <1>5, <2>5, <2>6, <2>7 DEF MemInv
<1> QED BY <1>6, <1>7

LEMMA RaiseHolds ==
  ASSUME MemInv, DeviceLogitsRefused \/ Raise
  PROVE  MemInv'
BY AbandonHolds DEF DeviceLogitsRefused, Raise, MemInv, Control, Memory
-----------------------------------------------------------------------------
(* Needed buffers are held, and memory is steady.                          *)

LEMMA MemInvHolds == Spec => []MemInv
<1>1. Init => MemInv
  <2> SUFFICES ASSUME Init PROVE MemInv
    OBVIOUS
  <2>1. /\ setup \in Setups /\ pc = "idle" /\ layer = 1 /\ fwd = 0 /\ off = 0 /\ heap = {}
        /\ scratch = {} /\ DOMAIN cache = Layers /\ raises = 0
    BY DEF Init
  <2>2. Control
    BY <2>1, SetupFacts DEF Control, Stages, Layers
  <2>3. Memory
    BY <2>1, SetupFacts, FS_EmptySet DEF Memory
  <2>4. Live = {}
    BY <2>1 DEF Live, Needed
  <2>5. HeapIs /\ HostHeapIs
    BY <2>1, SetupFacts, FS_EmptySet DEF HeapIs, HostHeapIs, LayersDone
  <2> QED BY <2>2, <2>3, <2>4, <2>5 DEF MemInv, Places, Apart
<1>2. MemInv /\ [Next]_vars => MemInv'
  <2> SUFFICES ASSUME MemInv, [Next]_vars PROVE MemInv'
    OBVIOUS
  <2>1. CASE Begin
    BY <2>1, BeginHolds
  <2>2. CASE AttnNorm
    BY <2>2, AttnNormHolds
  <2>3. CASE QkvFused \/ QkvSeparate
    BY <2>3, QkvHolds
  <2>4. CASE KvQuant
    BY <2>4, KvQuantHolds
  <2>5. CASE Attend \/ AttendOverflow
    BY <2>5, AttendHolds
  <2>6. CASE OProj \/ HostOProj
    BY <2>6, OProjHolds
  <2>7. CASE GateUp \/ GateUpRmsFused
    BY <2>7, GateUpHolds
  <2>8. CASE DownAddRes \/ DownAdd \/ HostDown
    BY <2>8, DownHolds
  <2>9. CASE CarryFixed \/ CarryCopied
    BY <2>9, CarryHolds
  <2>10. CASE DeviceLogits \/ HostLogits \/ HostFinal
    BY <2>10, EndHolds
  <2>11. CASE DeviceLogitsRefused \/ Raise
    BY <2>11, RaiseHolds
  <2>12. CASE HostBegin
    BY <2>12, HostBeginHolds
  <2>13. CASE HostUpload
    BY <2>13, HostUploadHolds
  <2>14. CASE HostAttend
    BY <2>14, HostAttendHolds
  <2>15. CASE HostAdd
    BY <2>15, HostAddHolds
  <2>16. CASE HostCarry
    BY <2>16, HostCarryHolds
  <2>17. CASE UNCHANGED vars
    <3>1. UNCHANGED <<setup, pc, layer, fwd, ptr, off, heap, scratch, cache, raises>>
      BY <2>17 DEF vars
    <3>2. Control'
      BY <3>1 DEF MemInv, Control, OnHost, On
    <3>3. Memory'
      BY <3>1 DEF MemInv, Memory, SlabCap
    <3>4. Live' = Live
      BY <3>1 DEF Live, Needed, CarryFused, OnHost, On
    <3>5. HeapHeld' = HeapHeld /\ SlabHeld' = SlabHeld
      BY <3>1 DEF HeapHeld, SlabHeld, On
    <3>6. \A n \in Live : Held(n)'
      BY <3>1, <3>5 DEF MemInv, Places, Held, Home, Work, Carried, OnHost, On
    <3>7. Places' /\ Apart'
      BY <3>1, <3>4, <3>6 DEF MemInv, Places, Apart
    <3>8. HeapIs' /\ HostHeapIs'
      BY <3>1 DEF MemInv, HeapIs, HostHeapIs, LayersDone, Uploads, OnHost, On
    <3> QED BY <3>2, <3>3, <3>7, <3>8 DEF MemInv
  <2> QED BY <2>1, <2>2, <2>3, <2>4, <2>5, <2>6, <2>7, <2>8, <2>9, <2>10, <2>11, <2>12, <2>13, <2>14,
             <2>15, <2>16, <2>17 DEF Next, HostLayer
<1> QED BY <1>1, <1>2, PTL DEF Spec

\* What the rest of a layer still reads is in memory that no allocation hands
\* out again and no free_scratch frees first, after any number of forwards that
\* raised, for every combination of the toggles (dev_residency: _SlabArena,
\* _scratch_alloc, free_scratch, and the residual of forward_pass_resident).
THEOREM NeededStaysHeld == Spec => []NeededIsHeld
<1>1. MemInv => NeededIsHeld
  <2> SUFFICES ASSUME MemInv PROVE NeededIsHeld
    OBVIOUS
  <2>1. scratch \subseteq heap /\ off \in 0..SlabCap
    BY DEF MemInv, Memory
  <2>2. ASSUME NEW n \in Needed
        PROVE  /\ n \in DOMAIN ptr
               /\ CASE ptr[n][1] = "slab"  -> ptr[n][2] < off
                    [] ptr[n][1] = "heap"  -> ptr[n][2] \in heap \ scratch
                    [] ptr[n][1] = "fixed" -> On("GRAPH_PREP")
                    [] ptr[n][1] = "torch" -> OnHost
    <3>1. n \in Live /\ Held(n)
      BY DEF MemInv, Places, Live
    <3>2. n \in {"xh", "yh"} => OnHost
      BY DEF Needed, MemInv, Control, Stages
    <3>3. CASE n \in {"xh", "yh"}
      <4>1. n \in DOMAIN ptr /\ ptr[n] \in {Tensor(n)}
        BY <3>1, <3>3 DEF Held, Home
      <4>2. ptr[n][1] = "torch"
        BY <4>1 DEF Tensor
      <4> QED BY <3>2, <3>3, <4>1, <4>2
    <3>4. CASE n \notin {"xh", "yh"}
      <4>1. n \in DOMAIN ptr /\ (ptr[n] \in Work \/ (Carried /\ ptr[n] \in {ResidIn, ResidOut}))
        BY <3>1, <3>4 DEF Held, Home, Work
      <4>2. CASE ptr[n] \in HeapHeld
        <5>1. ptr[n][1] = "heap" /\ ptr[n][2] \in heap \ scratch
          BY <4>2 DEF HeapHeld
        <5> QED BY <4>1, <5>1
      <4>3. CASE ptr[n] \in SlabHeld
        <5>1. ptr[n][1] = "slab" /\ ptr[n][2] < off
          BY <4>3 DEF SlabHeld
        <5> QED BY <4>1, <5>1
      <4>4. CASE Carried /\ ptr[n] \in {ResidIn, ResidOut}
        <5>1. ptr[n][1] = "fixed" /\ On("GRAPH_PREP")
          BY <4>4 DEF Carried, ResidIn, ResidOut
        <5> QED BY <4>1, <5>1
      <4> QED BY <4>1, <4>2, <4>3, <4>4 DEF Work
    <3> QED BY <3>3, <3>4
  <2> QED BY <2>1, <2>2 DEF NeededIsHeld
<1> QED BY <1>1, MemInvHolds, PTL

\* Memory does not grow with the tokens: with the slab and no forward that
\* raised, the heap between forwards is empty and the slab is free; attention
\* on the host leaves three buffers of every layer behind and no more
\* (DevTensor.from_host, free_scratch and _SlabArena.reset of dev_residency).
THEOREM MemorySteady == Spec => []HeapSteady
<1>1. MemInv => HeapSteady
  <2> SUFFICES ASSUME MemInv, On("SLAB"), raises = 0, pc = "idle"
               PROVE  off = 0 /\ Cardinality(heap) = IF OnHost THEN 3 * NLayers * fwd ELSE 0
    BY DEF HeapSteady
  <2>1. off = 0 /\ (~OnHost => heap = {})
    BY DEF MemInv, HeapIs
  <2>2. OnHost => Cardinality(heap) = 3 * NLayers * fwd
    BY SetupFacts DEF MemInv, HostHeapIs, LayersDone, Control
  <2> QED BY <2>1, <2>2, FS_EmptySet
<1> QED BY <1>1, MemInvHolds, PTL

-----------------------------------------------------------------------------
(* The values.                                                             *)

\* What each step of the reference's layer computes.
VH   == Rms(X(layer), "attn_norm")
VQ   == Biased(VH, "q")
VK   == Biased(VH, "k")
VV   == Biased(VH, "v")
VY   == Attention(Rope(VQ), [f \in 1..fwd |-> RowName(f)])
VOd  == Lin(VY, "attn_output")
VRes == Add(X(layer), VOd)
VH2  == Rms(VRes, "ffn_norm")
VG   == Lin(VH2, "ffn_gate")
VU   == Lin(VH2, "ffn_up")
VOut == X(layer + 1)

\* The value of a name at a stage.
Right(n) ==
  CASE n \in {"x", "xh"} -> IF pc = "final" THEN VOut ELSE X(layer)
    [] n = "h" -> VH
    [] n = "q" -> VQ
    [] n = "k" -> IF pc = "kv_quant" THEN VK ELSE KvQ(VK)
    [] n = "v" -> IF pc = "kv_quant" THEN VV ELSE KvQ(VV)
    [] n \in {"y", "yh"} -> VY
    [] n = "od" -> VOd
    [] n = "xres" -> VRes
    [] n = "g" -> VG
    [] n = "u" -> VU
    [] n = "out" -> VOut

\* Past the append, a layer's cache has this forward's row.
Appended == pc \in {"y", "o_proj", "xd2", "add", "ffn", "down", "carry", "final", "idle"}
RowsOf(l) == IF pc = "idle" \/ l < layer \/ (l = layer /\ Appended) THEN fwd ELSE fwd - 1

Spared == raises = 0 /\ ~DropsFfnNorm /\ ~DropsKvQuant

NamesRight  == \A n \in Live : (n = "x" => pc # "carry") => Read(n) = Right(n)
CarryRight  == /\ pc = "carry" /\ CarryFused /\ ~OnHost =>
                    ResidOut \in DOMAIN mem /\ mem[ResidOut] = VOut
               /\ pc = "final" /\ Carried => ptr["x"] = ResidOut
RowsRight   == \A l \in Layers : cache[l] = [f \in 1..RowsOf(l) |-> <<"kv", f, l>>]
LogitsRight == pc = "idle" /\ fwd > 0 => logits = LogitsOf(X(NLayers + 1))

Values == NamesRight /\ CarryRight /\ RowsRight /\ LogitsRight
ValInv == Spared => Values
-----------------------------------------------------------------------------
(* The reference's values are the same all through a layer.                *)

LEMMA SameRefs ==
  ASSUME setup' = setup, layer' = layer, fwd' = fwd
  PROVE  /\ X(layer)' = X(layer) /\ VH' = VH /\ VQ' = VQ /\ VK' = VK /\ VV' = VV /\ VY' = VY
         /\ VOd' = VOd /\ VRes' = VRes /\ VH2' = VH2 /\ VG' = VG /\ VU' = VU /\ VOut' = VOut
         /\ KvQ(VK)' = KvQ(VK) /\ KvQ(VV)' = KvQ(VV)
<1>1. X(layer)' = X(layer) /\ VOut' = VOut
  BY DEF X, VOut
<1>2. VH' = VH
  BY <1>1 DEF VH, Rms, W
<1>3. VQ' = VQ /\ VK' = VK /\ VV' = VV
  BY <1>2 DEF VQ, VK, VV, Biased, Lin, Add, W
<1>4. VY' = VY
  BY <1>3 DEF VY, Attention, Rope, RowName
<1>5. VOd' = VOd
  BY <1>4 DEF VOd, Lin, W
<1>6. VRes' = VRes
  BY <1>1, <1>5 DEF VRes, Add
<1>7. VH2' = VH2
  BY <1>6 DEF VH2, Rms, W
<1>8. VG' = VG /\ VU' = VU
  BY <1>7 DEF VG, VU, Lin, W
<1>9. KvQ(VK)' = KvQ(VK) /\ KvQ(VV)' = KvQ(VV)
  BY <1>3 DEF KvQ, On
<1> QED BY <1>1, <1>2, <1>3, <1>4, <1>5, <1>6, <1>7, <1>8, <1>9

\* A forward that raises is not spared, and a process keeps its toggles.
LEMMA StillSpared ==
  ASSUME setup' = setup, raises \in Nat, raises' \in {raises, raises + 1}, Spared'
  PROVE  Spared /\ raises' = raises
BY DEF Spared, DropsFfnNorm, DropsKvQuant, RmsFused, InKernelQuant, OnHost, On

LEMMA AbandonSpares ==
  ASSUME raises \in Nat, Abandon
  PROVE  ValInv'
BY DEF Abandon, ValInv, Spared
-----------------------------------------------------------------------------
(* An operation: its outputs are right, and what it keeps stays right.     *)

LEMMA OperationValues ==
  ASSUME MemInv, Values, NEW w, IsWork(w), NEW pl, NEW nx, Launch(w, pl, nx), cache' = cache,
         nx \notin {"idle", "final"}, \A l \in Layers : RowsOf(l)' = RowsOf(l),
         NEW Keep, NEW New, Keep \subseteq Live, Keep \cap Names(w) = {},
         Live' \subseteq Keep \cup New,
         \A n \in New : Gives(w, n, Right(n)'),
         \A n \in Keep : (n = "x" => nx # "carry") =>
           (IF ptr[n] \in DOMAIN pl THEN pl[ptr[n]] ELSE Read(n)) = Right(n)',
         nx = "carry" /\ CarryFused /\ ~OnHost => ResidOut \in DOMAIN pl /\ pl[ResidOut] = VOut
  PROVE  Values'
<1>1. /\ setup' = setup /\ layer' = layer /\ fwd' = fwd /\ pc' = nx
      /\ Memory
  BY DEF Launch, MemInv
<1>2. ASSUME NEW n \in Keep, n = "x" => nx # "carry" PROVE Read(n)' = Right(n)'
  <2>1. n \in DOMAIN ptr /\ ptr[n] \in Work \cup Fixed /\ n \notin Names(w)
    BY HeldPlace DEF MemInv, Places
  <2>2. Read(n)' = IF ptr[n] \in DOMAIN pl THEN pl[ptr[n]] ELSE Read(n)
    BY <1>1, <2>1, LaunchKeeps
  <2> QED BY <1>2, <2>2
<1>3. ASSUME NEW n \in New PROVE Read(n)' = Right(n)'
  <2>1. PICK i, p : GivesAt(w, n, Right(n)', i, p)
    BY DEF Gives
  <2> QED BY <1>1, <2>1, LaunchGives
<1>4. NamesRight'
  <2>1. ASSUME NEW n \in Live', n = "x" => pc' # "carry" PROVE Read(n)' = Right(n)'
    BY <1>1, <1>2, <1>3, <2>1
  <2> QED BY <2>1 DEF NamesRight
<1>5. CarryRight'
  <2>1. VOut' = VOut
    BY <1>1, SameRefs
  <2>2. nx = "carry" /\ CarryFused /\ ~OnHost => ResidOut \in DOMAIN mem' /\ mem'[ResidOut] = VOut
    <3>1. ResidOut \in Work \cup Fixed
      BY DEF Fixed
    <3> QED BY <1>1, <3>1, LaunchWrites
  <2> QED BY <1>1, <2>1, <2>2 DEF CarryRight, CarryFused, OnHost, On, ResidOut
<1>6. RowsRight'
  BY DEF Values, RowsRight
<1>7. LogitsRight'
  BY <1>1 DEF LogitsRight
<1> QED BY <1>4, <1>5, <1>6, <1>7 DEF Values

\* Launched or not.
LEMMA LaunchOrOverflowValues ==
  ASSUME MemInv, ValInv, NEW w, IsWork(w), NEW pl, NEW nx, LaunchOrOverflow(w, pl, nx),
         nx \notin {"idle", "final"},
         NEW Keep, NEW New, Keep \subseteq Live, Keep \cap Names(w) = {},
         Spared /\ Values /\ setup' = setup /\ layer' = layer /\ fwd' = fwd /\ pc' = nx =>
           /\ \A l \in Layers : RowsOf(l)' = RowsOf(l)
           /\ Live' \subseteq Keep \cup New
           /\ \A n \in New : Gives(w, n, Right(n)')
           /\ \A n \in Keep : (n = "x" => nx # "carry") =>
                (IF ptr[n] \in DOMAIN pl THEN pl[ptr[n]] ELSE Read(n)) = Right(n)'
           /\ nx = "carry" /\ CarryFused /\ ~OnHost => ResidOut \in DOMAIN pl /\ pl[ResidOut] = VOut
  PROVE  ValInv'
<1>1. CASE Launch(w, pl, nx)
  <2>1. SUFFICES ASSUME Spared' PROVE Values'
    BY DEF ValInv
  <2>2. /\ setup' = setup /\ layer' = layer /\ fwd' = fwd /\ pc' = nx /\ raises' = raises
        /\ cache' = cache
    BY <1>1 DEF Launch, LaunchOrOverflow
  <2>3. Spared /\ Values
    BY <2>1, <2>2, StillSpared DEF ValInv, MemInv, Control
  <2> QED BY <1>1, <2>2, <2>3, OperationValues
<1>2. CASE Overflow
  BY <1>2, AbandonSpares DEF Overflow, MemInv, Control
<1> QED BY <1>1, <1>2 DEF LaunchOrOverflow

LEMMA SameRows ==
  ASSUME layer' = layer, fwd' = fwd, pc # "idle", pc' # "idle", Appended' = Appended
  PROVE  \A l \in Layers : RowsOf(l)' = RowsOf(l)
BY DEF RowsOf

\* Launched or not, when it writes to its own buffers only.
LEMMA OutputValues ==
  ASSUME MemInv, ValInv, NEW w, IsWork(w), NEW nx, LaunchOrOverflow(w, Nowhere, nx),
         pc # "idle", nx \notin {"idle", "final"}, nx = "carry" => ~CarryFused \/ OnHost,
         NEW Keep, NEW New, Keep \subseteq Live, Keep \cap Names(w) = {},
         Spared /\ Values /\ setup' = setup /\ layer' = layer /\ fwd' = fwd /\ pc' = nx =>
           /\ Appended' = Appended
           /\ Live' \subseteq Keep \cup New
           /\ \A n \in New : Gives(w, n, Right(n)')
           /\ \A n \in Keep : (n = "x" => nx # "carry") => Read(n) = Right(n)'
  PROVE  ValInv'
<1>1. CASE Launch(w, Nowhere, nx)
  <2>1. SUFFICES ASSUME Spared' PROVE Values'
    BY DEF ValInv
  <2>2. /\ setup' = setup /\ layer' = layer /\ fwd' = fwd /\ pc' = nx /\ raises' = raises
        /\ cache' = cache
    BY <1>1 DEF Launch, LaunchOrOverflow
  <2>3. Spared /\ Values
    BY <2>1, <2>2, StillSpared DEF ValInv, MemInv, Control
  <2>4. /\ Appended' = Appended /\ Live' \subseteq Keep \cup New
        /\ \A n \in New : Gives(w, n, Right(n)')
        /\ \A n \in Keep : (n = "x" => nx # "carry") => Read(n) = Right(n)'
    BY <2>2, <2>3
  <2>5. \A l \in Layers : RowsOf(l)' = RowsOf(l)
    BY <2>2, <2>4, SameRows
  <2>6. DOMAIN Nowhere = {}
    BY DEF Nowhere
  <2> QED BY <1>1, <2>2, <2>3, <2>4, <2>5, <2>6, OperationValues
<1>2. CASE Overflow
  BY <1>2, AbandonSpares DEF Overflow, MemInv, Control
<1> QED BY <1>1, <1>2 DEF LaunchOrOverflow

\* What Right says, name by name, of this state and of the next.
LEMMA Rights ==
  /\ pc # "final" => Right("x") = X(layer) /\ Right("xh") = X(layer)
  /\ pc = "final" => Right("x") = VOut /\ Right("xh") = VOut
  /\ Right("h") = VH /\ Right("q") = VQ
  /\ pc # "kv_quant" => Right("k") = KvQ(VK) /\ Right("v") = KvQ(VV)
  /\ pc = "kv_quant" => Right("k") = VK /\ Right("v") = VV
  /\ Right("y") = VY /\ Right("yh") = VY /\ Right("od") = VOd
  /\ Right("xres") = VRes /\ Right("g") = VG /\ Right("u") = VU /\ Right("out") = VOut
BY DEF Right

LEMMA RightsNext ==
  ASSUME setup' = setup, layer' = layer, fwd' = fwd
  PROVE  /\ pc' # "final" => Right("x")' = X(layer) /\ Right("xh")' = X(layer)
         /\ pc' = "final" => Right("x")' = VOut /\ Right("xh")' = VOut
         /\ Right("h")' = VH /\ Right("q")' = VQ
         /\ pc' # "kv_quant" => Right("k")' = KvQ(VK) /\ Right("v")' = KvQ(VV)
         /\ pc' = "kv_quant" => Right("k")' = VK /\ Right("v")' = VV
         /\ Right("y")' = VY /\ Right("yh")' = VY /\ Right("od")' = VOd
         /\ Right("xres")' = VRes /\ Right("g")' = VG /\ Right("u")' = VU /\ Right("out")' = VOut
<1>1. /\ pc' # "final" => Right("x")' = X(layer)' /\ Right("xh")' = X(layer)'
      /\ pc' = "final" => Right("x")' = VOut' /\ Right("xh")' = VOut'
      /\ Right("h")' = VH' /\ Right("q")' = VQ'
  BY DEF Right
<1>2. /\ pc' # "kv_quant" => Right("k")' = KvQ(VK)' /\ Right("v")' = KvQ(VV)'
      /\ pc' = "kv_quant" => Right("k")' = VK' /\ Right("v")' = VV'
  BY DEF Right
<1>3. /\ Right("y")' = VY' /\ Right("yh")' = VY' /\ Right("od")' = VOd'
      /\ Right("xres")' = VRes' /\ Right("g")' = VG' /\ Right("u")' = VU' /\ Right("out")' = VOut'
  BY DEF Right
<1> QED BY <1>1, <1>2, <1>3, SameRefs

\* The residuals stay what they are until the layer's end.
LEMMA ResidualsRight ==
  ASSUME Values, Residuals \subseteq Live, pc \notin {"final", "carry"}, pc' # "final",
         setup' = setup, layer' = layer, fwd' = fwd
  PROVE  \A n \in Residuals : Read(n) = X(layer) /\ Right(n)' = X(layer)
BY Rights, RightsNext DEF Values, NamesRight, Residuals

LEMMA AttnNormValues ==
  ASSUME MemInv, ValInv, AttnNorm
  PROVE  ValInv'
<1> DEFINE v    == Rms(Read("x"), "attn_norm")
           w    == <<Out("h", v)>>
           Keep == Residuals
           New  == {"h"}
<1>1. IsWork(w) /\ Names(w) = {"h"} /\ Gives(w, "h", v)
  BY GivesOut
<1>2. pc = "attn_norm" /\ LaunchOrOverflow(w, Nowhere, "qkv")
  BY DEF AttnNorm
<1> HIDE DEF w
<1>3. Keep \subseteq Live /\ Keep \cap Names(w) = {}
  BY <1>1, <1>2 DEF Residuals, Live, Needed
<1>4. ASSUME Values, setup' = setup, layer' = layer, fwd' = fwd, pc' = "qkv"
      PROVE  /\ Appended' = Appended
             /\ Live' \subseteq Keep \cup New
             /\ \A n \in New : Gives(w, n, Right(n)')
             /\ \A n \in Keep : Read(n) = Right(n)'
  <2>1. Live' \subseteq Keep \cup New
    BY <1>4 DEF Residuals, Live, Needed, OnHost, On
  <2>2. Appended' = Appended
    BY <1>2, <1>4 DEF Appended
  <2>3. \A n \in Keep : Read(n) = X(layer) /\ Right(n)' = X(layer)
    BY <1>2, <1>3, <1>4, ResidualsRight
  <2>4. v = VH /\ Right("h")' = VH
    BY <1>4, <2>3, RightsNext DEF VH, Residuals
  <2> QED BY <1>1, <2>1, <2>2, <2>3, <2>4
<1> HIDE DEF Keep, New
<1> QED BY <1>1, <1>2, <1>3, <1>4, OutputValues

LEMMA QkvValues ==
  ASSUME MemInv, ValInv, QkvFused \/ QkvSeparate
  PROVE  ValInv'
<1> DEFINE h    == Read("h")
           one  == BiasedWork(h, <<"q", "k", "v">>)
           all  == BiasedWork(h, <<"q">>) \o BiasedWork(h, <<"k">>) \o BiasedWork(h, <<"v">>)
           Keep == Residuals
           New  == {"q", "k", "v"}
<1>1. pc = "qkv" /\ pc \notin {"idle", "final", "carry"}
  BY DEF QkvFused, QkvSeparate
<1>2. Keep \subseteq Live /\ "h" \in Live /\ Keep \cap New = {}
  BY <1>1 DEF Residuals, Live, Needed
<1>3. ASSUME Spared, Values, setup' = setup, layer' = layer, fwd' = fwd, NEW nx, pc' = nx,
             nx = "kv_quant" \/ (nx = "attend" /\ On("FUSE_QKV"))
      PROVE  /\ Appended' = Appended
             /\ Live' \subseteq Keep \cup New
             /\ \A n \in New : Biased(h, n) = Right(n)'
             /\ \A n \in Keep : Read(n) = Right(n)'
  <2>1. Live' \subseteq Keep \cup New
    BY <1>3 DEF Residuals, Live, Needed, OnHost, On
  <2>2. Appended' = Appended
    BY <1>1, <1>3 DEF Appended
  <2>3. \A n \in Keep : Read(n) = X(layer) /\ Right(n)' = X(layer)
    BY <1>1, <1>2, <1>3, ResidualsRight
  <2>4. h = VH
    BY <1>2, <1>3, Rights DEF Values, NamesRight
  <2>5. Biased(h, "q") = VQ /\ Biased(h, "k") = VK /\ Biased(h, "v") = VV
    BY <2>4 DEF VQ, VK, VV
  <2>6. nx = "attend" => KvQ(VK) = VK /\ KvQ(VV) = VV
    BY <1>3 DEF KvQ, Spared, DropsKvQuant
  <2>7. Right("q")' = VQ /\ Right("k")' = VK /\ Right("v")' = VV
    BY <1>3, <2>6, RightsNext
  <2> QED BY <2>1, <2>2, <2>3, <2>5, <2>7
<1>4. CASE QkvFused
  <2>1. LaunchOrOverflow(one, Nowhere, "attend") /\ On("FUSE_QKV")
    BY <1>4 DEF QkvFused
  <2>2. IsWork(one) /\ Names(one) = New /\ \A n \in New : Gives(one, n, Biased(h, n))
    BY QkvOfOne DEF GivesQkv
  <2> HIDE DEF one, h, Keep, New
  <2> QED BY <1>1, <1>2, <1>3, <2>1, <2>2, OutputValues
<1>5. CASE QkvSeparate
  <2>1. LaunchOrOverflow(all, Nowhere, "kv_quant")
    BY <1>5 DEF QkvSeparate
  <2>2. IsWork(all) /\ Names(all) = New /\ \A n \in New : Gives(all, n, Biased(h, n))
    BY QkvOfThree DEF GivesQkv
  <2> HIDE DEF all, h, Keep, New
  <2> QED BY <1>1, <1>2, <1>3, <2>1, <2>2, OutputValues
<1> QED BY <1>4, <1>5

\* A name that holds a value of the reference points to memory.
LEMMA ReadFrom ==
  ASSUME NEW n, Read(n) # Garbage
  PROVE  n \in DOMAIN ptr /\ ptr[n] \in DOMAIN mem /\ mem[ptr[n]] = Read(n)
BY DEF Read

\* The round trip hits K and V, and nothing else.
LEMMA KvQuantValues ==
  ASSUME MemInv, ValInv, KvQuant
  PROVE  ValInv'
<1> DEFINE pl   == [a \in {ptr["k"], ptr["v"]} |-> KvQ(mem[a])]
           Keep == Residuals \cup {"q", "k", "v"}
           New  == {}
<1>1. IsWork(<< >>) /\ Names(<< >>) = {}
  BY NamelessWork
<1>2. pc = "kv_quant" /\ LaunchOrOverflow(<< >>, pl, "attend")
  BY DEF KvQuant
<1>3. Keep \subseteq Live
  BY <1>2 DEF Residuals, Live, Needed
<1>4. ASSUME Values, setup' = setup, layer' = layer, fwd' = fwd, pc' = "attend"
      PROVE  /\ \A l \in Layers : RowsOf(l)' = RowsOf(l)
             /\ Live' \subseteq Keep \cup New
             /\ \A n \in Keep : (IF ptr[n] \in DOMAIN pl THEN pl[ptr[n]] ELSE Read(n)) = Right(n)'
  <2>1. Live' \subseteq Keep \cup New
    BY <1>4 DEF Residuals, Live, Needed, OnHost, On
  <2>2. \A l \in Layers : RowsOf(l)' = RowsOf(l)
    BY <1>2, <1>4, SameRows DEF Appended
  <2>3. \A n \in Residuals : Read(n) = X(layer) /\ Right(n)' = X(layer)
    BY <1>2, <1>3, <1>4, ResidualsRight
  <2>4. Read("q") = VQ /\ Read("k") = VK /\ Read("v") = VV
    BY <1>2, <1>3, <1>4, Rights DEF Values, NamesRight
  <2>5. Right("q")' = VQ /\ Right("k")' = KvQ(VK) /\ Right("v")' = KvQ(VV)
    BY <1>4, RightsNext
  <2>6. VK # Garbage /\ VV # Garbage
    BY DEF VK, VV, Biased, Add, Garbage
  <2>7. mem[ptr["k"]] = VK /\ mem[ptr["v"]] = VV
    BY <2>4, <2>6, ReadFrom
  <2>8. \A n \in Residuals \cup {"q"} : ptr[n] \notin DOMAIN pl
    BY <1>3 DEF MemInv, Apart, Residuals
  <2>9. pl[ptr["k"]] = KvQ(VK) /\ pl[ptr["v"]] = KvQ(VV) /\ {ptr["k"], ptr["v"]} \subseteq DOMAIN pl
    BY <2>7
  <2> HIDE DEF pl
  <2> QED BY <2>1, <2>2, <2>3, <2>4, <2>5, <2>8, <2>9
<1> DEFINE Kept(n) == IF ptr[n] \in DOMAIN pl THEN pl[ptr[n]] ELSE Read(n)
<1>5. Spared /\ Values /\ setup' = setup /\ layer' = layer /\ fwd' = fwd /\ pc' = "attend" =>
        /\ \A l \in Layers : RowsOf(l)' = RowsOf(l)
        /\ Live' \subseteq Keep \cup New
        /\ \A n \in New : Gives(<< >>, n, Right(n)')
        /\ \A n \in Keep : (n = "x" => "attend" # "carry") => Kept(n) = Right(n)'
        /\ "attend" = "carry" /\ CarryFused /\ ~OnHost =>
             ResidOut \in DOMAIN pl /\ pl[ResidOut] = VOut
  <2> HIDE DEF pl, Keep
  <2> QED BY <1>4
<1>6. "attend" \notin {"idle", "final"} /\ Keep \cap Names(<< >>) = {}
  BY <1>1
<1> HIDE DEF pl, Keep, New
<1> QED BY <1>1, <1>2, <1>3, <1>5, <1>6, LaunchOrOverflowValues

LEMMA OProjValues ==
  ASSUME MemInv, ValInv, OProj \/ HostOProj
  PROVE  ValInv'
<1> DEFINE y  == Read("y")
           od == Lin(y, "attn_output")
           vs == <<od>>
<1>1. pc = "o_proj" /\ pc \notin {"idle", "final", "carry"}
  BY DEF OProj, HostOProj
<1>2. Residuals \subseteq Live /\ "y" \in Live /\ "x" \in Live
  BY <1>1 DEF Residuals, Live, Needed
<1>3. Values => od = VOd
  BY <1>2, Rights DEF Values, NamesRight, VOd
<1>4. CASE OProj
  <2> DEFINE res  == Add(Read("x"), od)
             w    == IF On("ADDRES_FUSED") THEN AddResWork(y, <<"xres">>, <<res>>)
                     ELSE LinearWork(y, << >>, vs) \o <<Out("xres", res)>>
             Keep == {}
             New  == {"xres"}
  <2>1. LaunchOrOverflow(w, Nowhere, "ffn") /\ ~OnHost
    BY <1>4 DEF OProj
  <2>2. IsWork(w) /\ Names(w) = {"xres"} /\ Gives(w, "xres", res)
    <3> HIDE DEF res, vs, y
    <3> QED BY OProjGives
  <2>3. ASSUME Values, setup' = setup, layer' = layer, fwd' = fwd, pc' = "ffn"
        PROVE  /\ Appended' = Appended
               /\ Live' \subseteq {"x"} \cup New
               /\ Gives(w, "xres", Right("xres")')
               /\ Read("x") = Right("x")'
    <3>1. Live' \subseteq {"x"} \cup New
      BY <2>1, <2>3 DEF Live, Needed, OnHost, On
    <3>2. Appended' = Appended
      BY <1>1, <2>3 DEF Appended
    <3>3. Read("x") = X(layer) /\ Right("x")' = X(layer)
      BY <1>1, <1>2, <2>3, ResidualsRight DEF Residuals
    <3>4. res = VRes
      BY <1>3, <2>3, <3>3 DEF VRes
    <3>5. Right("xres")' = VRes
      BY <2>3, RightsNext
    <3> HIDE DEF w, res
    <3> QED BY <2>2, <3>1, <3>2, <3>3, <3>4, <3>5
  <2> HIDE DEF w
  <2>4. {"x"} \cap Names(w) = {} /\ {"x"} \subseteq Live
    BY <1>2, <2>2
  <2> QED BY <1>1, <2>1, <2>2, <2>3, <2>4, OutputValues
<1>5. CASE HostOProj
  <2> DEFINE w    == LinearWork(y, <<"od">>, vs)
             New  == {"od"}
  <2>1. LaunchOrOverflow(w, Nowhere, "xd2") /\ OnHost
    BY <1>5 DEF HostOProj
  <2>2. IsWork(w) /\ Names(w) = {"od"} /\ Gives(w, "od", od)
    BY LinearOne
  <2>3. ASSUME Values, setup' = setup, layer' = layer, fwd' = fwd, pc' = "xd2"
        PROVE  /\ Appended' = Appended
               /\ Live' \subseteq Residuals \cup New
               /\ Gives(w, "od", Right("od")')
               /\ \A n \in Residuals : Read(n) = Right(n)'
    <3>1. Live' \subseteq Residuals \cup New
      BY <2>1, <2>3 DEF Residuals, Live, Needed, OnHost, On
    <3>2. Appended' = Appended
      BY <1>1, <2>3 DEF Appended
    <3>3. \A n \in Residuals : Read(n) = X(layer) /\ Right(n)' = X(layer)
      BY <1>1, <1>2, <2>3, ResidualsRight
    <3>4. od = VOd /\ Right("od")' = VOd
      BY <1>3, <2>3, RightsNext
    <3> HIDE DEF w, od
    <3> QED BY <2>2, <3>1, <3>2, <3>3, <3>4
  <2> HIDE DEF w
  <2>4. Residuals \cap Names(w) = {}
    BY <2>2 DEF Residuals
  <2> QED BY <1>1, <1>2, <2>1, <2>2, <2>3, <2>4, OutputValues
<1> QED BY <1>4, <1>5

LEMMA HostAddValues ==
  ASSUME MemInv, ValInv, HostAdd
  PROVE  ValInv'
<1> DEFINE v    == Add(Read("x"), Read("od"))
           w    == <<Out("xres", v)>>
           New  == {"xres"}
<1>1. IsWork(w) /\ Names(w) = {"xres"} /\ Gives(w, "xres", v)
  BY GivesOut
<1>2. pc = "add" /\ LaunchOrOverflow(w, Nowhere, "ffn")
  BY DEF HostAdd
<1> HIDE DEF w
<1>3. Residuals \subseteq Live /\ Residuals \cap Names(w) = {} /\ "od" \in Live
  BY <1>1, <1>2 DEF Residuals, Live, Needed
<1>4. ASSUME Values, setup' = setup, layer' = layer, fwd' = fwd, pc' = "ffn"
      PROVE  /\ Appended' = Appended
             /\ Live' \subseteq Residuals \cup New
             /\ \A n \in New : Gives(w, n, Right(n)')
             /\ \A n \in Residuals : Read(n) = Right(n)'
  <2>1. Live' \subseteq Residuals \cup New
    BY <1>4 DEF Residuals, Live, Needed, OnHost, On
  <2>2. Appended' = Appended
    BY <1>2, <1>4 DEF Appended
  <2>3. \A n \in Residuals : Read(n) = X(layer) /\ Right(n)' = X(layer)
    BY <1>2, <1>3, <1>4, ResidualsRight
  <2>4. Read("od") = VOd
    BY <1>2, <1>3, <1>4, Rights DEF Values, NamesRight
  <2>5. v = VRes /\ Right("xres")' = VRes
    BY <1>4, <2>3, <2>4, RightsNext DEF VRes, Residuals
  <2> HIDE DEF v
  <2> QED BY <1>1, <2>1, <2>2, <2>3, <2>5
<1> HIDE DEF New
<1> QED BY <1>1, <1>2, <1>3, <1>4, OutputValues

LEMMA GateUpValues ==
  ASSUME MemInv, ValInv, GateUp \/ GateUpRmsFused
  PROVE  ValInv'
<1> DEFINE Keep == Residuals \cup {"xres"}
           New  == {"g", "u"}
<1>1. pc = "ffn" /\ pc \notin {"idle", "final", "carry"}
  BY DEF GateUp, GateUpRmsFused
<1>2. Keep \subseteq Live /\ Residuals \subseteq Live /\ Keep \cap {"h2", "g", "u"} = {}
  BY <1>1 DEF Residuals, Live, Needed
<1>3. ASSUME Values PROVE Rms(Read("xres"), "ffn_norm") = VH2
  BY <1>1, <1>2, <1>3, Rights DEF Values, NamesRight, VH2
<1>4. ASSUME NEW w, LaunchOrOverflow(w, Nowhere, "down"), NEW z, Spared /\ Values => z = VH2,
             GivesGateUp(w, Lin(z, "ffn_gate"), Lin(z, "ffn_up"))
      PROVE  ValInv'
  <2>1. ASSUME Spared, Values, setup' = setup, layer' = layer, fwd' = fwd, pc' = "down"
        PROVE  /\ Appended' = Appended
               /\ Live' \subseteq Keep \cup New
               /\ \A n \in New : Gives(w, n, Right(n)')
               /\ \A n \in Keep : Read(n) = Right(n)'
    <3>1. Live' \subseteq Keep \cup New
      BY <2>1 DEF Residuals, Live, Needed, OnHost, On
    <3>2. Appended' = Appended
      BY <1>1, <2>1 DEF Appended
    <3>3. \A n \in Residuals : Read(n) = X(layer) /\ Right(n)' = X(layer)
      BY <1>1, <1>2, <2>1, ResidualsRight
    <3>4. Read("xres") = VRes /\ Right("xres")' = VRes
      BY <1>1, <1>2, <2>1, Rights, RightsNext DEF Values, NamesRight
    <3>5. Lin(z, "ffn_gate") = Right("g")' /\ Lin(z, "ffn_up") = Right("u")'
      BY <1>4, <2>1, RightsNext DEF VG, VU
    <3> QED BY <1>4, <3>1, <3>2, <3>3, <3>4, <3>5 DEF GivesGateUp
  <2>2. IsWork(w) /\ Keep \cap Names(w) = {}
    BY <1>2, <1>4 DEF GivesGateUp
  <2> HIDE DEF Keep, New
  <2> QED BY <1>1, <1>2, <1>4, <2>1, <2>2, OutputValues
<1>5. CASE GateUp
  <2> DEFINE h2 == Rms(Read("xres"), "ffn_norm")
             g  == Lin(h2, "ffn_gate")
             u  == Lin(h2, "ffn_up")
             w  == <<Out("h2", h2)>> \o
                     (IF On("FUSE_GATEUP") THEN LinearWork(h2, <<"g", "u">>, <<g, u>>)
                      ELSE LinearWork(h2, <<"g">>, <<g>>) \o LinearWork(h2, <<"u">>, <<u>>))
  <2>1. LaunchOrOverflow(w, Nowhere, "down")
    BY <1>5 DEF GateUp
  <2>2. GivesGateUp(w, g, u)
    <3> HIDE DEF h2, g, u
    <3> QED BY GateUpGives
  <2>3. Spared /\ Values => h2 = VH2
    BY <1>3
  <2> HIDE DEF w, h2
  <2> QED BY <1>4, <2>1, <2>2, <2>3
<1>6. CASE GateUpRmsFused
  <2> DEFINE z == GateUpInput
             g == Lin(z, "ffn_gate")
             u == Lin(z, "ffn_up")
             w == LinearWork(z, <<"g", "u">>, <<g, u>>)
  <2>1. LaunchOrOverflow(w, Nowhere, "down") /\ RmsFused
    BY <1>6 DEF GateUpRmsFused
  <2>2. GivesGateUp(w, g, u)
    <3> HIDE DEF z, g, u
    <3> QED BY GateUpOfOne
  <2>3. Spared /\ Values => z = VH2
    BY <1>3, <2>1 DEF GateUpInput, Spared, DropsFfnNorm
  <2> HIDE DEF w, z
  <2> QED BY <1>4, <2>1, <2>2, <2>3
<1> QED BY <1>5, <1>6

\* The down projection makes the next layer's residual.
LEMMA DownOutRight ==
  ASSUME Values, pc = "down"
  PROVE  DownOut = VOut
<1>1. {"xres", "g", "u"} \subseteq Live
  BY DEF Live, Needed
<1>2. Read("xres") = VRes /\ Read("g") = VG /\ Read("u") = VU
  BY <1>1, Rights DEF Values, NamesRight
<1>3. RefLayer = Add(VRes, Lin(Silu(VG, VU), "ffn_down"))
  BY DEF RefLayer, VH, VQ, VY, VOd, VRes, VH2, VG, VU
<1> QED BY <1>2, <1>3 DEF DownOut, Named, VOut

\* Rows one to n, from those before and the n-th.
LEMMA AppendRow ==
  ASSUME NEW n \in Nat \ {0}, NEW l
  PROVE  Append([f \in 1..(n - 1) |-> <<"kv", f, l>>], <<"kv", n, l>>) = [f \in 1..n |-> <<"kv", f, l>>]
<1> DEFINE S == {<<"kv", f, l>> : f \in 1..n}
           s == [f \in 1..(n - 1) |-> <<"kv", f, l>>]
           e == <<"kv", n, l>>
<1>1. s \in Seq(S) /\ e \in S /\ Len(s) = n - 1 /\ \A f \in 1..(n - 1) : s[f] = <<"kv", f, l>>
  OBVIOUS
<1> HIDE DEF s, e, S
<1>2. /\ Append(s, e) \in Seq(S) /\ Len(Append(s, e)) = Len(s) + 1
      /\ \A i \in 1..Len(s) : Append(s, e)[i] = s[i]
      /\ Append(s, e)[Len(s) + 1] = e
  BY <1>1, AppendProperties
<1>3. DOMAIN Append(s, e) = 1..n
  BY <1>1, <1>2, LenProperties
<1>4. ASSUME NEW f \in 1..n PROVE Append(s, e)[f] = <<"kv", f, l>>
  BY <1>1, <1>2 DEF e
<1>5. Append(s, e) = [f \in DOMAIN Append(s, e) |-> Append(s, e)[f]]
  <2> DEFINE c == Append(s, e)
  <2>1. c \in Seq(S)
    BY <1>2
  <2> HIDE DEF c
  <2>2. c \in [1..Len(c) -> S]
    BY <2>1, LenProperties
  <2>3. c = [f \in DOMAIN c |-> c[f]]
    BY <2>2
  <2> QED BY <2>3 DEF c
<1>6. Append(s, e) = [f \in 1..n |-> <<"kv", f, l>>]
  BY <1>3, <1>4, <1>5
<1> QED BY <1>6 DEF s, e

\* What attention reads, and the row it leaves behind.
LEMMA AttendReads ==
  ASSUME MemInv, Values, pc = "attend"
  PROVE  /\ Attention(Rope(Read("q")), Append1[layer]) = VY
         /\ Append1[layer] = [f \in 1..fwd |-> RowName(f)]
         /\ \A l \in Layers : l # layer => Append1[l] = cache[l]
<1>1. {"q", "k", "v"} \subseteq Live
  BY DEF Live, Needed
<1>2. Read("q") = VQ /\ Read("k") = KvQ(VK) /\ Read("v") = KvQ(VV)
  BY <1>1, Rights DEF Values, NamesRight
<1>3. RefRow = <<Rope(KvQ(VK)), KvQ(VV)>>
  BY DEF RefRow, VH, VK, VV
<1>4. NewRow = RowName(fwd)
  BY <1>2, <1>3 DEF NewRow, NamedRow
<1>5. layer \in Layers /\ DOMAIN cache = Layers /\ fwd \in Nat \ {0}
  BY DEF MemInv, Control
<1>6. cache[layer] = [f \in 1..(fwd - 1) |-> <<"kv", f, layer>>]
  <2>1. RowsOf(layer) = fwd - 1
    BY <1>5 DEF RowsOf, Appended, Layers
  <2> QED BY <1>5, <2>1 DEF Values, RowsRight
<1>7. Append1[layer] = Append(cache[layer], NewRow) /\ \A l \in Layers : l # layer => Append1[l] = cache[l]
  BY <1>5 DEF Append1
<1>8. Append1[layer] = [f \in 1..fwd |-> <<"kv", f, layer>>]
  BY <1>4, <1>5, <1>6, <1>7, AppendRow DEF RowName
<1> QED BY <1>2, <1>7, <1>8 DEF VY, RowName

LEMMA AttendRows ==
  ASSUME MemInv, Values, pc = "attend", cache' = Append1, layer' = layer, fwd' = fwd,
         pc' \in {"o_proj", "y"}
  PROVE  RowsRight'
<1>1. ASSUME NEW l \in Layers PROVE cache'[l] = [f \in 1..RowsOf(l)' |-> <<"kv", f, l>>]
  <2>1. CASE l = layer
    <3>1. RowsOf(l)' = fwd
      BY <2>1 DEF RowsOf, Appended
    <3> QED BY <2>1, <3>1, AttendReads DEF RowName
  <2>2. CASE l # layer
    <3>1. RowsOf(l)' = RowsOf(l)
      BY <2>2 DEF RowsOf, Appended
    <3> QED BY <2>2, <3>1, AttendReads DEF Values, RowsRight
  <2> QED BY <2>1, <2>2
<1> QED BY <1>1 DEF RowsRight, Layers

LEMMA AttendValues ==
  ASSUME MemInv, ValInv, Attend
  PROVE  ValInv'
<1> DEFINE v  == Attention(Rope(Read("q")), Append1[layer])
           w  == RopeScratch \o <<Out("y", v)>>
           pl == [a \in {ptr["q"], ptr["k"]} |-> Rope(mem[a])]
<1>1. IsWork(w) /\ Names(w) = {"y"} /\ Gives(w, "y", v)
  <2> HIDE DEF v
  <2> QED BY AttendGives
<1>2. pc = "attend" /\ ~OnHost /\ Launch(w, pl, "o_proj") /\ cache' = Append1
  BY DEF Attend
<1> HIDE DEF w
<1>3. /\ setup' = setup /\ layer' = layer /\ fwd' = fwd /\ pc' = "o_proj" /\ raises' = raises
  BY <1>2 DEF Launch
<1>4. SUFFICES ASSUME Spared' PROVE Values'
  BY DEF ValInv
<1>5. Spared /\ Values
  BY <1>3, <1>4, StillSpared DEF ValInv, MemInv, Control
<1>6. RowsRight'
  BY <1>2, <1>3, <1>5, AttendRows
<1>7. Live' = {"x", "y"} /\ {"x", "q", "k"} \subseteq Live
  BY <1>2, <1>3 DEF Live, Needed, OnHost, On
<1>8. Read("y")' = Right("y")'
  <2>1. v = VY /\ Right("y")' = VY
    BY <1>2, <1>3, <1>5, AttendReads, RightsNext
  <2>2. PICK i, p : GivesAt(w, "y", v, i, p)
    BY <1>1 DEF Gives
  <2> HIDE DEF v, pl
  <2>3. Read("y")' = v
    BY <1>1, <1>2, <2>2, LaunchGives DEF MemInv
  <2> QED BY <2>1, <2>3
<1>9. Read("x")' = Right("x")'
  <2>1. Read("x") = X(layer) /\ Right("x")' = X(layer)
    BY <1>2, <1>3, <1>5, <1>7, Rights, RightsNext DEF Values, NamesRight
  <2>2. ptr["x"] \notin DOMAIN pl
    BY <1>7 DEF MemInv, Apart
  <2>3. "x" \in DOMAIN ptr /\ ptr["x"] \in Work \cup Fixed
    BY <1>7, HeldPlace DEF MemInv, Places
  <2> HIDE DEF pl
  <2>4. "x" \notin Names(w)
    BY <1>1
  <2>5. Read("x")' = Read("x")
    BY <1>1, <1>2, <2>2, <2>3, <2>4, LaunchKeeps DEF MemInv
  <2> QED BY <2>1, <2>5
<1>10. NamesRight'
  BY <1>7, <1>8, <1>9 DEF NamesRight
<1>11. CarryRight' /\ LogitsRight'
  BY <1>3 DEF CarryRight, LogitsRight
<1> QED BY <1>6, <1>10, <1>11 DEF Values

LEMMA DownValues ==
  ASSUME MemInv, ValInv, DownAddRes \/ DownAdd \/ HostDown
  PROVE  ValInv'
<1> DEFINE gu   == Silu(Read("g"), Read("u"))
           vs   == <<Lin(gu, "ffn_down")>>
           Keep == Residuals
           New  == IF CarryFused /\ ~OnHost THEN {} ELSE {"out"}
           pl   == IF CarryFused /\ ~OnHost THEN [a \in {ResidOut} |-> DownOut] ELSE Nowhere
<1>1. pc = "down" /\ pc \notin {"idle", "final"}
  BY DEF DownAddRes, DownAdd, HostDown
<1>2. Keep \subseteq Live /\ Keep \cap {"gu", "out"} = {} /\ New \subseteq {"out"}
  BY <1>1 DEF Residuals, Live, Needed
<1>3. ASSUME NEW w, LaunchOrOverflow(w, pl, "carry"), IsWork(w),
             Names(w) \subseteq {"gu", "out"}, New # {} => Gives(w, "out", DownOut)
      PROVE  ValInv'
  <2>1. ASSUME Values, setup' = setup, layer' = layer, fwd' = fwd, pc' = "carry"
        PROVE  /\ \A l \in Layers : RowsOf(l)' = RowsOf(l)
               /\ Live' \subseteq Keep \cup New
               /\ \A n \in New : Gives(w, n, Right(n)')
               /\ \A n \in Keep : n # "x" => ptr[n] \notin DOMAIN pl /\ Read(n) = Right(n)'
               /\ CarryFused /\ ~OnHost => ResidOut \in DOMAIN pl /\ pl[ResidOut] = VOut
    <3>1. Live' \subseteq Keep \cup New
      BY <1>1, <2>1 DEF Residuals, Live, Needed, CarryFused, OnHost, On
    <3>2. \A l \in Layers : RowsOf(l)' = RowsOf(l)
      BY <1>1, <2>1, SameRows DEF Appended
    <3>3. DownOut = VOut
      BY <1>1, <2>1, DownOutRight
    <3>4. \A n \in New : Gives(w, n, Right(n)')
      <4>1. Right("out")' = VOut
        BY <2>1, RightsNext
      <4> QED BY <1>2, <1>3, <3>3, <4>1
    <3>5. \A n \in Keep : n # "x" => ptr[n] \notin DOMAIN pl /\ Read(n) = Right(n)'
      <4>1. ASSUME NEW n \in Keep, n # "x" PROVE n = "xh" /\ OnHost
        BY <4>1 DEF Residuals
      <4>2. OnHost => DOMAIN pl = {}
        BY DEF Nowhere
      <4>3. \A n \in Keep : Read(n) = X(layer) /\ Right(n)' = X(layer)
        BY <1>1, <1>2, <2>1, ResidualsRight
      <4> QED BY <4>1, <4>2, <4>3
    <3>6. CarryFused /\ ~OnHost => ResidOut \in DOMAIN pl /\ pl[ResidOut] = VOut
      BY <3>3
    <3> QED BY <3>1, <3>2, <3>4, <3>5, <3>6
  <2> DEFINE Kept(n) == IF ptr[n] \in DOMAIN pl THEN pl[ptr[n]] ELSE Read(n)
  <2>2. Spared /\ Values /\ setup' = setup /\ layer' = layer /\ fwd' = fwd /\ pc' = "carry" =>
          /\ \A l \in Layers : RowsOf(l)' = RowsOf(l)
          /\ Live' \subseteq Keep \cup New
          /\ \A n \in New : Gives(w, n, Right(n)')
          /\ \A n \in Keep : (n = "x" => "carry" # "carry") => Kept(n) = Right(n)'
          /\ "carry" = "carry" /\ CarryFused /\ ~OnHost =>
               ResidOut \in DOMAIN pl /\ pl[ResidOut] = VOut
    <3> HIDE DEF pl, Keep, New
    <3> QED BY <2>1
  <2>3. Keep \cap Names(w) = {} /\ "carry" \notin {"idle", "final"}
    BY <1>2, <1>3
  <2> HIDE DEF pl, Keep, New
  <2> QED BY <1>1, <1>2, <1>3, <2>2, <2>3, LaunchOrOverflowValues
<1>4. CASE DownAddRes
  <2> DEFINE w  == (IF SiluFused THEN << >> ELSE <<Out("gu", gu)>>) \o QuantScratch(gu)
                     \o (IF CarryFused THEN << >> ELSE <<Out("out", DownOut)>>)
  <2>1. LaunchOrOverflow(w, pl, "carry") /\ ~OnHost
    BY <1>4 DEF DownAddRes
  <2>2. IsWork(w) /\ Names(w) \subseteq {"gu", "out"} /\ (~CarryFused => Gives(w, "out", DownOut))
    <3> HIDE DEF gu
    <3> QED BY DownAddResGives
  <2>3. New # {} => ~CarryFused
    BY <2>1
  <2> HIDE DEF w, pl, New
  <2> QED BY <1>3, <2>1, <2>2, <2>3
<1>5. CASE DownAdd
  <2> DEFINE w == <<Out("gu", gu), Temp(gu)>> \o LinearWork(gu, << >>, vs) \o <<Out("out", DownOut)>>
  <2>1. LaunchOrOverflow(w, Nowhere, "carry") /\ pl = Nowhere
    BY <1>5 DEF DownAdd, CarryFused
  <2>2. IsWork(w) /\ Names(w) = {"gu", "out"} /\ Gives(w, "out", DownOut)
    <3> HIDE DEF gu, vs
    <3> QED BY TwiceComputed, DownGives
  <2> HIDE DEF w, pl, New
  <2> QED BY <1>3, <2>1, <2>2
<1>6. CASE HostDown
  <2> DEFINE w == <<Out("gu", gu)>> \o LinearWork(gu, << >>, vs) \o <<Out("out", DownOut)>>
  <2>1. LaunchOrOverflow(w, Nowhere, "carry") /\ pl = Nowhere
    BY <1>6 DEF HostDown
  <2>2. IsWork(w) /\ Names(w) = {"gu", "out"} /\ Gives(w, "out", DownOut)
    <3> HIDE DEF gu, vs
    <3> QED BY TwiceComputed, DownGives
  <2> HIDE DEF w, pl, New
  <2> QED BY <1>3, <2>1, <2>2
<1> QED BY <1>4, <1>5, <1>6
-----------------------------------------------------------------------------
(* Where the residual moves, and with it what it holds.                    *)

\* free_scratch leaves what is held outside the slab as it is.
LEMMA FreeScratchKeeps ==
  ASSUME NEW m, NEW live, FreeScratch(m, live), NEW a,
         a \in HeapHeld \cup Fixed \/ (a[1] = "heap" /\ a[2] \notin scratch)
  PROVE  (a \in DOMAIN mem' <=> a \in DOMAIN m) /\ (a \in DOMAIN m => mem'[a] = m[a])
<1>1. a[1] = "heap" => a[2] \notin scratch
  BY DEF HeapHeld, Fixed, ResidIn, ResidOut, Tensor
<1>2. CASE On("SLAB")
  BY <1>2 DEF FreeScratch
<1>3. CASE ~On("SLAB")
  <2>1. mem' = [b \in {b \in DOMAIN m : b[1] = "heap" => b[2] \notin scratch} |-> m[b]]
    BY <1>3 DEF FreeScratch, Freed
  <2> QED BY <1>1, <2>1
<1> QED BY <1>2, <1>3

LEMMA BeginValues ==
  ASSUME MemInv, ValInv, Begin
  PROVE  ValInv'
<1> DEFINE home == IF On("GRAPH_PREP") THEN ResidIn ELSE OnHeap(NthFree(1))
<1>1. /\ pc = "idle" /\ ~OnHost /\ fwd' = fwd + 1 /\ layer' = 1 /\ pc' = "attn_norm"
      /\ mem' = [a \in {home} \cup DOMAIN mem |-> IF a = home THEN <<"x", fwd + 1, 1>> ELSE mem[a]]
      /\ ptr' = [n \in {"x"} \cup DOMAIN ptr |-> IF n = "x" THEN home ELSE ptr[n]]
      /\ setup' = setup /\ cache' = cache /\ raises' = raises
  BY DEF Begin
<1> HIDE DEF home
<1>2. SUFFICES ASSUME Spared' PROVE Values'
  BY DEF ValInv
<1>3. Values
  BY <1>1, <1>2, StillSpared DEF ValInv, MemInv, Control
<1>4. Read("x")' = <<"x", fwd + 1, 1>>
  BY <1>1 DEF Read
<1>5. Live' = {"x"}
  BY <1>1 DEF Live, Needed, OnHost, On
<1>6. NamesRight'
  <2>1. Right("x")' = X(layer)'
    BY <1>1 DEF Right
  <2>2. X(layer)' = <<"x", fwd + 1, 1>>
    BY <1>1 DEF X
  <2> QED BY <1>4, <1>5, <2>1, <2>2 DEF NamesRight
<1>7. RowsRight'
  <2>1. \A l \in Layers : RowsOf(l)' = RowsOf(l)
    BY <1>1, SetupFacts DEF RowsOf, Appended, MemInv, Control, Layers
  <2> QED BY <1>1, <1>3, <2>1 DEF Values, RowsRight
<1>8. CarryRight' /\ LogitsRight'
  BY <1>1 DEF CarryRight, LogitsRight
<1> QED BY <1>6, <1>7, <1>8 DEF Values

LEMMA HostBeginValues ==
  ASSUME MemInv, ValInv, HostBegin
  PROVE  ValInv'
<1>1. /\ pc = "idle" /\ OnHost /\ fwd' = fwd + 1 /\ layer' = 1 /\ pc' = "upload"
      /\ mem' = Put(mem, Tensor("xh"), <<"x", fwd + 1, 1>>) /\ ptr' = Point("xh", Tensor("xh"))
      /\ setup' = setup /\ cache' = cache /\ raises' = raises
  BY DEF HostBegin
<1>2. SUFFICES ASSUME Spared' PROVE Values'
  BY DEF ValInv
<1>3. Values
  BY <1>1, <1>2, StillSpared DEF ValInv, MemInv, Control
<1>4. Read("xh")' = <<"x", fwd + 1, 1>>
  BY <1>1 DEF Read, Put, Point
<1>5. Live' = {"xh"}
  BY <1>1 DEF Live, Needed, OnHost, On
<1>6. NamesRight'
  <2>1. Right("xh")' = X(layer)'
    BY <1>1 DEF Right
  <2>2. X(layer)' = <<"x", fwd + 1, 1>>
    BY <1>1 DEF X
  <2> QED BY <1>4, <1>5, <2>1, <2>2 DEF NamesRight
<1>7. RowsRight'
  <2>1. \A l \in Layers : RowsOf(l)' = RowsOf(l)
    BY <1>1, SetupFacts DEF RowsOf, Appended, MemInv, Control, Layers
  <2> QED BY <1>1, <1>3, <2>1 DEF Values, RowsRight
<1>8. CarryRight' /\ LogitsRight'
  BY <1>1 DEF CarryRight, LogitsRight
<1> QED BY <1>6, <1>7, <1>8 DEF Values

LEMMA HostUploadValues ==
  ASSUME MemInv, ValInv, HostUpload
  PROVE  ValInv'
<1> DEFINE new == NthFree(1)
<1>1. PICK from, to, nx :
        /\ \/ pc = "upload" /\ from = "xh" /\ to = "x" /\ nx = "attn_norm"
           \/ pc = "y" /\ from = "yh" /\ to = "y" /\ nx = "o_proj"
           \/ pc = "xd2" /\ from = "xh" /\ to = "x" /\ nx = "add"
        /\ Upload(from, to) /\ pc' = nx
  BY DEF HostUpload
<1>2. /\ mem' = Put(mem, OnHeap(new), Read(from)) /\ ptr' = Point(to, OnHeap(new))
      /\ setup' = setup /\ layer' = layer /\ fwd' = fwd /\ cache' = cache /\ raises' = raises
  BY <1>1 DEF Upload
<1>3. OnHeap(new) \notin Work \cup Fixed
  BY FreshBuffer DEF MemInv
<1> HIDE DEF new
<1>4. OnHost
  BY <1>1 DEF MemInv, Control
<1>5. SUFFICES ASSUME Spared' PROVE Values'
  BY DEF ValInv
<1>6. Values
  BY <1>2, <1>5, StillSpared DEF ValInv, MemInv, Control
<1>7. Live' \ {to} \subseteq Live /\ from \in Live
  BY <1>1, <1>2, <1>4 DEF Live, Needed, OnHost, On
<1>8. Read(to)' = Read(from)
  BY <1>2 DEF Read, Put, Point
<1>9. Read(from) = Right(to)'
  <2>1. Read(from) = Right(from)
    BY <1>1, <1>6, <1>7 DEF Values, NamesRight
  <2> QED BY <1>1, <1>2, <2>1, Rights, RightsNext
<1>10. ASSUME NEW n \in Live' \ {to} PROVE Read(n)' = Right(n)'
  <2>1. n \in Live /\ n \in DOMAIN ptr /\ ptr[n] \in Work \cup Fixed
    BY <1>7, HeldPlace DEF MemInv, Places
  <2>2. ptr[n] # OnHeap(new)
    BY <1>3, <2>1
  <2>3. Read(n)' = Read(n)
    BY <1>2, <2>1, <2>2 DEF Read, Put, Point
  <2>4. n \in {"x", "xh", "od"}
    BY <1>1, <1>2, <1>4 DEF Live, Needed, OnHost, On
  <2>5. Read(n) = Right(n)
    BY <1>1, <1>6, <2>1 DEF Values, NamesRight
  <2>6. Right(n)' = Right(n)
    BY <1>1, <1>2, <2>4, Rights, RightsNext
  <2> QED BY <2>3, <2>5, <2>6
<1>11. NamesRight'
  <2>1. ASSUME NEW n \in Live' PROVE Read(n)' = Right(n)'
    BY <1>8, <1>9, <1>10
  <2> QED BY <2>1 DEF NamesRight
<1>12. RowsRight'
  <2>1. \A l \in Layers : RowsOf(l)' = RowsOf(l)
    BY <1>1, <1>2, SameRows DEF Appended
  <2> QED BY <1>2, <1>6, <2>1 DEF Values, RowsRight
<1>13. CarryRight' /\ LogitsRight'
  BY <1>1 DEF CarryRight, LogitsRight
<1> QED BY <1>11, <1>12, <1>13 DEF Values

LEMMA HostAttendValues ==
  ASSUME MemInv, ValInv, HostAttend
  PROVE  ValInv'
<1> DEFINE v == Attention(Rope(Read("q")), Append1[layer])
           m == Put(mem, Tensor("yh"), v)
<1>1. /\ pc = "attend" /\ OnHost /\ pc' = "y" /\ ptr' = Point("yh", Tensor("yh")) /\ cache' = Append1
      /\ setup' = setup /\ layer' = layer /\ fwd' = fwd /\ raises' = raises /\ FreeScratch(m, heap)
  BY DEF HostAttend
<1>2. SUFFICES ASSUME Spared' PROVE Values'
  BY DEF ValInv
<1>3. Values
  BY <1>1, <1>2, StillSpared DEF ValInv, MemInv, Control
<1>4. v = VY
  BY <1>1, <1>3, AttendReads
<1> HIDE DEF v
<1>5. Live' = {"x", "xh", "yh"} /\ {"x", "xh"} \subseteq Live
  BY <1>1 DEF Live, Needed, OnHost, On
<1>6. Read("yh")' = Right("yh")'
  <2>1. Tensor("yh") \in HeapHeld \cup Fixed
    BY DEF Fixed
  <2>2. Tensor("yh") \in DOMAIN m /\ m[Tensor("yh")] = v
    BY DEF Put
  <2> HIDE DEF m
  <2>3. Tensor("yh") \in DOMAIN mem' /\ mem'[Tensor("yh")] = v
    BY <1>1, <2>1, <2>2, FreeScratchKeeps
  <2>4. Read("yh")' = v
    BY <1>1, <2>3 DEF Read, Point
  <2> QED BY <1>1, <1>4, <2>4, RightsNext
<1>7. ASSUME NEW n \in {"x", "xh"} PROVE Read(n)' = Right(n)'
  <2>1. n \in DOMAIN ptr /\ ptr[n] \in Home(n) /\ n \in Live
    BY <1>5 DEF MemInv, Places, Held
  <2>2. ptr[n] \in HeapHeld \cup Fixed /\ ptr[n] # Tensor("yh")
    BY <1>1, <2>1 DEF Home, Carried, Fixed, HeapHeld, Tensor
  <2>3. (ptr[n] \in DOMAIN m <=> ptr[n] \in DOMAIN mem) /\ (ptr[n] \in DOMAIN mem => m[ptr[n]] = mem[ptr[n]])
    BY <2>2 DEF Put
  <2> HIDE DEF m
  <2>4. (ptr[n] \in DOMAIN mem' <=> ptr[n] \in DOMAIN mem) /\ (ptr[n] \in DOMAIN mem => mem'[ptr[n]] = mem[ptr[n]])
    BY <1>1, <2>2, <2>3, FreeScratchKeeps
  <2>5. Read(n)' = Read(n)
    BY <1>1, <2>1, <2>4 DEF Read, Point
  <2>6. Read(n) = X(layer) /\ Right(n)' = X(layer)
    BY <1>1, <1>3, <2>1, Rights, RightsNext DEF Values, NamesRight
  <2> QED BY <2>5, <2>6
<1>8. NamesRight'
  BY <1>5, <1>6, <1>7 DEF NamesRight
<1>9. RowsRight'
  BY <1>1, <1>3, AttendRows
<1>10. CarryRight' /\ LogitsRight'
  BY <1>1 DEF CarryRight, LogitsRight
<1> QED BY <1>8, <1>9, <1>10 DEF Values

\* From a layer's end to the next layer, or to the logits.
LEMMA NextLayerRows ==
  ASSUME MemInv, Values, pc = "carry", cache' = cache, fwd' = fwd, layer' = NextLayer,
         (pc' \in {"attn_norm", "upload"} /\ layer < NLayers) \/ (pc' = "final" /\ layer = NLayers)
  PROVE  RowsRight'
<1>1. \A l \in Layers : RowsOf(l)' = RowsOf(l)
  BY SetupFacts DEF RowsOf, Appended, NextLayer, MemInv, Control, Layers
<1> QED BY <1>1 DEF Values, RowsRight

LEMMA NextLayerRight ==
  ASSUME setup' = setup, fwd' = fwd, layer' = NextLayer, layer \in Nat,
         (pc' \in {"attn_norm", "upload"} /\ layer < NLayers) \/ (pc' = "final" /\ layer = NLayers)
  PROVE  Right("x")' = VOut /\ Right("xh")' = VOut
<1>1. CASE pc' # "final"
  <2>1. Right("x")' = X(layer)' /\ Right("xh")' = X(layer)'
    BY <1>1 DEF Right
  <2>2. layer' = layer + 1
    BY <1>1 DEF NextLayer
  <2>3. X(layer)' = VOut
    BY <2>2 DEF X, VOut
  <2> QED BY <2>1, <2>3
<1>2. CASE pc' = "final"
  <2>1. Right("x")' = VOut' /\ Right("xh")' = VOut'
    BY <1>2 DEF Right
  <2>2. layer' = layer
    BY <1>2 DEF NextLayer
  <2>3. VOut' = VOut
    BY <2>2 DEF X, VOut
  <2> QED BY <2>1, <2>3
<1> QED BY <1>1, <1>2

LEMMA CarryValues ==
  ASSUME MemInv, ValInv, CarryFixed \/ CarryCopied
  PROVE  ValInv'
<1>1. /\ pc = "carry" /\ ~OnHost /\ pc' = NextOp /\ layer' = NextLayer
      /\ setup' = setup /\ fwd' = fwd /\ cache' = cache /\ raises' = raises
  BY DEF CarryFixed, CarryCopied
<1>2. SUFFICES ASSUME Spared' PROVE Values'
  BY DEF ValInv
<1>3. Values
  BY <1>1, <1>2, StillSpared DEF ValInv, MemInv, Control
<1>4. layer \in 1..NLayers /\ NLayers \in Nat
  BY SetupFacts DEF MemInv, Control, Layers
<1>5. (pc' \in {"attn_norm", "upload"} /\ layer < NLayers) \/ (pc' = "final" /\ layer = NLayers)
  BY <1>1, <1>4 DEF NextOp
<1>6. Live' = {"x"} /\ "x" \in Live
  BY <1>1 DEF Live, Needed, NextOp, OnHost, On
<1>7. RowsRight' /\ LogitsRight'
  BY <1>1, <1>3, <1>5, NextLayerRows DEF LogitsRight
<1>8. ~CarryFused => Read("out") = VOut
  <2>1. ~CarryFused => "out" \in Live
    BY <1>1 DEF Live, Needed
  <2> QED BY <1>1, <1>3, <2>1, Rights DEF Values, NamesRight
<1>9. Right("x")' = VOut
  BY <1>1, <1>4, <1>5, NextLayerRight
<1>10. "x" \in DOMAIN ptr
  BY <1>6 DEF MemInv, Places, Held
<1>11. CASE CarryFixed
  <2> DEFINE m == IF CarryFused THEN mem
                  ELSE [a \in {ResidOut} \cup DOMAIN mem |-> IF a = ResidOut THEN Read("out") ELSE mem[a]]
  <2>1. FreeScratch(m, heap) /\ ptr' = [ptr EXCEPT !["x"] = ResidOut]
    BY <1>11 DEF CarryFixed, CarryHome
  <2>2. ResidOut \in DOMAIN m /\ m[ResidOut] = VOut
    BY <1>1, <1>3, <1>8 DEF Values, CarryRight
  <2> HIDE DEF m
  <2>3. ResidOut \in HeapHeld \cup Fixed
    BY DEF Fixed
  <2>4. ResidOut \in DOMAIN mem' /\ mem'[ResidOut] = VOut
    BY <2>1, <2>2, <2>3, FreeScratchKeeps
  <2>5. ptr'["x"] = ResidOut /\ "x" \in DOMAIN ptr'
    BY <1>10, <2>1
  <2>6. Read("x")' = Right("x")'
    BY <1>9, <2>4, <2>5 DEF Read
  <2>7. NamesRight' /\ CarryRight'
    BY <1>5, <1>6, <2>5, <2>6 DEF NamesRight, CarryRight, ResidOut
  <2> QED BY <1>7, <2>7 DEF Values
<1>12. CASE CarryCopied
  <2> DEFINE nxt == NthFree(1)
             m   == [a \in {OnHeap(nxt)} \cup DOMAIN Freed(mem, OwnedResidual) |->
                       IF a = OnHeap(nxt) THEN Read("out") ELSE mem[a]]
  <2>1. /\ ~On("GRAPH_PREP") /\ ptr' = [ptr EXCEPT !["x"] = OnHeap(nxt)]
        /\ FreeScratch(m, (heap \cup {nxt}) \ OwnedResidual)
    BY <1>12 DEF CarryCopied
  <2>2. OnHeap(nxt) \in DOMAIN m /\ m[OnHeap(nxt)] = VOut
    BY <1>8, <2>1 DEF CarryFused
  <2>3. OnHeap(nxt)[1] = "heap" /\ OnHeap(nxt)[2] \notin scratch
    BY FreshBuffer DEF OnHeap, MemInv
  <2> HIDE DEF m, nxt
  <2>4. OnHeap(nxt) \in DOMAIN mem' /\ mem'[OnHeap(nxt)] = VOut
    BY <2>1, <2>2, <2>3, FreeScratchKeeps
  <2>5. ptr'["x"] = OnHeap(nxt) /\ "x" \in DOMAIN ptr'
    BY <1>10, <2>1
  <2>6. Read("x")' = Right("x")'
    BY <1>9, <2>4, <2>5 DEF Read
  <2>7. NamesRight'
    BY <1>6, <2>6 DEF NamesRight
  <2>8. CarryRight'
    <3>1. pc' # "carry" /\ ~Carried'
      BY <1>1, <1>5, <2>1 DEF Carried, OnHost, On
    <3> QED BY <3>1 DEF CarryRight
  <2> QED BY <1>7, <2>7, <2>8 DEF Values
<1> QED BY <1>11, <1>12

LEMMA HostCarryValues ==
  ASSUME MemInv, ValInv, HostCarry
  PROVE  ValInv'
<1> DEFINE m == Put(mem, Tensor("xh"), Read("out"))
<1>1. /\ pc = "carry" /\ OnHost /\ pc' = (IF layer < NLayers THEN "upload" ELSE "final")
      /\ layer' = NextLayer /\ FreeScratch(m, heap)
      /\ setup' = setup /\ fwd' = fwd /\ cache' = cache /\ raises' = raises /\ ptr' = ptr
  BY DEF HostCarry
<1>2. SUFFICES ASSUME Spared' PROVE Values'
  BY DEF ValInv
<1>3. Values
  BY <1>1, <1>2, StillSpared DEF ValInv, MemInv, Control
<1>4. layer \in 1..NLayers /\ NLayers \in Nat
  BY SetupFacts DEF MemInv, Control, Layers
<1>5. (pc' \in {"attn_norm", "upload"} /\ layer < NLayers) \/ (pc' = "final" /\ layer = NLayers)
  BY <1>1, <1>4
<1>6. Live' = {"xh"} /\ {"xh", "out"} \subseteq Live
  <2>1. pc' \in {"upload", "final"} /\ OnHost'
    BY <1>1 DEF OnHost, On
  <2>2. Live' = {"xh"}
    BY <2>1 DEF Live, Needed
  <2>3. {"xh", "out"} \subseteq Live
    BY <1>1 DEF Live, Needed
  <2> QED BY <2>2, <2>3
<1>7. RowsRight' /\ LogitsRight'
  BY <1>1, <1>3, <1>5, NextLayerRows DEF LogitsRight
<1>8. Read("out") = VOut
  BY <1>1, <1>3, <1>6, Rights DEF Values, NamesRight
<1>9. "xh" \in DOMAIN ptr /\ ptr["xh"] = Tensor("xh")
  BY <1>6 DEF MemInv, Places, Held, Home
<1>10. Tensor("xh") \in HeapHeld \cup Fixed
  BY DEF Fixed
<1>11. Tensor("xh") \in DOMAIN m /\ m[Tensor("xh")] = VOut
  BY <1>8 DEF Put
<1> HIDE DEF m
<1>12. Tensor("xh") \in DOMAIN mem' /\ mem'[Tensor("xh")] = VOut
  BY <1>1, <1>10, <1>11, FreeScratchKeeps
<1>13. Read("xh")' = Right("xh")'
  BY <1>1, <1>4, <1>5, <1>9, <1>12, NextLayerRight DEF Read
<1>14. NamesRight'
  BY <1>6, <1>13 DEF NamesRight
<1>15. CarryRight'
  <2>1. pc' # "carry" /\ ~Carried'
    BY <1>1, <1>5 DEF Carried, OnHost, On
  <2> QED BY <2>1 DEF CarryRight
<1> QED BY <1>7, <1>14, <1>15 DEF Values

LEMMA EndValues ==
  ASSUME MemInv, ValInv, DeviceLogits \/ HostLogits \/ HostFinal
  PROVE  ValInv'
<1>1. /\ pc = "final" /\ pc' = "idle" /\ setup' = setup /\ layer' = layer /\ fwd' = fwd
      /\ cache' = cache /\ raises' = raises
  BY DEF DeviceLogits, HostLogits, HostFinal
<1>2. SUFFICES ASSUME Spared' PROVE Values'
  BY DEF ValInv
<1>3. Values
  BY <1>1, <1>2, StillSpared DEF ValInv, MemInv, Control
<1>4. layer = NLayers
  BY <1>1 DEF MemInv, Control
<1>5. (~OnHost => Read("x") = VOut) /\ (OnHost => Read("xh") = VOut)
  <2>1. (~OnHost => "x" \in Live) /\ (OnHost => "xh" \in Live)
    BY <1>1 DEF Live, Needed
  <2> QED BY <1>1, <1>3, <2>1, Rights DEF Values, NamesRight
<1>6. logits' = LogitsOf(VOut)
  <2>1. CASE DeviceLogits
    <3>1. Carried /\ ptr["x"] = ResidOut /\ logits' = LogitsOf(mem[ResidOut])
      BY <1>1, <1>3, <2>1 DEF DeviceLogits, Values, CarryRight, Carried
    <3>2. VOut # Garbage
      BY DEF VOut, X, Garbage
    <3>3. mem[ResidOut] = VOut
      BY <1>5, <3>1, <3>2, ReadFrom DEF Carried
    <3> QED BY <3>1, <3>3
  <2>2. CASE HostLogits
    BY <1>5, <2>2 DEF HostLogits
  <2>3. CASE HostFinal
    BY <1>5, <2>3 DEF HostFinal
  <2> QED BY <2>1, <2>2, <2>3
<1>7. LogitsRight'
  <2>1. LogitsOf(X(NLayers + 1))' = LogitsOf(X(NLayers + 1))
    BY <1>1 DEF LogitsOf, FinalNorm, VocabGemv, VocabMatmul, VocabW, X, OnHost, On
  <2>2. VOut = X(NLayers + 1)
    BY <1>4 DEF VOut
  <2> QED BY <1>6, <2>1, <2>2 DEF LogitsRight
<1>8. RowsRight'
  <2>1. \A l \in Layers : RowsOf(l)' = RowsOf(l)
    BY <1>1, <1>4, SetupFacts DEF RowsOf, Appended, MemInv, Control, Layers
  <2> QED BY <1>1, <1>3, <2>1 DEF Values, RowsRight
<1>9. Live' = {}
  BY <1>1 DEF Live, Needed
<1> QED BY <1>1, <1>7, <1>8, <1>9 DEF Values, NamesRight, CarryRight

LEMMA RaiseValues ==
  ASSUME MemInv, ValInv, AttendOverflow \/ DeviceLogitsRefused \/ Raise
  PROVE  ValInv'
BY AbandonSpares DEF AttendOverflow, Overflow, DeviceLogitsRefused, Raise, MemInv, Control
-----------------------------------------------------------------------------
(* The forward computes the reference.                                     *)

LEMMA ValInvHolds == Spec => []ValInv
<1>1. Init => ValInv
  <2> SUFFICES ASSUME Init PROVE Values
    BY DEF ValInv
  <2>1. pc = "idle" /\ fwd = 0 /\ cache = [l \in Layers |-> << >>]
    BY DEF Init
  <2>2. Live = {}
    BY <2>1 DEF Live, Needed
  <2>3. RowsRight
    <3>1. ASSUME NEW l \in Layers PROVE cache[l] = [f \in 1..RowsOf(l) |-> <<"kv", f, l>>]
      <4>1. RowsOf(l) = 0 /\ cache[l] = << >>
        BY <2>1 DEF RowsOf
      <4> QED BY <4>1
    <3> QED BY <3>1 DEF RowsRight
  <2> QED BY <2>1, <2>2, <2>3 DEF Values, NamesRight, CarryRight, LogitsRight
<1>2. MemInv /\ ValInv /\ [Next]_vars => ValInv'
  <2> SUFFICES ASSUME MemInv, ValInv, [Next]_vars PROVE ValInv'
    OBVIOUS
  <2>1. CASE Begin
    BY <2>1, BeginValues
  <2>2. CASE AttnNorm
    BY <2>2, AttnNormValues
  <2>3. CASE QkvFused \/ QkvSeparate
    BY <2>3, QkvValues
  <2>4. CASE KvQuant
    BY <2>4, KvQuantValues
  <2>5. CASE Attend
    BY <2>5, AttendValues
  <2>6. CASE OProj \/ HostOProj
    BY <2>6, OProjValues
  <2>7. CASE GateUp \/ GateUpRmsFused
    BY <2>7, GateUpValues
  <2>8. CASE DownAddRes \/ DownAdd \/ HostDown
    BY <2>8, DownValues
  <2>9. CASE CarryFixed \/ CarryCopied
    BY <2>9, CarryValues
  <2>10. CASE DeviceLogits \/ HostLogits \/ HostFinal
    BY <2>10, EndValues
  <2>11. CASE AttendOverflow \/ DeviceLogitsRefused \/ Raise
    BY <2>11, RaiseValues
  <2>12. CASE HostBegin
    BY <2>12, HostBeginValues
  <2>13. CASE HostUpload
    BY <2>13, HostUploadValues
  <2>14. CASE HostAttend
    BY <2>14, HostAttendValues
  <2>15. CASE HostAdd
    BY <2>15, HostAddValues
  <2>16. CASE HostCarry
    BY <2>16, HostCarryValues
  <2>17. CASE UNCHANGED vars
    <3>1. UNCHANGED <<setup, pc, layer, fwd, mem, ptr, cache, logits, raises>>
      BY <2>17 DEF vars
    <3>2. SUFFICES ASSUME Spared' PROVE Values'
      BY DEF ValInv
    <3>3. Values
      BY <3>1, <3>2, StillSpared DEF ValInv, MemInv, Control
    <3>4. Live' = Live
      BY <3>1 DEF Live, Needed, CarryFused, OnHost, On
    <3>5. \A n : Read(n)' = Read(n)
      BY <3>1 DEF Read
    <3>6. \A n : Right(n)' = Right(n)
      BY <3>1, SameRefs DEF Right
    <3>7. NamesRight'
      BY <3>1, <3>3, <3>4, <3>5, <3>6 DEF Values, NamesRight
    <3>8. CarryRight'
      BY <3>1, <3>3, SameRefs DEF Values, CarryRight, CarryFused, Carried, OnHost, On, ResidOut
    <3>9. RowsRight'
      BY <3>1, <3>3 DEF Values, RowsRight, RowsOf, Appended, Layers
    <3>10. LogitsRight'
      BY <3>1, <3>3 DEF Values, LogitsRight, LogitsOf, FinalNorm, VocabGemv, VocabMatmul, VocabW, X,
             OnHost, On
    <3> QED BY <3>7, <3>8, <3>9, <3>10 DEF Values
  <2> QED BY <2>1, <2>2, <2>3, <2>4, <2>5, <2>6, <2>7, <2>8, <2>9, <2>10, <2>11, <2>12, <2>13, <2>14,
             <2>15, <2>16, <2>17 DEF Next, HostLayer
<1> QED BY <1>1, <1>2, MemInvHolds, PTL DEF Spec

\* "Produces the SAME logits + kv_cache as decode_fact.forward_pass": for every
\* number of layers and of forwards, every slab and every combination of the
\* toggles but the two that drop an operation, residuals, cached rows and
\* logits are the reference's (forward_pass_resident of dev_residency).
THEOREM ForwardIsReference == Spec => []SameForward
<1>1. MemInv /\ ValInv => SameForward
  <2> SUFFICES ASSUME MemInv, ValInv, raises = 0, ~DropsFfnNorm, ~DropsKvQuant PROVE Faithful
    BY DEF SameForward
  <2>1. Values
    BY DEF ValInv, Spared
  <2>2. pc \in {"attn_norm", "add"} => Read("x") = X(layer)
    <3>1. pc \in {"attn_norm", "add"} => "x" \in Live
      BY DEF Live, Needed
    <3> QED BY <2>1, <3>1, Rights DEF Values, NamesRight
  <2>3. ASSUME NEW l \in Layers PROVE cache[l] = [f \in DOMAIN cache[l] |-> <<"kv", f, l>>]
    BY <2>1 DEF Values, RowsRight
  <2>4. pc = "idle" /\ fwd > 0 => logits = LogitsOf(X(NLayers + 1))
    BY <2>1 DEF Values, LogitsRight
  <2> QED BY <2>2, <2>3, <2>4 DEF Faithful
<1> QED BY <1>1, MemInvHolds, ValInvHolds, PTL
=============================================================================
