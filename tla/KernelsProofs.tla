---------------------------- MODULE KernelsProofs ----------------------------
(***************************************************************************)
(* The argmax, for any number of logits, of blocks and of threads: the     *)
(* token that the two stages choose is the first maximum, and for every    *)
(* input what one block chooses (TokenIsFirstMax).                         *)
(*                                                                         *)
(* Both are the best of the same entries (BestOf): Better is a strict      *)
(* order once what a thread holds was compared with Start, whatever NaN    *)
(* there is among the logits (NotBetter), so there is one best (OneBest).  *)
(* A thread's loop leaves the best of its share (ThreadIs), the halving    *)
(* the best of the block's entries (ReducedIs), and the chunks of stage 1  *)
(* leave out no logit (ChunksCover).                                       *)
(*                                                                         *)
(* The attention, for any block size, length and number of lanes: its      *)
(* shared memory is used safely (MemoryIsSafe), and what the kernels with  *)
(* the frozen layout write is the softmax summed in the frozen order       *)
(* (FrozenSoftmax).                                                        *)
(*                                                                         *)
(* The barriers keep the threads of a block in step (InStep): each is at   *)
(* the block's operation or past it.  Then no two touch a cell that one    *)
(* of them writes (NoRace), and Contents says what every cell and register *)
(* holds: what the operation needs where its thread has not run, what the  *)
(* next one needs where it has.  Halving t modulo 2s gives t modulo s      *)
(* (HalfMod, MaxJoins), and zeros past the length leave a sum alone        *)
(* (LaneSumIs).                                                            *)
(***************************************************************************)
EXTENDS DeviceArgmax, BlockSoftmax, FiniteSetTheorems, WellFoundedInduction, TLAPS

\* A set of numbers that holds 0 and with each number the next one holds all.
LEMMA CountUp ==
  ASSUME NEW T \in SUBSET Nat, 0 \in T, \A k \in T : k + 1 \in T
  PROVE  \A k \in Nat : k \in T
<1> DEFINE R == OpToRel(<, Nat)
           U == Nat \ T
<1>1. \A j, k \in Nat : <<j, k>> \in R <=> j < k
  BY DEF OpToRel
<1>2. IsWellFoundedOn(R, Nat)
  BY NatLessThanWellFounded
<1> SUFFICES ASSUME U # {} PROVE FALSE
  OBVIOUS
<1>3. U \subseteq Nat
  OBVIOUS
<1> HIDE DEF R, U
<1>4. PICK m \in U : \A k \in U : ~ (<<k, m>> \in R)
  BY <1>2, <1>3, WFMin
<1>5. m \in Nat /\ m # 0
  BY <1>3 DEF U
<1>6. m - 1 \in Nat /\ m - 1 < m
  BY <1>5
<1>7. m - 1 \notin U
  BY <1>1, <1>4, <1>5, <1>6
<1>8. (m - 1) + 1 \in T
  BY <1>6, <1>7 DEF U
<1> QED BY <1>5, <1>8 DEF U

-----------------------------------------------------------------------------
(* The best of a set of entries.                                           *)

Pairs == Nat \X Nat

\* What a thread holds has been compared with Start, so it is no NaN and not
\* below it.
Held(e) == e \in Pairs /\ e[1] >= Floor

BestOf(E, e) ==
  /\ Held(e) /\ e \in E \cup {Start}
  /\ \A x \in E \cup {Start} : ~Better(x, e)

LEMMA StartHeld == Held(Start) /\ Start \in Pairs
  BY DEF Held, Start, Pairs, Floor, INT_MAX

LEMMA NotBetter ==
  ASSUME NEW x \in Pairs, NEW y \in Pairs, NEW z \in Pairs, Held(y), Held(z),
         ~Better(x, y), ~Better(y, z)
  PROVE  ~Better(x, z)
  BY DEF Better, Gt, Eq, Held, Pairs, NaN, Floor

LEMMA OneBest ==
  ASSUME NEW E \in SUBSET Pairs, NEW e, NEW f, BestOf(E, e), BestOf(E, f)
  PROVE  e = f
<1>1. e \in Pairs /\ f \in Pairs /\ e[1] >= Floor /\ f[1] >= Floor
  BY DEF BestOf, Held
<1>2. ~Better(e, f) /\ ~Better(f, e)
  BY DEF BestOf
<1>3. e[1] = f[1] /\ e[2] = f[2]
  BY <1>1, <1>2 DEF Better, Gt, Eq, Pairs, NaN, Floor
<1> QED BY <1>1, <1>3 DEF Pairs

LEMMA BestOfNone == BestOf({}, Start)
  BY StartHeld DEF BestOf, Better, Gt, Eq, Start, Floor, INT_MAX, NaN

\* What Take leaves is held, one of the two, and neither is better.
LEMMA TakeHolds ==
  ASSUME NEW e \in Pairs, NEW x \in Pairs, Held(e)
  PROVE  /\ Held(Take(e, x)) /\ Take(e, x) \in {e, x} /\ Take(e, x) \in Pairs
         /\ ~Better(e, Take(e, x)) /\ ~Better(x, Take(e, x))
<1>1. CASE Better(x, e)
  BY <1>1 DEF Take, Better, Gt, Eq, Held, Pairs, NaN, Floor
<1>2. CASE ~Better(x, e)
  BY <1>2 DEF Take, Better, Gt, Eq, Held, Pairs, NaN, Floor
<1> QED BY <1>1, <1>2

LEMMA TakeOne ==
  ASSUME NEW E \in SUBSET Pairs, NEW e, BestOf(E, e), NEW x \in Pairs
  PROVE  BestOf(E \cup {x}, Take(e, x))
<1> DEFINE f == Take(e, x)
<1>1. Held(e) /\ e \in Pairs /\ e \in E \cup {Start}
  BY DEF BestOf, Held
<1>2. Held(f) /\ f \in {e, x} /\ f \in Pairs /\ ~Better(e, f) /\ ~Better(x, f)
  BY <1>1, TakeHolds
<1> HIDE DEF f
<1>3. ASSUME NEW y \in E \cup {Start} PROVE ~Better(y, f)
  <2>1. y \in Pairs /\ ~Better(y, e)
    BY <1>3, StartHeld DEF BestOf
  <2> QED BY <2>1, <1>1, <1>2, NotBetter
<1>4. BestOf(E \cup {x}, f)
  BY <1>1, <1>2, <1>3 DEF BestOf
<1> QED BY <1>4 DEF f

-----------------------------------------------------------------------------
(* The loops of a block.                                                   *)

\* What a thread holds before each entry.
IsPath(h, entries, t) ==
  h = [i \in 0..Len(entries) |->
         IF i = 0 THEN Start
         ELSE IF (i - 1) % BlockDim = t THEN Take(h[i - 1], entries[i]) ELSE h[i - 1]]

LEMMA Path ==
  ASSUME NEW entries, Len(entries) \in Nat, NEW t
  PROVE  \E h : IsPath(h, entries, t)
<1> DEFINE Next(e, i) == IF (i - 1) % BlockDim = t THEN Take(e, entries[i]) ELSE e
           Up(h, k) == h = [i \in 0..k |-> IF i = 0 THEN Start ELSE Next(h[i - 1], i)]
           T == {k \in Nat : \E h : Up(h, k)}
<1> SUFFICES \E h : Up(h, Len(entries))
  BY DEF IsPath
<1>1. 0 \in T
  <2> DEFINE f == [i \in 0..0 |-> Start]
  <2>1. f = [i \in 0..0 |-> IF i = 0 THEN Start ELSE Next(f[i - 1], i)]
    <3> HIDE DEF Next
    <3> QED OBVIOUS
  <2> QED BY <2>1
<1>2. ASSUME NEW k \in T PROVE k + 1 \in T
  <2>1. k \in Nat
    OBVIOUS
  <2>2. PICK f : Up(f, k)
    OBVIOUS
  <2> DEFINE g == [i \in 0..(k + 1) |-> IF i = k + 1 THEN Next(f[k], i) ELSE f[i]]
  <2> HIDE DEF Next
  <2>3. \A i \in 0..k : f[i] = IF i = 0 THEN Start ELSE Next(f[i - 1], i)
    BY <2>2
  <2>4. \A i \in 0..k : g[i] = f[i]
    BY <2>1
  <2>5. ASSUME NEW i \in 0..(k + 1) PROVE g[i] = IF i = 0 THEN Start ELSE Next(g[i - 1], i)
    <3>1. CASE i = k + 1
      <4>1. g[i] = Next(f[k], i)
        BY <3>1
      <4> HIDE DEF g, T
      <4>2. i # 0 /\ i - 1 = k /\ k \in 0..k
        BY <2>1, <3>1
      <4>3. g[k] = f[k]
        BY <2>4, <4>2
      <4> QED BY <4>1, <4>2, <4>3
    <3>2. CASE i # k + 1
      <4>1. i \in 0..k /\ (i # 0 => i - 1 \in 0..k)
        BY <2>1, <3>2
      <4> HIDE DEF g
      <4> QED BY <2>3, <2>4, <4>1
    <3> QED BY <3>1, <3>2
  <2>6. g = [i \in 0..(k + 1) |-> IF i = 0 THEN Start ELSE Next(g[i - 1], i)]
    <3>1. DOMAIN g = 0..(k + 1) /\ g = [i \in 0..(k + 1) |-> g[i]]
      OBVIOUS
    <3> HIDE DEF g
    <3> QED BY <2>5, <3>1
  <2>7. \E h : Up(h, k + 1)
    <3> HIDE DEF g
    <3> QED BY <2>6
  <2>8. k + 1 \in Nat
    BY <2>1
  <2> QED BY <2>7, <2>8, Zenon
<1> HIDE DEF T
<1>3. Len(entries) \in T
  BY <1>1, <1>2, CountUp DEF T
<1> QED BY <1>3 DEF T

\* The first k entries that are thread t's.
Share(entries, t, k) == {entries[i] : i \in {j \in 1..k : (j - 1) % BlockDim = t}}

LEMMA ThreadIs ==
  ASSUME NEW entries \in Seq(Pairs), NEW t
  PROVE  BestOf(Share(entries, t, Len(entries)), ThreadBest(entries, t))
<1> DEFINE h == CHOOSE g : IsPath(g, entries, t)
           T == {k \in Nat : k <= Len(entries) => BestOf(Share(entries, t, k), h[k])}
<1>1. ThreadBest(entries, t) = h[Len(entries)]
  BY DEF ThreadBest, IsPath
<1>2. IsPath(h, entries, t)
  <2>1. \E g : IsPath(g, entries, t)
    BY Path
  <2> QED BY <2>1, Zenon
<1> HIDE DEF h
<1>3. /\ h[0] = Start
      /\ \A i \in 1..Len(entries) :
           h[i] = IF (i - 1) % BlockDim = t THEN Take(h[i - 1], entries[i]) ELSE h[i - 1]
  <2>1. Len(entries) \in Nat
    OBVIOUS
  <2>2. \A i \in 0..Len(entries) :
          h[i] = IF i = 0 THEN Start
                 ELSE IF (i - 1) % BlockDim = t THEN Take(h[i - 1], entries[i]) ELSE h[i - 1]
    BY <1>2, <2>1 DEF IsPath
  <2>3. 0 \in 0..Len(entries) /\ \A i \in 1..Len(entries) : i \in 0..Len(entries) /\ i # 0
    BY <2>1
  <2> QED BY <2>2, <2>3
<1>4. 0 \in T
  <2>1. Share(entries, t, 0) = {}
    BY DEF Share
  <2> QED BY <1>3, <2>1, BestOfNone
<1>5. ASSUME NEW k \in T PROVE k + 1 \in T
  <2>1. k \in Nat
    OBVIOUS
  <2> SUFFICES ASSUME k + 1 <= Len(entries)
               PROVE  BestOf(Share(entries, t, k + 1), h[k + 1])
    BY <2>1
  <2>2. k + 1 \in 1..Len(entries) /\ (k + 1) - 1 = k /\ BestOf(Share(entries, t, k), h[k])
    BY <2>1
  <2>3. entries[k + 1] \in Pairs /\ Share(entries, t, k) \in SUBSET Pairs
    BY <2>1, <2>2 DEF Share
  <2> HIDE DEF T
  <2>4. CASE k % BlockDim = t
    <3>1. Share(entries, t, k + 1) = Share(entries, t, k) \cup {entries[k + 1]}
      BY <2>1, <2>2, <2>4 DEF Share
    <3>2. h[k + 1] = Take(h[k], entries[k + 1])
      BY <1>3, <2>2, <2>4
    <3> QED BY <2>2, <2>3, <3>1, <3>2, TakeOne
  <2>5. CASE k % BlockDim # t
    <3>1. Share(entries, t, k + 1) = Share(entries, t, k)
      BY <2>1, <2>2, <2>5 DEF Share
    <3>2. h[k + 1] = h[k]
      BY <1>3, <2>2, <2>5
    <3> QED BY <2>2, <3>1, <3>2
  <2> QED BY <2>4, <2>5
<1>6. \A k \in Nat : k \in T
  BY <1>4, <1>5, CountUp
<1>7. Len(entries) \in Nat
  OBVIOUS
<1> QED BY <1>1, <1>6, <1>7

\* What a block holds after each pass of its loop.
ByThread(entries) == [s |-> BlockDim, best |-> [t \in 0..BlockDim - 1 |-> ThreadBest(entries, t)]]
IsHalving(h, entries) ==
  h = [i \in 0..BlockDim |-> IF i = 0 THEN ByThread(entries) ELSE Halved(h[i - 1])]

LEMMA Passes ==
  ASSUME NEW entries
  PROVE  \E h : IsHalving(h, entries)
<1> DEFINE Next(e) == Halved(e)
           A == ByThread(entries)
           Up(h, k) == h = [i \in 0..k |-> IF i = 0 THEN A ELSE Next(h[i - 1])]
           T == {k \in Nat : \E h : Up(h, k)}
<1> SUFFICES \E h : Up(h, BlockDim)
  BY DEF IsHalving
<1>1. 0 \in T
  <2> DEFINE f == [i \in 0..0 |-> A]
  <2>1. f = [i \in 0..0 |-> IF i = 0 THEN A ELSE Next(f[i - 1])]
    <3> HIDE DEF Next, A
    <3> QED OBVIOUS
  <2> QED BY <2>1
<1>2. ASSUME NEW k \in T PROVE k + 1 \in T
  <2>1. k \in Nat
    OBVIOUS
  <2>2. PICK f : Up(f, k)
    OBVIOUS
  <2> DEFINE g == [i \in 0..(k + 1) |-> IF i = k + 1 THEN Next(f[k]) ELSE f[i]]
  <2> HIDE DEF Next, A
  <2>3. \A i \in 0..k : f[i] = IF i = 0 THEN A ELSE Next(f[i - 1])
    BY <2>2
  <2>4. \A i \in 0..k : g[i] = f[i]
    BY <2>1
  <2>5. ASSUME NEW i \in 0..(k + 1) PROVE g[i] = IF i = 0 THEN A ELSE Next(g[i - 1])
    <3>1. CASE i = k + 1
      <4>1. g[k] = f[k] /\ i # 0 /\ i - 1 = k
        BY <2>1, <2>4, <3>1
      <4>2. g[i] = Next(f[k])
        BY <3>1
      <4> HIDE DEF g
      <4> QED BY <4>1, <4>2
    <3>2. CASE i # k + 1
      <4>1. i \in 0..k /\ (i # 0 => i - 1 \in 0..k)
        BY <2>1, <3>2
      <4> HIDE DEF g
      <4> QED BY <2>3, <2>4, <4>1
    <3> QED BY <3>1, <3>2
  <2>6. g = [i \in 0..(k + 1) |-> IF i = 0 THEN A ELSE Next(g[i - 1])]
    <3>1. DOMAIN g = 0..(k + 1) /\ g = [i \in 0..(k + 1) |-> g[i]]
      OBVIOUS
    <3> HIDE DEF g
    <3> QED BY <2>5, <3>1
  <2>7. \E h : Up(h, k + 1)
    <3> HIDE DEF g
    <3> QED BY <2>6
  <2>8. k + 1 \in Nat
    BY <2>1
  <2> QED BY <2>7, <2>8, Zenon
<1> HIDE DEF T
<1>3. BlockDim \in T
  BY <1>1, <1>2, CountUp, ArgmaxAssumption DEF T
<1> QED BY <1>3 DEF T

\* The best of E is among those that are left, and nothing else is.
Among(E, r) ==
  /\ r.s \in 1..BlockDim
  /\ \A t \in 0..(r.s - 1) :
       Held(r.best[t]) /\ r.best[t] \in E \cup {Start} /\ ~Better(Start, r.best[t])
  /\ \A x \in E : \E t \in 0..(r.s - 1) : ~Better(x, r.best[t])

LEMMA HalvedAmong ==
  ASSUME NEW E \in SUBSET Pairs, NEW r, Among(E, r), r.s # 1, r.s % 2 = 0
  PROVE  Among(E, Halved(r)) /\ Halved(r).s = r.s \div 2
<1> DEFINE s == r.s \div 2
           b == [t \in 0..(s - 1) |-> Take(r.best[t], r.best[t + s])]
           q == Halved(r)
<1>1. BlockDim \in Nat /\ r.s \in 1..BlockDim
  BY ArgmaxAssumption DEF Among
<1>2. s \in 1..BlockDim /\ r.s = s + s
  BY <1>1
<1>3. q = [s |-> s, best |-> b]
  BY <1>2 DEF Halved
<1>4. q.s = s /\ q.best = b
  BY <1>3
<1>5. \A t \in 0..(r.s - 1) :
        /\ Held(r.best[t]) /\ r.best[t] \in Pairs
        /\ r.best[t] \in E \cup {Start} /\ ~Better(Start, r.best[t])
  BY DEF Among, Held
<1> HIDE DEF s, q
<1>6. ASSUME NEW t \in 0..(s - 1)
      PROVE  /\ Held(b[t]) /\ b[t] \in E \cup {Start} /\ ~Better(Start, b[t])
             /\ \A x \in E : ~Better(x, r.best[t]) \/ ~Better(x, r.best[t + s]) => ~Better(x, b[t])
  <2>1. t \in 0..(r.s - 1) /\ t + s \in 0..(r.s - 1)
    BY <1>1, <1>2
  <2> DEFINE e == r.best[t]
             f == r.best[t + s]
  <2>2. /\ Held(e) /\ e \in Pairs /\ e \in E \cup {Start} /\ ~Better(Start, e)
        /\ Held(f) /\ f \in Pairs /\ f \in E \cup {Start} /\ ~Better(Start, f)
    BY <1>5, <2>1
  <2>3. b[t] = Take(e, f)
    OBVIOUS
  <2> HIDE DEF e, f, b
  <2>4. Held(b[t]) /\ b[t] \in {e, f} /\ b[t] \in Pairs /\ ~Better(e, b[t]) /\ ~Better(f, b[t])
    BY <2>2, <2>3, TakeHolds
  <2>5. \A x \in Pairs : ~Better(x, e) \/ ~Better(x, f) => ~Better(x, b[t])
    BY <2>2, <2>4, NotBetter
  <2> QED BY <2>2, <2>4, <2>5 DEF e, f
<1>7. ASSUME NEW x \in E PROVE \E t \in 0..(s - 1) : ~Better(x, b[t])
  <2>1. PICK t \in 0..(r.s - 1) : ~Better(x, r.best[t])
    BY DEF Among
  <2>2. CASE t < s
    <3>1. t \in 0..(s - 1)
      BY <1>2, <2>2
    <3> QED BY <1>6, <2>1, <3>1
  <2>3. CASE ~(t < s)
    <3>1. t - s \in 0..(s - 1) /\ (t - s) + s = t
      BY <1>1, <1>2, <2>3
    <3> QED BY <1>6, <2>1, <3>1
  <2> QED BY <2>2, <2>3
<1>8. Among(E, q)
  <2> HIDE DEF b
  <2> QED BY <1>2, <1>4, <1>6, <1>7 DEF Among
<1> QED BY <1>4, <1>8 DEF q, s

LEMMA ReducedIs ==
  ASSUME NEW entries \in Seq(Pairs)
  PROVE  BestOf({entries[i] : i \in 1..Len(entries)}, Reduced(entries))
<1> DEFINE E == {entries[i] : i \in 1..Len(entries)}
           h == CHOOSE g : IsHalving(g, entries)
<1> USE ArgmaxAssumption
<1>1. Reduced(entries) = h[BlockDim].best[0]
  BY DEF Reduced, IsHalving, ByThread
<1>2. IsHalving(h, entries)
  <2>1. \E g : IsHalving(g, entries)
    BY Passes
  <2> QED BY <2>1, Zenon
<1> HIDE DEF h
<1>3. h[0] = ByThread(entries) /\ \A i \in 1..BlockDim : h[i] = Halved(h[i - 1])
  <2>1. 0 \in 0..BlockDim /\ \A i \in 1..BlockDim : i \in 0..BlockDim /\ i # 0
    OBVIOUS
  <2> QED BY <1>2, <2>1 DEF IsHalving
<1>4. E \in SUBSET Pairs /\ Len(entries) \in Nat
  OBVIOUS
<1>5. Among(E, h[0])
  <2>1. h[0].s = BlockDim /\ \A t \in 0..(BlockDim - 1) : h[0].best[t] = ThreadBest(entries, t)
    BY <1>3 DEF ByThread
  <2>2. \A t \in 0..(BlockDim - 1) : BestOf(Share(entries, t, Len(entries)), h[0].best[t])
    BY <2>1, ThreadIs
  <2>3. \A t : Share(entries, t, Len(entries)) \subseteq E
    BY DEF Share
  <2>4. ASSUME NEW t \in 0..(BlockDim - 1)
        PROVE  /\ Held(h[0].best[t]) /\ h[0].best[t] \in E \cup {Start}
               /\ ~Better(Start, h[0].best[t])
    BY <2>2, <2>3 DEF BestOf
  <2>5. ASSUME NEW x \in E PROVE \E t \in 0..(BlockDim - 1) : ~Better(x, h[0].best[t])
    <3>1. PICK i \in 1..Len(entries) : x = entries[i]
      OBVIOUS
    <3> DEFINE t == (i - 1) % BlockDim
    <3>2. t \in 0..(BlockDim - 1)
      OBVIOUS
    <3>3. x \in Share(entries, t, Len(entries))
      BY <3>1 DEF Share
    <3> HIDE DEF t
    <3> QED BY <2>2, <3>2, <3>3 DEF BestOf
  <2> HIDE DEF E
  <2>6. h[0].s \in 1..BlockDim
    BY <2>1
  <2> QED BY <2>1, <2>4, <2>5, <2>6 DEF Among
<1>6. PICK W \in SUBSET (1..BlockDim) :
        BlockDim \in W /\ \A v \in W \ {1} : v % 2 = 0 /\ v \div 2 \in W
  BY DEF PowerOfTwo
<1> DEFINE Inv(k) == h[k].s \in W /\ Among(E, h[k]) /\ (h[k].s = 1 \/ h[k].s + k <= BlockDim)
           T == {k \in Nat : k <= BlockDim => Inv(k)}
<1>7. 0 \in T
  <2>1. h[0].s = BlockDim
    BY <1>3 DEF ByThread
  <2> QED BY <1>5, <1>6, <2>1
<1>8. ASSUME NEW k \in T PROVE k + 1 \in T
  <2>1. k \in Nat
    OBVIOUS
  <2> SUFFICES ASSUME k + 1 <= BlockDim PROVE Inv(k + 1)
    BY <2>1
  <2>2. Inv(k)
    BY <2>1
  <2>3. h[k + 1] = Halved(h[k])
    <3>1. k + 1 \in 1..BlockDim /\ (k + 1) - 1 = k
      BY <2>1
    <3> QED BY <1>3, <3>1
  <2> DEFINE s == h[k].s
  <2>4. s \in W /\ s \in 1..BlockDim /\ Among(E, h[k]) /\ (s = 1 \/ s + k <= BlockDim)
    BY <1>6, <2>2
  <2> HIDE DEF E, T
  <2>5. CASE s = 1
    <3>1. Halved(h[k]) = h[k]
      BY <2>5 DEF Halved
    <3> QED BY <2>2, <2>3, <2>5, <3>1
  <2>6. CASE s # 1
    <3>1. s % 2 = 0 /\ s \div 2 \in W
      BY <1>6, <2>4, <2>6
    <3>2. Among(E, h[k + 1]) /\ h[k + 1].s = s \div 2
      BY <1>4, <2>3, <2>4, <2>6, <3>1, HalvedAmong DEF E
    <3>3. s \div 2 + (k + 1) <= BlockDim
      <4> HIDE DEF s
      <4>1. s \in Nat /\ s + k <= BlockDim /\ s # 1 /\ s # 0
        BY <2>4, <2>6
      <4>2. s \div 2 + 1 <= s
        BY <4>1
      <4>3. s \div 2 \in Nat
        BY <4>1
      <4> QED BY <2>1, <4>1, <4>2, <4>3
    <3> QED BY <3>1, <3>2, <3>3
  <2> QED BY <2>5, <2>6
<1>9. Inv(BlockDim)
  <2>1. T \in SUBSET Nat
    OBVIOUS
  <2> HIDE DEF T, Inv
  <2>2. BlockDim \in T
    BY <1>7, <1>8, <2>1, CountUp
  <2> QED BY <2>2 DEF T
<1> HIDE DEF T, Inv
<1>10. h[BlockDim].s = 1 /\ Among(E, h[BlockDim])
  <2>1. h[BlockDim].s \in 1..BlockDim
    BY <1>6, <1>9 DEF Inv
  <2> QED BY <1>9, <2>1 DEF Inv
<1> DEFINE e == h[BlockDim].best[0]
<1>11. /\ Held(e) /\ e \in E \cup {Start} /\ ~Better(Start, e)
       /\ \A x \in E : ~Better(x, e)
  <2>1. 0..(h[BlockDim].s - 1) = {0}
    BY <1>10
  <2> HIDE DEF E
  <2> QED BY <1>10, <2>1 DEF Among
<1> QED BY <1>1, <1>11 DEF BestOf

-----------------------------------------------------------------------------
(* The chunks of stage 1 hold every logit.                                 *)

Logits(lo, hi) == {<<logits[i], i>> : i \in {j \in DOMAIN logits : lo <= j /\ j < hi}}
All    == {<<logits[i], i>> : i \in DOMAIN logits}
Own(b) == Logits(b * ChunkSize(Size), b * ChunkSize(Size) + ChunkSize(Size))

SetOf(entries) == {entries[i] : i \in 1..Len(entries)}

LEMMA SizeIs ==
  ASSUME logits \in Inputs
  PROVE  Size \in Nat \ {0} /\ DOMAIN logits = 0..(Size - 1) /\ \A i \in DOMAIN logits : logits[i] \in Nat
<1>1. PICK len \in 1..MaxN : logits \in [0..(len - 1) -> Floats]
  BY DEF Inputs
<1>2. len \in Nat \ {0} /\ DOMAIN logits = 0..(len - 1) /\ \A i \in DOMAIN logits : logits[i] \in Nat
  <2>1. MaxN \in Nat /\ \A f \in Floats : f \in Nat
    BY ArgmaxAssumption
  <2>2. \A i \in DOMAIN logits : logits[i] \in Nat
    BY <1>1, <2>1
  <2>3. len \in Nat \ {0}
    BY <2>1
  <2> QED BY <1>1, <2>2, <2>3
<1>3. Cardinality(0..(len - 1)) = len
  <2>1. 0 \in Int /\ len - 1 \in Int /\ ~(0 > len - 1)
    BY <1>2
  <2>2. Cardinality(0..(len - 1)) = (len - 1) - 0 + 1
    BY <2>1, FS_Interval
  <2> QED BY <1>2, <2>2
<1> QED BY <1>2, <1>3 DEF Size

LEMMA EntriesAre ==
  ASSUME logits \in Inputs, NEW lo \in Nat, NEW hi \in Nat, lo <= hi, hi <= Size
  PROVE  Entries(lo, hi) \in Seq(Pairs) /\ SetOf(Entries(lo, hi)) = Logits(lo, hi)
<1> DEFINE E == Entries(lo, hi)
<1>1. hi - lo \in Nat /\ Size \in Nat
  BY SizeIs
<1>2. ASSUME NEW i \in 1..(hi - lo)
      PROVE  lo + i - 1 \in DOMAIN logits /\ lo <= lo + i - 1 /\ lo + i - 1 < hi
  BY <1>1, SizeIs
<1>3. \A i \in 1..(hi - lo) : E[i] = <<logits[lo + i - 1], lo + i - 1>> /\ E[i] \in Pairs
  <2>1. ASSUME NEW i \in 1..(hi - lo) PROVE logits[lo + i - 1] \in Nat /\ lo + i - 1 \in Nat
    BY <1>2, SizeIs
  <2> QED BY <2>1 DEF Entries, Pairs
<1>4. E \in Seq(Pairs) /\ Len(E) = hi - lo
  BY <1>1, <1>3 DEF Entries
<1>5. SetOf(E) = Logits(lo, hi)
  <2> HIDE DEF E
  <2>1. SetOf(E) \subseteq Logits(lo, hi)
    BY <1>2, <1>3, <1>4 DEF SetOf, Logits
  <2>2. ASSUME NEW j \in DOMAIN logits, lo <= j, j < hi
        PROVE  <<logits[j], j>> \in SetOf(E)
    <3>1. j \in Nat
      BY SizeIs
    <3>2. j - lo + 1 \in 1..(hi - lo) /\ lo + (j - lo + 1) - 1 = j
      BY <2>2, <3>1
    <3> QED BY <1>3, <1>4, <3>2 DEF SetOf
  <2> QED BY <2>1, <2>2 DEF Logits
<1> QED BY <1>4, <1>5

LEMMA ChunkFits ==
  ASSUME NEW m \in Nat \ {0}
  PROVE  ChunkSize(m) \in Nat \ {0} /\ m <= NB * ChunkSize(m)
<1> DEFINE q == ChunkSize(m)
<1>1. NB \in Nat \ {0} /\ m + NB - 1 \in Nat
  BY ArgmaxAssumption
<1>2. q \in Nat /\ m + NB - 1 < NB * q + NB
  BY <1>1 DEF ChunkSize
<1>3. m <= NB * q
  <2> HIDE DEF q
  <2>1. NB * q \in Nat
    BY <1>1, <1>2
  <2> DEFINE p == NB * q
  <2> HIDE DEF p
  <2> QED BY <1>1, <1>2, <2>1 DEF p
<1>4. q # 0
  <2> HIDE DEF q
  <2>1. q = 0 => NB * q = 0
    BY <1>1
  <2> QED BY <1>3, <2>1
<1> QED BY <1>2, <1>3, <1>4

\* Every number lies in a chunk.
LEMMA InChunk ==
  ASSUME NEW c \in Nat \ {0}, NEW i \in Nat
  PROVE  \E b \in Nat : b * c <= i /\ i < b * c + c
<1> DEFINE T == {k \in Nat : \E b \in Nat : b * c <= k /\ k < b * c + c}
<1>1. 0 \in T
  <2>1. 0 * c = 0
    OBVIOUS
  <2> QED BY <2>1
<1>2. ASSUME NEW k \in T PROVE k + 1 \in T
  <2>1. PICK b \in Nat : b * c <= k /\ k < b * c + c
    OBVIOUS
  <2>2. b * c \in Nat /\ (b + 1) * c = b * c + c /\ k \in Nat
    OBVIOUS
  <2>3. CASE k + 1 < b * c + c
    BY <2>1, <2>2, <2>3
  <2>4. CASE ~(k + 1 < b * c + c)
    <3> DEFINE p == b * c
    <3>1. p \in Nat /\ p <= k /\ k < p + c /\ ~(k + 1 < p + c) /\ (b + 1) * c = p + c
      BY <2>1, <2>2, <2>4
    <3> HIDE DEF p
    <3>2. (b + 1) * c <= k + 1 /\ k + 1 < (b + 1) * c + c
      BY <2>2, <3>1
    <3>3. b + 1 \in Nat
      OBVIOUS
    <3>4. \E d \in Nat : d * c <= k + 1 /\ k + 1 < d * c + c
      BY <3>2, <3>3, Zenon
    <3> QED BY <2>2, <3>4
  <2> QED BY <2>3, <2>4
<1>3. \A k \in Nat : k \in T
  BY <1>1, <1>2, CountUp
<1> QED BY <1>3

LEMMA ChunkIs ==
  ASSUME logits \in Inputs, NEW b \in 0..(NB - 1)
  PROVE  Chunk(b) \in Seq(Pairs) /\ SetOf(Chunk(b)) = Own(b)
<1> DEFINE c == ChunkSize(Size)
           lo == b * c
           hi == IF lo + c > Size THEN Size ELSE lo + c
<1>1. Size \in Nat \ {0} /\ c \in Nat \ {0} /\ b \in Nat
  BY SizeIs, ChunkFits, ArgmaxAssumption
<1>2. lo \in Nat
  BY <1>1
<1>3. hi \in Nat /\ hi <= Size /\ hi <= lo + c /\ (hi = Size \/ hi = lo + c)
  <2> HIDE DEF c, lo
  <2> QED BY <1>1, <1>2
<1>4. Chunk(b) = IF lo < hi THEN Entries(lo, hi) ELSE << >>
  BY DEF Chunk
<1>5. Own(b) = Logits(lo, lo + c)
  BY DEF Own
<1> HIDE DEF c, lo, hi
<1>6. Logits(lo, lo + c) = Logits(lo, hi)
  <2>1. ASSUME NEW j \in DOMAIN logits PROVE j < lo + c <=> j < hi
    <3>1. j \in Nat /\ j < Size
      BY <1>1, SizeIs
    <3> QED BY <1>1, <1>2, <1>3, <3>1
  <2> QED BY <2>1 DEF Logits
<1>7. CASE lo < hi
  BY <1>2, <1>3, <1>4, <1>5, <1>6, <1>7, EntriesAre
<1>8. CASE ~(lo < hi)
  <2>1. Logits(lo, hi) = {}
    <3>1. ASSUME NEW j \in DOMAIN logits PROVE ~(lo <= j /\ j < hi)
      <4>1. j \in Nat
        BY <1>1, SizeIs
      <4> QED BY <1>2, <1>3, <1>8, <4>1
    <3> QED BY <3>1 DEF Logits
  <2>2. Chunk(b) = << >> /\ << >> \in Seq(Pairs) /\ SetOf(<< >>) = {}
    BY <1>4, <1>8 DEF SetOf
  <2> QED BY <1>5, <1>6, <2>1, <2>2
<1> QED BY <1>7, <1>8

LEMMA ChunksCover ==
  ASSUME logits \in Inputs
  PROVE  /\ \A b \in 0..(NB - 1) : Own(b) \subseteq All
         /\ \A x \in All : \E b \in 0..(NB - 1) : x \in Own(b)
         /\ All \in SUBSET Pairs
<1>1. \A b \in 0..(NB - 1) : Own(b) \subseteq All
  BY DEF Own, All, Logits
<1>2. ASSUME NEW i \in DOMAIN logits PROVE \E b \in 0..(NB - 1) : <<logits[i], i>> \in Own(b)
  <2> DEFINE c == ChunkSize(Size)
  <2>1. i \in Nat /\ i < Size /\ Size \in Nat /\ c \in Nat \ {0} /\ Size <= NB * c /\ NB \in Nat
    BY SizeIs, ChunkFits, ArgmaxAssumption
  <2> HIDE DEF c
  <2>2. PICK b \in Nat : b * c <= i /\ i < b * c + c
    BY <2>1, InChunk
  <2>3. b < NB
    <3> SUFFICES ASSUME ~(b < NB) PROVE FALSE
      OBVIOUS
    <3>1. NB * c <= b * c
      <4>1. b = NB + (b - NB) /\ b - NB \in Nat
        BY <2>1
      <4>2. b * c = NB * c + (b - NB) * c /\ (b - NB) * c \in Nat /\ NB * c \in Nat
        BY <2>1, <4>1
      <4> QED BY <4>2
    <3>2. NB * c \in Nat /\ b * c \in Nat
      BY <2>1
    <3> QED BY <2>1, <2>2, <3>1, <3>2
  <2>4. b \in 0..(NB - 1)
    BY <2>1, <2>3
  <2>5. <<logits[i], i>> \in Logits(b * c, b * c + c)
    BY <2>2 DEF Logits
  <2> QED BY <2>4, <2>5 DEF Own, c
<1>3. All \in SUBSET Pairs
  <2>1. \A i \in DOMAIN logits : i \in Nat /\ logits[i] \in Nat
    BY SizeIs
  <2> QED BY <2>1 DEF All, Pairs
<1> QED BY <1>1, <1>2, <1>3 DEF All

-----------------------------------------------------------------------------
(* The invariant.                                                          *)

ArgInv ==
  /\ logits \in Inputs
  /\ ran \subseteq 0..(NB - 1) /\ DOMAIN parts = 0..(NB - 1)
  /\ \A b \in ran : BestOf(Own(b), parts[b])
  /\ token = << >> \/ \E e : BestOf(All, e) /\ token = <<e[2]>>

LEMMA InitArg == ArgmaxInit => ArgInv
  BY DEF ArgmaxInit, ArgInv

\* What stage 2 reduces is the best of each chunk.
LEMMA StageTwoIs ==
  ASSUME ArgInv, ran = 0..(NB - 1)
  PROVE  BestOf(All, Reduced([i \in 1..NB |-> parts[i - 1]]))
<1> DEFINE P == [i \in 1..NB |-> parts[i - 1]]
           r == Reduced(P)
<1>1. NB \in Nat
  BY ArgmaxAssumption
<1>2. \A b \in 0..(NB - 1) : BestOf(Own(b), parts[b]) /\ parts[b] \in Pairs /\ Held(parts[b])
  BY DEF ArgInv, BestOf, Held
<1>3. ASSUME NEW i \in 1..NB PROVE P[i] = parts[i - 1] /\ i - 1 \in 0..(NB - 1)
  BY <1>1
<1>4. P \in Seq(Pairs) /\ Len(P) = NB
  <2>1. \A i \in 1..NB : P[i] \in Pairs
    BY <1>2, <1>3
  <2> QED BY <1>1, <2>1
<1>5. \A b \in 0..(NB - 1) : b + 1 \in 1..NB /\ P[b + 1] = parts[b]
  BY <1>1
<1> HIDE DEF P
<1>6. BestOf(SetOf(P), r)
  BY <1>4, ReducedIs DEF SetOf
<1>7. All \in SUBSET Pairs
  BY ChunksCover DEF ArgInv
<1> HIDE DEF r
<1>8. Held(r) /\ r \in Pairs /\ r \in SetOf(P) \cup {Start} /\ ~Better(Start, r)
  BY <1>6 DEF BestOf, Held
<1>9. r \in All \cup {Start}
  <2>1. ASSUME NEW i \in 1..NB PROVE P[i] \in All \cup {Start}
    <3>1. P[i] \in Own(i - 1) \cup {Start}
      BY <1>2, <1>3 DEF BestOf
    <3> QED BY <1>3, <3>1, ChunksCover DEF ArgInv
  <2> QED BY <1>4, <1>8, <2>1 DEF SetOf
<1>10. ASSUME NEW x \in All PROVE ~Better(x, r)
  <2>1. PICK b \in 0..(NB - 1) : x \in Own(b)
    BY ChunksCover DEF ArgInv
  <2>2. ~Better(x, parts[b])
    BY <1>2, <2>1 DEF BestOf
  <2>3. parts[b] \in SetOf(P)
    BY <1>4, <1>5 DEF SetOf
  <2>4. ~Better(parts[b], r)
    BY <1>6, <2>3 DEF BestOf
  <2> QED BY <1>2, <1>7, <1>8, <2>2, <2>4, NotBetter
<1>11. BestOf(All, r)
  BY <1>8, <1>9, <1>10 DEF BestOf
<1> QED BY <1>11 DEF r, P

LEMMA StepArg ==
  ASSUME ArgInv, ArgmaxNext
  PROVE  ArgInv'
<1>1. CASE Decode
  <2>1. logits' \in Inputs
    BY <1>1 DEF Decode, ArgInv, Inputs
  <2> QED BY <1>1, <2>1 DEF Decode, ArgInv
<1>2. ASSUME NEW b \in 0..(NB - 1), StageOne(b) PROVE ArgInv'
  <2>1. logits' = logits /\ token' = token /\ ran' = ran \cup {b}
    BY <1>2 DEF StageOne
  <2>2. All' = All /\ \A d : Own(d)' = Own(d)
    BY <2>1 DEF All, Own, Logits, Size
  <2>3. BestOf(Own(b), Reduced(Chunk(b)))
    <3>1. Chunk(b) \in Seq(Pairs) /\ SetOf(Chunk(b)) = Own(b)
      BY ChunkIs DEF ArgInv
    <3> HIDE DEF Own
    <3> QED BY <3>1, ReducedIs DEF SetOf
  <2>4. /\ DOMAIN parts' = 0..(NB - 1) /\ parts'[b] = Reduced(Chunk(b))
        /\ \A d \in ran \ {b} : parts'[d] = parts[d]
    BY <1>2 DEF StageOne, ArgInv
  <2>5. \A d \in ran' : BestOf(Own(d), parts'[d])
    BY <2>1, <2>3, <2>4 DEF ArgInv
  <2>6. \A d \in ran' : BestOf(Own(d)', parts'[d])
    BY <2>2, <2>5
  <2> QED BY <2>1, <2>2, <2>4, <2>6 DEF ArgInv, BestOf, Held, Better
<1>3. CASE StageTwo
  <2>1. BestOf(All, Reduced([i \in 1..NB |-> parts[i - 1]]))
    BY <1>3, StageTwoIs DEF StageTwo
  <2>2. UNCHANGED <<logits, parts, ran>> /\ \E e : BestOf(All, e) /\ token' = <<e[2]>>
    BY <1>3, <2>1 DEF StageTwo
  <2>3. All' = All /\ \A d : Own(d)' = Own(d)
    BY <2>2 DEF All, Own, Logits, Size
  <2> QED BY <2>2, <2>3 DEF ArgInv
<1> QED BY <1>1, <1>2, <1>3 DEF ArgmaxNext

-----------------------------------------------------------------------------
LEMMA OneBlockIs ==
  ASSUME logits \in Inputs, NEW e, BestOf(All, e)
  PROVE  OneBlock = e[2]
<1>1. Entries(0, Size) \in Seq(Pairs) /\ SetOf(Entries(0, Size)) = Logits(0, Size)
  BY SizeIs, EntriesAre
<1>2. Logits(0, Size) = All
  BY SizeIs DEF Logits, All
<1>3. BestOf(All, Reduced(Entries(0, Size)))
  BY <1>1, <1>2, ReducedIs DEF SetOf
<1>4. All \in SUBSET Pairs
  BY ChunksCover
<1>5. Reduced(Entries(0, Size)) = e
  BY <1>3, <1>4, OneBest
<1> QED BY <1>5 DEF OneBlock

LEMMA FirstMaxIs ==
  ASSUME logits \in Inputs, NEW e, BestOf(All, e), \A i \in DOMAIN logits : logits[i] >= Floor
  PROVE  FirstMax = e[2]
<1>1. Size \in Nat \ {0} /\ DOMAIN logits = 0..(Size - 1) /\ \A i \in DOMAIN logits : logits[i] \in Nat
  BY SizeIs
<1>2. Size < INT_MAX
  <2>1. PICK len \in 1..MaxN : DOMAIN logits = 0..(len - 1)
    BY DEF Inputs
  <2>2. MaxN \in Nat /\ INT_MAX \in Nat /\ MaxN < INT_MAX
    BY ArgmaxAssumption DEF INT_MAX
  <2>3. Size - 1 \in 0..(len - 1)
    BY <1>1, <2>1
  <2>4. Size - 1 <= len - 1 /\ len <= MaxN /\ len \in Nat
    BY <2>2, <2>3
  <2> QED BY <1>1, <2>2, <2>4
<1>3. \A i \in DOMAIN logits : ~Better(<<logits[i], i>>, e)
  BY DEF BestOf, All
<1>4. e # Start
  <2>1. 0 \in DOMAIN logits /\ logits[0] >= Floor /\ logits[0] \in Nat
    BY <1>1
  <2>2. Better(<<logits[0], 0>>, Start)
    BY <2>1 DEF Better, Gt, Eq, Start, NaN, Floor, INT_MAX
  <2> QED BY <1>3, <2>1, <2>2
<1>5. PICK i \in DOMAIN logits : e = <<logits[i], i>>
  BY <1>4 DEF BestOf, All
<1>6. \A j \in DOMAIN logits : logits[j] <= logits[i] /\ (j < i => logits[j] < logits[i])
  BY <1>1, <1>3, <1>5 DEF Better, Gt, Eq, NaN, Floor
<1> DEFINE First(k) == /\ \A j \in DOMAIN logits : logits[j] <= logits[k]
                       /\ \A j \in 0 .. k - 1 : logits[j] < logits[k]
<1>7. First(i)
  BY <1>1, <1>6
<1>8. ASSUME NEW k \in DOMAIN logits, First(k) PROVE k = i
  <2>1. i \in Nat /\ k \in Nat
    BY <1>1
  <2>2. CASE k < i
    BY <1>1, <1>6, <1>8, <2>1, <2>2
  <2>3. CASE i < k
    <3>1. i \in 0..(k - 1)
      BY <2>1, <2>3
    <3> QED BY <1>1, <1>6, <1>8, <3>1
  <2> QED BY <2>1, <2>2, <2>3
<1>9. FirstMax = CHOOSE k \in DOMAIN logits : First(k)
  BY DEF FirstMax
<1> HIDE DEF First
<1>10. FirstMax \in DOMAIN logits /\ First(FirstMax)
  BY <1>7, <1>9
<1> QED BY <1>5, <1>8, <1>10

LEMMA ArgInvTells == ArgInv => TokenIsFirstMax
<1> SUFFICES ASSUME ArgInv, NEW t \in Chosen
             PROVE  t = IF \A i \in DOMAIN logits : logits[i] >= Floor THEN FirstMax ELSE OneBlock
  BY DEF TokenIsFirstMax
<1>1. PICK e : BestOf(All, e) /\ token = <<e[2]>>
  BY DEF ArgInv, Chosen
<1>2. t = e[2]
  BY <1>1 DEF Chosen
<1>3. OneBlock = e[2]
  BY <1>1, OneBlockIs DEF ArgInv
<1>4. (\A i \in DOMAIN logits : logits[i] >= Floor) => FirstMax = e[2]
  BY <1>1, FirstMaxIs DEF ArgInv
<1> QED BY <1>2, <1>3, <1>4

\* However many logits, blocks and threads there are, in whatever order the
\* blocks of stage 1 run and whatever the partials held: the token is the first
\* maximum, and where a logit lies below the start value what one block chooses.
THEOREM TokensAreFirstMax == ArgmaxSpec => []TokenIsFirstMax
<1>1. ArgInv /\ [ArgmaxNext]_argVars => ArgInv'
  <2> SUFFICES ASSUME ArgInv, [ArgmaxNext]_argVars PROVE ArgInv'
    OBVIOUS
  <2>1. CASE ArgmaxNext
    BY <2>1, StepArg
  <2>2. CASE UNCHANGED argVars
    <3>1. UNCHANGED <<logits, parts, ran, token>>
      BY <2>2 DEF argVars
    <3>2. All' = All /\ \A d : Own(d)' = Own(d)
      BY <3>1 DEF All, Own, Logits, Size
    <3> QED BY <3>1, <3>2 DEF ArgInv
  <2> QED BY <2>1, <2>2
<1> QED BY <1>1, InitArg, ArgInvTells, PTL DEF ArgmaxSpec

-----------------------------------------------------------------------------
(* The block of the attention: which operations there are.                 *)

Trees == {"tree_max", "tree_sum"}
Ops   == {"score", "lane_max", "tree_max", "read_max", "exp", "lane_sum", "exp_sum", "tree_sum",
          "read_sum", "out"}

OpFits(o, s2) ==
  /\ o \in Ops
  /\ o \in {"exp", "lane_sum"} => run.kernel # "pm"
  /\ o = "exp_sum" => run.kernel = "pm"
  /\ o \in Trees => s2 \in Nat /\ s2 > 0 /\ 2 * s2 <= Lanes

IsOp(o) == o = At(o.op, o.s2) /\ OpFits(o.op, o.s2)

RunOK ==
  /\ run.block \in Nat \ {0} /\ run.positions \in Nat \ {0} /\ run.len \in Nat \ {0}
  /\ run.len <= run.positions
  /\ run.kernel \in Attentions /\ run.block \in Blocks
  /\ Lanes \in Nat \ {0}

\* Every thread is at the same operation, or past it.
InStep(o) ==
  /\ DOMAIN at = Threads
  /\ \A d \in Threads : at[d] \in {o, Past(o)}

LEMMA AtFields ==
  ASSUME NEW o, NEW s2
  PROVE  At(o, s2).op = o /\ At(o, s2).s2 = s2 /\ At(o, s2).wait = FALSE
  BY DEF At

LEMMA AtIsOp ==
  ASSUME NEW o, NEW s2, OpFits(o, s2)
  PROVE  IsOp(At(o, s2))
<1> DEFINE p == At(o, s2)
<1>1. p.op = o /\ p.s2 = s2
  BY AtFields
<1> QED BY <1>1 DEF IsOp

LEMMA RunInit == SoftmaxInit => RunOK
<1> SUFFICES ASSUME SoftmaxInit PROVE RunOK
  OBVIOUS
<1>1. PICK k \in Attentions, b \in Blocks, m \in MaxTs, l \in Lens :
        run = [kernel |-> k, block |-> b, positions |-> IF k = "masked" THEN m ELSE l, len |-> l]
  BY DEF SoftmaxInit, Launches
<1>2. b \in Nat \ {0} /\ m \in Nat \ {0} /\ l \in Nat \ {0} /\ RLANES \in Nat \ {0}
  BY BlockAssumption
<1>3. run.len <= run.positions
  BY DEF SoftmaxInit
<1> QED BY <1>1, <1>2, <1>3 DEF RunOK, Lanes

LEMMA FirstIsOp == IsOp(At("score", 0))
<1>1. OpFits("score", 0)
  BY DEF OpFits, Ops, Trees
<1> QED BY <1>1, AtIsOp

LEMMA LoopIsOp ==
  ASSUME NEW o \in Trees, NEW s \in Nat, 2 * s <= Lanes,
         NEW then \in {"read_max", "read_sum"}
  PROVE  IsOp(Loop(o, s, then))
<1>1. CASE s > 0
  <2>1. OpFits(o, s)
    BY <1>1 DEF OpFits, Ops, Trees
  <2> QED BY <1>1, <2>1, AtIsOp DEF Loop
<1>2. CASE ~(s > 0)
  <2>1. OpFits(then, 0)
    BY DEF OpFits, Ops, Trees
  <2> QED BY <1>2, <2>1, AtIsOp DEF Loop
<1> QED BY <1>1, <1>2

LEMMA AfterIsOp ==
  ASSUME RunOK, NEW o, IsOp(o), o.op # "out"
  PROVE  IsOp(After(o))
<1>1. CASE o.op \in {"score", "read_max", "exp", "read_sum"}
  <2>1. /\ OpFits("lane_max", 0) /\ OpFits("out", 0)
        /\ run.kernel # "pm" => OpFits("lane_sum", 0) /\ OpFits("exp", 0)
        /\ run.kernel = "pm" => OpFits("exp_sum", 0)
    BY DEF OpFits, Ops, Trees
  <2>2. o.op = "exp" => run.kernel # "pm"
    BY DEF IsOp, OpFits
  <2> QED BY <1>1, <2>1, <2>2, AtIsOp DEF After
<1>2. CASE o.op \in {"lane_max", "exp_sum", "lane_sum"}
  <2>1. Lanes \div 2 \in Nat /\ 2 * (Lanes \div 2) <= Lanes
    BY DEF RunOK
  <2>2. /\ IsOp(Loop("tree_max", Lanes \div 2, "read_max"))
        /\ IsOp(Loop("tree_sum", Lanes \div 2, "read_sum"))
    BY <2>1, LoopIsOp DEF Trees
  <2> QED BY <1>2, <2>2 DEF After
<1>3. CASE o.op \in Trees
  <2>1. o.s2 \in Nat /\ 2 * o.s2 <= Lanes /\ Lanes \in Nat
    BY <1>3 DEF IsOp, OpFits, RunOK
  <2>2. o.s2 \div 2 \in Nat /\ 2 * (o.s2 \div 2) <= Lanes
    BY <2>1
  <2>3. /\ IsOp(Loop("tree_max", o.s2 \div 2, "read_max"))
        /\ IsOp(Loop("tree_sum", o.s2 \div 2, "read_sum"))
    BY <2>2, LoopIsOp DEF Trees
  <2> QED BY <1>3, <2>3 DEF After, Trees
<1> QED BY <1>1, <1>2, <1>3 DEF IsOp, OpFits, Ops, Trees

\* Who is not past an operation runs, and who is past it does not.
LEMMA PastIs ==
  ASSUME NEW o, IsOp(o)
  PROVE  /\ ~o.wait /\ o.op # "end" /\ o # Past(o)
         /\ o.op # "out" => Past(o).wait /\ Past(o).op = o.op /\ Past(o).s2 = o.s2
         /\ o.op = "out" => ~Past(o).wait /\ Past(o).op = "end"
<1>1. o = [op |-> o.op, s2 |-> o.s2, wait |-> FALSE]
  BY DEF IsOp, At
<1>2. ~o.wait /\ o.op # "end"
  BY <1>1 DEF IsOp, OpFits, Ops
<1>3. ASSUME o.op # "out" PROVE Past(o).wait /\ Past(o).op = o.op /\ Past(o).s2 = o.s2
  BY <1>1, <1>3 DEF Past, HasBarrier
<1>4. ASSUME o.op = "out" PROVE ~Past(o).wait /\ Past(o).op = "end"
  BY <1>4 DEF Past, HasBarrier, After, At
<1>5. o # Past(o)
  <2>1. CASE o.op = "out"
    BY <1>2, <1>4, <2>1
  <2>2. CASE o.op # "out"
    <3>1. Past(o).wait
      BY <1>3, <2>2
    <3> QED BY <1>2, <3>1
  <2> QED BY <2>1, <2>2
<1> QED BY <1>2, <1>3, <1>4, <1>5

LEMMA RunsAtOp ==
  ASSUME NEW o, IsOp(o), InStep(o), NEW d \in Threads, Runs(d)
  PROVE  at[d] = o
  BY PastIs DEF InStep, Runs, Waits, Over

\* When all wait, all wait past the same operation, and go on to the next.
LEMMA AllPast ==
  ASSUME RunOK, NEW o, IsOp(o), InStep(o), Synchronise
  PROVE  /\ o.op # "out" /\ \A d \in Threads : at[d] = Past(o)
         /\ at' = [d \in Threads |-> After(o)]
<1>1. \A d \in Threads : Waits(d)
  BY DEF Synchronise
<1>2. \A d \in Threads : at[d] = Past(o)
  BY <1>1, PastIs DEF InStep, Waits
<1>3. 0 \in Threads
  BY DEF RunOK, Threads
<1>4. Past(o).wait
  BY <1>1, <1>2, <1>3 DEF Waits
<1>5. o.op # "out"
  BY <1>4, PastIs
<1>6. After(Past(o)) = After(o)
  <2>1. Past(o).op = o.op /\ Past(o).s2 = o.s2
    BY <1>5, PastIs
  <2> QED BY <2>1 DEF After
<1> QED BY <1>2, <1>5, <1>6 DEF Synchronise

LEMMA SameRun ==
  ASSUME run' = run
  PROVE  /\ Threads' = Threads /\ Lanes' = Lanes /\ RunOK' = RunOK
         /\ \A o : IsOp(o)' = IsOp(o) /\ After(o)' = After(o) /\ Past(o)' = Past(o)
  BY DEF Threads, Lanes, RunOK, IsOp, OpFits, After, Past, HasBarrier, At, Loop

-----------------------------------------------------------------------------
(* Shared memory: what two threads at the same operation touch.            *)

LEMMA CellIs ==
  /\ \A i : Address(<<"red", i>>) = i
  /\ \A t : Address(<<"sh", t>>) = RLANES + t
  /\ \A S, x : x \in Cells("red", S) <=> \E i \in S : x = <<"red", i>>
  /\ \A S, x : x \in Cells("sh", S) <=> \E t \in S : x = <<"sh", t>>
<1>1. \A i : <<"red", i>>[1] = "red" /\ <<"red", i>>[2] = i
  OBVIOUS
<1>2. \A i : <<"sh", i>>[1] # "red" /\ <<"sh", i>>[2] = i
  OBVIOUS
<1> QED BY <1>1, <1>2 DEF Address, Cells

\* Where thread d may store to, and load from.
RedStore(d, o) == \/ o.op \in {"lane_max", "lane_sum"} /\ d < Lanes
                  \/ o.op \in Trees /\ d < o.s2
                  \/ o.op = "exp_sum"
ShStore(o)     == o.op \in {"score", "exp", "exp_sum"}

LEMMA StoreIs ==
  ASSUME NEW d \in Threads, NEW o, IsOp(o), NEW x \in Stores(d, o)
  PROVE  \/ RedStore(d, o) /\ x = <<"red", d>>
         \/ ShStore(o) /\ \E t \in Strided(d, run.block) : x = <<"sh", t>>
<1>1. CASE o.op \in {"score", "exp"}
  BY <1>1, CellIs DEF Stores, ShStore
<1>2. CASE o.op \in {"lane_max", "lane_sum"}
  BY <1>2, CellIs DEF Stores, RedStore
<1>3. CASE o.op \in Trees
  BY <1>3, CellIs DEF Stores, RedStore, Trees
<1>4. CASE o.op = "exp_sum"
  BY <1>4, CellIs DEF Stores, RedStore, ShStore
<1>5. CASE o.op \in {"read_max", "read_sum", "out"}
  BY <1>5 DEF Stores
<1> QED BY <1>1, <1>2, <1>3, <1>4, <1>5 DEF IsOp, OpFits, Ops, Trees

LEMMA LoadIs ==
  ASSUME NEW d \in Threads, NEW o, IsOp(o), NEW x \in Loads(d, o)
  PROVE  \/ o.op \in Trees /\ d < o.s2 /\ (x = <<"red", d>> \/ x = <<"red", d + o.s2>>)
         \/ o.op \in {"read_max", "read_sum"} /\ x = <<"red", 0>>
         \/ o.op \in {"lane_max", "lane_sum"} /\ \E t \in Positions : x = <<"sh", t>>
         \/ o.op = "out" /\ \E t \in Live : x = <<"sh", t>>
         \/ ShStore(o) /\ \E t \in Strided(d, run.block) : x = <<"sh", t>>
<1>1. CASE o.op \in {"lane_max", "lane_sum"}
  <2>1. x \in Cells("sh", Strided(d, Lanes)) \/ x \in Cells("sh", Strided(d, RLANES))
    BY <1>1 DEF Loads
  <2>2. \A s : Strided(d, s) \subseteq Positions
    BY DEF Strided
  <2> QED BY <1>1, <2>1, <2>2, CellIs
<1>2. CASE o.op \in Trees
  BY <1>2, CellIs DEF Loads, Trees
<1>3. CASE o.op \in {"read_max", "read_sum"}
  BY <1>3, CellIs DEF Loads
<1>4. CASE o.op \in {"exp", "exp_sum"}
  BY <1>4, CellIs DEF Loads, ShStore
<1>5. CASE o.op = "out"
  BY <1>5, CellIs DEF Loads
<1>6. CASE o.op = "score"
  BY <1>6 DEF Loads
<1> QED BY <1>1, <1>2, <1>3, <1>4, <1>5, <1>6 DEF IsOp, OpFits, Ops, Trees

\* The block has no more threads than red has cells where it reduces over itself.
Fits == run.kernel = "pm" => run.block <= RLANES

LEMMA InRed ==
  ASSUME RunOK, Fits, NEW d \in Threads, NEW o, IsOp(o)
  PROVE  /\ Lanes <= RLANES /\ RLANES \in Nat \ {0} /\ d \in Nat
         /\ RedStore(d, o) => d < RLANES
         /\ o.op \in Trees => o.s2 \in Nat /\ (d < o.s2 => d + o.s2 < RLANES)
<1>1. RLANES \in Nat \ {0} /\ d \in Nat /\ d < run.block /\ run.block \in Nat
  BY BlockAssumption DEF RunOK, Threads
<1>2. Lanes <= RLANES /\ Lanes \in Nat
  BY <1>1 DEF Fits, Lanes, RunOK
<1>3. o.op \in Trees => o.s2 \in Nat /\ 2 * o.s2 <= Lanes
  BY DEF IsOp, OpFits
<1>4. o.op = "exp_sum" => run.block <= RLANES
  BY DEF IsOp, OpFits, Fits
<1>5. RedStore(d, o) => d < RLANES
  BY <1>1, <1>2, <1>3, <1>4 DEF RedStore
<1> QED BY <1>1, <1>2, <1>3, <1>5

LEMMA NoRace ==
  ASSUME RunOK, Fits, NEW o, IsOp(o), NEW d \in Threads, NEW e \in Threads, d # e,
         NEW x \in Stores(d, o), NEW y \in Loads(e, o) \cup Stores(e, o)
  PROVE  Address(x) # Address(y)
<1>1. RLANES \in Nat /\ d \in Nat /\ e \in Nat
  BY InRed
<1>2. \A s : \A t \in Strided(s, run.block) : t \in Nat /\ t % run.block = s
  BY DEF Strided, Positions, RunOK
<1>3. \A t \in Live : t \in Nat
  BY DEF Live, RunOK
<1>4. \A t \in Positions : t \in Nat
  BY DEF Positions, RunOK
<1>5. CASE RedStore(d, o) /\ x = <<"red", d>>
  <2>1. Address(x) = d /\ d < RLANES
    BY <1>5, CellIs, InRed
  <2>2. ASSUME NEW t \in Nat, y = <<"sh", t>> PROVE Address(x) # Address(y)
    <3>1. Address(y) = RLANES + t
      BY <2>2, CellIs
    <3> QED BY <1>1, <2>1, <3>1
  <2>3. CASE y \in Stores(e, o)
    <3>1. CASE RedStore(e, o) /\ y = <<"red", e>>
      <4>1. Address(y) = e
        BY <3>1, CellIs
      <4> QED BY <2>1, <4>1
    <3>2. CASE \E t \in Strided(e, run.block) : y = <<"sh", t>>
      BY <1>2, <2>2, <3>2
    <3> QED BY <2>3, <3>1, <3>2, StoreIs
  <2>4. CASE y \in Loads(e, o)
    <3>1. CASE o.op \in Trees /\ e < o.s2 /\ (y = <<"red", e>> \/ y = <<"red", e + o.s2>>)
      <4>1. d < o.s2 /\ o.s2 \in Nat
        BY <1>5, <3>1, InRed DEF RedStore, Trees
      <4>2. Address(y) = e \/ Address(y) = e + o.s2
        BY <3>1, CellIs
      <4> QED BY <1>1, <2>1, <4>1, <4>2
    <3>2. CASE o.op \in {"read_max", "read_sum"}
      BY <1>5, <3>2 DEF RedStore, Trees
    <3>3. CASE \E t \in Positions \cup Live \cup Strided(e, run.block) : y = <<"sh", t>>
      BY <1>2, <1>3, <1>4, <2>2, <3>3
    <3> QED BY <2>4, <3>1, <3>2, <3>3, LoadIs
  <2> QED BY <2>3, <2>4
<1>6. CASE ShStore(o) /\ \E t \in Strided(d, run.block) : x = <<"sh", t>>
  <2>1. PICK t \in Strided(d, run.block) : x = <<"sh", t>>
    BY <1>6
  <2>2. Address(x) = RLANES + t /\ t \in Nat /\ t % run.block = d
    BY <1>2, <2>1, CellIs
  <2>3. CASE RedStore(e, o) /\ y = <<"red", e>>
    <3>1. Address(y) = e /\ e < RLANES
      BY <2>3, CellIs, InRed
    <3> QED BY <1>1, <2>2, <3>1
  <2>4. CASE \E u \in Strided(e, run.block) : y = <<"sh", u>>
    <3>1. PICK u \in Strided(e, run.block) : y = <<"sh", u>>
      BY <2>4
    <3>2. Address(y) = RLANES + u /\ u \in Nat /\ u % run.block = e
      BY <1>2, <3>1, CellIs
    <3> QED BY <1>1, <2>2, <3>2
  <2>5. o.op \notin Trees \cup {"read_max", "read_sum", "lane_max", "lane_sum", "out"}
    BY <1>6 DEF ShStore, Trees
  <2> QED BY <2>3, <2>4, <2>5, StoreIs, LoadIs
<1> QED BY <1>5, <1>6, StoreIs

LEMMA StaysInRed ==
  ASSUME RunOK, Fits, NEW o, IsOp(o), NEW d \in Threads,
         NEW x \in Loads(d, o) \cup Stores(d, o), x[1] = "red"
  PROVE  x[2] < RLANES
<1>1. \A t : <<"sh", t>>[1] # "red"
  OBVIOUS
<1>2. \A i : <<"red", i>>[2] = i
  OBVIOUS
<1>3. \/ RedStore(d, o) /\ x = <<"red", d>>
      \/ o.op \in Trees /\ d < o.s2 /\ (x = <<"red", d>> \/ x = <<"red", d + o.s2>>)
      \/ x = <<"red", 0>>
  BY <1>1, StoreIs, LoadIs
<1>4. CASE x = <<"red", 0>>
  BY <1>2, <1>4, InRed
<1>5. CASE RedStore(d, o) /\ x = <<"red", d>>
  BY <1>2, <1>5, InRed
<1>6. CASE o.op \in Trees /\ d < o.s2 /\ (x = <<"red", d>> \/ x = <<"red", d + o.s2>>)
  <2>1. d + o.s2 < RLANES /\ d < RLANES
    BY <1>6, InRed
  <2> QED BY <1>2, <1>6, <2>1
<1> QED BY <1>3, <1>4, <1>5, <1>6

\* The block is in step; nothing else is needed for the memory to be safe.
StepInv == RunOK /\ \E o : IsOp(o) /\ InStep(o)

LEMMA StepInvInit == SoftmaxInit => StepInv
<1> SUFFICES ASSUME SoftmaxInit PROVE StepInv
  OBVIOUS
<1>1. InStep(At("score", 0))
  BY DEF SoftmaxInit, InStep
<1> QED BY <1>1, RunInit, FirstIsOp DEF StepInv

LEMMA InStepNext ==
  ASSUME RunOK, NEW o, IsOp(o), InStep(o), SoftmaxNext
  PROVE  /\ run' = run /\ RunOK'
         /\ \/ InStep(o)'
            \/ Synchronise /\ o.op # "out" /\ InStep(After(o))'
<1>1. run' = run
  BY DEF SoftmaxNext, Execute, Synchronise, Finished, softVars
<1>2. RunOK' /\ Threads' = Threads /\ \A p : Past(p)' = Past(p)
  BY <1>1, SameRun
<1>3. ASSUME NEW d \in Threads, Execute(d) PROVE InStep(o)'
  <2>1. at[d] = o
    BY <1>3, RunsAtOp DEF Execute
  <2>2. at' = [at EXCEPT ![d] = Past(o)]
    BY <1>3, <2>1 DEF Execute
  <2> QED BY <1>2, <2>2 DEF InStep
<1>4. CASE Synchronise
  <2>1. o.op # "out" /\ at' = [d \in Threads |-> After(o)]
    BY <1>4, AllPast
  <2>2. InStep(After(o))'
    BY <1>1, <1>2, <2>1, SameRun DEF InStep
  <2> QED BY <1>1, <1>2, <1>4, <2>1, <2>2
<1>5. CASE Finished
  BY <1>2, <1>5 DEF Finished, softVars, InStep
<1> QED BY <1>1, <1>2, <1>3, <1>4, <1>5 DEF SoftmaxNext

LEMMA StepInvNext == StepInv /\ [SoftmaxNext]_softVars => StepInv'
<1> SUFFICES ASSUME StepInv, [SoftmaxNext]_softVars PROVE StepInv'
  OBVIOUS
<1>1. PICK o : IsOp(o) /\ InStep(o)
  BY DEF StepInv
<1>2. CASE SoftmaxNext
  <2>1. run' = run /\ RunOK' /\ (InStep(o)' \/ (o.op # "out" /\ InStep(After(o))'))
    BY <1>1, <1>2, InStepNext DEF StepInv
  <2>2. \A p : IsOp(p)' = IsOp(p) /\ After(p)' = After(p)
    BY <2>1, SameRun
  <2>3. o.op # "out" => IsOp(After(o))
    BY <1>1, AfterIsOp DEF StepInv
  <2> QED BY <1>1, <2>1, <2>2, <2>3 DEF StepInv
<1>3. CASE UNCHANGED softVars
  <2>1. run' = run /\ at' = at
    BY <1>3 DEF softVars
  <2>2. Threads' = Threads /\ RunOK' = RunOK /\ \A p : IsOp(p)' = IsOp(p) /\ Past(p)' = Past(p)
    BY <2>1, SameRun
  <2> QED BY <1>1, <2>1, <2>2 DEF StepInv, InStep
<1> QED BY <1>2, <1>3

LEMMA InStepIsSafe ==
  ASSUME StepInv, Fits
  PROVE  MemoryIsSafe
<1>1. PICK o : IsOp(o) /\ InStep(o) /\ RunOK
  BY DEF StepInv
<1>2. \A d \in Threads : /\ Writes(d) = {} \/ Writes(d) = Stores(d, o)
                         /\ Touches(d) = {} \/ Touches(d) = Loads(d, o) \cup Stores(d, o)
  BY <1>1, RunsAtOp DEF Writes, Touches
<1>3. ASSUME NEW d \in Threads, NEW e \in Threads, d # e,
             NEW x \in Writes(d), NEW y \in Touches(e)
      PROVE  Address(x) # Address(y)
  <2>1. x \in Stores(d, o) /\ y \in Loads(e, o) \cup Stores(e, o)
    BY <1>2
  <2> QED BY <1>1, <1>3, <2>1, NoRace
<1>4. RaceFree
  BY <1>3 DEF RaceFree
<1>5. RedInside
  BY <1>1, <1>2, StaysInRed DEF RedInside
<1> QED BY <1>4, <1>5 DEF MemoryIsSafe

\* For every block size, every length and every number of lanes: as long as the
\* kernel that reduces over its own block is launched with no more threads than
\* red has cells, no two threads of a block touch a cell that one of them
\* writes, and none leaves red (the __syncthreads() of the three kernels).
THEOREM MemoryStaysSafe ==
  ASSUME "pm" \in Attentions => \A b \in Blocks : b <= RLANES
  PROVE  SoftmaxSpec => []MemoryIsSafe
<1>1. StepInv => Fits
  BY DEF StepInv, RunOK, Fits
<1>2. StepInv => MemoryIsSafe
  BY <1>1, InStepIsSafe
<1> QED BY <1>2, StepInvInit, StepInvNext, PTL DEF SoftmaxSpec

-----------------------------------------------------------------------------
(* What the reductions compute.                                            *)

LEMMA ModIs ==
  ASSUME NEW s \in Nat \ {0}, NEW q \in Nat, NEW r \in 0..(s - 1)
  PROVE  (s * q + r) % s = r
<1> DEFINE a == s * q + r
           p == a \div s
           m == a % s
<1>1. a \in Nat /\ s * q \in Nat
  OBVIOUS
<1>2. p \in Nat /\ m \in 0..(s - 1) /\ a = s * p + m
  BY <1>1
<1>3. s * p \in Nat
  BY <1>2
<1>4. a = s * q + r
  OBVIOUS
<1> HIDE DEF a, p, m
<1>5. CASE p < q
  <2>1. q = p + (q - p) /\ q - p \in Nat /\ q - p >= 1
    BY <1>2, <1>5
  <2>2. s * q = s * p + s * (q - p)
    BY <1>2, <2>1
  <2>3. s * (q - p) >= s
    BY <2>1
  <2> QED BY <1>1, <1>2, <1>3, <1>4, <2>2, <2>3
<1>6. CASE q < p
  <2>1. p = q + (p - q) /\ p - q \in Nat /\ p - q >= 1
    BY <1>2, <1>6
  <2>2. s * p = s * q + s * (p - q)
    BY <1>2, <2>1
  <2>3. s * (p - q) >= s
    BY <2>1
  <2> QED BY <1>1, <1>2, <1>3, <1>4, <2>2, <2>3
<1>7. CASE p = q
  <2>1. s * p = s * q
    BY <1>7
  <2>2. m = r
    <3> DEFINE x == s * q
    <3>1. a = x + m /\ a = x + r /\ x \in Nat
      BY <1>1, <1>2, <1>4, <2>1
    <3> HIDE DEF x
    <3> QED BY <1>2, <3>1
  <2> QED BY <2>2 DEF m, a
<1> QED BY <1>2, <1>5, <1>6, <1>7

\* A residue of s is one of two of 2 * s.
LEMMA HalfMod ==
  ASSUME NEW s \in Nat \ {0}, NEW i \in 0..(s - 1), NEW t \in Nat
  PROVE  t % s = i <=> (t % (2 * s) = i \/ t % (2 * s) = i + s)
<1> DEFINE q == t \div (2 * s)
           r == t % (2 * s)
<1>1. 2 * s \in Nat \ {0}
  OBVIOUS
<1>2. q \in Nat /\ r \in 0..(2 * s - 1) /\ t = (2 * s) * q + r
  BY <1>1
<1>3. /\ (2 * s) * q = s * (2 * q) /\ 2 * q \in Nat /\ s * (2 * q) \in Nat
      /\ s * (2 * q + 1) = s * (2 * q) + s
  BY <1>2
<1> HIDE DEF q, r
<1>4. CASE r < s
  <2>1. t = s * (2 * q) + r /\ r \in 0..(s - 1)
    BY <1>2, <1>3, <1>4
  <2>2. t % s = r
    BY <1>3, <2>1, ModIs
  <2> QED BY <1>2, <1>4, <2>2 DEF r
<1>5. CASE ~(r < s)
  <2>1. t = s * (2 * q + 1) + (r - s) /\ r - s \in 0..(s - 1) /\ 2 * q + 1 \in Nat
    BY <1>2, <1>3, <1>5
  <2>2. t % s = r - s
    BY <2>1, ModIs
  <2> QED BY <1>2, <1>5, <2>2 DEF r
<1> QED BY <1>4, <1>5

LEMMA ModOne ==
  ASSUME NEW t \in Nat
  PROVE  t % 1 = 0
  OBVIOUS

\* The maximum over the valid positions that are i modulo s.
MaxAt(s, i) == MaxOf({t \in Live : t % s = i})

LEMMA MaxJoins ==
  ASSUME RunOK, NEW s \in Nat \ {0}, NEW i \in 0..(s - 1)
  PROVE  fmaxf(MaxAt(2 * s, i), MaxAt(2 * s, i + s)) = MaxAt(s, i)
<1>1. \A t \in Live : t % s = i <=> (t % (2 * s) = i \/ t % (2 * s) = i + s)
  <2>1. \A t \in Live : t \in Nat
    BY DEF RunOK, Live
  <2> QED BY <2>1, HalfMod
<1>2. {t \in Live : t % (2 * s) = i} \cup {t \in Live : t % (2 * s) = i + s} = {t \in Live : t % s = i}
  BY <1>1
<1> QED BY <1>2 DEF fmaxf, MaxAt, MaxOf

LEMMA MaxOfAll ==
  ASSUME RunOK
  PROVE  MaxAt(1, 0) = MaxOf(Live)
<1>1. \A t \in Live : t % 1 = 0
  BY ModOne DEF RunOK, Live
<1> QED BY <1>1 DEF MaxAt

\* A lane's loop for the maximum, position by position.
IsMaxLoop(h, d) ==
  h = [t \in 0 .. run.positions |->
         IF t = 0 THEN MaxOf({})
         ELSE IF (t - 1) % Lanes = d THEN fmaxf(h[t - 1], Value(<<"sh", t - 1>>)) ELSE h[t - 1]]

LEMMA MaxLoop ==
  ASSUME RunOK, NEW d
  PROVE  \E h : IsMaxLoop(h, d)
<1> DEFINE Next(m, t) == IF (t - 1) % Lanes = d THEN fmaxf(m, Value(<<"sh", t - 1>>)) ELSE m
           Up(h, k) == h = [t \in 0..k |-> IF t = 0 THEN MaxOf({}) ELSE Next(h[t - 1], t)]
           T == {k \in Nat : \E h : Up(h, k)}
<1> SUFFICES \E h : Up(h, run.positions)
  BY DEF IsMaxLoop
<1>1. 0 \in T
  <2> DEFINE f == [t \in 0..0 |-> MaxOf({})]
  <2>1. Up(f, 0)
    <3> HIDE DEF Next
    <3> QED OBVIOUS
  <2> HIDE DEF Up
  <2> QED BY <2>1
<1>2. ASSUME NEW k \in T PROVE k + 1 \in T
  <2>1. k \in Nat
    OBVIOUS
  <2>2. PICK f : Up(f, k)
    OBVIOUS
  <2> DEFINE g == [t \in 0..(k + 1) |-> IF t = k + 1 THEN Next(f[k], t) ELSE f[t]]
  <2> HIDE DEF Next
  <2>3. ASSUME NEW t \in 0..(k + 1) PROVE g[t] = IF t = 0 THEN MaxOf({}) ELSE Next(g[t - 1], t)
    <3>1. \A u \in 0..k : u # k + 1 /\ u \in 0..(k + 1)
      BY <2>1
    <3>2. \A u \in 0..k : g[u] = f[u]
      BY <3>1
    <3>3. CASE t = k + 1
      <4>1. t # 0 /\ t - 1 = k /\ k \in 0..k /\ g[t] = Next(f[k], t)
        BY <2>1, <3>3
      <4> HIDE DEF g
      <4> QED BY <3>2, <4>1
    <3>4. CASE t # k + 1
      <4>1. t \in 0..k /\ (t # 0 => t - 1 \in 0..k)
        BY <2>1, <3>4
      <4> HIDE DEF g
      <4> QED BY <2>2, <3>2, <4>1
    <3> QED BY <3>3, <3>4
  <2>4. DOMAIN g = 0..(k + 1) /\ g = [t \in 0..(k + 1) |-> g[t]]
    OBVIOUS
  <2> HIDE DEF g
  <2>5. Up(g, k + 1)
    BY <2>3, <2>4
  <2> HIDE DEF Up
  <2> QED BY <2>1, <2>5
<1>3. run.positions \in Nat /\ T \in SUBSET Nat
  BY DEF RunOK
<1> HIDE DEF T
<1>4. run.positions \in T
  BY <1>1, <1>2, <1>3, CountUp
<1> QED BY <1>4 DEF T

LEMMA LaneMaxIs ==
  ASSUME RunOK, Lanes = RLANES, NEW d,
         \A t \in Positions : Value(<<"sh", t>>) = Score(t)
  PROVE  LaneMax(d) = MaxAt(RLANES, d)
<1> DEFINE h == CHOOSE g : IsMaxLoop(g, d)
           Got(k) == {t \in Live : t < k /\ t % RLANES = d}
           T == {k \in Nat : k <= run.positions => h[k] = MaxOf(Got(k))}
<1>1. LaneMax(d) = h[run.positions]
  BY DEF LaneMax, IsMaxLoop
<1>2. IsMaxLoop(h, d)
  <2>1. \E g : IsMaxLoop(g, d)
    BY MaxLoop
  <2> QED BY <2>1, Zenon
<1> HIDE DEF h
<1>3. run.positions \in Nat /\ \A t \in Live : t \in Nat /\ t < run.positions /\ t < run.len
  BY DEF RunOK, Live
<1>4. 0 \in T
  <2>1. Got(0) = {}
    BY <1>3
  <2>2. h[0] = MaxOf({})
    BY <1>2, <1>3 DEF IsMaxLoop
  <2> QED BY <2>1, <2>2
<1>5. ASSUME NEW k \in T PROVE k + 1 \in T
  <2>1. k \in Nat
    OBVIOUS
  <2> SUFFICES ASSUME k + 1 <= run.positions PROVE h[k + 1] = MaxOf(Got(k + 1))
    BY <2>1
  <2>2. h[k] = MaxOf(Got(k)) /\ k \in Positions /\ (k + 1) - 1 = k /\ k + 1 \in 0..run.positions /\ k + 1 # 0
    BY <1>3, <2>1 DEF Positions
  <2>3. h[k + 1] = IF k % RLANES = d THEN fmaxf(h[k], Value(<<"sh", k>>)) ELSE h[k]
    BY <1>2, <2>2 DEF IsMaxLoop
  <2>4. k \in Live <=> k < run.len
    BY <2>1 DEF Live, RunOK
  <2>5. CASE k % RLANES = d /\ k \in Live
    <3>1. h[k + 1] = fmaxf(MaxOf(Got(k)), MaxOf({k}))
      BY <2>2, <2>3, <2>4, <2>5 DEF Score
    <3>2. Got(k + 1) = Got(k) \cup {k}
      <4>1. \A t \in Live : t < k + 1 <=> (t < k \/ t = k)
        BY <1>3, <2>1
      <4> QED BY <2>5, <4>1
    <3> HIDE DEF Got
    <3> QED BY <3>1, <3>2 DEF fmaxf, MaxOf
  <2>6. CASE k % RLANES = d /\ k \notin Live
    <3>1. h[k + 1] = fmaxf(MaxOf(Got(k)), MaxOf({}))
      BY <2>2, <2>3, <2>4, <2>6 DEF Score
    <3>2. Got(k + 1) = Got(k)
      BY <1>3, <2>1, <2>6
    <3> HIDE DEF Got
    <3>3. Got(k) \cup {} = Got(k)
      OBVIOUS
    <3> QED BY <3>1, <3>2, <3>3 DEF fmaxf, MaxOf
  <2>7. CASE k % RLANES # d
    <3>1. Got(k + 1) = Got(k)
      BY <1>3, <2>1, <2>7
    <3> HIDE DEF Got
    <3> QED BY <2>2, <2>3, <2>7, <3>1
  <2> QED BY <2>5, <2>6, <2>7
<1>6. run.positions \in T
  <2>1. T \in SUBSET Nat
    OBVIOUS
  <2> HIDE DEF T
  <2> QED BY <1>3, <1>4, <1>5, <2>1, CountUp
<1>7. Got(run.positions) = {t \in Live : t % RLANES = d}
  BY <1>3
<1>8. h[run.positions] = MaxOf(Got(run.positions))
  BY <1>3, <1>6
<1> HIDE DEF Got, T
<1> QED BY <1>1, <1>7, <1>8 DEF MaxAt

\* A lane's loop for the sum, position by position.
IsSumLoop(h, terms, len, step, d) ==
  h = [t \in 0..len |->
         IF t = 0 THEN Zero
         ELSE IF (t - 1) % step = d THEN Plus(h[t - 1], terms[t - 1]) ELSE h[t - 1]]

LEMMA SumLoop ==
  ASSUME NEW terms, NEW len \in Nat, NEW step, NEW d
  PROVE  \E h : IsSumLoop(h, terms, len, step, d)
<1> DEFINE Next(s, t) == IF (t - 1) % step = d THEN Plus(s, terms[t - 1]) ELSE s
           Up(h, k) == h = [t \in 0..k |-> IF t = 0 THEN Zero ELSE Next(h[t - 1], t)]
           T == {k \in Nat : \E h : Up(h, k)}
<1> SUFFICES \E h : Up(h, len)
  BY DEF IsSumLoop
<1>1. 0 \in T
  <2> DEFINE f == [t \in 0..0 |-> Zero]
  <2>1. Up(f, 0)
    <3> HIDE DEF Next
    <3> QED OBVIOUS
  <2> HIDE DEF Up
  <2> QED BY <2>1
<1>2. ASSUME NEW k \in T PROVE k + 1 \in T
  <2>1. k \in Nat
    OBVIOUS
  <2>2. PICK f : Up(f, k)
    OBVIOUS
  <2> DEFINE g == [t \in 0..(k + 1) |-> IF t = k + 1 THEN Next(f[k], t) ELSE f[t]]
  <2> HIDE DEF Next
  <2>3. ASSUME NEW t \in 0..(k + 1) PROVE g[t] = IF t = 0 THEN Zero ELSE Next(g[t - 1], t)
    <3>1. \A u \in 0..k : u # k + 1 /\ u \in 0..(k + 1)
      BY <2>1
    <3>2. \A u \in 0..k : g[u] = f[u]
      BY <3>1
    <3>3. CASE t = k + 1
      <4>1. t # 0 /\ t - 1 = k /\ k \in 0..k /\ g[t] = Next(f[k], t)
        BY <2>1, <3>3
      <4> HIDE DEF g
      <4> QED BY <3>2, <4>1
    <3>4. CASE t # k + 1
      <4>1. t \in 0..k /\ (t # 0 => t - 1 \in 0..k)
        BY <2>1, <3>4
      <4> HIDE DEF g
      <4> QED BY <2>2, <3>2, <4>1
    <3> QED BY <3>3, <3>4
  <2>4. DOMAIN g = 0..(k + 1) /\ g = [t \in 0..(k + 1) |-> g[t]]
    OBVIOUS
  <2> HIDE DEF g
  <2>5. Up(g, k + 1)
    BY <2>3, <2>4
  <2> HIDE DEF Up
  <2> QED BY <2>1, <2>5
<1>3. T \in SUBSET Nat
  OBVIOUS
<1> HIDE DEF T
<1>4. len \in T
  BY <1>1, <1>2, <1>3, CountUp
<1> QED BY <1>4 DEF T

\* The exact zeros behind the last valid position change nothing.
LEMMA LaneSumIs ==
  ASSUME NEW m \in Nat, NEW len \in Nat, len <= m, NEW step, NEW d, NEW long, NEW short,
         \A t \in 0..(len - 1) : long[t] = short[t],
         \A t \in len..(m - 1) : long[t] = Zero
  PROVE  LaneSum(long, m, step, d) = LaneSum(short, len, step, d)
<1> DEFINE f == CHOOSE h : IsSumLoop(h, long, m, step, d)
           g == CHOOSE h : IsSumLoop(h, short, len, step, d)
           Upto(k) == IF k <= len THEN k ELSE len
           T == {k \in Nat : k <= m => f[k] = g[Upto(k)]}
<1>1. LaneSum(long, m, step, d) = f[m] /\ LaneSum(short, len, step, d) = g[len]
  BY DEF LaneSum, IsSumLoop
<1>2. IsSumLoop(f, long, m, step, d) /\ IsSumLoop(g, short, len, step, d)
  <2>1. (\E h : IsSumLoop(h, long, m, step, d)) /\ (\E h : IsSumLoop(h, short, len, step, d))
    BY SumLoop
  <2> QED BY <2>1, Zenon
<1> HIDE DEF f, g
<1>3. f[0] = Zero /\ g[0] = Zero
  BY <1>2 DEF IsSumLoop
<1>4. ASSUME NEW k \in Nat
      PROVE  /\ k + 1 <= m => f[k + 1] = IF k % step = d THEN Plus(f[k], long[k]) ELSE f[k]
             /\ k + 1 <= len => g[k + 1] = IF k % step = d THEN Plus(g[k], short[k]) ELSE g[k]
  <2>1. (k + 1) - 1 = k /\ k + 1 # 0 /\ (k + 1 <= m => k + 1 \in 0..m) /\ (k + 1 <= len => k + 1 \in 0..len)
    OBVIOUS
  <2> QED BY <1>2, <2>1 DEF IsSumLoop
<1>5. 0 \in T
  BY <1>3
<1>6. ASSUME NEW k \in T PROVE k + 1 \in T
  <2>1. k \in Nat
    OBVIOUS
  <2> SUFFICES ASSUME k + 1 <= m PROVE f[k + 1] = g[Upto(k + 1)]
    BY <2>1
  <2>2. f[k] = g[Upto(k)]
    BY <2>1
  <2> HIDE DEF T
  <2>3. CASE k < len
    <3>1. Upto(k) = k /\ Upto(k + 1) = k + 1 /\ k + 1 <= len /\ k \in 0..(len - 1)
      BY <2>1, <2>3
    <3>2. long[k] = short[k]
      BY <3>1
    <3> HIDE DEF Upto
    <3> QED BY <1>4, <2>1, <2>2, <3>1, <3>2
  <2>4. CASE ~(k < len)
    <3>1. Upto(k) = len /\ Upto(k + 1) = len /\ k \in len..(m - 1)
      BY <2>1, <2>4
    <3>2. long[k] = Zero
      BY <3>1
    <3>3. Plus(f[k], Zero) = f[k]
      BY DEF Plus
    <3> HIDE DEF Upto
    <3> QED BY <1>4, <2>1, <2>2, <3>1, <3>2, <3>3
  <2> QED BY <2>3, <2>4
<1>7. m \in T
  <2>1. T \in SUBSET Nat
    OBVIOUS
  <2> HIDE DEF T
  <2> QED BY <1>5, <1>6, <2>1, CountUp
<1>8. Upto(m) = len
  OBVIOUS
<1>9. f[m] = g[Upto(m)]
  BY <1>7
<1> HIDE DEF Upto, T
<1> QED BY <1>1, <1>8, <1>9

\* The frozen sum, by the number of cells that are left.
FrozenLanes ==
  [i \in 0 .. RLANES - 1 |-> LaneSum([t \in Live |-> <<"exp", {t}, Live>>], run.len, RLANES, i)]
IsSumTable(h, lanes) ==
  h = [s \in 1 .. 2 * RLANES |->
         IF s >= RLANES THEN lanes
         ELSE [i \in 0 .. s - 1 |-> Plus(h[2 * s][i], h[2 * s][i + s])]]
SumTableOf(lanes) == CHOOSE h : IsSumTable(h, lanes)
SumTable == SumTableOf(FrozenLanes)

LEMMA TableExists == ASSUME NEW lanes PROVE \E h : IsSumTable(h, lanes)
<1> DEFINE Fold(r, s) == [i \in 0 .. s - 1 |-> Plus(r[i], r[i + s])]
           Up(h, k) == h = [s \in k .. 2 * RLANES |->
                              IF s >= RLANES THEN lanes ELSE Fold(h[2 * s], s)]
           T == {k \in Nat : k < 2 * RLANES => \E h : Up(h, 2 * RLANES - k)}
<1>1. RLANES \in Nat \ {0}
  BY BlockAssumption
<1> SUFFICES \E h : Up(h, 1)
  BY DEF IsSumTable
<1>2. 0 \in T
  <2> DEFINE f == [s \in 2 * RLANES .. 2 * RLANES |-> lanes]
  <2>1. Up(f, 2 * RLANES)
    <3> HIDE DEF Fold
    <3>1. \A s \in 2 * RLANES .. 2 * RLANES : s >= RLANES
      BY <1>1
    <3> QED BY <3>1
  <2> HIDE DEF Up
  <2>2. 2 * RLANES - 0 = 2 * RLANES
    BY <1>1
  <2> QED BY <2>1, <2>2
<1>3. ASSUME NEW k \in T PROVE k + 1 \in T
  <2>1. k \in Nat
    OBVIOUS
  <2> SUFFICES ASSUME k + 1 < 2 * RLANES PROVE \E h : Up(h, 2 * RLANES - (k + 1))
    BY <2>1
  <2> DEFINE new == 2 * RLANES - (k + 1)
  <2>2. new \in Nat \ {0} /\ 2 * RLANES - k = new + 1 /\ new < 2 * RLANES
    BY <1>1, <2>1
  <2> HIDE DEF new
  <2>3. PICK f : Up(f, new + 1)
    <3> HIDE DEF Up
    <3>1. k < 2 * RLANES
      BY <1>1, <2>1
    <3>2. \E h : Up(h, 2 * RLANES - k)
      BY <3>1
    <3> QED BY <2>2, <3>2
  <2> DEFINE g == [s \in new .. 2 * RLANES |->
                     IF s # new THEN f[s] ELSE IF s >= RLANES THEN lanes ELSE Fold(f[2 * s], s)]
  <2> HIDE DEF Fold
  <2>4. ASSUME NEW s \in new .. 2 * RLANES
        PROVE  g[s] = IF s >= RLANES THEN lanes ELSE Fold(g[2 * s], s)
    <3>1. \A u \in new + 1 .. 2 * RLANES : u \in new .. 2 * RLANES /\ u # new
      BY <1>1, <2>2
    <3>2. \A u \in new + 1 .. 2 * RLANES : g[u] = f[u]
      BY <3>1
    <3>3. s < RLANES => 2 * s \in new + 1 .. 2 * RLANES
      BY <1>1, <2>2
    <3>4. CASE s = new
      <4>1. g[s] = IF s >= RLANES THEN lanes ELSE Fold(f[2 * s], s)
        BY <3>4
      <4> HIDE DEF g
      <4>2. s < RLANES \/ s >= RLANES
        BY <1>1, <2>2
      <4> QED BY <3>2, <3>3, <4>1, <4>2
    <3>5. CASE s # new
      <4>1. s \in new + 1 .. 2 * RLANES /\ (s < RLANES \/ s >= RLANES)
        BY <1>1, <2>2, <3>5
      <4> HIDE DEF g
      <4>2. f[s] = IF s >= RLANES THEN lanes ELSE Fold(f[2 * s], s)
        BY <2>3, <4>1
      <4> QED BY <3>2, <3>3, <4>1, <4>2
    <3> QED BY <3>4, <3>5
  <2>5. DOMAIN g = new .. 2 * RLANES /\ g = [s \in new .. 2 * RLANES |-> g[s]]
    OBVIOUS
  <2> HIDE DEF g
  <2>6. Up(g, new)
    BY <2>4, <2>5
  <2> HIDE DEF Up
  <2> QED BY <2>6 DEF new
<1>4. T \in SUBSET Nat
  OBVIOUS
<1>5. 2 * RLANES - 1 \in Nat /\ 2 * RLANES - 1 < 2 * RLANES /\ 2 * RLANES - (2 * RLANES - 1) = 1
  BY <1>1
<1> HIDE DEF T
<1>6. 2 * RLANES - 1 \in T
  BY <1>2, <1>3, <1>4, <1>5, CountUp
<1> QED BY <1>5, <1>6 DEF T

LEMMA TableIs ==
  /\ \A i \in 0 .. RLANES - 1 :
       SumTable[RLANES][i] = LaneSum([t \in Live |-> <<"exp", {t}, Live>>], run.len, RLANES, i)
  /\ \A s \in 1 .. RLANES - 1 : \A i \in 0 .. s - 1 :
       SumTable[s][i] = Plus(SumTable[2 * s][i], SumTable[2 * s][i + s])
  /\ FrozenSum = SumTable[1][0]
<1>1. RLANES \in Nat \ {0}
  BY BlockAssumption
<1>2. IsSumTable(SumTable, FrozenLanes)
  BY TableExists, Zenon DEF SumTable, SumTableOf
<1>3. RLANES \in 1 .. 2 * RLANES /\ RLANES >= RLANES
  BY <1>1
<1>4. \A s \in 1 .. RLANES - 1 : s \in 1 .. 2 * RLANES /\ ~(s >= RLANES)
  BY <1>1
<1>5. SumTable[RLANES] = FrozenLanes
  BY <1>2, <1>3 DEF IsSumTable
<1>6. \A s \in 1 .. RLANES - 1 :
        SumTable[s] = [i \in 0 .. s - 1 |-> Plus(SumTable[2 * s][i], SumTable[2 * s][i + s])]
  BY <1>2, <1>4 DEF IsSumTable
<1>7. FrozenSum = SumTable[1][0]
  BY DEF FrozenSum, SumTable, SumTableOf, IsSumTable, FrozenLanes
<1> QED BY <1>5, <1>6, <1>7 DEF FrozenLanes

-----------------------------------------------------------------------------
(* What the cells hold, for the kernels with the frozen layout.            *)

Wide == run.kernel # "pm" /\ run.block >= RLANES

LEMMA WideIs ==
  ASSUME RunOK, Wide
  PROVE  /\ Lanes = RLANES /\ RLANES \in Nat \ {0}
         /\ \A t \in Positions : t \in Nat /\ t % run.block \in Threads
         /\ \A i \in 0 .. RLANES - 1 : i \in Threads
         /\ \A t \in Live : t \in Positions
<1>1. RLANES \in Nat \ {0} /\ run.block \in Nat \ {0}
  BY BlockAssumption DEF RunOK
<1>2. \A t \in Positions : t \in Nat
  BY DEF Positions, RunOK
<1>3. ASSUME NEW t \in Nat PROVE t % run.block \in Threads
  BY <1>1 DEF Threads
<1>4. \A i \in 0 .. RLANES - 1 : i \in Threads
  BY <1>1 DEF Wide, Threads
<1>5. \A t \in Live : t \in Positions
  BY DEF RunOK, Live, Positions
<1> QED BY <1>1, <1>2, <1>3, <1>4, <1>5 DEF Wide, Lanes

\* The widths that the halving goes through.
IsChain(W) == RLANES \in W /\ \A v \in W \ {1} : v % 2 = 0 /\ v \div 2 \in W
Chain == CHOOSE W \in SUBSET (1..RLANES) : IsChain(W)

LEMMA ChainIs ==
  /\ RLANES \in Chain /\ \A v \in Chain : v \in Nat /\ v >= 1 /\ v <= RLANES
  /\ \A v \in Chain : v # 1 => v \div 2 \in Chain /\ 2 * (v \div 2) = v
<1>1. Chain \in SUBSET (1..RLANES) /\ IsChain(Chain)
  <2>1. \E W \in SUBSET (1..RLANES) : IsChain(W)
    BY BlockAssumption DEF PowerOfTwo, IsChain
  <2> QED BY <2>1 DEF Chain
<1>2. RLANES \in Nat
  BY BlockAssumption
<1>3. \A v \in Chain : v \in Nat /\ v >= 1 /\ v <= RLANES
  BY <1>1, <1>2
<1>4. ASSUME NEW v \in Chain, v # 1 PROVE v \div 2 \in Chain /\ 2 * (v \div 2) = v
  <2>1. v % 2 = 0 /\ v \div 2 \in Chain /\ v \in Nat
    BY <1>1, <1>3, <1>4 DEF IsChain
  <2> QED BY <2>1
<1> QED BY <1>1, <1>3, <1>4 DEF IsChain

LEMMA OneIsLast == 1 \in Chain
<1>0. RLANES \in Nat
  BY BlockAssumption
<1> DEFINE T == {k \in Nat : \A v \in Chain : v <= k => 1 \in Chain}
<1>1. 0 \in T
  BY ChainIs
<1>2. ASSUME NEW k \in T PROVE k + 1 \in T
  <2> SUFFICES ASSUME NEW v \in Chain, v <= k + 1, v # 1 PROVE 1 \in Chain
    OBVIOUS
  <2>1. v \div 2 \in Chain /\ 2 * (v \div 2) = v /\ v \in Nat /\ v >= 1
    BY ChainIs
  <2>2. v \div 2 <= k
    <3>1. v \div 2 \in Nat /\ v \div 2 >= 1 /\ k \in Nat
      BY <2>1, ChainIs
    <3> QED BY <2>1, <3>1
  <2> QED BY <2>1, <2>2
<1>3. T \in SUBSET Nat
  OBVIOUS
<1> HIDE DEF T
<1>4. RLANES \in T
  BY <1>1, <1>2, <1>3, CountUp, <1>0
<1> QED BY <1>4, ChainIs, <1>0 DEF T

\* The cells of red that still count when an operation begins.
Width(o)   == IF o.op \in Trees THEN 2 * o.s2 ELSE 1
OnChain(o) == Width(o) \in Chain

LEMMA LoopWidth ==
  ASSUME NEW o \in Trees, NEW s \in Nat, NEW then \in {"read_max", "read_sum"},
         NEW w, w \in Nat \ {0}, w = 2 * s \/ (s = 0 /\ w = 1)
  PROVE  Loop(o, s, then).op \in {o, then} /\ Width(Loop(o, s, then)) = w
<1>1. CASE s > 0
  <2>1. At(o, s).op = o /\ At(o, s).s2 = s
    BY DEF At
  <2>2. Loop(o, s, then).op = o /\ Loop(o, s, then).s2 = s
    BY <1>1, <2>1 DEF Loop
  <2>3. Width(Loop(o, s, then)) = 2 * s
    BY <2>2 DEF Width
  <2> QED BY <1>1, <2>2, <2>3
<1>2. CASE ~(s > 0)
  <2>1. At(then, 0).op = then
    BY AtFields
  <2>2. then \notin Trees
    BY DEF Trees
  <2>3. Loop(o, s, then).op = then
    BY <1>2, <2>1 DEF Loop
  <2>4. Width(Loop(o, s, then)) = 1
    BY <2>2, <2>3 DEF Width
  <2>5. s = 0
    BY <1>2
  <2> QED BY <2>3, <2>4, <2>5
<1> QED BY <1>1, <1>2

Goes(o) ==
  /\ o.op = "score"    => After(o).op = "lane_max"
  /\ o.op = "lane_max" => After(o).op \in {"tree_max", "read_max"} /\ Width(After(o)) = RLANES
  /\ o.op = "tree_max" => After(o).op \in {"tree_max", "read_max"} /\ Width(After(o)) = o.s2
  /\ o.op = "read_max" => After(o).op = "exp"
  /\ o.op = "exp"      => After(o).op = "lane_sum"
  /\ o.op = "lane_sum" => After(o).op \in {"tree_sum", "read_sum"} /\ Width(After(o)) = RLANES
  /\ o.op = "tree_sum" => After(o).op \in {"tree_sum", "read_sum"} /\ Width(After(o)) = o.s2
  /\ o.op = "read_sum" => After(o).op = "out"
  /\ o.op = "out"      => After(o).op = "end"
  /\ OnChain(After(o)) /\ (o.op \in Trees => o.s2 \in Chain)

LEMMA GoesOn ==
  ASSUME RunOK, Wide, NEW o, IsOp(o), OnChain(o)
  PROVE  Goes(o)
<1>1. 1 \in Chain
  BY OneIsLast
<1>2. Lanes = RLANES /\ RLANES \in Nat \ {0}
  BY WideIs
<1>3. CASE o.op \in {"score", "read_max", "exp", "read_sum", "out"}
  <2>1. \A p : At(p, 0).op = p
    BY AtFields
  <2>2. /\ o.op = "score"    => After(o).op = "lane_max"
        /\ o.op = "read_max" => After(o).op = "exp"
        /\ o.op = "exp"      => After(o).op = "lane_sum"
        /\ o.op = "read_sum" => After(o).op = "out"
        /\ o.op = "out"      => After(o).op = "end"
    BY <2>1 DEF After, Wide
  <2>3. After(o).op \notin Trees
    BY <1>3, <2>2 DEF Trees
  <2>4. Width(After(o)) = 1
    BY <2>3 DEF Width
  <2>5. OnChain(After(o))
    BY <1>1, <2>4 DEF OnChain
  <2> QED BY <1>3, <2>2, <2>5 DEF Goes, Trees
<1>4. CASE o.op \in {"lane_max", "lane_sum"}
  <2> DEFINE s == RLANES \div 2
  <2>1. s \in Nat /\ (RLANES = 2 * s \/ (s = 0 /\ RLANES = 1))
    BY <1>2, ChainIs
  <2>2. /\ o.op = "lane_max" => After(o) = Loop("tree_max", s, "read_max")
        /\ o.op = "lane_sum" => After(o) = Loop("tree_sum", s, "read_sum")
    BY <1>2 DEF After
  <2> HIDE DEF s
  <2>3. /\ o.op = "lane_max" => After(o).op \in {"tree_max", "read_max"} /\ Width(After(o)) = RLANES
        /\ o.op = "lane_sum" => After(o).op \in {"tree_sum", "read_sum"} /\ Width(After(o)) = RLANES
    BY <1>2, <2>1, <2>2, LoopWidth DEF Trees
  <2> QED BY <1>4, <2>3, ChainIs DEF Goes, OnChain, Trees
<1>5. CASE o.op \in Trees
  <2>1. o.s2 \in Nat /\ o.s2 > 0 /\ 2 * o.s2 \in Chain
    BY <1>5 DEF IsOp, OpFits, OnChain, Width
  <2>2. o.s2 \in Chain
    <3>1. (2 * o.s2) \div 2 = o.s2 /\ 2 * o.s2 # 1
      BY <2>1
    <3> QED BY <2>1, <3>1, ChainIs
  <2> DEFINE s == o.s2 \div 2
  <2>3. s \in Nat /\ (o.s2 = 2 * s \/ (s = 0 /\ o.s2 = 1))
    BY <2>1, <2>2, ChainIs
  <2>4. /\ o.op = "tree_max" => After(o) = Loop("tree_max", s, "read_max")
        /\ o.op = "tree_sum" => After(o) = Loop("tree_sum", s, "read_sum")
    BY DEF After
  <2> HIDE DEF s
  <2>5. /\ o.op = "tree_max" => After(o).op \in {"tree_max", "read_max"} /\ Width(After(o)) = o.s2
        /\ o.op = "tree_sum" => After(o).op \in {"tree_sum", "read_sum"} /\ Width(After(o)) = o.s2
    BY <2>1, <2>3, <2>4, LoopWidth DEF Trees
  <2> QED BY <1>5, <2>2, <2>5 DEF Goes, OnChain, Trees
<1>6. o.op # "exp_sum"
  BY DEF IsOp, OpFits, Wide
<1> QED BY <1>3, <1>4, <1>5, <1>6 DEF IsOp, OpFits, Ops, Trees

-----------------------------------------------------------------------------
(* What is in the cells and in the registers between two barriers.         *)

Scored  == {"lane_max", "tree_max", "read_max", "exp"}
Weighed == {"lane_sum", "tree_sum", "read_sum", "out", "end"}

Scores   == [t \in Positions |-> Score(t)]
Weights  == [t \in Positions |-> IF t < run.len THEN <<"exp", {t}, Live>> ELSE Zero]
MaxTable == [w \in 1 .. RLANES |-> [i \in 0 .. w - 1 |-> MaxAt(w, i)]]

\* What a position's cell, a lane's cell and a thread's registers hold for who
\* is about to do an operation.
ShIs(op, v, s, w)      == (op \in Scored => v = s) /\ (op \in Weighed => v = w)
RedIs(o, i, v, m, z)   == i < Width(o) => /\ o.op \in {"tree_max", "read_max"} => v = m[Width(o)][i]
                                          /\ o.op \in {"tree_sum", "read_sum"} => v = z[Width(o)][i]
RegIs(op, r, m, z)     == (op = "exp" => r.mx = m[1][0]) /\ (op = "out" => r.z = z[1][0])

\* The operation that a thread is at, when the block does o.
Reached(o, d) == IF at[d] = o THEN o ELSE After(o)

ShHolds(o)  == \A t \in Positions :
                 ShIs(Reached(o, t % run.block).op, mem[RLANES + t], Scores[t], Weights[t])
RedHolds(o) == \A i \in 0 .. RLANES - 1 :
                 /\ RedStore(i, o) => RedIs(Reached(o, i), i, mem[i], MaxTable, SumTable)
                 /\ ~RedStore(i, o) => RedIs(o, i, mem[i], MaxTable, SumTable)
RegHolds(o) == \A d \in Threads : RegIs(Reached(o, d).op, reg[d], MaxTable, SumTable)
OutHolds    == \A d \in Threads : out[d] # << >> =>
                 out[d] = << [t \in Live |-> <<"exp", {t}, Live>>], SumTable[1][0] >>

Shape ==
  /\ DOMAIN mem = 0 .. 2 * RLANES + run.positions - 1
  /\ DOMAIN reg = Threads /\ \A d \in Threads : DOMAIN reg[d] = {"mx", "z"}
  /\ DOMAIN out = Threads

AllAt(o) == IsOp(o) /\ OnChain(o) /\ InStep(o)
Contents(o) == ShHolds(o) /\ RedHolds(o) /\ RegHolds(o)
FrozenInv == RunOK /\ Wide /\ Shape /\ OutHolds /\ \E o : AllAt(o) /\ Contents(o)

LEMMA ValueIs ==
  ASSUME RunOK, Shape
  PROVE  /\ \A t \in Positions : Value(<<"sh", t>>) = mem[RLANES + t]
         /\ \A i \in 0 .. RLANES - 1 : Value(<<"red", i>>) = mem[i]
<1>1. RLANES \in Nat \ {0} /\ run.positions \in Nat
  BY BlockAssumption DEF RunOK
<1>2. \A t \in Positions : RLANES + t \in DOMAIN mem
  BY <1>1 DEF Positions, Shape
<1>3. \A i \in 0 .. RLANES - 1 : i \in DOMAIN mem
  BY <1>1 DEF Shape
<1> QED BY <1>2, <1>3, CellIs DEF Value

LEMMA StoresAll ==
  ASSUME RunOK, Wide, NEW o, IsOp(o), NEW d \in Threads
  PROVE  /\ RedStore(d, o) => <<"red", d>> \in Stores(d, o) /\ d \in 0 .. RLANES - 1
         /\ ShStore(o) => \A t \in Positions : t % run.block = d => <<"sh", t>> \in Stores(d, o)
<1>1. Fits
  BY DEF Wide, Fits
<1>2. RedStore(d, o) => d \in 0 .. RLANES - 1
  BY <1>1, InRed
<1>3. o.op # "exp_sum"
  BY DEF IsOp, OpFits, Wide
<1>4. RedStore(d, o) => <<"red", d>> \in Stores(d, o)
  BY <1>3, CellIs DEF RedStore, Stores, Trees
<1>5. ASSUME ShStore(o), NEW t \in Positions, t % run.block = d PROVE <<"sh", t>> \in Stores(d, o)
  BY <1>3, <1>5, CellIs DEF ShStore, Stores, Strided
<1> QED BY <1>2, <1>4, <1>5

\* The memory after a thread's accesses.
LEMMA MemAt ==
  ASSUME RunOK, Wide, Shape, NEW o, IsOp(o), NEW d \in Threads, at[d] = o, Execute(d)
  PROVE  /\ DOMAIN mem' = DOMAIN mem
         /\ \A i \in 0 .. RLANES - 1 :
              /\ i = d /\ RedStore(d, o) => mem'[i] = Stored(d, o, <<"red", d>>)
              /\ i # d \/ ~RedStore(d, o) => mem'[i] = mem[i]
         /\ \A t \in Positions :
              /\ ShStore(o) /\ t % run.block = d => mem'[RLANES + t] = Stored(d, o, <<"sh", t>>)
              /\ ~ShStore(o) \/ t % run.block # d => mem'[RLANES + t] = mem[RLANES + t]
<1> DEFINE w == Stores(d, o)
<1>1. mem' = [a \in DOMAIN mem |-> IF \E c \in w : Address(c) = a
                 THEN Stored(d, o, CHOOSE c \in w : Address(c) = a) ELSE mem[a]]
  BY DEF Execute
<1>2. RLANES \in Nat \ {0} /\ run.positions \in Nat
  BY BlockAssumption DEF RunOK
<1>3. \A x \in w : \/ RedStore(d, o) /\ x = <<"red", d>>
                   \/ ShStore(o) /\ \E t \in Positions : t % run.block = d /\ x = <<"sh", t>>
  BY StoreIs DEF Strided
<1>4. RedStore(d, o) => <<"red", d>> \in w /\ d \in 0 .. RLANES - 1
  BY StoresAll
<1>5. ShStore(o) => \A t \in Positions : t % run.block = d => <<"sh", t>> \in w
  BY StoresAll
<1> HIDE DEF w
<1>6. \A t \in Positions : t \in Nat /\ RLANES + t \in DOMAIN mem
  BY <1>2 DEF Positions, Shape
<1>7. \A i \in 0 .. RLANES - 1 : i \in Nat /\ i \in DOMAIN mem
  BY <1>2 DEF Shape
<1>8. \A x, y \in w : Address(x) = Address(y) => x = y
  <2> SUFFICES ASSUME NEW x \in w, NEW y \in w, Address(x) = Address(y) PROVE x = y
    OBVIOUS
  <2>1. \A t \in Positions : RLANES + t # d \/ ~RedStore(d, o)
    BY <1>2, <1>4, <1>6
  <2>2. \A t, u \in Positions : RLANES + t = RLANES + u => t = u
    BY <1>2, <1>6
  <2> QED BY <1>3, <2>1, <2>2, CellIs
<1>9. ASSUME NEW x \in w, Address(x) \in DOMAIN mem PROVE mem'[Address(x)] = Stored(d, o, x)
  <2> DEFINE c0 == CHOOSE c \in w : Address(c) = Address(x)
  <2>1. c0 \in w /\ Address(c0) = Address(x)
    OBVIOUS
  <2>2. c0 = x
    BY <1>8, <2>1
  <2>3. mem'[Address(x)] = Stored(d, o, c0)
    BY <1>1, <1>9
  <2> QED BY <2>2, <2>3
<1>10. ASSUME NEW a \in DOMAIN mem, \A x \in w : Address(x) # a PROVE mem'[a] = mem[a]
  BY <1>1, <1>10
<1>11. DOMAIN mem' = DOMAIN mem
  BY <1>1
<1>12. ASSUME NEW i \in 0 .. RLANES - 1
       PROVE  /\ i = d /\ RedStore(d, o) => mem'[i] = Stored(d, o, <<"red", d>>)
              /\ i # d \/ ~RedStore(d, o) => mem'[i] = mem[i]
  <2>1. ASSUME i = d, RedStore(d, o) PROVE mem'[i] = Stored(d, o, <<"red", d>>)
    BY <1>4, <1>7, <1>9, <2>1, CellIs
  <2>2. ASSUME i # d \/ ~RedStore(d, o) PROVE mem'[i] = mem[i]
    <3>1. \A t \in Positions : RLANES + t # i
      BY <1>2, <1>6
    <3>2. \A x \in w : Address(x) # i
      BY <1>3, <2>2, <3>1, CellIs
    <3> QED BY <1>7, <1>10, <3>2
  <2> QED BY <2>1, <2>2
<1>13. ASSUME NEW t \in Positions
       PROVE  /\ ShStore(o) /\ t % run.block = d => mem'[RLANES + t] = Stored(d, o, <<"sh", t>>)
              /\ ~ShStore(o) \/ t % run.block # d => mem'[RLANES + t] = mem[RLANES + t]
  <2>1. ASSUME ShStore(o), t % run.block = d PROVE mem'[RLANES + t] = Stored(d, o, <<"sh", t>>)
    BY <1>5, <1>6, <1>9, <2>1, CellIs
  <2>2. ASSUME ~ShStore(o) \/ t % run.block # d PROVE mem'[RLANES + t] = mem[RLANES + t]
    <3>1. RedStore(d, o) => RLANES + t # d
      BY <1>2, <1>4, <1>6
    <3>2. \A u \in Positions : RLANES + u = RLANES + t => u = t
      BY <1>2, <1>6
    <3>3. \A x \in w : Address(x) # RLANES + t
      BY <1>3, <2>2, <3>1, <3>2, CellIs
    <3> QED BY <1>6, <1>10, <3>3
  <2> QED BY <2>1, <2>2
<1> QED BY <1>11, <1>12, <1>13

LEMMA StoredIs ==
  ASSUME Wide, NEW o, NEW d, NEW t
  PROVE  /\ o.op = "score"    => Stored(d, o, <<"sh", t>>) = Score(t)
         /\ o.op = "exp"      => Stored(d, o, <<"sh", t>>) = expf(Value(<<"sh", t>>), reg[d].mx)
         /\ o.op = "lane_max" => Stored(d, o, <<"red", d>>) = LaneMax(d)
         /\ o.op = "lane_sum" => Stored(d, o, <<"red", d>>) =
              LaneSum([u \in Positions |-> Value(<<"sh", u>>)], run.positions, Lanes, d)
         /\ o.op = "tree_max" => Stored(d, o, <<"red", d>>) =
              fmaxf(Value(<<"red", d>>), Value(<<"red", d + o.s2>>))
         /\ o.op = "tree_sum" => Stored(d, o, <<"red", d>>) =
              Plus(Value(<<"red", d>>), Value(<<"red", d + o.s2>>))
<1>1. <<"sh", t>>[1] = "sh" /\ <<"sh", t>>[2] = t
  OBVIOUS
<1>2. ASSUME o.op = "score" PROVE Stored(d, o, <<"sh", t>>) = Score(t)
  BY <1>1, <1>2 DEF Stored
<1>3. ASSUME o.op = "exp" PROVE Stored(d, o, <<"sh", t>>) = expf(Value(<<"sh", t>>), reg[d].mx)
  BY <1>1, <1>3 DEF Stored, Exp
<1>4. ASSUME o.op = "lane_max" PROVE Stored(d, o, <<"red", d>>) = LaneMax(d)
  BY <1>4 DEF Stored
<1>5. ASSUME o.op = "lane_sum" PROVE Stored(d, o, <<"red", d>>) =
              LaneSum([u \in Positions |-> Value(<<"sh", u>>)], run.positions, Lanes, d)
  BY <1>5 DEF Stored
<1>6. ASSUME o.op = "tree_max" PROVE Stored(d, o, <<"red", d>>) =
              fmaxf(Value(<<"red", d>>), Value(<<"red", d + o.s2>>))
  BY <1>6 DEF Stored
<1>7. ASSUME o.op = "tree_sum" PROVE Stored(d, o, <<"red", d>>) =
              Plus(Value(<<"red", d>>), Value(<<"red", d + o.s2>>))
  BY <1>7 DEF Stored
<1> QED BY <1>2, <1>3, <1>4, <1>5, <1>6, <1>7

\* The weight of a position is the exponential of its score.
LEMMA ExpIs ==
  ASSUME RunOK, NEW t \in Positions
  PROVE  expf(Scores[t], MaxOf(Live)) = Weights[t]
<1>1. Scores[t] = Score(t)
  BY DEF Scores
<1>2. 0 \in Live
  BY DEF Live, RunOK
<1>3. CASE t < run.len
  <2>1. Scores[t] = <<"max", {t}>>
    BY <1>1, <1>3 DEF Score, MaxOf
  <2> QED BY <1>2, <1>3, <2>1 DEF expf, MaxOf, Weights
<1>4. CASE ~(t < run.len)
  <2>1. Scores[t] = <<"max", {}>>
    BY <1>1, <1>4 DEF Score, MaxOf
  <2> QED BY <1>2, <1>4, <2>1 DEF expf, MaxOf, Weights
<1> QED BY <1>3, <1>4

LEMMA TablesAre ==
  ASSUME RunOK
  PROVE  /\ MaxTable[1][0] = MaxOf(Live)
         /\ \A i \in 0 .. RLANES - 1 : MaxTable[RLANES][i] = MaxAt(RLANES, i)
         /\ \A s \in 1 .. RLANES - 1 : 2 * s <= RLANES => \A i \in 0 .. s - 1 :
              MaxTable[s][i] = fmaxf(MaxTable[2 * s][i], MaxTable[2 * s][i + s])
<1>1. RLANES \in Nat \ {0}
  BY BlockAssumption
<1>2. \A w \in 1 .. RLANES : \A i \in 0 .. w - 1 : MaxTable[w][i] = MaxAt(w, i)
  BY DEF MaxTable
<1>3. MaxTable[1][0] = MaxAt(1, 0)
  <2>1. 1 \in 1 .. RLANES /\ 0 \in 0 .. 1 - 1
    BY <1>1
  <2> QED BY <1>2, <2>1
<1>4. \A i \in 0 .. RLANES - 1 : MaxTable[RLANES][i] = MaxAt(RLANES, i)
  BY <1>1, <1>2
<1>5. ASSUME NEW s \in 1 .. RLANES - 1, 2 * s <= RLANES, NEW i \in 0 .. s - 1
      PROVE  MaxTable[s][i] = fmaxf(MaxTable[2 * s][i], MaxTable[2 * s][i + s])
  <2>1. s \in Nat \ {0} /\ s \in 1 .. RLANES /\ 2 * s \in 1 .. RLANES
        /\ i \in 0 .. 2 * s - 1 /\ i + s \in 0 .. 2 * s - 1
    BY <1>1, <1>5
  <2>2. fmaxf(MaxAt(2 * s, i), MaxAt(2 * s, i + s)) = MaxAt(s, i)
    BY <2>1, MaxJoins
  <2> QED BY <1>2, <2>1, <2>2
<1> QED BY <1>3, <1>4, <1>5, MaxOfAll

\* What a thread leaves in the cells it writes is what the next operation needs.
LEMMA ShGoes ==
  ASSUME RunOK, Wide, Shape, NEW o, IsOp(o), OnChain(o), NEW d \in Threads, NEW t \in Positions,
         t % run.block = d, at[d] = o, ShHolds(o), RegHolds(o)
  PROVE  /\ ShStore(o) => ShIs(After(o).op, Stored(d, o, <<"sh", t>>), Scores[t], Weights[t])
         /\ ~ShStore(o) => ShIs(After(o).op, mem[RLANES + t], Scores[t], Weights[t])
<1>1. ShIs(o.op, mem[RLANES + t], Scores[t], Weights[t]) /\ RegIs(o.op, reg[d], MaxTable, SumTable)
  BY DEF ShHolds, RegHolds, Reached
<1>2. Goes(o)
  BY GoesOn
<1>3. Value(<<"sh", t>>) = mem[RLANES + t]
  BY ValueIs
<1>4. CASE o.op = "score"
  <2>1. Stored(d, o, <<"sh", t>>) = Score(t)
    BY <1>4 DEF Stored
  <2>2. Stored(d, o, <<"sh", t>>) = Scores[t]
    BY <2>1 DEF Scores
  <2>3. ShStore(o) /\ After(o).op = "lane_max"
    BY <1>2, <1>4 DEF ShStore, Goes
  <2> QED BY <2>2, <2>3 DEF ShIs, Weighed
<1>5. CASE o.op = "exp"
  <2>1. mem[RLANES + t] = Scores[t] /\ reg[d].mx = MaxOf(Live)
    BY <1>1, <1>5, TablesAre DEF ShIs, RegIs, Scored
  <2>2. Stored(d, o, <<"sh", t>>) = Weights[t]
    <3>1. Stored(d, o, <<"sh", t>>) = expf(Value(<<"sh", t>>), reg[d].mx)
      BY <1>5, StoredIs
    <3> QED BY <1>3, <2>1, <3>1, ExpIs
  <2>3. ShStore(o) /\ After(o).op = "lane_sum"
    BY <1>2, <1>5 DEF ShStore, Goes
  <2> QED BY <2>2, <2>3 DEF ShIs, Scored
<1>6. CASE o.op \in {"lane_max", "tree_max", "read_max"}
  <2>1. ~ShStore(o) /\ o.op \in Scored /\ After(o).op \in Scored \ Weighed
    BY <1>2, <1>6 DEF ShStore, Goes, Scored, Weighed
  <2> QED BY <1>1, <2>1 DEF ShIs
<1>7. CASE o.op \in {"lane_sum", "tree_sum", "read_sum", "out"}
  <2>1. ~ShStore(o) /\ o.op \in Weighed /\ After(o).op \in Weighed \ Scored
    BY <1>2, <1>7 DEF ShStore, Goes, Scored, Weighed
  <2> QED BY <1>1, <2>1 DEF ShIs
<1>8. o.op # "exp_sum"
  BY DEF IsOp, OpFits, Wide
<1> QED BY <1>4, <1>5, <1>6, <1>7, <1>8 DEF IsOp, OpFits, Ops

\* Inside the loop of a reduction every lane sees what it should.
LEMMA CellsSeen ==
  ASSUME RunOK, Wide, Shape, NEW o, IsOp(o), OnChain(o), ShHolds(o), NEW t \in Positions
  PROVE  /\ o.op = "lane_max" => Value(<<"sh", t>>) = Score(t)
         /\ o.op \in {"lane_sum", "out"} => Value(<<"sh", t>>) = Weights[t]
<1>1. Goes(o)
  BY GoesOn
<1>2. Value(<<"sh", t>>) = mem[RLANES + t]
  BY ValueIs
<1>3. ShIs(Reached(o, t % run.block).op, mem[RLANES + t], Scores[t], Weights[t])
  BY DEF ShHolds
<1>4. o.op = "lane_max" => Reached(o, t % run.block).op \in Scored
  BY <1>1 DEF Goes, Reached, Scored
<1>5. o.op \in {"lane_sum", "out"} => Reached(o, t % run.block).op \in Weighed
  BY <1>1 DEF Goes, Reached, Weighed
<1>6. Scores[t] = Score(t)
  BY DEF Scores
<1> QED BY <1>2, <1>3, <1>4, <1>5, <1>6 DEF ShIs

LEMMA LanesAdd ==
  ASSUME RunOK, Wide, Shape, NEW o, IsOp(o), OnChain(o), ShHolds(o), o.op = "lane_sum",
         NEW d \in 0 .. RLANES - 1
  PROVE  LaneSum([u \in Positions |-> Value(<<"sh", u>>)], run.positions, Lanes, d) =
           SumTable[RLANES][d]
<1> DEFINE long == [u \in Positions |-> Value(<<"sh", u>>)]
           short == [t \in Live |-> <<"exp", {t}, Live>>]
<1>1. run.positions \in Nat /\ run.len \in Nat /\ run.len <= run.positions
  BY DEF RunOK
<1>2. \A t \in Positions : long[t] = Weights[t]
  BY CellsSeen
<1>3. ASSUME NEW t \in 0 .. (run.len - 1) PROVE long[t] = short[t]
  <2>1. t \in Positions /\ t \in Live /\ t < run.len
    BY <1>1 DEF Positions, Live
  <2>2. Weights[t] = <<"exp", {t}, Live>>
    BY <2>1 DEF Weights
  <2>3. short[t] = <<"exp", {t}, Live>>
    BY <2>1
  <2> HIDE DEF long, short
  <2> QED BY <1>2, <2>1, <2>2, <2>3
<1>4. ASSUME NEW t \in run.len .. (run.positions - 1) PROVE long[t] = Zero
  <2>1. t \in Positions /\ ~(t < run.len)
    BY <1>1 DEF Positions
  <2>2. Weights[t] = Zero
    BY <2>1 DEF Weights
  <2> HIDE DEF long
  <2> QED BY <1>2, <2>1, <2>2
<1>5. Lanes = RLANES
  BY WideIs
<1>6. SumTable[RLANES][d] = LaneSum(short, run.len, RLANES, d)
  BY TableIs
<1> HIDE DEF long, short
<1>7. LaneSum(long, run.positions, RLANES, d) = LaneSum(short, run.len, RLANES, d)
  BY <1>1, <1>3, <1>4, LaneSumIs
<1>8. LaneSum(long, run.positions, Lanes, d) = SumTable[RLANES][d]
  BY <1>5, <1>6, <1>7
<1> QED BY <1>8 DEF long

LEMMA RedGoes ==
  ASSUME RunOK, Wide, Shape, NEW o, IsOp(o), OnChain(o), NEW d \in Threads,
         RedStore(d, o), at[d] = o, ShHolds(o), RedHolds(o)
  PROVE  RedIs(After(o), d, Stored(d, o, <<"red", d>>), MaxTable, SumTable)
<1>1. Goes(o) /\ d \in 0 .. RLANES - 1 /\ RLANES \in Nat \ {0} /\ Lanes = RLANES
  BY GoesOn, StoresAll, WideIs
<1>2. CASE o.op = "lane_max"
  <2>1. Stored(d, o, <<"red", d>>) = LaneMax(d)
    BY <1>2, StoredIs
  <2>2. LaneMax(d) = MaxAt(RLANES, d)
    BY <1>1, <1>2, CellsSeen, LaneMaxIs
  <2>3. MaxTable[RLANES][d] = MaxAt(RLANES, d)
    BY <1>1, TablesAre
  <2>4. After(o).op \in {"tree_max", "read_max"} /\ Width(After(o)) = RLANES
    BY <1>1, <1>2 DEF Goes
  <2> QED BY <2>1, <2>2, <2>3, <2>4 DEF RedIs
<1>3. CASE o.op = "lane_sum"
  <2>1. Stored(d, o, <<"red", d>>) =
          LaneSum([u \in Positions |-> Value(<<"sh", u>>)], run.positions, Lanes, d)
    BY <1>3, StoredIs
  <2>2. Stored(d, o, <<"red", d>>) = SumTable[RLANES][d]
    BY <1>1, <1>3, <2>1, LanesAdd
  <2>3. After(o).op \in {"tree_sum", "read_sum"} /\ Width(After(o)) = RLANES
    BY <1>1, <1>3 DEF Goes
  <2> QED BY <2>2, <2>3 DEF RedIs
<1>4. CASE o.op \in Trees
  <2> DEFINE s == o.s2
             e == d + s
  <2>1. s \in Chain /\ 2 * s \in Chain /\ d < s
    BY <1>1, <1>4 DEF Goes, OnChain, Width, RedStore, Trees
  <2>2. s \in Nat /\ s >= 1 /\ 2 * s <= RLANES /\ s \in 1 .. RLANES - 1
    <3>1. s \in Nat /\ s >= 1
      BY <2>1, ChainIs
    <3>2. 2 * s <= RLANES
      BY <2>1, ChainIs
    <3> QED BY <1>1, <3>1, <3>2
  <2>3. d \in 0 .. s - 1 /\ e \in 0 .. RLANES - 1 /\ d < 2 * s /\ e < 2 * s /\ ~(e < s)
    BY <1>1, <2>1, <2>2
  <2>4. Width(o) = 2 * s
    BY <1>4 DEF Width
  <2>5. ~RedStore(e, o)
    <3>1. ~(e < o.s2)
      BY <2>3
    <3>2. o.op \notin {"lane_max", "lane_sum", "exp_sum"}
      BY <1>4 DEF Trees
    <3> QED BY <3>1, <3>2 DEF RedStore
  <2>6. RedIs(o, d, mem[d], MaxTable, SumTable)
    BY <1>1 DEF RedHolds, Reached
  <2>7. RedIs(o, e, mem[e], MaxTable, SumTable)
    BY <2>3, <2>5 DEF RedHolds
  <2>8. Value(<<"red", d>>) = mem[d] /\ Value(<<"red", e>>) = mem[e]
    BY <1>1, <2>3, ValueIs
  <2> HIDE DEF e
  <2>9. CASE o.op = "tree_max"
    <3>1. Stored(d, o, <<"red", d>>) = fmaxf(mem[d], mem[e])
      BY <2>8, <2>9, StoredIs DEF e
    <3>2. mem[d] = MaxTable[2 * s][d] /\ mem[e] = MaxTable[2 * s][e]
      BY <2>3, <2>4, <2>6, <2>7, <2>9 DEF RedIs
    <3>3. MaxTable[s][d] = fmaxf(MaxTable[2 * s][d], MaxTable[2 * s][e])
      BY <2>2, <2>3, TablesAre DEF e
    <3>4. After(o).op \in {"tree_max", "read_max"} /\ Width(After(o)) = s
      BY <1>1, <2>9 DEF Goes
    <3> QED BY <3>1, <3>2, <3>3, <3>4 DEF RedIs
  <2>10. CASE o.op = "tree_sum"
    <3>1. Stored(d, o, <<"red", d>>) = Plus(mem[d], mem[e])
      BY <2>8, <2>10, StoredIs DEF e
    <3>2. mem[d] = SumTable[2 * s][d] /\ mem[e] = SumTable[2 * s][e]
      BY <2>3, <2>4, <2>6, <2>7, <2>10 DEF RedIs
    <3>3. SumTable[s][d] = Plus(SumTable[2 * s][d], SumTable[2 * s][e])
      BY <2>2, <2>3, TableIs DEF e
    <3>4. After(o).op \in {"tree_sum", "read_sum"} /\ Width(After(o)) = s
      BY <1>1, <2>10 DEF Goes
    <3> QED BY <3>1, <3>2, <3>3, <3>4 DEF RedIs
  <2> QED BY <1>4, <2>9, <2>10 DEF Trees
<1>5. o.op # "exp_sum"
  BY DEF IsOp, OpFits, Wide
<1> QED BY <1>2, <1>3, <1>4, <1>5 DEF RedStore

\* A cell that nobody writes in an operation is not read before it is written.
LEMMA RedIdle ==
  ASSUME RunOK, Wide, NEW o, IsOp(o), OnChain(o), NEW i \in 0 .. RLANES - 1, ~RedStore(i, o), NEW v
  PROVE  RedIs(After(o), i, v, MaxTable, SumTable)
<1>1. Goes(o) /\ RLANES \in Nat /\ Lanes = RLANES
  BY GoesOn, WideIs
<1>2. o.op \notin {"lane_max", "lane_sum", "exp_sum"}
  BY <1>1 DEF RedStore
<1>3. CASE o.op \in Trees
  <2>1. ~(i < o.s2) /\ Width(After(o)) = o.s2
    BY <1>1, <1>3 DEF RedStore, Goes, Trees
  <2> QED BY <2>1 DEF RedIs
<1>4. CASE o.op \in {"score", "read_max", "exp", "read_sum", "out"}
  <2>1. After(o).op \notin {"tree_max", "read_max", "tree_sum", "read_sum"}
    BY <1>1, <1>4 DEF Goes
  <2> QED BY <2>1 DEF RedIs
<1> QED BY <1>2, <1>3, <1>4 DEF IsOp, OpFits, Ops, Trees

\* The registers.
LEMMA RegGoes ==
  ASSUME RunOK, Wide, Shape, NEW o, IsOp(o), OnChain(o), NEW d \in Threads,
         at[d] = o, RedHolds(o), Execute(d)
  PROVE  /\ RegIs(After(o).op, reg'[d], MaxTable, SumTable)
         /\ \A e \in Threads : e # d => reg'[e] = reg[e]
         /\ DOMAIN reg' = Threads /\ \A e \in Threads : DOMAIN reg'[e] = {"mx", "z"}
<1>1. Goes(o) /\ 0 \in 0 .. RLANES - 1
  BY GoesOn, WideIs
<1>2. reg' = CASE o.op = "read_max" -> [reg EXCEPT ![d].mx = Value(<<"red", 0>>)]
               [] o.op = "read_sum" -> [reg EXCEPT ![d].z = Value(<<"red", 0>>)]
               [] OTHER -> reg
  BY DEF Execute
<1>3. DOMAIN reg = Threads /\ \A e \in Threads : DOMAIN reg[e] = {"mx", "z"}
  BY DEF Shape
<1>4. o.op \in {"read_max", "read_sum"} =>
        /\ ~RedStore(0, o) /\ Width(o) = 1
        /\ RedIs(o, 0, Value(<<"red", 0>>), MaxTable, SumTable)
  <2> SUFFICES ASSUME o.op \in {"read_max", "read_sum"}
               PROVE  /\ ~RedStore(0, o) /\ Width(o) = 1
                      /\ RedIs(o, 0, Value(<<"red", 0>>), MaxTable, SumTable)
    OBVIOUS
  <2>1. ~RedStore(0, o) /\ Width(o) = 1
    BY DEF RedStore, Width, Trees
  <2>2. RedIs(o, 0, mem[0], MaxTable, SumTable)
    BY <1>1, <2>1 DEF RedHolds
  <2>3. Value(<<"red", 0>>) = mem[0]
    BY <1>1, ValueIs
  <2> QED BY <2>1, <2>2, <2>3
<1>5. CASE o.op = "read_max"
  <2>1. reg' = [reg EXCEPT ![d].mx = Value(<<"red", 0>>)] /\ After(o).op = "exp"
    BY <1>1, <1>2, <1>5 DEF Goes
  <2>2. Value(<<"red", 0>>) = MaxTable[1][0]
    BY <1>4, <1>5 DEF RedIs
  <2>3. reg'[d].mx = Value(<<"red", 0>>)
    BY <1>3, <2>1
  <2> QED BY <1>3, <2>1, <2>2, <2>3 DEF RegIs
<1>6. CASE o.op = "read_sum"
  <2>1. reg' = [reg EXCEPT ![d].z = Value(<<"red", 0>>)] /\ After(o).op = "out"
    BY <1>1, <1>2, <1>6 DEF Goes
  <2>2. Value(<<"red", 0>>) = SumTable[1][0]
    BY <1>4, <1>6 DEF RedIs
  <2>3. reg'[d].z = Value(<<"red", 0>>)
    BY <1>3, <2>1
  <2> QED BY <1>3, <2>1, <2>2, <2>3 DEF RegIs
<1>7. CASE o.op \notin {"read_max", "read_sum"}
  <2>1. reg' = reg
    BY <1>2, <1>7
  <2>2. After(o).op \notin {"exp", "out"}
    <3>1. o.op # "exp_sum"
      BY DEF IsOp, OpFits, Wide
    <3> QED BY <1>1, <1>7, <3>1 DEF Goes, IsOp, OpFits, Ops
  <2> QED BY <1>3, <2>1, <2>2 DEF RegIs
<1> QED BY <1>5, <1>6, <1>7

\* The output.
LEMMA OutGoes ==
  ASSUME RunOK, Wide, Shape, NEW o, IsOp(o), OnChain(o), NEW d \in Threads,
         at[d] = o, ShHolds(o), RegHolds(o), OutHolds, Execute(d)
  PROVE  /\ DOMAIN out' = Threads
         /\ \A e \in Threads : out'[e] # << >> =>
              out'[e] = << [t \in Live |-> <<"exp", {t}, Live>>], SumTable[1][0] >>
<1>1. out' = IF o.op = "out" /\ d < HD
               THEN [out EXCEPT ![d] = <<[t \in Live |-> Value(<<"sh", t>>)], reg[d].z>>]
               ELSE out
  BY DEF Execute
<1>2. DOMAIN out = Threads
  BY DEF Shape
<1>3. CASE o.op = "out"
  <2>1. \A t \in Live : Value(<<"sh", t>>) = <<"exp", {t}, Live>>
    <3> SUFFICES ASSUME NEW t \in Live PROVE Value(<<"sh", t>>) = <<"exp", {t}, Live>>
      OBVIOUS
    <3>1. t \in Positions /\ t < run.len
      BY DEF Live, Positions, RunOK
    <3>2. Value(<<"sh", t>>) = Weights[t]
      BY <1>3, <3>1, CellsSeen
    <3> QED BY <3>1, <3>2 DEF Weights
  <2>2. reg[d].z = SumTable[1][0]
    BY <1>3 DEF RegHolds, RegIs, Reached
  <2>3. [t \in Live |-> Value(<<"sh", t>>)] = [t \in Live |-> <<"exp", {t}, Live>>]
    BY <2>1
  <2>4. \/ out' = out
        \/ out' = [out EXCEPT ![d] = << [t \in Live |-> <<"exp", {t}, Live>>], SumTable[1][0] >>]
    BY <1>1, <2>2, <2>3
  <2> DEFINE x == << [t \in Live |-> <<"exp", {t}, Live>>], SumTable[1][0] >>
  <2>5. out' = out \/ out' = [out EXCEPT ![d] = x]
    BY <2>4
  <2>6. \A e \in Threads : out[e] # << >> => out[e] = x
    BY DEF OutHolds
  <2> HIDE DEF x
  <2>7. DOMAIN out' = Threads /\ \A e \in Threads : out'[e] # << >> => out'[e] = x
    BY <1>2, <2>5, <2>6
  <2> QED BY <2>7 DEF x
<1>4. CASE o.op # "out"
  BY <1>1, <1>2, <1>4 DEF OutHolds
<1> QED BY <1>3, <1>4

LEMMA SameTables ==
  ASSUME run' = run
  PROVE  /\ Live' = Live /\ Positions' = Positions /\ Wide' = Wide
         /\ Scores' = Scores /\ Weights' = Weights /\ MaxTable' = MaxTable /\ SumTable' = SumTable
         /\ \A o, i : RedStore(i, o)' = RedStore(i, o)
<1>1. Live' = Live /\ Positions' = Positions /\ Wide' = Wide
  BY DEF Live, Positions, Wide
<1>2. Scores' = Scores /\ Weights' = Weights
  BY <1>1 DEF Scores, Weights, Score
<1>3. MaxTable' = MaxTable
  BY <1>1 DEF MaxTable, MaxAt
<1>4. FrozenLanes' = FrozenLanes
  BY <1>1 DEF FrozenLanes
<1>5. SumTable' = SumTable
  BY <1>4 DEF SumTable
<1>6. \A o, i : RedStore(i, o)' = RedStore(i, o)
  BY SameRun DEF RedStore
<1> QED BY <1>1, <1>2, <1>3, <1>5, <1>6

LEMMA ExecuteKeeps ==
  ASSUME RunOK, Wide, Shape, OutHolds, NEW o, AllAt(o), Contents(o), NEW d \in Threads, Execute(d)
  PROVE  Shape' /\ OutHolds' /\ Contents(o)'
<1>1. run' = run
  BY DEF Execute
<1>2. IsOp(o) /\ OnChain(o) /\ InStep(o) /\ ShHolds(o) /\ RedHolds(o) /\ RegHolds(o)
  BY DEF AllAt, Contents
<1>3. at[d] = o
  BY <1>2, RunsAtOp DEF Execute
<1>4. Threads' = Threads /\ \A p : After(p)' = After(p)
  BY <1>1, SameRun
<1>5. /\ Live' = Live /\ Positions' = Positions /\ Scores' = Scores /\ Weights' = Weights
      /\ MaxTable' = MaxTable /\ SumTable' = SumTable /\ \A i : RedStore(i, o)' = RedStore(i, o)
  BY <1>1, SameTables
<1>6. at' = [at EXCEPT ![d] = Past(o)] /\ DOMAIN at = Threads /\ o # Past(o)
  BY <1>2, <1>3, PastIs DEF Execute, InStep
<1>7. at'[d] # o /\ \A e \in Threads : e # d => at'[e] = at[e]
  BY <1>6
<1>8. Shape' /\ OutHolds'
  <2>1. DOMAIN mem' = DOMAIN mem
    BY <1>2, <1>3, MemAt
  <2>2. DOMAIN reg' = Threads /\ \A e \in Threads : DOMAIN reg'[e] = {"mx", "z"}
    BY <1>2, <1>3, RegGoes
  <2>3. /\ DOMAIN out' = Threads
        /\ \A e \in Threads : out'[e] # << >> =>
              out'[e] = << [t \in Live |-> <<"exp", {t}, Live>>], SumTable[1][0] >>
    BY <1>2, <1>3, OutGoes
  <2>4. Shape'
    BY <1>1, <1>4, <2>1, <2>2, <2>3 DEF Shape
  <2>5. OutHolds'
    BY <1>4, <1>5, <2>3 DEF OutHolds
  <2> QED BY <2>4, <2>5
<1>9. ShHolds(o)'
  <2>1. ASSUME NEW t \in Positions
        PROVE  /\ at'[t % run.block] = o => ShIs(o.op, mem'[RLANES + t], Scores[t], Weights[t])
               /\ at'[t % run.block] # o => ShIs(After(o).op, mem'[RLANES + t], Scores[t], Weights[t])
    <3>1. t % run.block \in Threads
      BY WideIs
    <3>2. CASE t % run.block = d
      <4>1. /\ ShStore(o) => ShIs(After(o).op, Stored(d, o, <<"sh", t>>), Scores[t], Weights[t])
            /\ ~ShStore(o) => ShIs(After(o).op, mem[RLANES + t], Scores[t], Weights[t])
        BY <1>2, <1>3, <3>2, ShGoes
      <4>2. /\ ShStore(o) => mem'[RLANES + t] = Stored(d, o, <<"sh", t>>)
            /\ ~ShStore(o) => mem'[RLANES + t] = mem[RLANES + t]
        BY <1>2, <1>3, <3>2, MemAt
      <4> QED BY <1>7, <3>2, <4>1, <4>2
    <3>3. CASE t % run.block # d
      <4>1. mem'[RLANES + t] = mem[RLANES + t]
        BY <1>2, <1>3, <3>3, MemAt
      <4>2. at'[t % run.block] = at[t % run.block]
        BY <1>7, <3>1, <3>3
      <4> QED BY <1>2, <4>1, <4>2 DEF ShHolds, Reached
    <3> QED BY <3>2, <3>3
  <2> QED BY <1>1, <1>4, <1>5, <2>1 DEF ShHolds, Reached
<1>10. RedHolds(o)'
  <2>1. ASSUME NEW i \in 0 .. RLANES - 1
        PROVE  /\ RedStore(i, o) /\ at'[i] = o => RedIs(o, i, mem'[i], MaxTable, SumTable)
               /\ RedStore(i, o) /\ at'[i] # o => RedIs(After(o), i, mem'[i], MaxTable, SumTable)
               /\ ~RedStore(i, o) => RedIs(o, i, mem'[i], MaxTable, SumTable)
    <3>1. i \in Threads
      BY WideIs
    <3>2. CASE i = d /\ RedStore(i, o)
      <4>1. mem'[i] = Stored(d, o, <<"red", d>>)
        BY <1>2, <1>3, <3>2, MemAt
      <4>2. RedIs(After(o), d, Stored(d, o, <<"red", d>>), MaxTable, SumTable)
        BY <1>2, <1>3, <3>2, RedGoes
      <4> QED BY <1>7, <3>2, <4>1, <4>2
    <3>3. CASE i # d \/ ~RedStore(i, o)
      <4>1. mem'[i] = mem[i]
        BY <1>2, <1>3, <3>3, MemAt
      <4>2. RedStore(i, o) => at'[i] = at[i]
        BY <1>7, <3>1, <3>3
      <4> QED BY <1>2, <4>1, <4>2 DEF RedHolds, Reached
    <3> QED BY <3>2, <3>3
  <2> QED BY <1>4, <1>5, <2>1 DEF RedHolds, Reached
<1>11. RegHolds(o)'
  <2>1. ASSUME NEW e \in Threads
        PROVE  /\ at'[e] = o => RegIs(o.op, reg'[e], MaxTable, SumTable)
               /\ at'[e] # o => RegIs(After(o).op, reg'[e], MaxTable, SumTable)
    <3>1. CASE e = d
      <4>1. RegIs(After(o).op, reg'[d], MaxTable, SumTable)
        BY <1>2, <1>3, RegGoes
      <4> QED BY <1>7, <3>1, <4>1
    <3>2. CASE e # d
      <4>1. reg'[e] = reg[e]
        BY <1>2, <1>3, <3>2, RegGoes
      <4>2. at'[e] = at[e]
        BY <1>7, <3>2
      <4> QED BY <1>2, <4>1, <4>2 DEF RegHolds, Reached
    <3> QED BY <3>1, <3>2
  <2> QED BY <1>4, <1>5, <2>1 DEF RegHolds, Reached
<1> QED BY <1>8, <1>9, <1>10, <1>11 DEF Contents

\* At the barrier everybody's next operation becomes the block's.
LEMMA SynchroniseKeeps ==
  ASSUME RunOK, Wide, Shape, OutHolds, NEW o, AllAt(o), Contents(o), Synchronise,
         NEW p, p = After(o)
  PROVE  Shape' /\ OutHolds' /\ AllAt(p)' /\ Contents(p)'
<1>1. UNCHANGED <<run, mem, reg, out>>
  BY DEF Synchronise
<1>2. IsOp(o) /\ OnChain(o) /\ InStep(o) /\ ShHolds(o) /\ RedHolds(o) /\ RegHolds(o)
  BY DEF AllAt, Contents
<1>3. o.op # "out" /\ (\A d \in Threads : at[d] = Past(o)) /\ at' = [d \in Threads |-> p]
  BY <1>2, AllPast
<1>4. Threads' = Threads /\ \A q : After(q)' = After(q) /\ IsOp(q)' = IsOp(q) /\ Past(q)' = Past(q)
  BY <1>1, SameRun
<1>5. /\ Live' = Live /\ Positions' = Positions /\ Scores' = Scores /\ Weights' = Weights
      /\ MaxTable' = MaxTable /\ SumTable' = SumTable /\ \A q, i : RedStore(i, q)' = RedStore(i, q)
  BY <1>1, SameTables
<1>6. Shape' /\ OutHolds'
  BY <1>1, <1>4, <1>5 DEF Shape, OutHolds
<1>7. IsOp(p) /\ OnChain(p)
  BY <1>2, <1>3, AfterIsOp, GoesOn DEF Goes
<1>8. \A d \in Threads : at[d] # o /\ at'[d] = p
  BY <1>2, <1>3, PastIs
<1>9. ShHolds(p)'
  <2>1. ASSUME NEW t \in Positions PROVE ShIs(p.op, mem[RLANES + t], Scores[t], Weights[t])
    <3>1. at[t % run.block] # o
      BY <1>8, WideIs
    <3> QED BY <1>2, <3>1 DEF ShHolds, Reached
  <2>2. \A t \in Positions : at'[t % run.block] = p
    BY <1>8, WideIs
  <2> QED BY <1>1, <1>5, <2>1, <2>2 DEF ShHolds, Reached
<1>10. RedHolds(p)'
  <2>1. ASSUME NEW i \in 0 .. RLANES - 1 PROVE RedIs(p, i, mem[i], MaxTable, SumTable)
    <3>1. CASE RedStore(i, o)
      <4>1. at[i] # o
        BY <1>8, WideIs
      <4> QED BY <1>2, <3>1, <4>1 DEF RedHolds, Reached
    <3>2. CASE ~RedStore(i, o)
      BY <1>2, <3>2, RedIdle
    <3> QED BY <3>1, <3>2
  <2>2. \A i \in 0 .. RLANES - 1 : at'[i] = p
    BY <1>8, WideIs
  <2> QED BY <1>1, <1>5, <2>1, <2>2 DEF RedHolds, Reached
<1>11. RegHolds(p)'
  <2>1. ASSUME NEW d \in Threads PROVE RegIs(p.op, reg[d], MaxTable, SumTable)
    BY <1>2, <1>8 DEF RegHolds, Reached
  <2> QED BY <1>1, <1>4, <1>5, <1>8, <2>1 DEF RegHolds, Reached
<1>12. AllAt(p)'
  <2>1. InStep(p)'
    BY <1>3, <1>4 DEF InStep
  <2>2. OnChain(p)'
    BY <1>7 DEF OnChain, Width
  <2> QED BY <1>4, <1>7, <2>1, <2>2 DEF AllAt
<1> QED BY <1>6, <1>9, <1>10, <1>11, <1>12 DEF Contents

LEMMA FrozenInit ==
  ASSUME SoftmaxInit, Wide
  PROVE  FrozenInv
<1> DEFINE o == At("score", 0)
<1>1. RunOK /\ IsOp(o)
  BY RunInit, FirstIsOp
<1>2. /\ at = [d \in Threads |-> o]
      /\ mem = [a \in 0 .. 2 * RLANES + run.positions - 1 |-> Junk]
      /\ reg = [d \in Threads |-> [mx |-> Junk, z |-> Junk]]
      /\ out = [d \in Threads |-> << >>]
  BY DEF SoftmaxInit
<1>3. o.op = "score"
  BY DEF At
<1> HIDE DEF o
<1>4. InStep(o)
  BY <1>2 DEF InStep
<1>5. Shape /\ OutHolds
  BY <1>2 DEF Shape, OutHolds
<1>6. OnChain(o)
  <2>1. Width(o) = 1
    BY <1>3 DEF Width, Trees
  <2> QED BY <2>1, OneIsLast DEF OnChain
<1>7. \A d \in Threads : Reached(o, d) = o
  BY <1>2 DEF Reached
<1>8. ShHolds(o)
  <2>1. \A t \in Positions : Reached(o, t % run.block).op = "score"
    BY <1>1, <1>3, <1>7, WideIs
  <2> QED BY <2>1 DEF ShHolds, ShIs, Scored, Weighed
<1>9. RedHolds(o)
  <2>1. \A i \in 0 .. RLANES - 1 : Reached(o, i) = o
    BY <1>1, <1>7, WideIs
  <2> QED BY <1>3, <2>1 DEF RedHolds, RedIs
<1>10. RegHolds(o)
  BY <1>3, <1>7 DEF RegHolds, RegIs
<1> QED BY <1>1, <1>4, <1>5, <1>6, <1>8, <1>9, <1>10 DEF FrozenInv, AllAt, Contents

LEMMA FrozenNext == FrozenInv /\ [SoftmaxNext]_softVars => FrozenInv'
<1> SUFFICES ASSUME FrozenInv, [SoftmaxNext]_softVars PROVE FrozenInv'
  OBVIOUS
<1>1. RunOK /\ Wide /\ Shape /\ OutHolds
  BY DEF FrozenInv
<1>2. PICK o : AllAt(o) /\ Contents(o)
  BY DEF FrozenInv
<1>3. IsOp(o) /\ InStep(o) /\ OnChain(o)
  BY <1>2 DEF AllAt
<1>4. ASSUME NEW d \in Threads, Execute(d) PROVE FrozenInv'
  <2>1. Shape' /\ OutHolds' /\ Contents(o)'
    BY <1>1, <1>2, <1>4, ExecuteKeeps
  <2>2. run' = run /\ SoftmaxNext
    BY <1>4 DEF Execute, SoftmaxNext
  <2>3. RunOK' /\ Wide' /\ IsOp(o)'
    BY <1>1, <1>3, <2>2, SameRun, SameTables
  <2>4. InStep(o)'
    <3>1. at[d] = o
      BY <1>3, <1>4, RunsAtOp DEF Execute
    <3>2. at' = [at EXCEPT ![d] = Past(o)]
      BY <1>4, <3>1 DEF Execute
    <3>3. Threads' = Threads /\ \A p : Past(p)' = Past(p)
      BY <2>2, SameRun
    <3> QED BY <1>3, <3>2, <3>3 DEF InStep
  <2>5. OnChain(o)'
    BY <1>3 DEF OnChain, Width
  <2>6. AllAt(o)'
    BY <2>3, <2>4, <2>5 DEF AllAt
  <2> QED BY <2>1, <2>3, <2>6 DEF FrozenInv
<1>5. CASE Synchronise
  <2>1. PICK p : p = After(o)
    OBVIOUS
  <2>2. Shape' /\ OutHolds' /\ AllAt(p)' /\ Contents(p)'
    BY <1>1, <1>2, <1>5, <2>1, SynchroniseKeeps
  <2>3. run' = run
    BY <1>5 DEF Synchronise
  <2>4. RunOK' /\ Wide'
    BY <1>1, <2>3, SameRun, SameTables
  <2> QED BY <2>2, <2>4 DEF FrozenInv
<1>6. CASE UNCHANGED softVars
  <2>1. run' = run /\ at' = at /\ mem' = mem /\ reg' = reg /\ out' = out
    BY <1>6 DEF softVars
  <2>2. /\ RunOK' /\ Wide' /\ Threads' = Threads /\ Positions' = Positions /\ Live' = Live
        /\ Scores' = Scores /\ Weights' = Weights /\ MaxTable' = MaxTable /\ SumTable' = SumTable
        /\ \A p, i : RedStore(i, p)' = RedStore(i, p)
        /\ \A p : IsOp(p)' = IsOp(p) /\ After(p)' = After(p) /\ Past(p)' = Past(p)
    BY <1>1, <2>1, SameRun, SameTables
  <2>3. Shape' /\ OutHolds'
    BY <1>1, <2>1, <2>2 DEF Shape, OutHolds
  <2>4. AllAt(o)'
    BY <1>3, <2>1, <2>2 DEF AllAt, InStep, OnChain, Width
  <2>5. ShHolds(o)' /\ RedHolds(o)' /\ RegHolds(o)'
    <3>1. ShHolds(o) /\ RedHolds(o) /\ RegHolds(o)
      BY <1>2 DEF Contents
    <3>2. ShHolds(o)'
      BY <2>1, <2>2, <3>1 DEF ShHolds, Reached
    <3>3. RedHolds(o)'
      BY <2>1, <2>2, <3>1 DEF RedHolds, Reached
    <3>4. RegHolds(o)'
      BY <2>1, <2>2, <3>1 DEF RegHolds, Reached
    <3> QED BY <3>2, <3>3, <3>4
  <2> QED BY <2>2, <2>3, <2>4, <2>5 DEF FrozenInv, Contents
<1> QED BY <1>4, <1>5, <1>6 DEF SoftmaxNext, Finished

\* For every block of at least RLANES threads, every bound and every length:
\* what the eager and the masked kernel write is the softmax over the valid
\* positions, divided by a sum added in the one frozen order, so any two
\* launches over as many positions agree to the bit ("0-ULP regardless of
\* blockDim").
THEOREM SoftmaxIsFrozen ==
  ASSUME Attentions \subseteq {"decode", "masked"}, \A b \in Blocks : b >= RLANES
  PROVE  SoftmaxSpec => []FrozenSoftmax
<1>1. SoftmaxInit => FrozenInv
  <2> SUFFICES ASSUME SoftmaxInit PROVE FrozenInv
    OBVIOUS
  <2>1. Wide
    BY RunInit DEF RunOK, Wide
  <2> QED BY <2>1, FrozenInit
<1>2. FrozenInv => FrozenSoftmax
  <2> SUFFICES ASSUME FrozenInv PROVE FrozenSoftmax
    OBVIOUS
  <2>1. OutHolds
    BY DEF FrozenInv
  <2> QED BY <2>1, TableIs DEF OutHolds, FrozenSoftmax
<1> QED BY <1>1, <1>2, FrozenNext, PTL DEF SoftmaxSpec
=============================================================================
