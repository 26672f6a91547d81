-------------------------- MODULE HostDecodeProofs --------------------------
(***************************************************************************)
(* For every set of prompts, every number of layers and of tokens asked    *)
(* for: an engine that keeps keys and values computes what run() would for *)
(* the whole sequence (SameAsRun), and no other engine passes over a       *)
(* tensor of its file (NoTensorIgnored).                                   *)
(*                                                                         *)
(* A pass through the layers is a recursive function, so what it computes  *)
(* is shown by induction over the layers.  The library's induction takes   *)
(* an operator as its parameter; here it is about a set of numbers.        *)
(***************************************************************************)
EXTENDS HostDecode, WellFoundedInduction, SequenceTheorems, TLAPS

-----------------------------------------------------------------------------
(* Induction over the layers.                                              *)

\* A set of numbers that holds 0 and with each number the next one holds all.
LEMMA AllNumbers ==
  ASSUME NEW T \in SUBSET Nat, 0 \in T, \A n \in T : n + 1 \in T
  PROVE  \A n \in Nat : n \in T
<1> DEFINE R == OpToRel(<, Nat)
           U == Nat \ T
<1>1. \A k, n \in Nat : <<k, n>> \in R <=> k < n
  BY DEF OpToRel
<1>2. IsWellFoundedOn(R, Nat)
  BY NatLessThanWellFounded
<1> SUFFICES ASSUME U # {} PROVE FALSE
  OBVIOUS
<1>3. U \subseteq Nat
  OBVIOUS
<1> HIDE DEF R, U
<1>4. PICK m \in U : \A k \in U : ~ (<<k, m>> \in R)
  BY <1>2, <1>3, WFMin
<1>5. m \in Nat /\ m # 0
  BY <1>3 DEF U
<1>6. m - 1 \in Nat /\ m - 1 < m
  BY <1>5
<1>7. m - 1 \notin U
  BY <1>1, <1>4, <1>5, <1>6
<1>8. (m - 1) + 1 \in T
  BY <1>6, <1>7 DEF U
<1>9. m \in T
  BY <1>5, <1>8
<1> QED BY <1>9 DEF U

\* A tower of hidden states: each layer's are made of those of the one below.
IsTower(h, layer, b, old) ==
  h = [l \in 0..NLayers |-> IF l = 0 THEN b.xs ELSE Through(layer, b, old[l], h[l - 1])]

\* There is one over every batch.
LEMMA Tower ==
  ASSUME NEW layer, NEW b, NEW old
  PROVE  \E h : IsTower(h, layer, b, old)
<1> DEFINE Next(f, l) == Through(layer, b, old[l], f)
           Up(h, n) == h = [l \in 0..n |-> IF l = 0 THEN b.xs ELSE Next(h[l - 1], l)]
           T == {n \in Nat : \E h : Up(h, n)}
<1> SUFFICES \E h : Up(h, NLayers)
  BY DEF IsTower
<1>1. 0 \in T
  <2> DEFINE f == [l \in 0..0 |-> b.xs]
  <2>1. f = [l \in 0..0 |-> IF l = 0 THEN b.xs ELSE Next(f[l - 1], l)]
    <3> HIDE DEF Next
    <3> QED OBVIOUS
  <2> QED BY <2>1
<1>2. ASSUME NEW n \in T PROVE n + 1 \in T
  <2>1. n \in Nat
    OBVIOUS
  <2>2. PICK f : Up(f, n)
    OBVIOUS
  <2> DEFINE g == [l \in 0..(n + 1) |-> IF l = n + 1 THEN Next(f[n], l) ELSE f[l]]
  <2> HIDE DEF Next
  <2>3. \A l \in 0..n : f[l] = IF l = 0 THEN b.xs ELSE Next(f[l - 1], l)
    BY <2>2
  <2>4. \A l \in 0..n : g[l] = f[l]
    BY <2>1
  <2>5. ASSUME NEW l \in 0..(n + 1) PROVE g[l] = IF l = 0 THEN b.xs ELSE Next(g[l - 1], l)
    <3>1. CASE l = n + 1
      <4>1. g[n] = f[n] /\ l # 0 /\ l - 1 = n
        BY <2>1, <2>4, <3>1
      <4>2. g[l] = Next(f[n], l)
        BY <3>1
      <4> HIDE DEF g
      <4> QED BY <4>1, <4>2
    <3>2. CASE l # n + 1
      <4>1. l \in 0..n /\ (l # 0 => l - 1 \in 0..n)
        BY <2>1, <3>2
      <4> HIDE DEF g
      <4> QED BY <2>3, <2>4, <4>1
    <3> QED BY <3>1, <3>2
  <2>6. g = [l \in 0..(n + 1) |-> IF l = 0 THEN b.xs ELSE Next(g[l - 1], l)]
    <3> DEFINE k == [l \in 0..(n + 1) |-> IF l = 0 THEN b.xs ELSE Next(g[l - 1], l)]
    <3>1. DOMAIN g = 0..(n + 1) /\ g = [l \in 0..(n + 1) |-> g[l]]
      OBVIOUS
    <3> HIDE DEF g
    <3> QED BY <2>5, <3>1
  <2>7. \E h : Up(h, n + 1)
    <3> HIDE DEF g
    <3> QED BY <2>6
  <2> QED BY <2>1, <2>7
<1> HIDE DEF T
<1>3. NLayers \in T
  BY <1>1, <1>2, AllNumbers, HostAssumption DEF T
<1> QED BY <1>3 DEF T

\* What a pass computes, layer by layer.
LEMMA HiddenLayers ==
  ASSUME NEW layer, NEW b, NEW old
  PROVE  /\ Hidden(layer, b, old)[0] = b.xs
         /\ \A l \in 1..NLayers :
              Hidden(layer, b, old)[l] = Through(layer, b, old[l], Hidden(layer, b, old)[l - 1])
<1> DEFINE h == Hidden(layer, b, old)
<1>1. h = CHOOSE g : IsTower(g, layer, b, old)
  BY DEF Hidden, IsTower
<1>2. \E g : IsTower(g, layer, b, old)
  BY Tower, Zenon
<1> HIDE DEF h
<1>3. IsTower(h, layer, b, old)
  BY <1>1, <1>2, Zenon
<1>4. NLayers \in Nat
  BY HostAssumption
<1>5. h[0] = b.xs
  BY <1>3, <1>4 DEF IsTower
<1>6. ASSUME NEW l \in 1..NLayers PROVE h[l] = Through(layer, b, old[l], h[l - 1])
  <2>1. l \in 0..NLayers /\ l # 0
    BY <1>4
  <2> QED BY <1>3, <2>1 DEF IsTower
<1> QED BY <1>5, <1>6 DEF h

-----------------------------------------------------------------------------
(* The rows of a cache.                                                    *)

\* The batch of the tokens from place p on of a sequence of p + n.
Follows(b, p, n) ==
  /\ p \in Nat /\ n \in Nat
  /\ DOMAIN b.xs = 1..n
  /\ \A i \in 1..n : b.slot[i] = p + i - 1 /\ b.sees[i] = p + i - 1

\* Rows to which those of a batch were added, one for each of its tokens.
Added(rows, old, b, xs, p, n) ==
  /\ DOMAIN rows = 0..(p + n - 1)
  /\ \A s \in 0..(p - 1) : rows[s] = old[s]
  /\ \A i \in 1..n : rows[p + i - 1] = [x |-> xs[i], at |-> b.at[i]]

\* That is what storing a batch does.
LEMMA StoreRows ==
  ASSUME NEW b, NEW p \in Nat, NEW n \in Nat, Follows(b, p, n),
         NEW xs, DOMAIN xs = 1..n, NEW old, DOMAIN old = 0..(p - 1)
  PROVE  Added(Store(old, b, xs), old, b, xs, p, n)
<1> DEFINE At(s) == \E i \in 1..n : b.slot[i] = s
           Of(s) == CHOOSE i \in 1..n : b.slot[i] = s
           D == 0..(p - 1) \cup {b.slot[i] : i \in 1..n}
<1>1. Store(old, b, xs) = [s \in D |-> IF At(s) THEN [x |-> xs[Of(s)], at |-> b.at[Of(s)]] ELSE old[s]]
  BY DEF Store
<1>2. \A i \in 1..n : b.slot[i] = p + i - 1
  BY DEF Follows
<1>3. \A s \in 0..(p - 1) : s \in D /\ ~At(s)
  BY <1>2
<1>4. ASSUME NEW i \in 1..n PROVE p + i - 1 \in D /\ At(p + i - 1) /\ Of(p + i - 1) = i
  <2>1. b.slot[i] = p + i - 1
    BY <1>2
  <2>2. \A j \in 1..n : b.slot[j] = p + i - 1 => j = i
    BY <1>2
  <2> QED BY <2>1, <2>2
<1>5. D = 0..(p + n - 1)
  <2>1. \A s \in 0..(p + n - 1) : s \in D
    <3> TAKE s \in 0..(p + n - 1)
    <3>1. CASE s < p
      BY <3>1
    <3>2. CASE s >= p
      <4>1. s - p + 1 \in 1..n /\ b.slot[s - p + 1] = s
        BY <1>2, <3>2
      <4> QED BY <4>1
    <3> QED BY <3>1, <3>2
  <2>2. \A s \in D : s \in 0..(p + n - 1)
    BY <1>2
  <2> QED BY <2>1, <2>2
<1> HIDE DEF At, Of, D
<1>6. \A i \in 1..n : Store(old, b, xs)[p + i - 1] = [x |-> xs[i], at |-> b.at[i]]
  BY <1>1, <1>4
<1>7. \A s \in 0..(p - 1) : Store(old, b, xs)[s] = old[s]
  BY <1>1, <1>3
<1> QED BY <1>1, <1>5, <1>6, <1>7 DEF Added

\* States that come of a pass, token by token: what is attended to is the rows
\* before the batch and those of the batch up to the token itself.
PassedOn(h, layer, b, old, p, n) ==
  /\ \A l \in 0..NLayers : DOMAIN h[l] = 1..n
  /\ \A l \in 1..NLayers : \A i \in 1..n :
       h[l][i] = [by |-> layer, x |-> h[l - 1][i], at |-> b.at[i],
                  over |-> [s \in 0..(p + i - 1) |-> Store(old[l], b, h[l - 1])[s]]]

LEMMA PassTokens ==
  ASSUME NEW layer, NEW b, NEW old, NEW p \in Nat, NEW n \in Nat, Follows(b, p, n),
         \A l \in 1..NLayers : DOMAIN old[l] = 0..(p - 1)
  PROVE  PassedOn(Hidden(layer, b, old), layer, b, old, p, n)
<1> DEFINE h == Hidden(layer, b, old)
<1>1. /\ h[0] = b.xs
      /\ \A l \in 1..NLayers : h[l] = Through(layer, b, old[l], h[l - 1])
  BY HiddenLayers
<1> HIDE DEF h
<1>2. NLayers \in Nat /\ DOMAIN b.xs = 1..n /\ \A i \in 1..n : b.sees[i] = p + i - 1
  BY HostAssumption DEF Follows
<1>3. ASSUME NEW l \in 0..NLayers PROVE DOMAIN h[l] = 1..n
  <2>1. CASE l = 0
    BY <1>1, <1>2, <2>1
  <2>2. CASE l # 0
    <3>1. l \in 1..NLayers
      BY <1>2, <2>2
    <3> QED BY <1>1, <1>2, <3>1 DEF Through
  <2> QED BY <2>1, <2>2
<1>4. ASSUME NEW l \in 1..NLayers, NEW i \in 1..n
      PROVE  h[l][i] = [by |-> layer, x |-> h[l - 1][i], at |-> b.at[i],
                        over |-> [s \in 0..(p + i - 1) |-> Store(old[l], b, h[l - 1])[s]]]
  <2>1. h[l][i] = Through(layer, b, old[l], h[l - 1])[i]
    BY <1>1
  <2>2. Through(layer, b, old[l], h[l - 1])[i]
          = [by |-> layer, x |-> h[l - 1][i], at |-> b.at[i],
             over |-> [s \in 0..b.sees[i] |-> Store(old[l], b, h[l - 1])[s]]]
    BY <1>2 DEF Through
  <2> QED BY <1>2, <2>1, <2>2
<1> QED BY <1>3, <1>4 DEF h, PassedOn

-----------------------------------------------------------------------------
(* One pass over the whole sequence.                                       *)

Full(a, seq) == Hidden(RunLayer(a), Whole(a, seq), Empty)

\* What run() makes of token t in place i, counted from 0.
Embedded(a, t, i) == Embedding(t, i, a, TRUE)

\* The position to which run() turns the token in place s, counted from 0.
Turn(a, s) == IF RunLayer(a).rope THEN s ELSE 0

\* The row of place s at layer l.
Row(a, seq, l, s) == [x |-> Full(a, seq)[l - 1][s + 1], at |-> Turn(a, s)]

\* The state of token i after layer l.
StateOf(a, seq, l, i) ==
  [by |-> RunLayer(a), x |-> Full(a, seq)[l - 1][i], at |-> Turn(a, i - 1),
   over |-> [s \in 0..(i - 1) |-> Row(a, seq, l, s)]]

LEMMA WholePass ==
  ASSUME NEW a, NEW S, NEW seq \in Seq(S)
  PROVE  /\ \A i \in 1..Len(seq) : Full(a, seq)[0][i] = Embedded(a, seq[i], i - 1)
         /\ \A l \in 1..NLayers : \A i \in 1..Len(seq) :
              Full(a, seq)[l][i] = StateOf(a, seq, l, i)
<1> DEFINE n == Len(seq)
           b == Whole(a, seq)
           h == Full(a, seq)
<1>1. n \in Nat /\ DOMAIN seq = 1..n /\ NLayers \in Nat
  BY HostAssumption
<1>2. /\ b.xs = [i \in 1..n |-> Embedded(a, seq[i], i - 1)]
      /\ b.at = [i \in 1..n |-> Turn(a, i - 1)]
      /\ b.slot = [i \in 1..n |-> i - 1]
      /\ b.sees = [i \in 1..n |-> i - 1]
  BY <1>1 DEF Whole, Batch, Turn, Embedded
<1> HIDE DEF b, n
<1> PICK p \in Nat : p = 0
  OBVIOUS
<1>3. Follows(b, p, n)
  BY <1>1, <1>2 DEF Follows
<1>4. \A l \in 1..NLayers : DOMAIN Empty[l] = 0..(p - 1)
  BY DEF Empty
<1>5. h[0] = b.xs
  BY HiddenLayers DEF Full, b
<1>6. PassedOn(h, RunLayer(a), b, Empty, p, n)
  <2>1. h = Hidden(RunLayer(a), b, Empty)
    BY DEF Full, b
  <2> HIDE DEF h
  <2> QED BY <1>1, <1>3, <1>4, <2>1, PassTokens, Zenon
<1> HIDE DEF h
<1>7. ASSUME NEW l \in 1..NLayers, NEW i \in 1..n
      PROVE  h[l][i] = [by |-> RunLayer(a), x |-> h[l - 1][i], at |-> Turn(a, i - 1),
                        over |-> [s \in 0..(i - 1) |-> [x |-> h[l - 1][s + 1], at |-> Turn(a, s)]]]
  <2>1. l - 1 \in 0..NLayers
    BY <1>1
  <2>2. DOMAIN h[l - 1] = 1..n
    BY <1>6, <2>1 DEF PassedOn
  <2>3. Added(Store(Empty[l], b, h[l - 1]), Empty[l], b, h[l - 1], p, n)
    BY <1>1, <1>3, <1>4, <2>2, StoreRows, Zenon
  <2>4. ASSUME NEW s \in 0..(i - 1)
        PROVE  Store(Empty[l], b, h[l - 1])[s] = [x |-> h[l - 1][s + 1], at |-> Turn(a, s)]
    <3>1. s + 1 \in 1..n /\ p + (s + 1) - 1 = s
      BY <1>1
    <3>2. b.at[s + 1] = Turn(a, s)
      BY <1>2, <3>1
    <3> QED BY <2>3, <3>1, <3>2 DEF Added
  <2>5. [s \in 0..(p + i - 1) |-> Store(Empty[l], b, h[l - 1])[s]]
          = [s \in 0..(i - 1) |-> [x |-> h[l - 1][s + 1], at |-> Turn(a, s)]]
    BY <2>4
  <2>6. b.at[i] = Turn(a, i - 1)
    BY <1>2
  <2>7. h[l][i] = [by |-> RunLayer(a), x |-> h[l - 1][i], at |-> b.at[i],
                   over |-> [s \in 0..(p + i - 1) |-> Store(Empty[l], b, h[l - 1])[s]]]
    BY <1>6, Zenon DEF PassedOn
  <2> QED BY <2>5, <2>6, <2>7, Zenon
<1>8. \A l \in 1..NLayers : \A i \in 1..n : h[l][i] = StateOf(a, seq, l, i)
  BY <1>7 DEF StateOf, Row, h
<1> QED BY <1>2, <1>5, <1>8 DEF h, n

\* Causality: what comes later in a sequence changes no state before it.
LEMMA Causal ==
  ASSUME NEW a, NEW S, NEW seq \in Seq(S), NEW ext \in Seq(S), Len(seq) <= Len(ext),
         \A i \in 1..Len(seq) : ext[i] = seq[i]
  PROVE  \A l \in 0..NLayers : \A i \in 1..Len(seq) : Full(a, ext)[l][i] = Full(a, seq)[l][i]
<1> DEFINE Same(l) == \A i \in 1..Len(seq) : Full(a, ext)[l][i] = Full(a, seq)[l][i]
           T == {l \in Nat : l <= NLayers => Same(l)}
<1>1. NLayers \in Nat /\ Len(seq) \in Nat /\ Len(ext) \in Nat
  BY HostAssumption
<1>2. /\ \A i \in 1..Len(seq) : Full(a, seq)[0][i] = Embedded(a, seq[i], i - 1)
      /\ \A l \in 1..NLayers : \A i \in 1..Len(seq) : Full(a, seq)[l][i] = StateOf(a, seq, l, i)
  BY WholePass, Zenon
<1>3. /\ \A i \in 1..Len(ext) : Full(a, ext)[0][i] = Embedded(a, ext[i], i - 1)
      /\ \A l \in 1..NLayers : \A i \in 1..Len(ext) : Full(a, ext)[l][i] = StateOf(a, ext, l, i)
  BY WholePass, Zenon
<1>4. Same(0)
  BY <1>1, <1>2, <1>3
<1>5. ASSUME NEW l \in 1..NLayers, Same(l - 1) PROVE Same(l)
  <2> SUFFICES ASSUME NEW i \in 1..Len(seq) PROVE StateOf(a, ext, l, i) = StateOf(a, seq, l, i)
    BY <1>1, <1>2, <1>3
  <2>1. \A s \in 0..(i - 1) : Row(a, ext, l, s) = Row(a, seq, l, s)
    <3> TAKE s \in 0..(i - 1)
    <3>1. s + 1 \in 1..Len(seq)
      BY <1>1
    <3> QED BY <1>5, <3>1 DEF Row
  <2>2. [s \in 0..(i - 1) |-> Row(a, ext, l, s)] = [s \in 0..(i - 1) |-> Row(a, seq, l, s)]
    BY <2>1
  <2>3. Full(a, ext)[l - 1][i] = Full(a, seq)[l - 1][i]
    BY <1>5
  <2> QED BY <2>2, <2>3, Zenon DEF StateOf
<1> HIDE DEF Same
<1>6. 0 \in T
  BY <1>4
<1>7. ASSUME NEW n \in T PROVE n + 1 \in T
  <2>1. n \in Nat /\ n + 1 \in Nat /\ (n + 1) - 1 = n
    OBVIOUS
  <2>2. CASE n + 1 <= NLayers
    <3>1. n + 1 \in 1..NLayers /\ Same(n)
      BY <1>1, <2>1, <2>2
    <3> QED BY <1>5, <2>1, <3>1
  <2>3. CASE ~ (n + 1 <= NLayers)
    BY <2>1, <2>3
  <2> QED BY <2>2, <2>3
<1>8. \A l \in Nat : l \in T
  <2> HIDE DEF T
  <2> SUFFICES T \in SUBSET Nat
    BY <1>6, <1>7, AllNumbers
  <2> QED BY DEF T
<1> QED BY <1>1, <1>8 DEF Same

-----------------------------------------------------------------------------
(* The next tokens, with the rows of those before them.                    *)

\* The tokens of seq from place p on, embedded, turned and masked as run() has them.
Continues(b, a, seq, p, n) ==
  /\ Follows(b, p, n) /\ Len(seq) = p + n
  /\ \A i \in 1..n : /\ b.xs[i] = Embedded(a, seq[p + i], p + i - 1)
                     /\ b.at[i] = Turn(a, p + i - 1)

\* A cache that holds the rows of a whole sequence.
RowsOf(rows, a, seq, l) ==
  /\ DOMAIN rows = 0..(Len(seq) - 1)
  /\ \A s \in 0..(Len(seq) - 1) : rows[s] = Row(a, seq, l, s)

Holds(old, a, seq) == \A l \in 1..NLayers : RowsOf(old[l], a, seq, l)

\* States xs that are those of a whole sequence, from place p on.
StatesOf(xs, a, seq, l, p, n) ==
  DOMAIN xs = 1..n /\ \A i \in 1..n : xs[i] = Full(a, seq)[l][p + i]

\* What a batch b is when it continues seq, whose rows are cached, to ext.
Step(a, S, seq, ext, p, n, b, old) ==
  /\ seq \in Seq(S) /\ ext \in Seq(S) /\ p \in Nat /\ n \in Nat
  /\ Len(seq) = p /\ \A i \in 1..p : ext[i] = seq[i]
  /\ Continues(b, a, ext, p, n) /\ Holds(old, a, seq)

\* The rows a layer then attends to are those of the extended sequence, if its
\* input xs is.
LEMMA RowsAfter ==
  ASSUME NEW a, NEW S, NEW seq, NEW ext, NEW p, NEW n, NEW b, NEW old,
         Step(a, S, seq, ext, p, n, b, old),
         NEW l \in 1..NLayers, NEW xs, StatesOf(xs, a, ext, l - 1, p, n)
  PROVE  RowsOf(Store(old[l], b, xs), a, ext, l)
<1>1. /\ NLayers \in Nat /\ p \in Nat /\ n \in Nat /\ Len(ext) = p + n /\ Len(seq) = p
      /\ seq \in Seq(S) /\ ext \in Seq(S)
      /\ \A i \in 1..p : ext[i] = seq[i]
      /\ Follows(b, p, n)
      /\ \A i \in 1..n : b.at[i] = Turn(a, p + i - 1)
  BY HostAssumption DEF Step, Continues
<1>2. DOMAIN old[l] = 0..(p - 1) /\ \A s \in 0..(p - 1) : old[l][s] = Row(a, seq, l, s)
  BY <1>1 DEF Step, Holds, RowsOf
<1>3. /\ DOMAIN xs = 1..n /\ \A i \in 1..n : xs[i] = Full(a, ext)[l - 1][p + i]
      /\ Added(Store(old[l], b, xs), old[l], b, xs, p, n)
  <2>1. DOMAIN xs = 1..n /\ \A i \in 1..n : xs[i] = Full(a, ext)[l - 1][p + i]
    BY DEF StatesOf
  <2> QED BY <1>1, <1>2, <2>1, StoreRows, Zenon
<1>4. ASSUME NEW s \in 0..(p - 1) PROVE Row(a, seq, l, s) = Row(a, ext, l, s)
  <2>1. Len(seq) <= Len(ext) /\ \A i \in 1..Len(seq) : ext[i] = seq[i]
    BY <1>1
  <2>2. \A k \in 0..NLayers : \A i \in 1..Len(seq) : Full(a, ext)[k][i] = Full(a, seq)[k][i]
    <3>1. seq \in Seq(S) /\ ext \in Seq(S)
      BY <1>1
    <3> QED BY <2>1, <3>1, Causal, SMT
  <2>3. l - 1 \in 0..NLayers /\ s + 1 \in 1..Len(seq)
    BY <1>1
  <2> QED BY <2>2, <2>3 DEF Row
<1>5. ASSUME NEW s \in 0..(p + n - 1) PROVE Store(old[l], b, xs)[s] = Row(a, ext, l, s)
  <2>1. CASE s < p
    <3>1. s \in 0..(p - 1)
      BY <1>1, <2>1
    <3> QED BY <1>2, <1>3, <1>4, <3>1 DEF Added
  <2>2. CASE s >= p
    <3>1. s - p + 1 \in 1..n /\ p + (s - p + 1) - 1 = s /\ p + (s - p + 1) = s + 1
      BY <1>1, <2>2
    <3>2. Store(old[l], b, xs)[s] = [x |-> xs[s - p + 1], at |-> b.at[s - p + 1]]
      BY <1>3, <3>1 DEF Added
    <3>3. xs[s - p + 1] = Full(a, ext)[l - 1][s + 1] /\ b.at[s - p + 1] = Turn(a, s)
      BY <1>1, <1>3, <3>1
    <3> QED BY <3>2, <3>3 DEF Row
  <2> QED BY <1>1, <2>1, <2>2
<1> QED BY <1>1, <1>3, <1>5 DEF Added, RowsOf

\* A batch that continues a sequence whose rows are cached has the states of one
\* pass over the whole of it.
LEMMA SameStates ==
  ASSUME NEW a, NEW S, NEW seq, NEW ext, NEW p, NEW n, NEW b, NEW old,
         Step(a, S, seq, ext, p, n, b, old)
  PROVE  \A l \in 0..NLayers : StatesOf(Hidden(RunLayer(a), b, old)[l], a, ext, l, p, n)
<1> DEFINE h == Hidden(RunLayer(a), b, old)
           Same(l) == \A i \in 1..n : h[l][i] = Full(a, ext)[l][p + i]
           T == {l \in Nat : l <= NLayers => Same(l)}
<1>1. /\ NLayers \in Nat /\ p \in Nat /\ n \in Nat /\ Len(ext) = p + n
      /\ ext \in Seq(S)
      /\ Follows(b, p, n)
      /\ \A i \in 1..n : /\ b.xs[i] = Embedded(a, ext[p + i], p + i - 1)
                         /\ b.at[i] = Turn(a, p + i - 1)
  BY HostAssumption DEF Step, Continues
<1>2. /\ \A i \in 1..Len(ext) : Full(a, ext)[0][i] = Embedded(a, ext[i], i - 1)
      /\ \A l \in 1..NLayers : \A i \in 1..Len(ext) : Full(a, ext)[l][i] = StateOf(a, ext, l, i)
  BY <1>1, WholePass, Zenon
<1>3. \A l \in 1..NLayers : DOMAIN old[l] = 0..(p - 1)
  <2> TAKE l \in 1..NLayers
  <2>1. RowsOf(old[l], a, seq, l) /\ Len(seq) = p
    BY DEF Holds, Step
  <2> QED BY <2>1 DEF RowsOf
<1>4. h[0] = b.xs
  BY HiddenLayers
<1>5. PassedOn(h, RunLayer(a), b, old, p, n)
  BY <1>1, <1>3, PassTokens, Zenon
<1> HIDE DEF h
<1>6. Same(0)
  <2> SUFFICES ASSUME NEW i \in 1..n PROVE h[0][i] = Full(a, ext)[0][p + i]
    OBVIOUS
  <2>1. p + i \in 1..Len(ext)
    BY <1>1
  <2> QED BY <1>1, <1>2, <1>4, <2>1
<1>7. ASSUME NEW l \in 1..NLayers, Same(l - 1) PROVE Same(l)
  <2> SUFFICES ASSUME NEW i \in 1..n PROVE h[l][i] = Full(a, ext)[l][p + i]
    OBVIOUS
  <2>1. h[l][i] = [by |-> RunLayer(a), x |-> h[l - 1][i], at |-> b.at[i],
                   over |-> [s \in 0..(p + i - 1) |-> Store(old[l], b, h[l - 1])[s]]]
    BY <1>5, Zenon DEF PassedOn
  <2>2. DOMAIN h[l - 1] = 1..n
    BY <1>1, <1>5 DEF PassedOn
  <2>3. RowsOf(Store(old[l], b, h[l - 1]), a, ext, l)
    <3>1. StatesOf(h[l - 1], a, ext, l - 1, p, n)
      BY <1>7, <2>2 DEF StatesOf
    <3> QED BY <3>1, RowsAfter, Zenon
  <2>4. [s \in 0..(p + i - 1) |-> Store(old[l], b, h[l - 1])[s]]
          = [s \in 0..((p + i) - 1) |-> Row(a, ext, l, s)]
    BY <1>1, <2>3 DEF RowsOf
  <2>5. h[l - 1][i] = Full(a, ext)[l - 1][p + i] /\ b.at[i] = Turn(a, (p + i) - 1)
    BY <1>1, <1>7
  <2>6. Full(a, ext)[l][p + i] = StateOf(a, ext, l, p + i)
    <3>1. p + i \in 1..Len(ext)
      BY <1>1
    <3> QED BY <1>2, <3>1
  <2> QED BY <2>1, <2>4, <2>5, <2>6, Zenon DEF StateOf
<1> HIDE DEF Same
<1>8. 0 \in T
  BY <1>6
<1>9. ASSUME NEW k \in T PROVE k + 1 \in T
  <2>1. k \in Nat /\ k + 1 \in Nat /\ (k + 1) - 1 = k
    OBVIOUS
  <2>2. CASE k + 1 <= NLayers
    <3>1. k + 1 \in 1..NLayers /\ Same(k)
      BY <1>1, <2>1, <2>2
    <3> QED BY <1>7, <2>1, <3>1
  <2>3. CASE ~ (k + 1 <= NLayers)
    BY <2>1, <2>3
  <2> QED BY <2>2, <2>3
<1>10. \A l \in Nat : l \in T
  <2> HIDE DEF T
  <2> SUFFICES T \in SUBSET Nat
    BY <1>8, <1>9, AllNumbers
  <2> QED BY DEF T
<1> QED BY <1>1, <1>5, <1>10 DEF Same, PassedOn, StatesOf, h

\* And the cache then holds the rows of the extended sequence.
LEMMA CacheAfter ==
  ASSUME NEW a, NEW S, NEW seq, NEW ext, NEW p, NEW n, NEW b, NEW old,
         Step(a, S, seq, ext, p, n, b, old)
  PROVE  Holds(Kept(b, old, Hidden(RunLayer(a), b, old)), a, ext)
<1> DEFINE h == Hidden(RunLayer(a), b, old)
<1>1. \A l \in 0..NLayers : StatesOf(h[l], a, ext, l, p, n)
  BY SameStates, Zenon
<1> HIDE DEF h
<1>2. ASSUME NEW l \in 1..NLayers PROVE RowsOf(Kept(b, old, h)[l], a, ext, l)
  <2>1. Kept(b, old, h)[l] = Store(old[l], b, h[l - 1])
    BY DEF Kept
  <2>2. l - 1 \in 0..NLayers
    BY HostAssumption
  <2>3. RowsOf(Store(old[l], b, h[l - 1]), a, ext, l)
    BY <1>1, <2>2, RowsAfter, Zenon
  <2> QED BY <2>1, <2>3, Zenon
<1> QED BY <1>2 DEF Holds, h

-----------------------------------------------------------------------------
(* Layers and tensors, architecture by architecture.                       *)

\* The engines that are to agree with run() have its layer.
LEMMA SameLayer ==
  ASSUME NEW e, NEW a, <<e, a>> \in Faithful
  PROVE  EngineLayer(e, a) = RunLayer(a)
<1>1. \/ e = "generate" /\ a \in {"llama", "qwen2", "gpt2"}
      \/ e \in {"dp4a_kv", "c"} /\ a \in {"llama", "qwen2"}
  BY DEF Faithful
<1>2. /\ File("llama") = Attn \cup Gated
      /\ File("qwen2") = Attn \cup Gated \cup Biases
      /\ File("gpt2") = LayerNorms \cup {"qkv", "qkv.b", "o", "o.b"} \cup PlainFFN
  BY DEF File
<1>3. CASE a = "llama"
  <2>1. RunLayer(a) = Layer("rms", "silu", TRUE, Attn \cup Gated)
    BY <1>3 DEF RunLayer, LlamaLayer
  <2>2. /\ {"q.b", "q_norm", "gate_inp", "o.b"} \cap File(a) = {}
        /\ Biases \cap File(a) = {}
        /\ {"attn_norm", "q", "k", "v"} \cup {"o"} = Attn
    BY <1>2, <1>3 DEF Attn, Gated, Biases
  <2>3. CachedLayer(e, a) = Layer("rms", "silu", TRUE, Attn \cup Gated)
    BY <2>2 DEF CachedLayer
  <2>4. GenerateLayer(a) =
          Layer("rms", "silu", TRUE,
                ({"attn_norm", "q", "k", "v"} \cup {} \cup {}) \cup {"o"} \cup {} \cup Gated)
    BY <1>3, <2>2 DEF GenerateLayer
  <2>5. ({"attn_norm", "q", "k", "v"} \cup {} \cup {}) \cup {"o"} \cup {} \cup Gated = Attn \cup Gated
    BY <2>2
  <2> QED BY <1>1, <2>1, <2>3, <2>4, <2>5 DEF EngineLayer
<1>4. CASE a = "qwen2"
  <2>1. RunLayer(a) = Layer("rms", "silu", TRUE, Attn \cup Gated \cup (Biases \cap File(a)))
    BY <1>4 DEF RunLayer, Qwen2Layer
  <2>2. /\ {"q_norm", "gate_inp", "o.b"} \cap File(a) = {}
        /\ "q.b" \in File(a)
        /\ Biases \cap File(a) = Biases
        /\ {"attn_norm", "q", "k", "v"} \cup {"o"} = Attn
    BY <1>2, <1>4 DEF Attn, Gated, Biases
  <2>3. e # "generate" => CachedLayer(e, a) = Layer("rms", "silu", TRUE, Attn \cup Gated \cup (Biases \cap File(a)))
    BY <1>1 DEF CachedLayer
  <2>4. GenerateLayer(a) =
          Layer("rms", "silu", TRUE,
                ({"attn_norm", "q", "k", "v"} \cup Biases \cup {}) \cup {"o"} \cup {} \cup Gated)
    BY <1>4, <2>2 DEF GenerateLayer
  <2>5. ({"attn_norm", "q", "k", "v"} \cup Biases \cup {}) \cup {"o"} \cup {} \cup Gated
          = Attn \cup Gated \cup (Biases \cap File(a))
    BY <2>2
  <2> QED BY <1>1, <2>1, <2>3, <2>4, <2>5 DEF EngineLayer
<1>5. CASE a = "gpt2"
  <2>1. RunLayer(a) = Layer("layer", "gelu", FALSE, LayerNorms \cup {"qkv", "qkv.b", "o", "o.b"} \cup PlainFFN)
    BY <1>5 DEF RunLayer, Gpt2Layer
  <2>2. "gate_inp" \notin File(a) /\ {"o.b"} \cap File(a) = {"o.b"}
    BY <1>2, <1>5 DEF LayerNorms, PlainFFN
  <2>3. GenerateLayer(a) =
          Layer("layer", "gelu", FALSE,
                {"attn_norm", "attn_norm.b", "qkv", "qkv.b"} \cup {"o"} \cup {"o.b"}
                  \cup ({"ffn_norm", "ffn_norm.b"} \cup PlainFFN))
    BY <1>5, <2>2 DEF GenerateLayer
  <2>4. {"attn_norm", "attn_norm.b", "qkv", "qkv.b"} \cup {"o"} \cup {"o.b"}
          \cup ({"ffn_norm", "ffn_norm.b"} \cup PlainFFN)
          = LayerNorms \cup {"qkv", "qkv.b", "o", "o.b"} \cup PlainFFN
    BY DEF LayerNorms
  <2> QED BY <1>1, <1>5, <2>1, <2>3, <2>4 DEF EngineLayer
<1> QED BY <1>1, <1>3, <1>4, <1>5

-----------------------------------------------------------------------------
(* The invariant.                                                          *)

\* A token waits to be taken as long as the prompt lasts; then the last one
\* appended does.
Cursor ==
  /\ pos \in Nat /\ pos <= Len(ids)
  /\ pos < Len(asked) => ids = asked
  /\ pos >= Len(asked) => Len(ids) = pos + 1
  /\ eng = "generate" => pos = 0 \/ pos >= Len(asked)

\* The tokens whose rows are cached.
Seen == SubSeq(ids, 1, pos)

HostTyped ==
  /\ eng \in Engines /\ arch \in Archs
  /\ asked \in Seq(Tokens) /\ Len(asked) \in Nat \ {0}
  /\ ids \in Seq(Tokens)

\* The cache holds the rows of one pass over what was seen, and the last state
\* is that pass's.
HostInv ==
  /\ HostTyped
  /\ <<eng, arch>> \in Faithful =>
       /\ Cursor
       /\ Holds(cache, arch, Seen)
       /\ out = << >> \/ out = <<Run(arch, Seen)>>

\* A prefix of a sequence.
LEMMA PrefixOf ==
  ASSUME NEW S, NEW seq \in Seq(S), NEW m \in 0..Len(seq)
  PROVE  /\ SubSeq(seq, 1, m) \in Seq(S) /\ Len(SubSeq(seq, 1, m)) = m
         /\ \A i \in 1..m : SubSeq(seq, 1, m)[i] = seq[i]
BY SubSeqProperties

\* Appending a token leaves the prefixes as they are.
LEMMA PrefixKept ==
  ASSUME NEW S, NEW seq \in Seq(S), NEW m \in 0..Len(seq), NEW t \in S
  PROVE  /\ Append(seq, t) \in Seq(S) /\ Len(Append(seq, t)) = Len(seq) + 1
         /\ SubSeq(Append(seq, t), 1, m) = SubSeq(seq, 1, m)
<1>1. /\ Append(seq, t) \in Seq(S) /\ Len(Append(seq, t)) = Len(seq) + 1
      /\ \A i \in 1..Len(seq) : Append(seq, t)[i] = seq[i]
  BY AppendProperties
<1>2. m \in 0..Len(Append(seq, t))
  BY <1>1
<1>3. /\ SubSeq(Append(seq, t), 1, m) \in Seq(S) /\ Len(SubSeq(Append(seq, t), 1, m)) = m
      /\ \A i \in 1..m : SubSeq(Append(seq, t), 1, m)[i] = Append(seq, t)[i]
  BY <1>1, <1>2, PrefixOf, Zenon
<1>4. /\ SubSeq(seq, 1, m) \in Seq(S) /\ Len(SubSeq(seq, 1, m)) = m
      /\ \A i \in 1..m : SubSeq(seq, 1, m)[i] = seq[i]
  BY PrefixOf, Zenon
<1>5. \A i \in 1..m : SubSeq(Append(seq, t), 1, m)[i] = SubSeq(seq, 1, m)[i]
  BY <1>1, <1>3, <1>4
<1> QED BY <1>1, <1>3, <1>4, <1>5, SeqEqual

\* A step that takes the next n tokens.
LEMMA AdvanceRight ==
  ASSUME HostTyped, <<eng, arch>> \in Faithful, Holds(cache, arch, Seen),
         pos \in Nat, NEW n \in Nat \ {0}, pos + n <= Len(ids),
         NEW b, Len(b.xs) = n, Continues(b, arch, SubSeq(ids, 1, pos + n), pos, n), Advance(b)
  PROVE  /\ Holds(cache', arch, SubSeq(ids, 1, pos + n))
         /\ out' = <<Run(arch, SubSeq(ids, 1, pos + n))>>
<1> DEFINE ext == SubSeq(ids, 1, pos + n)
           h == Hidden(RunLayer(arch), b, cache)
<1>1. EngineLayer(eng, arch) = RunLayer(arch)
  BY SameLayer
<1>2. cache' = Kept(b, cache, h) /\ out' = <<h[NLayers][n]>>
  BY <1>1 DEF Advance
<1>3. /\ ids \in Seq(Tokens) /\ Len(ids) \in Nat
      /\ pos \in 0..Len(ids) /\ pos + n \in 0..Len(ids)
  BY DEF HostTyped
<1>4. /\ Seen \in Seq(Tokens) /\ Len(Seen) = pos
      /\ \A i \in 1..pos : Seen[i] = ids[i]
  BY <1>3, PrefixOf, Zenon DEF Seen
<1>5. /\ ext \in Seq(Tokens) /\ Len(ext) = pos + n
      /\ \A i \in 1..(pos + n) : ext[i] = ids[i]
  BY <1>3, PrefixOf, Zenon
<1>6. Continues(b, arch, ext, pos, n)
  OBVIOUS
<1> HIDE DEF ext, h
<1>7. Step(arch, Tokens, Seen, ext, pos, n, b, cache)
  <2>1. \A i \in 1..pos : ext[i] = Seen[i]
    BY <1>4, <1>5
  <2> QED BY <1>4, <1>5, <1>6, <2>1 DEF Step
<1>8. Holds(cache', arch, ext)
  BY <1>2, <1>7, CacheAfter DEF h
<1>9. \A l \in 0..NLayers : StatesOf(h[l], arch, ext, l, pos, n)
  BY <1>7, SameStates, Zenon DEF h
<1>10. h[NLayers][n] = Full(arch, ext)[NLayers][pos + n]
  <2>1. NLayers \in 0..NLayers /\ n \in 1..n
    BY HostAssumption
  <2> QED BY <1>9, <2>1 DEF StatesOf
<1>11. out' = <<Run(arch, ext)>>
  BY <1>2, <1>5, <1>10 DEF Run, Full
<1> QED BY <1>8, <1>11 DEF ext

\* The engines that take one token at a time.
LEMMA OneTokenRight ==
  ASSUME HostInv, <<eng, arch>> \in Faithful, eng \in {"dp4a_kv", "c"},
         NEW steps, OneToken(pos, pos, steps)
  PROVE  HostInv'
<1> DEFINE t == IF pos < Len(asked) THEN asked[pos + 1] ELSE ids[Len(ids)]
           b == Batch(<<Embedding(t, pos, arch, FALSE)>>, <<pos>>, <<pos>>, <<pos>>)
           ext == SubSeq(ids, 1, pos + 1)
<1>1. HostTyped /\ Cursor /\ Holds(cache, arch, Seen)
  BY DEF HostInv
<1>2. /\ Advance(b) /\ pos' = pos + 1
      /\ IF pos >= Len(asked) - 1 THEN Append1 ELSE UNCHANGED ids
      /\ UNCHANGED <<eng, arch, asked, raised>>
  BY DEF OneToken
<1>3. /\ ids \in Seq(Tokens) /\ Len(ids) \in Nat /\ Len(asked) \in Nat \ {0} /\ pos \in Nat
      /\ pos + 1 <= Len(ids) /\ pos + 1 \in 0..Len(ids)
  BY <1>1 DEF HostTyped, Cursor
<1>4. t = ids[pos + 1]
  <2>1. CASE pos < Len(asked)
    BY <1>1, <2>1 DEF Cursor
  <2>2. CASE ~ (pos < Len(asked))
    BY <1>1, <1>3, <2>2 DEF Cursor
  <2> QED BY <2>1, <2>2
<1>5. arch \in {"llama", "qwen2"}
  BY DEF Faithful
<1>6. RunLayer(arch).rope = TRUE
  <2>1. CASE arch = "llama"
    BY <2>1 DEF RunLayer, LlamaLayer, Layer
  <2>2. CASE arch = "qwen2"
    BY <2>2 DEF RunLayer, Qwen2Layer, Layer
  <2> QED BY <1>5, <2>1, <2>2
<1>7. Embedding(t, pos, arch, FALSE) = Embedded(arch, t, pos)
  BY <1>5 DEF Embedding, Embedded, HasPosEmbd
<1>8. /\ b.xs = <<Embedded(arch, t, pos)>> /\ b.at = <<pos>>
      /\ b.slot = <<pos>> /\ b.sees = <<pos>>
  BY <1>7 DEF Batch
<1> HIDE DEF t, b, ext
<1>9. Len(ext) = pos + 1 /\ ext[pos + 1] = ids[pos + 1]
  <2>1. Len(ext) = pos + 1 /\ \A i \in 1..(pos + 1) : ext[i] = ids[i]
    BY <1>3, PrefixOf, Zenon DEF ext
  <2> QED BY <1>3, <2>1
<1>10. Continues(b, arch, ext, pos, 1)
  <2>1. Follows(b, pos, 1)
    BY <1>3, <1>8 DEF Follows
  <2>2. b.xs[1] = Embedded(arch, ext[pos + 1], pos + 1 - 1)
    BY <1>3, <1>4, <1>8, <1>9
  <2>3. b.at[1] = Turn(arch, pos + 1 - 1)
    BY <1>3, <1>6, <1>8 DEF Turn
  <2> QED BY <1>3, <1>9, <2>1, <2>2, <2>3 DEF Continues
<1>11. Holds(cache', arch, ext) /\ out' = <<Run(arch, ext)>>
  <2>1. Len(b.xs) = 1 /\ 1 \in Nat \ {0}
    BY <1>8
  <2> QED BY <1>1, <1>2, <1>3, <1>10, <2>1, AdvanceRight DEF ext
<1>12. SubSeq(ids', 1, pos + 1) = ext /\ ids' \in Seq(Tokens) /\ Cursor'
  <2>1. CASE pos >= Len(asked) - 1
    <3>1. PICK u \in Tokens : ids' = Append(ids, u)
      BY <1>2, <2>1 DEF Append1
    <3>2. /\ ids' \in Seq(Tokens) /\ Len(ids') = Len(ids) + 1
          /\ SubSeq(ids', 1, pos + 1) = ext
      <4>1. /\ Append(ids, u) \in Seq(Tokens) /\ Len(Append(ids, u)) = Len(ids) + 1
            /\ SubSeq(Append(ids, u), 1, pos + 1) = SubSeq(ids, 1, pos + 1)
        BY <1>3, PrefixKept
      <4> QED BY <3>1, <4>1 DEF ext
    <3>3. Len(ids) = pos + 1
      BY <1>1, <1>3, <2>1 DEF Cursor
    <3> QED BY <1>2, <1>3, <2>1, <3>2, <3>3 DEF Cursor
  <2>2. CASE ~ (pos >= Len(asked) - 1)
    <3>1. ids' = ids /\ ids = asked /\ pos' < Len(asked)
      BY <1>1, <1>2, <1>3, <2>2 DEF Cursor
    <3> QED BY <1>2, <1>3, <3>1 DEF Cursor, ext
  <2> QED BY <2>1, <2>2
<1>13. HostTyped'
  BY <1>1, <1>2, <1>12 DEF HostTyped
<1> QED BY <1>2, <1>11, <1>12, <1>13 DEF HostInv, Seen

\* generate(): the prompt at once, then the last token appended.
LEMMA GenerateRight ==
  ASSUME HostInv, <<eng, arch>> \in Faithful, GenerateStep
  PROVE  HostInv'
<1> DEFINE cur == IF pos = 0 THEN ids ELSE <<ids[Len(ids)]>>
           posn(i) == IF pos = 0 THEN i - 1 ELSE Len(ids) - 1
           total == pos + Len(cur)
           upTo(i) == IF pos = 0 THEN Len(ids) - Len(cur) + i - 1 ELSE Len(ids) - 1
           b == Batch([i \in DOMAIN cur |-> Embedding(cur[i], posn(i), arch, TRUE)],
                      [i \in DOMAIN cur |-> IF GenerateLayer(arch).rope THEN posn(i) ELSE 0],
                      [i \in DOMAIN cur |-> pos + i - 1],
                      [i \in DOMAIN cur |-> IF upTo(i) < total THEN upTo(i) ELSE total - 1])
           n == Len(cur)
           ext == SubSeq(ids, 1, pos + n)
<1>1. HostTyped /\ Cursor /\ Holds(cache, arch, Seen)
  BY DEF HostInv
<1>2. /\ Advance(b) /\ pos' = Len(ids) /\ Append1
      /\ eng = "generate" /\ UNCHANGED <<eng, arch, asked, raised>>
  BY Zenon DEF GenerateStep
<1>3. /\ ids \in Seq(Tokens) /\ Len(ids) \in Nat /\ Len(asked) \in Nat \ {0} /\ pos \in Nat
      /\ DOMAIN ids = 1..Len(ids)
  BY <1>1 DEF HostTyped, Cursor
<1>4. /\ n \in Nat \ {0} /\ pos + n = Len(ids)
      /\ DOMAIN cur = 1..n
      /\ \A i \in 1..n : /\ cur[i] = ids[pos + i] /\ posn(i) = pos + i - 1
                         /\ upTo(i) = pos + i - 1 /\ upTo(i) < total
  <2>1. CASE pos = 0
    <3>1. ids = asked
      BY <1>1, <1>3, <2>1 DEF Cursor
    <3> QED BY <1>3, <2>1, <3>1
  <2>2. CASE pos # 0
    <3>1. Len(ids) = pos + 1
      BY <1>1, <1>2, <1>3, <2>2 DEF Cursor
    <3>2. cur = <<ids[pos + 1]>> /\ n = 1 /\ DOMAIN cur = 1..1 /\ cur[1] = ids[pos + 1]
      BY <2>2, <3>1
    <3> HIDE DEF cur
    <3> QED BY <1>3, <2>2, <3>1, <3>2
  <2> QED BY <2>1, <2>2
<1>5. GenerateLayer(arch).rope = RunLayer(arch).rope
  <2>1. EngineLayer(eng, arch) = RunLayer(arch)
    BY SameLayer
  <2>2. EngineLayer(eng, arch) = GenerateLayer(arch)
    BY <1>2 DEF EngineLayer
  <2> QED BY <2>1, <2>2
<1> HIDE DEF cur, n
<1>6. /\ b.xs = [i \in 1..n |-> Embedding(cur[i], posn(i), arch, TRUE)]
      /\ b.at = [i \in 1..n |-> IF RunLayer(arch).rope THEN posn(i) ELSE 0]
      /\ b.slot = [i \in 1..n |-> pos + i - 1]
      /\ b.sees = [i \in 1..n |-> IF upTo(i) < total THEN upTo(i) ELSE total - 1]
  BY <1>4, <1>5 DEF Batch
<1> HIDE DEF b, ext, posn, upTo, total
<1>7. Len(ext) = pos + n /\ \A i \in 1..(pos + n) : ext[i] = ids[i]
  <2>1. pos + n \in 0..Len(ids)
    BY <1>3, <1>4
  <2> QED BY <1>3, <2>1, PrefixOf, Zenon DEF ext
<1>8. Continues(b, arch, ext, pos, n)
  <2>1. Follows(b, pos, n)
    BY <1>3, <1>4, <1>6 DEF Follows
  <2>2. ASSUME NEW i \in 1..n
        PROVE  b.xs[i] = Embedded(arch, ext[pos + i], pos + i - 1) /\ b.at[i] = Turn(arch, pos + i - 1)
    <3>1. pos + i \in 1..(pos + n)
      BY <1>3, <1>4
    <3>2. cur[i] = ext[pos + i] /\ posn(i) = pos + i - 1
      BY <1>4, <1>7, <3>1
    <3>3. b.xs[i] = Embedding(cur[i], posn(i), arch, TRUE)
      BY <1>6
    <3>4. b.at[i] = IF RunLayer(arch).rope THEN posn(i) ELSE 0
      BY <1>6
    <3> QED BY <3>2, <3>3, <3>4, Zenon DEF Embedded, Turn
  <2> QED BY <1>7, <2>1, <2>2 DEF Continues
<1>9. Len(b.xs) = n
  <2> DEFINE E == {b.xs[i] : i \in 1..n}
  <2>1. b.xs \in [1..n -> E]
    BY <1>6
  <2>2. b.xs \in Seq(E) /\ DOMAIN b.xs = 1..n
    <3> HIDE DEF E
    <3> QED BY <1>4, <2>1
  <2> HIDE DEF E
  <2> QED BY <1>4, <2>2
<1>10. Holds(cache', arch, ext) /\ out' = <<Run(arch, ext)>>
  <2>1. pos + n <= Len(ids)
    BY <1>3, <1>4
  <2> QED BY <1>1, <1>2, <1>3, <1>4, <1>8, <1>9, <2>1, AdvanceRight DEF ext
<1>11. SubSeq(ids', 1, pos') = ext /\ ids' \in Seq(Tokens) /\ Len(ids') = Len(ids) + 1
  <2>1. PICK u \in Tokens : ids' = Append(ids, u)
    BY <1>2 DEF Append1
  <2>2. Len(ids) \in 0..Len(ids)
    BY <1>3
  <2>3. /\ ids' \in Seq(Tokens) /\ Len(ids') = Len(ids) + 1
        /\ SubSeq(ids', 1, Len(ids)) = SubSeq(ids, 1, Len(ids))
    <3>1. /\ Append(ids, u) \in Seq(Tokens) /\ Len(Append(ids, u)) = Len(ids) + 1
          /\ SubSeq(Append(ids, u), 1, Len(ids)) = SubSeq(ids, 1, Len(ids))
      BY <1>3, <2>2, PrefixKept
    <3> QED BY <2>1, <3>1
  <2> QED BY <1>2, <1>4, <2>3 DEF ext
<1>12. Cursor'
  <2>1. Len(ids) >= Len(asked)
    BY <1>1, <1>2, <1>3 DEF Cursor
  <2> QED BY <1>2, <1>3, <1>11, <2>1 DEF Cursor
<1>13. HostTyped'
  BY <1>1, <1>2, <1>11 DEF HostTyped
<1> QED BY <1>2, <1>10, <1>11, <1>12, <1>13 DEF HostInv, Seen

LEMMA HostInvInit == HostInit => HostInv
<1> SUFFICES ASSUME HostInit PROVE HostInv
  OBVIOUS
<1>1. /\ asked \in Seq(Tokens) /\ asked # << >> /\ ids = asked
      /\ pos = 0 /\ cache = Empty /\ out = << >>
      /\ eng \in Engines /\ arch \in Archs
  BY HostAssumption DEF HostInit
<1>2. Len(asked) \in Nat \ {0}
  BY <1>1, EmptySeq
<1>3. HostTyped
  BY <1>1, <1>2 DEF HostTyped
<1>4. Cursor
  BY <1>1, <1>2 DEF Cursor
<1>5. Holds(cache, arch, Seen)
  <2>1. Len(Seen) = 0
    <3>1. 0 \in 0..Len(ids)
      BY <1>1, <1>2
    <3> QED BY <1>1, <3>1, PrefixOf DEF Seen
  <2>2. \A l \in 1..NLayers : DOMAIN cache[l] = {} /\ 0..(Len(Seen) - 1) = {}
    BY <1>1, <2>1 DEF Empty
  <2> QED BY <2>2 DEF Holds, RowsOf
<1> QED BY <1>1, <1>3, <1>4, <1>5 DEF HostInv

LEMMA HostInvStep == HostInv /\ [HostNext]_hostVars => HostInv'
<1> SUFFICES ASSUME HostInv, [HostNext]_hostVars PROVE HostInv'
  OBVIOUS
<1>1. HostTyped
  BY DEF HostInv
<1>2. CASE UNCHANGED <<eng, arch, asked, ids, pos, cache, out>>
  BY <1>2 DEF HostInv, HostTyped, Cursor, Seen
<1>3. ASSUME ~ (<<eng, arch>> \in Faithful), UNCHANGED <<eng, arch, asked>>,
             ids' = ids \/ Append1
      PROVE  HostInv'
  <2>1. ids' \in Seq(Tokens)
    <3>1. ids \in Seq(Tokens)
      BY <1>1 DEF HostTyped
    <3>2. CASE Append1
      BY <3>1, <3>2, AppendProperties DEF Append1
    <3> QED BY <1>3, <3>1, <3>2
  <2> QED BY <1>1, <1>3, <2>1 DEF HostInv, HostTyped
<1>4. CASE KeyError
  BY <1>2, <1>4 DEF KeyError
<1>5. CASE IndexError
  BY <1>2, <1>5 DEF IndexError
<1>6. CASE GenerateStep
  <2>1. UNCHANGED <<eng, arch, asked>> /\ Append1
    BY <1>6, Zenon DEF GenerateStep
  <2>2. CASE <<eng, arch>> \in Faithful
    BY <1>6, <2>2, GenerateRight
  <2> QED BY <1>3, <2>1, <2>2
<1>7. ASSUME NEW at, NEW slot, NEW steps, OneToken(at, slot, steps)
      PROVE  UNCHANGED <<eng, arch, asked>> /\ (ids' = ids \/ Append1)
  BY <1>7 DEF OneToken
<1>8. CASE KvCacheStep
  <2>1. ~ (<<eng, arch>> \in Faithful)
    BY <1>8 DEF KvCacheStep, Faithful
  <2> QED BY <1>3, <1>7, <1>8, <2>1 DEF KvCacheStep
<1>9. CASE ResidentStep
  <2>1. ~ (<<eng, arch>> \in Faithful)
    BY <1>9 DEF ResidentStep, Faithful
  <2> QED BY <1>3, <1>7, <1>9, <2>1 DEF ResidentStep
<1>10. CASE LastOnlyStep
  <2>1. ~ (<<eng, arch>> \in Faithful)
    BY <1>10 DEF LastOnlyStep, Faithful
  <2>2. UNCHANGED <<eng, arch, asked>> /\ Append1
    BY <1>10 DEF LastOnlyStep
  <2> QED BY <1>3, <2>1, <2>2
<1>11. CASE Dp4aKvStep \/ CStep
  <2>1. PICK steps : OneToken(pos, pos, steps) /\ eng \in {"dp4a_kv", "c"}
    BY <1>11 DEF Dp4aKvStep, CStep
  <2>2. CASE <<eng, arch>> \in Faithful
    BY <2>1, <2>2, OneTokenRight
  <2> QED BY <1>3, <1>7, <2>1, <2>2
<1> QED BY <1>2, <1>4, <1>5, <1>6, <1>8, <1>9, <1>10, <1>11 DEF HostNext, hostVars

\* SameAsRun: an engine that keeps keys and values has, after every token of
\* any prompt and any continuation, the hidden state that run() computes for
\* the same tokens from nothing.
THEOREM EnginesAreRun == HostSpec => []SameAsRun
<1>1. HostInv => SameAsRun
  BY DEF HostInv, SameAsRun, Seen
<1> QED BY <1>1, HostInvInit, HostInvStep, PTL DEF HostSpec

-----------------------------------------------------------------------------
(* No tensor is passed over.                                               *)

\* The tensors of a layer that rest on one another: with q, k, v and a gate it
\* is a layer of five architectures only.
LEMMA Loadable ==
  ASSUME NEW a \in Archs
  PROVE  /\ Attn \cup Gated \subseteq File(a) => a \in {"llama", "gemma", "qwen2", "qwen3", "gemma2"}
         /\ a \in {"llama", "gemma"} => File(a) = Attn \cup Gated /\ Biases \cap File(a) = {}
         /\ a = "qwen2" => File(a) = Attn \cup Gated \cup Biases /\ Biases \cap File(a) = Biases
<1>1. /\ "q" \in Attn \cup Gated /\ "gate" \in Attn \cup Gated
      /\ Biases \cap (Attn \cup Gated) = {}
  BY DEF Attn, Gated, Biases
<1>2. CASE a \in {"gpt2", "phi3"}
  <2>1. "q" \notin File(a)
    BY <1>2 DEF File, LayerNorms, PlainFFN
  <2> QED BY <1>1, <1>2, <2>1
<1>3. CASE a \in {"starcoder2", "qwen3moe"}
  <2>1. "gate" \notin File(a)
    BY <1>3 DEF File, LayerNorms, PlainFFN, Attn, Biases, Experts, QKNorm
  <2> QED BY <1>1, <1>3, <2>1
<1>4. CASE a \in {"llama", "gemma"}
  <2>1. File(a) = Attn \cup Gated
    BY <1>4 DEF File
  <2> QED BY <1>1, <1>4, <2>1
<1>5. CASE a = "qwen2"
  <2>1. File(a) = Attn \cup Gated \cup Biases
    BY <1>5 DEF File
  <2> QED BY <1>1, <1>5, <2>1
<1>6. CASE a \in {"qwen3", "gemma2"}
  BY <1>6
<1> QED BY <1>2, <1>3, <1>4, <1>5, <1>6 DEF Archs

\* generate() asks for what it finds, but for the post-norms.
LEMMA GenerateUses ==
  ASSUME NEW a \in Archs, a # "gemma2", Loads(GenerateLayer(a), a)
  PROVE  GenerateLayer(a).uses = File(a)
<1> DEFINE gpt2 == a \in {"gpt2", "starcoder2"}
           qkv  == IF gpt2 THEN {"attn_norm", "attn_norm.b", "qkv", "qkv.b"}
                   ELSE {"attn_norm", "q", "k", "v"} \cup (IF "q.b" \in File(a) THEN Biases ELSE {})
                          \cup (IF "q_norm" \in File(a) THEN QKNorm ELSE {})
           ffn  == IF "gate_inp" \in File(a) THEN {"ffn_norm"} \cup Experts
                   ELSE IF gpt2 THEN {"ffn_norm", "ffn_norm.b"} \cup PlainFFN
                   ELSE Gated
           uses == qkv \cup {"o"} \cup ({"o.b"} \cap File(a)) \cup ffn
<1>1. GenerateLayer(a).uses = uses
  BY DEF GenerateLayer, Layer
<1>2. uses \subseteq File(a)
  BY <1>1 DEF Loads
<1>3. CASE a \in {"llama", "gemma", "qwen2", "qwen3"}
  <2>1. File(a) = Attn \cup Gated \cup (IF a = "qwen2" THEN Biases ELSE {})
                    \cup (IF a = "qwen3" THEN QKNorm ELSE {})
    BY <1>3 DEF File
  <2>2. /\ "q.b" \in File(a) <=> a = "qwen2"
        /\ "q_norm" \in File(a) <=> a = "qwen3"
        /\ "gate_inp" \notin File(a) /\ {"o.b"} \cap File(a) = {} /\ ~gpt2
        /\ {"attn_norm", "q", "k", "v"} \cup {"o"} = Attn
    BY <1>3, <2>1 DEF Attn, Gated, Biases, QKNorm
  <2>3. uses = Attn \cup Gated \cup (IF a = "qwen2" THEN Biases ELSE {})
                 \cup (IF a = "qwen3" THEN QKNorm ELSE {})
    BY <2>2
  <2> QED BY <1>1, <2>1, <2>3
<1>4. CASE a = "qwen3moe"
  <2>1. File(a) = Attn \cup {"ffn_norm"} \cup Experts \cup QKNorm
    BY <1>4 DEF File
  <2>2. /\ "q.b" \notin File(a) /\ "q_norm" \in File(a)
        /\ "gate_inp" \in File(a) /\ {"o.b"} \cap File(a) = {} /\ ~gpt2
        /\ {"attn_norm", "q", "k", "v"} \cup {"o"} = Attn
    BY <1>4, <2>1 DEF Attn, Experts, QKNorm
  <2>3. uses = Attn \cup {"ffn_norm"} \cup Experts \cup QKNorm
    BY <2>2
  <2> QED BY <1>1, <2>1, <2>3
<1>5. CASE a = "gpt2"
  <2>1. File(a) = LayerNorms \cup {"qkv", "qkv.b", "o", "o.b"} \cup PlainFFN
    BY <1>5 DEF File
  <2>2. "gate_inp" \notin File(a) /\ {"o.b"} \cap File(a) = {"o.b"} /\ gpt2
    BY <1>5, <2>1 DEF LayerNorms, PlainFFN
  <2>3. uses = LayerNorms \cup {"qkv", "qkv.b", "o", "o.b"} \cup PlainFFN
    BY <2>2 DEF LayerNorms
  <2> QED BY <1>1, <2>1, <2>3
<1>6. CASE a = "starcoder2"
  <2>1. "qkv" \notin File(a) /\ "qkv" \in uses
    BY <1>6 DEF File, LayerNorms, Attn, Biases, PlainFFN
  <2> QED BY <1>2, <2>1
<1>7. CASE a = "phi3"
  <2>1. File(a) = {"attn_norm", "qkv", "o", "ffn_norm", "up", "down"}
    BY <1>7 DEF File
  <2>2. "q" \in uses
    BY <1>7
  <2> QED BY <1>2, <2>1, <2>2
<1> QED BY <1>3, <1>4, <1>5, <1>6, <1>7 DEF Archs

\* An engine that has decoded a token had all the tensors it asks for.
Decodes ==
  /\ eng \in Engines /\ arch \in Archs
  /\ out # << >> => Loads(EngineLayer(eng, arch), arch)

\* NoTensorIgnored: no engine but those listed decodes a model without one of
\* its layers' tensors.
THEOREM TensorsAreUsed == HostSpec => []NoTensorIgnored
<1>1. HostInit => Decodes
  BY DEF HostInit, Decodes
<1>2. Decodes /\ [HostNext]_hostVars => Decodes'
  <2> SUFFICES ASSUME Decodes, [HostNext]_hostVars PROVE Decodes'
    OBVIOUS
  <2>1. CASE UNCHANGED <<eng, arch, out>>
    BY <2>1 DEF Decodes
  <2>2. CASE Going /\ UNCHANGED <<eng, arch>>
    BY <2>2 DEF Going, Decodes
  <2>3. ASSUME NEW at, NEW slot, NEW steps, OneToken(at, slot, steps)
        PROVE  Going /\ UNCHANGED <<eng, arch>>
    BY <2>3 DEF OneToken
  <2>4. GenerateStep \/ LastOnlyStep => Going /\ UNCHANGED <<eng, arch>>
    BY Zenon DEF GenerateStep, LastOnlyStep
  <2>5. KvCacheStep \/ Dp4aKvStep \/ ResidentStep \/ CStep => Going /\ UNCHANGED <<eng, arch>>
    BY <2>3 DEF KvCacheStep, Dp4aKvStep, ResidentStep, CStep
  <2>6. KeyError \/ IndexError \/ UNCHANGED hostVars => UNCHANGED <<eng, arch, out>>
    BY DEF KeyError, IndexError, hostVars
  <2> QED BY <2>1, <2>2, <2>4, <2>5, <2>6 DEF HostNext
<1>3. Decodes => NoTensorIgnored
  <2> SUFFICES ASSUME Decodes, out # << >>, <<eng, arch>> \notin Overlooks
               PROVE  EngineLayer(eng, arch).uses = File(arch)
    BY DEF NoTensorIgnored
  <2>1. Loads(EngineLayer(eng, arch), arch) /\ eng \in Engines /\ arch \in Archs
    BY DEF Decodes
  <2>2. CASE eng = "generate"
    <3>1. EngineLayer(eng, arch) = GenerateLayer(arch) /\ arch # "gemma2"
      BY <2>2 DEF EngineLayer, Overlooks
    <3> QED BY <2>1, <3>1, GenerateUses
  <2>3. CASE eng # "generate"
    <3>1. eng \in {"kvcache", "dp4a_kv", "resident", "c", "last_only"}
      BY <2>1, <2>3 DEF Engines
    <3>2. EngineLayer(eng, arch).uses
            = Attn \cup Gated \cup (IF eng \in {"resident", "last_only"} THEN {}
                                  ELSE Biases \cap File(arch))
      <4>1. CASE eng = "last_only"
        BY <4>1 DEF EngineLayer, LastOnlyLayer, Layer
      <4>2. CASE eng # "last_only"
        <5>1. EngineLayer(eng, arch) = CachedLayer(eng, arch)
          BY <2>3, <4>2 DEF EngineLayer
        <5> QED BY <4>2, <5>1 DEF CachedLayer, Layer
      <4> QED BY <4>1, <4>2
    <3>3. Attn \cup Gated \subseteq File(arch)
      BY <2>1, <3>2 DEF Loads
    <3>4. arch \in {"llama", "gemma", "qwen2"} /\ (arch = "qwen2" => eng \notin {"resident", "last_only"})
      <4>1. arch \in {"llama", "gemma", "qwen2", "qwen3", "gemma2"}
        BY <2>1, <3>3, Loadable
      <4> QED BY <3>1, <4>1 DEF Overlooks
    <3>5. CASE arch \in {"llama", "gemma"}
      <4>1. File(arch) = Attn \cup Gated /\ Biases \cap File(arch) = {}
        BY <2>1, <3>5, Loadable
      <4> QED BY <3>2, <4>1
    <3>6. CASE arch = "qwen2"
      <4>1. File(arch) = Attn \cup Gated \cup Biases /\ Biases \cap File(arch) = Biases
        BY <2>1, <3>6, Loadable
      <4> QED BY <3>2, <3>4, <3>6, <4>1
    <3> QED BY <3>4, <3>5, <3>6
  <2> QED BY <2>2, <2>3
<1> QED BY <1>1, <1>2, <1>3, PTL DEF HostSpec
=============================================================================
