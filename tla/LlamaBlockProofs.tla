-------------------------- MODULE LlamaBlockProofs --------------------------
(***************************************************************************)
(* For every prompt, number of layers and number of slots: a call of the C *)
(* forward computes what the whole sequence would (ForwardIsWhole).        *)
(*                                                                         *)
(* The invariant says what each of the four buffers holds at each of the   *)
(* seventeen kernel calls, and which rows of which layer's caches are of   *)
(* the sequence so far.  That a longer sequence has the rows of a shorter  *)
(* one is shown by induction over the layers.                              *)
(***************************************************************************)
EXTENDS LlamaBlock, WellFoundedInduction, SequenceTheorems, TLAPS

-----------------------------------------------------------------------------
(* The invariant.                                                          *)

Setups == [f16 : BOOLEAN, again : BOOLEAN, tied : BOOLEAN, peer : {"none", "same", "other"}]
Printed == {"none", "own", "part", "other", "default"}
Stages == {"config", "config run", "tensors", "tensors run", "raised", "loaded", "ready"}
Queries == [at : Stages, script : Printed, conf : Printed, places : Printed]

\* Without a second process on another file, what was loaded is the own file's.
Loads ==
  /\ query \in Queries
  /\ query.script = "part" => cfg.peer # "none"
  /\ cfg.peer # "other" =>
       /\ query.script # "other" /\ query.conf # "other" /\ query.places # "other"
       /\ query.at \in {"loaded", "ready"} => query.places = "own"

LlamaTyped ==
  /\ cfg \in Setups
  /\ Loads
  /\ toks \in Seq(Vocab) /\ Len(toks) <= Slots
  /\ kvPos \in 0..Len(toks) /\ (cfg.again \/ query.at # "ready" => kvPos = 0)

\* Where the claim is made, as in ForwardIsWhole.
Claimed ==
  /\ query.at = "ready" /\ cfg.peer # "other"
  /\ cfg.f16 \/ cfg.again \/ 2 * Len(toks) <= Slots

Names == {"x", "s1", "s2", "s3", "logits"}

AtBlock ==
  /\ block \in 1..(Depth + 1) /\ call \in 1..18
  /\ block = Depth + 1 => call \in 1..2
  /\ DOMAIN buf = Names /\ buf = [b \in Names |-> buf[b]]
  /\ DOMAIN caches = {"k", "v"} /\ caches = [b \in {"k", "v"} |-> caches[b]]

\* What the buffers hold before kernel call k of layer l, for the n tokens after
\* the first p, where xs are the hidden states below the layer.
AttentionHolds(b, c, l, k, xs, p, n) ==
  /\ k \in 1..11 => b["x"] = [i \in 1..n |-> xs[p + i]]
  /\ k \in 2..7  => b["s1"] = [i \in 1..n |-> Normed(l, "attn_norm", xs[p + i])]
  /\ k \in 3..4  => b["s2"] = [i \in 1..n |-> Mul(l, "attn_q", Normed(l, "attn_norm", xs[p + i]))]
  /\ k \in 5..9  => b["s2"] = [i \in 1..n |-> Query(l, xs[p + i], p + i - 1)]
  /\ k \in 4..5  => b["s3"] = [i \in 1..n |-> Mul(l, "attn_k", Normed(l, "attn_norm", xs[p + i]))]
  /\ k = 6 => b["s3"] = [i \in 1..n |->
                <<"rope", p + i - 1, Mul(l, "attn_k", Normed(l, "attn_norm", xs[p + i]))>>]
  /\ k = 8 => b["s3"] = [i \in 1..n |-> Mul(l, "attn_v", Normed(l, "attn_norm", xs[p + i]))]
  /\ k = 10 => b["s1"] = [i \in 1..n |-> Attended(c, l, xs, p + i)]
  /\ k = 11 => b["s2"] = [i \in 1..n |-> Mul(l, "attn_output", Attended(c, l, xs, p + i))]

\* The same for the second half, where ms are the hidden states after attention.
FeedForwardHolds(b, l, k, ms, n) ==
  /\ k \in 12..17 => b["x"] = [i \in 1..n |-> ms[i]]
  /\ k \in 13..16 => b["s1"] = [i \in 1..n |-> Normed(l, "ffn_norm", ms[i])]
  /\ k \in 14..15 => b["s2"] = [i \in 1..n |-> Mul(l, "ffn_gate", Normed(l, "ffn_norm", ms[i]))]
  /\ k = 15 => b["s3"] = [i \in 1..n |-> Mul(l, "ffn_up", Normed(l, "ffn_norm", ms[i]))]
  /\ k = 16 => b["s2"] = [i \in 1..n |->
                 <<"swiglu", Mul(l, "ffn_gate", Normed(l, "ffn_norm", ms[i])),
                             Mul(l, "ffn_up", Normed(l, "ffn_norm", ms[i]))>>]
  /\ k = 17 => b["s1"] = [i \in 1..n |-> Gated(l, ms[i])]
  /\ k = 18 => b["x"] = [i \in 1..n |-> <<"add", ms[i], Gated(l, ms[i])>>]

Middles(c, l, xs, p, n) == [i \in 1..n |-> Middle(c, l, xs, p + i)]

BlockHolds(b, c, l, k, xs, p, n) ==
  /\ AttentionHolds(b, c, l, k, xs, p, n)
  /\ FeedForwardHolds(b, l, k, Middles(c, l, xs, p, n), n)

\* Before and after the head.
HeadHolds(b, c, k, xs, p, n) ==
  /\ k = 1 => b["x"] = [i \in 1..n |-> xs[p + i]]
  /\ k = 2 => b["logits"] = [i \in 1..n |-> Scores(c, xs[p + i])]

\* Unit, as an operator on constants.
Wide(c) == IF c.f16 THEN 1 ELSE 2
Base(l) == (l - 1) * Slots
Place(c, l, p, j) == Base(l) + Wide(c) * p + j

\* The first n rows of layer l's keys, and of its values, are those of xs.
KeysHeld(m, c, l, xs, n) ==
  \A p \in 0..(n - 1) : \A j \in 0..(Wide(c) - 1) :
    m[Place(c, l, p, j)] = <<Key(c, l, xs[p + 1], p), j>>
ValuesHeld(m, c, l, xs, n) ==
  \A p \in 0..(n - 1) : \A j \in 0..(Wide(c) - 1) :
    m[Place(c, l, p, j)] = <<Value(c, l, xs[p + 1]), j>>
RowsHeld(ks, vs, c, l, xs, n) == KeysHeld(ks, c, l, xs, n) /\ ValuesHeld(vs, c, l, xs, n)

\* Of the layers below, whose rows are those of the sequence to here; of the
\* layer the call is at; and of those it has not come to.
CachesHold(ks, vs, c, h, l, k, p, len) ==
  /\ ~c.again => \A b \in 1..(l - 1) : RowsHeld(ks, vs, c, b, h[b - 1], len)
  /\ l <= Depth =>
       /\ k <= 6 => KeysHeld(ks, c, l, h[l - 1], p)
       /\ k > 6  => KeysHeld(ks, c, l, h[l - 1], len)
       /\ k <= 8 => ValuesHeld(vs, c, l, h[l - 1], p)
       /\ k > 8  => ValuesHeld(vs, c, l, h[l - 1], len)
  /\ \A b \in (l + 1)..Depth : RowsHeld(ks, vs, c, b, h[b - 1], p)

Zone(c) == 0..(Depth * Slots * Wide(c) - 1)

\* The whole of it, over the hidden states h of the sequence.
HoldsAll(h) ==
  /\ AtBlock
  /\ DOMAIN caches["k"] = Zone(cfg) /\ DOMAIN caches["v"] = Zone(cfg)
  /\ CachesHold(caches["k"], caches["v"], cfg, h, block, call, kvPos, Len(toks))
  /\ block <= Depth => BlockHolds(buf, cfg, block, call, h[block - 1], kvPos, Len(toks) - kvPos)
  /\ block = Depth + 1 => HeadHolds(buf, cfg, call, h[Depth], kvPos, Len(toks) - kvPos)

LlamaInv == LlamaTyped /\ (Claimed => HoldsAll(Hidden(cfg, toks)))

-----------------------------------------------------------------------------
(* The hidden states.                                                      *)

\* A set of numbers that holds 0 and with each number the next one holds all.
LEMMA AllNumbers ==
  ASSUME NEW T \in SUBSET Nat, 0 \in T, \A n \in T : n + 1 \in T
  PROVE  \A n \in Nat : n \in T
<1> DEFINE R == OpToRel(<, Nat)
           U == Nat \ T
<1>1. \A k, n \in Nat : <<k, n>> \in R <=> k < n
  BY DEF OpToRel
<1>2. IsWellFoundedOn(R, Nat)
  BY NatLessThanWellFounded
<1> SUFFICES ASSUME U # {} PROVE FALSE
  OBVIOUS
<1>3. U \subseteq Nat
  OBVIOUS
<1> HIDE DEF R, U
<1>4. PICK m \in U : \A k \in U : ~ (<<k, m>> \in R)
  BY <1>2, <1>3, WFMin
<1>5. m \in Nat /\ m # 0
  BY <1>3 DEF U
<1>6. m - 1 \in Nat /\ m - 1 < m
  BY <1>5
<1>7. m - 1 \notin U
  BY <1>1, <1>4, <1>5, <1>6
<1>8. (m - 1) + 1 \in T
  BY <1>6, <1>7 DEF U
<1>9. m \in T
  BY <1>5, <1>8
<1> QED BY <1>9 DEF U

\* The states before the first layer, and those after layer l.
Embedded(seq) == [i \in DOMAIN seq |-> <<"embed", Own("q8_0", "token_embd"), seq[i]>>]
Through(c, seq, l, xs) == [i \in DOMAIN seq |-> Above(c, l, xs, i)]

IsTower(h, c, seq) ==
  h = [l \in 0..Depth |-> IF l = 0 THEN Embedded(seq) ELSE Through(c, seq, l, h[l - 1])]

\* There are hidden states of every sequence.
LEMMA Tower ==
  ASSUME NEW c, NEW seq
  PROVE  \E h : IsTower(h, c, seq)
<1> DEFINE Start == Embedded(seq)
           Go(f, l) == Through(c, seq, l, f)
           Up(h, n) == h = [l \in 0..n |-> IF l = 0 THEN Start ELSE Go(h[l - 1], l)]
           T == {n \in Nat : \E h : Up(h, n)}
<1> SUFFICES \E h : Up(h, Depth)
  BY DEF IsTower
<1> HIDE DEF Start
<1>1. 0 \in T
  <2> DEFINE f == [l \in 0..0 |-> Start]
  <2>1. f = [l \in 0..0 |-> IF l = 0 THEN Start ELSE Go(f[l - 1], l)]
    <3> HIDE DEF Go
    <3> QED OBVIOUS
  <2> QED BY <2>1
<1>2. ASSUME NEW n \in T PROVE n + 1 \in T
  <2>1. n \in Nat
    OBVIOUS
  <2>2. PICK f : Up(f, n)
    OBVIOUS
  <2> DEFINE g == [l \in 0..(n + 1) |-> IF l = n + 1 THEN Go(f[n], l) ELSE f[l]]
  <2> HIDE DEF Go
  <2>3. \A l \in 0..n : f[l] = IF l = 0 THEN Start ELSE Go(f[l - 1], l)
    BY <2>2
  <2>4. \A l \in 0..n : g[l] = f[l]
    BY <2>1
  <2>5. ASSUME NEW l \in 0..(n + 1) PROVE g[l] = IF l = 0 THEN Start ELSE Go(g[l - 1], l)
    <3>1. CASE l = n + 1
      <4>1. g[n] = f[n] /\ l # 0 /\ l - 1 = n
        BY <2>1, <2>4, <3>1
      <4>2. g[l] = Go(f[n], l)
        BY <3>1
      <4> HIDE DEF g
      <4> QED BY <4>1, <4>2
    <3>2. CASE l # n + 1
      <4>1. l \in 0..n /\ (l # 0 => l - 1 \in 0..n)
        BY <2>1, <3>2
      <4> HIDE DEF g
      <4> QED BY <2>3, <2>4, <4>1
    <3> QED BY <3>1, <3>2
  <2>6. g = [l \in 0..(n + 1) |-> IF l = 0 THEN Start ELSE Go(g[l - 1], l)]
    <3>1. DOMAIN g = 0..(n + 1) /\ g = [l \in 0..(n + 1) |-> g[l]]
      OBVIOUS
    <3> HIDE DEF g
    <3> QED BY <2>5, <3>1
  <2>7. \E h : Up(h, n + 1)
    <3> HIDE DEF g
    <3> QED BY <2>6
  <2> QED BY <2>1, <2>7
<1> HIDE DEF T
<1>3. Depth \in T
  BY <1>1, <1>2, AllNumbers, LlamaAssumption DEF T
<1> QED BY <1>3 DEF T

\* Layer by layer, what the hidden states of a sequence are.
LEMMA HiddenLayers ==
  ASSUME NEW c, NEW seq
  PROVE  /\ Hidden(c, seq)[0] = Embedded(seq)
         /\ \A l \in 1..Depth : Hidden(c, seq)[l] = Through(c, seq, l, Hidden(c, seq)[l - 1])
<1> DEFINE h == Hidden(c, seq)
<1>1. h = CHOOSE g : IsTower(g, c, seq)
  BY DEF Hidden, IsTower, Embedded, Through
<1>2. \E g : IsTower(g, c, seq)
  BY Tower, Zenon
<1> HIDE DEF h
<1>3. IsTower(h, c, seq)
  BY <1>1, <1>2, Zenon
<1>4. Depth \in Nat
  BY LlamaAssumption
<1>5. h[0] = Embedded(seq)
  BY <1>3, <1>4 DEF IsTower
<1>6. ASSUME NEW l \in 1..Depth PROVE h[l] = Through(c, seq, l, h[l - 1])
  <2>1. l \in 0..Depth /\ l # 0
    BY <1>4
  <2> QED BY <1>3, <2>1 DEF IsTower
<1> QED BY <1>5, <1>6 DEF h

\* A layer's state of a token is made of the states up to that token.
LEMMA AboveOfPrefix ==
  ASSUME NEW c, NEW l, NEW xs, NEW ys, NEW i \in Nat \ {0}, \A p \in 1..i : xs[p] = ys[p]
  PROVE  Above(c, l, xs, i) = Above(c, l, ys, i)
<1>1. \A p \in 0..(i - 1) : xs[p + 1] = ys[p + 1]
  OBVIOUS
<1>2. xs[i] = ys[i]
  OBVIOUS
<1>3. [p \in 0..(i - 1) |-> <<Key(c, l, xs[p + 1], p), Value(c, l, xs[p + 1])>>]
      = [p \in 0..(i - 1) |-> <<Key(c, l, ys[p + 1], p), Value(c, l, ys[p + 1])>>]
  BY <1>1
<1>4. Attended(c, l, xs, i) = Attended(c, l, ys, i)
  BY <1>2, <1>3 DEF Attended
<1>5. Middle(c, l, xs, i) = Middle(c, l, ys, i)
  BY <1>2, <1>4 DEF Middle
<1> QED BY <1>5 DEF Above

\* What has been added to a sequence does not change the states of what it was.
LEMMA HiddenOfPrefix ==
  ASSUME NEW c, NEW s \in Seq(Vocab), NEW t \in Vocab
  PROVE  \A l \in 0..Depth : \A i \in 1..Len(s) :
           Hidden(c, Append(s, t))[l][i] = Hidden(c, s)[l][i]
<1> DEFINE r == Append(s, t)
           n == Len(s)
           g == Hidden(c, r)
           h == Hidden(c, s)
           Same(l) == \A i \in 1..n : g[l][i] = h[l][i]
           T == {l \in Nat : l <= Depth => Same(l)}
<1>1. n \in Nat /\ DOMAIN s = 1..n /\ DOMAIN r = 1..(n + 1) /\ \A i \in 1..n : r[i] = s[i]
  OBVIOUS
<1>2. /\ g[0] = Embedded(r)
      /\ \A l \in 1..Depth : g[l] = Through(c, r, l, g[l - 1])
  BY HiddenLayers
<1>3. /\ h[0] = Embedded(s)
      /\ \A l \in 1..Depth : h[l] = Through(c, s, l, h[l - 1])
  BY HiddenLayers
<1>4. Depth \in Nat
  BY LlamaAssumption
<1> HIDE DEF r, n, g, h
<1>5. 0 \in T
  <2> SUFFICES ASSUME NEW i \in 1..n PROVE g[0][i] = h[0][i]
    OBVIOUS
  <2>1. i \in DOMAIN r /\ i \in DOMAIN s /\ r[i] = s[i]
    BY <1>1
  <2> QED BY <1>2, <1>3, <2>1 DEF Embedded
<1>6. ASSUME NEW l \in T PROVE l + 1 \in T
  <2>1. l \in Nat
    OBVIOUS
  <2> SUFFICES ASSUME l + 1 <= Depth, NEW i \in 1..n PROVE g[l + 1][i] = h[l + 1][i]
    BY <2>1
  <2>2. l + 1 \in 1..Depth /\ (l + 1) - 1 = l
    BY <1>4, <2>1
  <2>3. Same(l)
    BY <1>4, <2>1
  <2>4. i \in Nat \ {0} /\ \A p \in 1..i : g[l][p] = h[l][p]
    BY <1>1, <2>3
  <2>5. Above(c, l + 1, g[l], i) = Above(c, l + 1, h[l], i)
    <3> HIDE DEF T
    <3> QED BY <2>4, AboveOfPrefix
  <2>6. g[l + 1] = Through(c, r, l + 1, g[l]) /\ h[l + 1] = Through(c, s, l + 1, h[l])
    BY <1>2, <1>3, <2>2
  <2>7. i \in DOMAIN r /\ i \in DOMAIN s
    BY <1>1
  <2> QED BY <2>5, <2>6, <2>7 DEF Through
<1> HIDE DEF Same
<1>7. \A l \in Nat : l \in T
  <2> HIDE DEF T
  <2>1. T \in SUBSET Nat
    BY DEF T
  <2> QED BY <1>5, <1>6, <2>1, AllNumbers
<1>8. \A l \in 0..Depth : Same(l)
  BY <1>4, <1>7
<1> QED BY <1>8 DEF Same, g, h, r, n

-----------------------------------------------------------------------------
(* The places of the caches.                                               *)

LEMMA BaseStep ==
  ASSUME NEW l \in Nat \ {0}, NEW b \in Nat \ {0}, b <= l
  PROVE  /\ Base(b) \in Nat /\ Base(l) \in Nat
         /\ b < l => Base(b) + Slots <= Base(l)
<1>1. Slots \in Nat
  BY LlamaAssumption
<1>2. \A x, y \in Nat : x * y \in Nat
  OBVIOUS
<1>3. b - 1 \in Nat /\ l - 1 \in Nat
  OBVIOUS
<1>4. Base(b) \in Nat /\ Base(l) \in Nat
  BY <1>1, <1>2, <1>3 DEF Base
<1>5. ASSUME b < l PROVE Base(b) + Slots <= Base(l)
  <2>1. l - b - 1 \in Nat
    BY <1>5
  <2>2. (l - b - 1) * Slots \in Nat
    BY <1>1, <1>2, <2>1
  <2>3. Base(l) = Base(b) + Slots + (l - b - 1) * Slots
    BY <1>1 DEF Base
  <2> QED BY <1>1, <1>4, <2>2, <2>3
<1> QED BY <1>4, <1>5

\* A row's pieces are apart from those of the other rows of its layer.
LEMMA SameLayer ==
  ASSUME NEW c \in Setups, NEW l \in Nat \ {0}, NEW p \in Nat, NEW q \in Nat,
         NEW i \in 0..(Wide(c) - 1), NEW j \in 0..(Wide(c) - 1)
  PROVE  /\ Place(c, l, p, i) - Place(c, l, p, 0) = i
         /\ Place(c, l, p, i) = Place(c, l, q, j) => p = q /\ i = j
<1>1. Base(l) \in Nat
  BY BaseStep
<1>2. CASE c.f16
  BY <1>1, <1>2 DEF Place, Wide
<1>3. CASE ~c.f16
  BY <1>1, <1>3 DEF Place, Wide
<1> QED BY <1>2, <1>3

\* Where n rows of a layer do not reach into the next one's, they are apart from
\* those of the other layers as well.
LEMMA OtherLayer ==
  ASSUME NEW c \in Setups, NEW l \in Nat \ {0}, NEW b \in Nat \ {0}, l # b,
         NEW n \in Nat, Wide(c) * n <= Slots,
         NEW p \in 0..(n - 1), NEW q \in 0..(n - 1),
         NEW i \in 0..(Wide(c) - 1), NEW j \in 0..(Wide(c) - 1)
  PROVE  Place(c, l, p, i) # Place(c, b, q, j)
<1>1. Slots \in Nat /\ Base(l) \in Nat /\ Base(b) \in Nat
  BY BaseStep, LlamaAssumption
<1>2. Base(b) + Slots <= Base(l) \/ Base(l) + Slots <= Base(b)
  BY BaseStep
<1>3. CASE c.f16
  BY <1>1, <1>2, <1>3 DEF Place, Wide
<1>4. CASE ~c.f16
  BY <1>1, <1>2, <1>4 DEF Place, Wide
<1> QED BY <1>3, <1>4

\* All of it is in the memory that was asked for.
LEMMA InZone ==
  ASSUME NEW c \in Setups, NEW l \in 1..Depth, NEW p \in 0..(Slots - 1), NEW j \in 0..(Wide(c) - 1)
  PROVE  Place(c, l, p, j) \in Zone(c)
<1>1. Slots \in Nat /\ Depth \in Nat \ {0} /\ l \in Nat \ {0} /\ Base(l) \in Nat
  BY BaseStep, LlamaAssumption
<1>2. Base(l) <= Base(Depth) /\ Base(Depth) \in Nat
  <2>1. CASE l = Depth
    BY <1>1, <2>1
  <2>2. CASE l # Depth
    <3>1. l < Depth
      BY <1>1, <2>2
    <3> QED BY <1>1, <3>1, BaseStep
  <2> QED BY <2>1, <2>2
<1>3. Depth * Slots = Base(Depth) + Slots
  BY <1>1 DEF Base
<1>4. Depth * Slots * 1 = Base(Depth) + Slots /\ Depth * Slots * 2 = 2 * Base(Depth) + 2 * Slots
  <2> DEFINE a == Depth * Slots
             e == Base(Depth)
  <2>1. a \in Nat /\ a = e + Slots /\ e \in Nat
    BY <1>1, <1>2, <1>3
  <2> HIDE DEF a, e
  <2>2. a * 1 = e + Slots /\ a * 2 = 2 * e + 2 * Slots
    BY <1>1, <2>1
  <2> QED BY <2>2 DEF a, e
<1>5. CASE c.f16
  <2>1. Zone(c) = 0..(Base(Depth) + Slots - 1)
    <3>1. Wide(c) = 1
      BY <1>5 DEF Wide
    <3> DEFINE z == Depth * Slots * Wide(c)
    <3>2. Zone(c) = 0..(z - 1)
      BY DEF Zone
    <3>3. z = Depth * Slots * 1
      BY <3>1
    <3>4. z = Base(Depth) + Slots
      BY <1>4, <3>3
    <3> HIDE DEF z
    <3> QED BY <1>1, <1>2, <3>2, <3>4
  <2>2. Place(c, l, p, j) = Base(l) + p
    BY <1>1, <1>5 DEF Place, Wide
  <2> QED BY <1>1, <1>2, <2>1, <2>2
<1>6. CASE ~c.f16
  <2>1. Zone(c) = 0..(2 * Base(Depth) + 2 * Slots - 1)
    <3>1. Wide(c) = 2
      BY <1>6 DEF Wide
    <3> DEFINE z == Depth * Slots * Wide(c)
    <3>2. Zone(c) = 0..(z - 1)
      BY DEF Zone
    <3>3. z = Depth * Slots * 2
      BY <3>1
    <3>4. z = 2 * Base(Depth) + 2 * Slots
      BY <1>4, <3>3
    <3> HIDE DEF z
    <3> QED BY <1>1, <1>2, <3>2, <3>4
  <2>2. Place(c, l, p, j) = Base(l) + 2 * p + j /\ j \in 0..1
    BY <1>1, <1>6 DEF Place, Wide
  <2> QED BY <1>1, <1>2, <2>1, <2>2
<1> QED BY <1>5, <1>6

-----------------------------------------------------------------------------
(* Writing rows and reading them.                                          *)

\* Where the program computes a place, it is that one.
LEMMA UnitIsPlace ==
  ASSUME cfg.peer # "other" => query.conf # "other"
  PROVE  /\ Width = Wide(cfg)
         /\ \A l, p, j : Unit(l, p, j) = Place(cfg, l, p, j)
         /\ cfg.peer # "other" => Blocks = Depth /\ Units = Zone(cfg)
<1>1. Width = Wide(cfg)
  BY DEF Width, Wide
<1>2. \A l, p, j : Unit(l, p, j) = Place(cfg, l, p, j)
  BY <1>1 DEF Unit, Place, Base
<1>3. cfg.peer # "other" => Blocks = Depth
  BY DEF Blocks
<1>4. cfg.peer # "other" => Units = Zone(cfg)
  BY <1>1, <1>3 DEF Units, Zone
<1> QED BY <1>1, <1>2, <1>3, <1>4

\* The rows of a batch are the terms', and every other unit keeps what it held.
LEMMA WrittenRows ==
  ASSUME LlamaTyped, cfg.peer # "other", NEW m, DOMAIN m = Zone(cfg), NEW l \in 1..Depth,
         NEW terms, DOMAIN terms = 1..(Len(toks) - kvPos)
  PROVE  /\ DOMAIN RowsWritten(m, l, terms) = Zone(cfg)
         /\ \A t \in DOMAIN terms : \A j \in 0..(Wide(cfg) - 1) :
              RowsWritten(m, l, terms)[Place(cfg, l, kvPos + t - 1, j)] = <<Cached(cfg, terms[t]), j>>
         /\ \A u \in Zone(cfg) :
              (\A p \in kvPos..(Len(toks) - 1) : \A j \in 0..(Wide(cfg) - 1) : u # Place(cfg, l, p, j))
                => RowsWritten(m, l, terms)[u] = m[u]
<1> DEFINE W == 0..(Wide(cfg) - 1)
           D == DOMAIN terms
           At(t, j) == Place(cfg, l, kvPos + t - 1, j)
           Has(u, t) == u \in {At(t, j) : j \in W}
           Of(u) == CHOOSE t \in D : Has(u, t)
           In(u) == \E t \in D : Has(u, t)
           new == RowsWritten(m, l, terms)
<1>1. /\ cfg \in Setups /\ Len(toks) \in Nat /\ Len(toks) <= Slots /\ kvPos \in 0..Len(toks)
      /\ Slots \in Nat /\ Depth \in Nat
      /\ query.conf # "other"
  BY LlamaAssumption DEF LlamaTyped, Loads
<1>2. Wide(cfg) \in 1..2
  BY DEF Wide
<1>3. /\ Width = Wide(cfg) /\ Units = Zone(cfg)
      /\ \A b, p, j : Unit(b, p, j) = Place(cfg, b, p, j)
  BY <1>1, UnitIsPlace
<1>4. \A t : Pieces(l, kvPos + t - 1) = {At(t, j) : j \in W}
  BY <1>3 DEF Pieces
<1>5. new = [u \in Zone(cfg) |-> IF In(u)
                                 THEN <<Cached(cfg, terms[Of(u)]), u - At(Of(u), 0)>> ELSE m[u]]
  BY <1>3, <1>4 DEF RowsWritten
<1>6. ASSUME NEW t \in D, NEW j \in W PROVE new[At(t, j)] = <<Cached(cfg, terms[t]), j>>
  <2>1. t \in 1..(Len(toks) - kvPos) /\ kvPos + t - 1 \in 0..(Slots - 1)
    BY <1>1
  <2>2. At(t, j) \in Zone(cfg)
    BY <1>1, <2>1, InZone
  <2>3. Has(At(t, j), t)
    OBVIOUS
  <2>4. ASSUME NEW s \in D, Has(At(t, j), s) PROVE s = t
    <3>1. PICK i \in W : At(t, j) = At(s, i)
      BY <2>4
    <3>2. s \in 1..(Len(toks) - kvPos) /\ kvPos + s - 1 \in Nat /\ kvPos + t - 1 \in Nat /\ l \in Nat \ {0}
      BY <1>1, <2>1
    <3>3. kvPos + t - 1 = kvPos + s - 1
      BY <1>1, <3>1, <3>2, SameLayer
    <3> QED BY <1>1, <2>1, <3>2, <3>3
  <2>5. Of(At(t, j)) = t
    <3> HIDE DEF Has
    <3> QED BY <2>3, <2>4
  <2>6. In(At(t, j))
    BY <2>3
  <2>7. At(t, j) - At(t, 0) = j
    BY <1>1, <2>1, SameLayer
  <2> HIDE DEF In, Of, At, new
  <2> QED BY <1>5, <2>2, <2>5, <2>6, <2>7
<1>7. ASSUME NEW u \in Zone(cfg),
             \A p \in kvPos..(Len(toks) - 1) : \A j \in W : u # Place(cfg, l, p, j)
      PROVE  new[u] = m[u]
  <2>1. ASSUME NEW t \in D PROVE ~ Has(u, t)
    <3>1. kvPos + t - 1 \in kvPos..(Len(toks) - 1)
      BY <1>1
    <3> QED BY <1>7, <3>1
  <2>2. ~ In(u)
    BY <2>1
  <2> HIDE DEF In, Of, new
  <2> QED BY <1>5, <2>2
<1>8. DOMAIN new = Zone(cfg)
  <2> HIDE DEF In, Of, new
  <2> QED BY <1>5
<1> QED BY <1>6, <1>7, <1>8

\* Each piece of row p is the term's.
RowIs(m, c, l, p, term) == \A j \in 0..(Wide(c) - 1) : m[Place(c, l, p, j)] = <<term, j>>

\* Attention reads a row that is there as the term it was written from.
LEMMA RowThere ==
  ASSUME LlamaTyped, cfg.peer # "other", NEW m, NEW l, NEW p, NEW term,
         RowIs(m, cfg, l, p, term), Base(l) \in Nat, p \in Nat
  PROVE  Row(m, l, p) = term
<1> DEFINE u == Unit(l, p, 0)
<1>1. query.conf # "other" /\ cfg \in Setups
  BY DEF LlamaTyped, Loads
<1>2. Width = Wide(cfg) /\ \A j : Unit(l, p, j) = Place(cfg, l, p, j)
  BY <1>1, UnitIsPlace
<1>3. Wide(cfg) \in 1..2
  BY DEF Wide
<1>4. \A j \in 0..(Width - 1) : u + j = Place(cfg, l, p, j)
  <2>1. Wide(cfg) = 1 \/ Wide(cfg) = 2
    BY <1>3
  <2> QED BY <1>2, <2>1 DEF Place
<1>5. \A j \in 0..(Width - 1) : m[u + j] = <<term, j>>
  BY <1>2, <1>4 DEF RowIs
<1>6. 0 \in 0..(Width - 1) /\ u + 0 = u
  <2>1. Wide(cfg) = 1 \/ Wide(cfg) = 2
    BY <1>3
  <2> QED BY <1>2, <2>1 DEF Place
<1>7. m[u] = <<term, 0>>
  BY <1>5, <1>6
<1>8. m[u] # Zero
  BY <1>7 DEF Zero
<1>9. m[u][1] = term /\ m[u][2] = 0
  BY <1>7
<1> HIDE DEF u
<1>10. \A j \in 0..(Width - 1) : m[u + j] = <<m[u][1], j>>
  BY <1>5, <1>9
<1>11. \E x \in {m[u]} : x # Zero /\ x[2] = 0 /\ \A j \in 0..(Width - 1) : m[u + j] = <<x[1], j>>
  BY <1>8, <1>9, <1>10
<1>12. Row(m, l, p) = m[u][1]
  BY <1>11 DEF Row, u
<1> QED BY <1>9, <1>12

-----------------------------------------------------------------------------
(* The kernel calls.                                                       *)

LEMMA ProgramCalls ==
  /\ Len(Program) = 17 /\ DOMAIN Program = 1..17
  /\ Program[1] = Call("norm", "attn_norm_w", <<"x">>, "s1")
  /\ Program[2] = Call("matmul", "w_q", <<"s1">>, "s2")
  /\ Program[3] = Call("matmul", "w_k", <<"s1">>, "s3")
  /\ Program[4] = Call("rope", "", <<"s2">>, "s2")
  /\ Program[5] = Call("rope", "", <<"s3">>, "s3")
  /\ Program[6] = Call("write", "", <<"s3">>, "k")
  /\ Program[7] = Call("matmul", "w_v", <<"s1">>, "s3")
  /\ Program[8] = Call("write", "", <<"s3">>, "v")
  /\ Program[9] = Call("attend", "", <<"s2">>, "s1")
  /\ Program[10] = Call("matmul", "w_o", <<"s1">>, "s2")
  /\ Program[11] = Call("add", "", <<"x", "s2">>, "x")
  /\ Program[12] = Call("norm", "ffn_norm_w", <<"x">>, "s1")
  /\ Program[13] = Call("matmul", "w_gate", <<"s1">>, "s2")
  /\ Program[14] = Call("matmul", "w_up", <<"s1">>, "s3")
  /\ Program[15] = Call("swiglu", "", <<"s2", "s3">>, "s2")
  /\ Program[16] = Call("matmul", "w_down", <<"s2">>, "s1")
  /\ Program[17] = Call("add", "", <<"x", "s1">>, "x")
<1> HIDE DEF Call
<1> QED BY DEF Program

\* The term of a kernel with a weight and one operand, and of one with two operands.
LEMMA Pair ==
  ASSUME NEW a, NEW b
  PROVE  <<a>> \o <<b>> = <<a, b>>
<1> DEFINE s == <<b>>
<1>1. Len(s) = 1 /\ s[1] = b
  OBVIOUS
<1> HIDE DEF s
<1>2. <<a>> \o s = [i \in 1..(1 + Len(s)) |-> IF i = 1 THEN a ELSE s[i - 1]]
  OBVIOUS
<1>3. [i \in 1..(1 + Len(s)) |-> IF i = 1 THEN a ELSE s[i - 1]] = <<a, b>>
  BY <1>1
<1>4. <<a>> \o s = <<a, b>>
  BY <1>2, <1>3
<1> QED BY <1>4 DEF s

LEMMA WeightAndOperand ==
  ASSUME NEW k, NEW w, NEW t
  PROVE  <<k>> \o <<w>> \o <<t>> = <<k, w, t>>
<1>1. <<k>> \o <<w>> = <<k, w>>
  BY Pair
<1>2. <<k, w>> \o <<t>> = [i \in 1..3 |-> IF i <= 2 THEN <<k, w>>[i] ELSE <<t>>[i - 2]]
  OBVIOUS
<1>3. [i \in 1..3 |-> IF i <= 2 THEN <<k, w>>[i] ELSE <<t>>[i - 2]] = <<k, w, t>>
  OBVIOUS
<1> QED BY <1>1, <1>2, <1>3

LEMMA OperandsAlone ==
  ASSUME NEW k, NEW s, NEW t
  PROVE  <<k>> \o << >> \o <<s, t>> = <<k, s, t>>
<1>1. <<k>> \o << >> = [i \in 1..1 |-> k]
  OBVIOUS
<1>2. [i \in 1..1 |-> k] = <<k>>
  OBVIOUS
<1>3. <<k>> \o <<s, t>> = [i \in 1..3 |-> IF i = 1 THEN k ELSE <<s, t>>[i - 1]]
  OBVIOUS
<1>4. [i \in 1..3 |-> IF i = 1 THEN k ELSE <<s, t>>[i - 1]] = <<k, s, t>>
  OBVIOUS
<1> QED BY <1>1, <1>2, <1>3, <1>4

\* What a kernel reads for token i.
Operands(b, from, i) == [o \in DOMAIN from |-> b[from[o]][i]]

LEMMA OneRead ==
  ASSUME NEW b, NEW i, NEW from, NEW one, from = <<one>>
  PROVE  Operands(b, from, i) = <<b[one][i]>>
<1>1. DOMAIN from = 1..1 /\ from[1] = one
  OBVIOUS
<1> QED BY <1>1 DEF Operands

LEMMA TwoRead ==
  ASSUME NEW b, NEW i, NEW from, NEW one, NEW two, from = <<one, two>>
  PROVE  Operands(b, from, i) = <<b[one][i], b[two][i]>>
<1>1. DOMAIN from = 1..2 /\ from[1] = one /\ from[2] = two
  OBVIOUS
<1> QED BY <1>1 DEF Operands

\* The buffers after one buffer was written.
Put(b, to, f) == [n \in Names |-> IF n = to THEN f ELSE b[n]]

LEMMA OneOperand ==
  ASSUME Kernel, AtBlock, NEW kernel, NEW with, with # "", NEW from, NEW to \in Names,
         Now = Call(kernel, with, <<from>>, to)
  PROVE  buf' = Put(buf, to, [i \in Current |-> <<kernel, LayerWeight(block, with), buf[from][i]>>])
<1>1. Now.kernel = kernel /\ Now.with = with /\ Now.from = <<from>> /\ Now.to = to
  BY DEF Call
<1>2. Weights(Now) = <<LayerWeight(block, with)>>
  BY <1>1 DEF Weights
<1>3. ASSUME NEW i
      PROVE  <<Now.kernel>> \o Weights(Now) \o Operands(buf, Now.from, i)
             = <<kernel, LayerWeight(block, with), buf[from][i]>>
  <2>1. Operands(buf, Now.from, i) = <<buf[from][i]>>
    BY <1>1, OneRead
  <2>2. <<kernel>> \o <<LayerWeight(block, with)>> \o <<buf[from][i]>>
        = <<kernel, LayerWeight(block, with), buf[from][i]>>
    BY WeightAndOperand
  <2> QED BY <1>1, <1>2, <2>1, <2>2
<1>4. buf' = [buf EXCEPT ![Now.to] =
                [i \in Current |->
                  <<Now.kernel>> \o Weights(Now) \o Operands(buf, Now.from, i)]]
  BY DEF Kernel, Operands
<1>5. buf' = [buf EXCEPT ![to] = [i \in Current |-> <<kernel, LayerWeight(block, with), buf[from][i]>>]]
  BY <1>1, <1>3, <1>4
<1> QED BY <1>5 DEF AtBlock, Put

LEMMA TwoOperands ==
  ASSUME Kernel, AtBlock, NEW kernel, NEW one, NEW two, NEW to \in Names,
         Now = Call(kernel, "", <<one, two>>, to)
  PROVE  buf' = Put(buf, to, [i \in Current |-> <<kernel, buf[one][i], buf[two][i]>>])
<1>1. Now.kernel = kernel /\ Now.with = "" /\ Now.from = <<one, two>> /\ Now.to = to
  BY DEF Call
<1>2. Weights(Now) = << >>
  BY <1>1 DEF Weights
<1>3. ASSUME NEW i
      PROVE  <<Now.kernel>> \o Weights(Now) \o Operands(buf, Now.from, i)
             = <<kernel, buf[one][i], buf[two][i]>>
  <2>1. Operands(buf, Now.from, i) = <<buf[one][i], buf[two][i]>>
    <3>1. Operands(buf, <<one, two>>, i) = <<buf[one][i], buf[two][i]>>
      BY TwoRead
    <3> QED BY <1>1, <3>1
  <2>2. <<kernel>> \o << >> \o <<buf[one][i], buf[two][i]>> = <<kernel, buf[one][i], buf[two][i]>>
    BY OperandsAlone
  <2> QED BY <1>1, <1>2, <2>1, <2>2
<1>4. buf' = [buf EXCEPT ![Now.to] =
                [i \in Current |->
                  <<Now.kernel>> \o Weights(Now) \o Operands(buf, Now.from, i)]]
  BY DEF Kernel, Operands
<1>5. buf' = [buf EXCEPT ![to] = [i \in Current |-> <<kernel, buf[one][i], buf[two][i]>>]]
  BY <1>1, <1>3, <1>4
<1> QED BY <1>5 DEF AtBlock, Put

\* A layer's weights, where the offsets are the own file's.
LEMMA OwnWeights ==
  ASSUME query.places = "own", NEW l
  PROVE  /\ LayerWeight(l, "attn_norm_w") = Own("f32", <<l, "attn_norm">>)
         /\ LayerWeight(l, "w_q") = Own("q8_0", <<l, "attn_q">>)
         /\ LayerWeight(l, "w_k") = Own("q8_0", <<l, "attn_k">>)
         /\ LayerWeight(l, "w_v") = Own("q8_0", <<l, "attn_v">>)
         /\ LayerWeight(l, "w_o") = Own("q8_0", <<l, "attn_output">>)
         /\ LayerWeight(l, "ffn_norm_w") = Own("f32", <<l, "ffn_norm">>)
         /\ LayerWeight(l, "w_gate") = Own("q8_0", <<l, "ffn_gate">>)
         /\ LayerWeight(l, "w_up") = Own("q8_0", <<l, "ffn_up">>)
         /\ LayerWeight(l, "w_down") = Own("q8_0", <<l, "ffn_down">>)
BY DEF LayerWeight, ReadAs, Own, Fields

\* What is held before a call, for each call: the parts of the two predicates.
LEMMA TwoHalves ==
  ASSUME NEW b, NEW c, NEW l, NEW xs, NEW p, NEW n
  PROVE  /\ \A k \in 1..11 : BlockHolds(b, c, l, k, xs, p, n) <=> AttentionHolds(b, c, l, k, xs, p, n)
         /\ \A k \in 12..18 :
              BlockHolds(b, c, l, k, xs, p, n) <=> FeedForwardHolds(b, l, k, Middles(c, l, xs, p, n), n)
<1>1. \A k \in 1..11 : FeedForwardHolds(b, l, k, Middles(c, l, xs, p, n), n)
  BY DEF FeedForwardHolds
<1>2. \A k \in 12..18 : AttentionHolds(b, c, l, k, xs, p, n)
  BY DEF AttentionHolds
<1> QED BY <1>1, <1>2 DEF BlockHolds

-----------------------------------------------------------------------------
(* What each call makes of the buffers.                                    *)

\* The results of a kernel with a weight and one operand, of one with two, and of rope.
WithWeight(b, l, kernel, tensor, from, n) ==
  [i \in 1..n |-> <<kernel, Own(tensor[1], <<l, tensor[2]>>), b[from][i]>>]
OfTwo(b, kernel, one, two, n) == [i \in 1..n |-> <<kernel, b[one][i], b[two][i]>>]
Turned(b, from, p, n) == [i \in 1..n |-> <<"rope", p + i - 1, b[from][i]>>]

\* The calls of the first half that write a buffer, but for attention.
LEMMA FirstHalf ==
  ASSUME NEW b, NEW c, NEW l, NEW xs, NEW p \in Nat, NEW n \in Nat
  PROVE
    /\ AttentionHolds(b, c, l, 1, xs, p, n) =>
         AttentionHolds(Put(b, "s1", WithWeight(b, l, "norm", <<"f32", "attn_norm">>, "x", n)),
                        c, l, 2, xs, p, n)
    /\ AttentionHolds(b, c, l, 2, xs, p, n) =>
         AttentionHolds(Put(b, "s2", WithWeight(b, l, "matmul", <<"q8_0", "attn_q">>, "s1", n)),
                        c, l, 3, xs, p, n)
    /\ AttentionHolds(b, c, l, 3, xs, p, n) =>
         AttentionHolds(Put(b, "s3", WithWeight(b, l, "matmul", <<"q8_0", "attn_k">>, "s1", n)),
                        c, l, 4, xs, p, n)
    /\ AttentionHolds(b, c, l, 4, xs, p, n) =>
         AttentionHolds(Put(b, "s2", Turned(b, "s2", p, n)),
                        c, l, 5, xs, p, n)
    /\ AttentionHolds(b, c, l, 5, xs, p, n) =>
         AttentionHolds(Put(b, "s3", Turned(b, "s3", p, n)),
                        c, l, 6, xs, p, n)
    /\ AttentionHolds(b, c, l, 7, xs, p, n) =>
         AttentionHolds(Put(b, "s3", WithWeight(b, l, "matmul", <<"q8_0", "attn_v">>, "s1", n)),
                        c, l, 8, xs, p, n)
    /\ AttentionHolds(b, c, l, 10, xs, p, n) =>
         AttentionHolds(Put(b, "s2", WithWeight(b, l, "matmul", <<"q8_0", "attn_output">>, "s1", n)),
                        c, l, 11, xs, p, n)
    /\ \A k \in {6, 8} : AttentionHolds(b, c, l, k, xs, p, n) => AttentionHolds(b, c, l, k + 1, xs, p, n)
<1> DEFINE Xs == [i \in 1..n |-> xs[p + i]]
           Ns == [i \in 1..n |-> Normed(l, "attn_norm", xs[p + i])]
           Qs == [i \in 1..n |-> Mul(l, "attn_q", Normed(l, "attn_norm", xs[p + i]))]
           RQ == [i \in 1..n |-> Query(l, xs[p + i], p + i - 1)]
           Ks == [i \in 1..n |-> Mul(l, "attn_k", Normed(l, "attn_norm", xs[p + i]))]
           RK == [i \in 1..n |-> <<"rope", p + i - 1, Mul(l, "attn_k", Normed(l, "attn_norm", xs[p + i]))>>]
           Vs == [i \in 1..n |-> Mul(l, "attn_v", Normed(l, "attn_norm", xs[p + i]))]
           As == [i \in 1..n |-> Attended(c, l, xs, p + i)]
           Os == [i \in 1..n |-> Mul(l, "attn_output", Attended(c, l, xs, p + i))]
           Holds(d, k) == AttentionHolds(d, c, l, k, xs, p, n)
<1>0. ASSUME NEW d
      PROVE  /\ Holds(d, 1) <=> d["x"] = Xs
             /\ Holds(d, 2) <=> d["x"] = Xs /\ d["s1"] = Ns
             /\ Holds(d, 3) <=> d["x"] = Xs /\ d["s1"] = Ns /\ d["s2"] = Qs
             /\ Holds(d, 4) <=> d["x"] = Xs /\ d["s1"] = Ns /\ d["s2"] = Qs /\ d["s3"] = Ks
             /\ Holds(d, 5) <=> d["x"] = Xs /\ d["s1"] = Ns /\ d["s2"] = RQ /\ d["s3"] = Ks
             /\ Holds(d, 6) <=> d["x"] = Xs /\ d["s1"] = Ns /\ d["s2"] = RQ /\ d["s3"] = RK
             /\ Holds(d, 7) <=> d["x"] = Xs /\ d["s1"] = Ns /\ d["s2"] = RQ
             /\ Holds(d, 8) <=> d["x"] = Xs /\ d["s2"] = RQ /\ d["s3"] = Vs
             /\ Holds(d, 9) <=> d["x"] = Xs /\ d["s2"] = RQ
             /\ Holds(d, 10) <=> d["x"] = Xs /\ d["s1"] = As
             /\ Holds(d, 11) <=> d["x"] = Xs /\ d["s2"] = Os
  <2> HIDE DEF Xs, Ns, Qs, RQ, Ks, RK, Vs, As, Os
  <2> QED BY DEF AttentionHolds, Xs, Ns, Qs, RQ, Ks, RK, Vs, As, Os
<1>1. ASSUME Holds(b, 1)
      PROVE  Holds(Put(b, "s1", WithWeight(b, l, "norm", <<"f32", "attn_norm">>, "x", n)), 2)
  <2>1. b["x"] = Xs
    BY <1>0, <1>1
  <2>2. WithWeight(b, l, "norm", <<"f32", "attn_norm">>, "x", n) = Ns
    BY <2>1 DEF Normed, WithWeight, OfTwo, Turned
  <2> HIDE DEF Holds, Xs, Ns, Qs, RQ, Ks, RK, Vs, As, Os
  <2> QED BY <1>0, <1>1, <2>2 DEF Put, Names
<1>2. ASSUME Holds(b, 2)
      PROVE  Holds(Put(b, "s2", WithWeight(b, l, "matmul", <<"q8_0", "attn_q">>, "s1", n)), 3)
  <2>1. b["s1"] = Ns
    BY <1>0, <1>2
  <2>2. WithWeight(b, l, "matmul", <<"q8_0", "attn_q">>, "s1", n) = Qs
    BY <2>1 DEF Mul, WithWeight, OfTwo, Turned
  <2> HIDE DEF Holds, Xs, Ns, Qs, RQ, Ks, RK, Vs, As, Os
  <2> QED BY <1>0, <1>2, <2>2 DEF Put, Names
<1>3. ASSUME Holds(b, 3)
      PROVE  Holds(Put(b, "s3", WithWeight(b, l, "matmul", <<"q8_0", "attn_k">>, "s1", n)), 4)
  <2>1. b["s1"] = Ns
    BY <1>0, <1>3
  <2>2. WithWeight(b, l, "matmul", <<"q8_0", "attn_k">>, "s1", n) = Ks
    BY <2>1 DEF Mul, WithWeight, OfTwo, Turned
  <2> HIDE DEF Holds, Xs, Ns, Qs, RQ, Ks, RK, Vs, As, Os
  <2> QED BY <1>0, <1>3, <2>2 DEF Put, Names
<1>4. ASSUME Holds(b, 4)
      PROVE  Holds(Put(b, "s2", Turned(b, "s2", p, n)), 5)
  <2>1. b["s2"] = Qs
    BY <1>0, <1>4
  <2>2. Turned(b, "s2", p, n) = RQ
    BY <2>1 DEF Query, WithWeight, OfTwo, Turned
  <2> HIDE DEF Holds, Xs, Ns, Qs, RQ, Ks, RK, Vs, As, Os
  <2> QED BY <1>0, <1>4, <2>2 DEF Put, Names
<1>5. ASSUME Holds(b, 5)
      PROVE  Holds(Put(b, "s3", Turned(b, "s3", p, n)), 6)
  <2>1. b["s3"] = Ks
    BY <1>0, <1>5
  <2>2. Turned(b, "s3", p, n) = RK
    BY <2>1 DEF Mul, WithWeight, OfTwo, Turned
  <2> HIDE DEF Holds, Xs, Ns, Qs, RQ, Ks, RK, Vs, As, Os
  <2> QED BY <1>0, <1>5, <2>2 DEF Put, Names
<1>7. ASSUME Holds(b, 7)
      PROVE  Holds(Put(b, "s3", WithWeight(b, l, "matmul", <<"q8_0", "attn_v">>, "s1", n)), 8)
  <2>1. b["s1"] = Ns
    BY <1>0, <1>7
  <2>2. WithWeight(b, l, "matmul", <<"q8_0", "attn_v">>, "s1", n) = Vs
    BY <2>1 DEF Mul, WithWeight, OfTwo, Turned
  <2> HIDE DEF Holds, Xs, Ns, Qs, RQ, Ks, RK, Vs, As, Os
  <2> QED BY <1>0, <1>7, <2>2 DEF Put, Names
<1>10. ASSUME Holds(b, 10)
      PROVE  Holds(Put(b, "s2", WithWeight(b, l, "matmul", <<"q8_0", "attn_output">>, "s1", n)), 11)
  <2>1. b["s1"] = As
    BY <1>0, <1>10
  <2>2. WithWeight(b, l, "matmul", <<"q8_0", "attn_output">>, "s1", n) = Os
    BY <2>1 DEF Mul, WithWeight, OfTwo, Turned
  <2> HIDE DEF Holds, Xs, Ns, Qs, RQ, Ks, RK, Vs, As, Os
  <2> QED BY <1>0, <1>10, <2>2 DEF Put, Names
<1>6. Holds(b, 6) => Holds(b, 7)
  <2> HIDE DEF Holds, Xs, Ns, Qs, RQ, Ks, RK, Vs, As, Os
  <2> QED BY <1>0
<1>8. Holds(b, 8) => Holds(b, 9)
  <2> HIDE DEF Holds, Xs, Ns, Qs, RQ, Ks, RK, Vs, As, Os
  <2> QED BY <1>0
<1> QED BY <1>1, <1>2, <1>3, <1>4, <1>5, <1>6, <1>7, <1>8, <1>10

\* The calls of the second half.
LEMMA SecondHalf ==
  ASSUME NEW b, NEW l, NEW ms, NEW n \in Nat
  PROVE
    /\ FeedForwardHolds(b, l, 12, ms, n) =>
         FeedForwardHolds(Put(b, "s1", WithWeight(b, l, "norm", <<"f32", "ffn_norm">>, "x", n)),
                          l, 13, ms, n)
    /\ FeedForwardHolds(b, l, 13, ms, n) =>
         FeedForwardHolds(Put(b, "s2", WithWeight(b, l, "matmul", <<"q8_0", "ffn_gate">>, "s1", n)),
                          l, 14, ms, n)
    /\ FeedForwardHolds(b, l, 14, ms, n) =>
         FeedForwardHolds(Put(b, "s3", WithWeight(b, l, "matmul", <<"q8_0", "ffn_up">>, "s1", n)),
                          l, 15, ms, n)
    /\ FeedForwardHolds(b, l, 15, ms, n) =>
         FeedForwardHolds(Put(b, "s2", OfTwo(b, "swiglu", "s2", "s3", n)),
                          l, 16, ms, n)
    /\ FeedForwardHolds(b, l, 16, ms, n) =>
         FeedForwardHolds(Put(b, "s1", WithWeight(b, l, "matmul", <<"q8_0", "ffn_down">>, "s2", n)),
                          l, 17, ms, n)
    /\ FeedForwardHolds(b, l, 17, ms, n) =>
         FeedForwardHolds(Put(b, "x", OfTwo(b, "add", "x", "s1", n)),
                          l, 18, ms, n)
<1> DEFINE Ms == [i \in 1..n |-> ms[i]]
           Ns == [i \in 1..n |-> Normed(l, "ffn_norm", ms[i])]
           Gs == [i \in 1..n |-> Mul(l, "ffn_gate", Normed(l, "ffn_norm", ms[i]))]
           Us == [i \in 1..n |-> Mul(l, "ffn_up", Normed(l, "ffn_norm", ms[i]))]
           Ss == [i \in 1..n |-> <<"swiglu", Mul(l, "ffn_gate", Normed(l, "ffn_norm", ms[i])),
                                             Mul(l, "ffn_up", Normed(l, "ffn_norm", ms[i]))>>]
           Ds == [i \in 1..n |-> Gated(l, ms[i])]
           Xs == [i \in 1..n |-> <<"add", ms[i], Gated(l, ms[i])>>]
           Holds(d, k) == FeedForwardHolds(d, l, k, ms, n)
<1>0. ASSUME NEW d
      PROVE  /\ Holds(d, 12) <=> d["x"] = Ms
             /\ Holds(d, 13) <=> d["x"] = Ms /\ d["s1"] = Ns
             /\ Holds(d, 14) <=> d["x"] = Ms /\ d["s1"] = Ns /\ d["s2"] = Gs
             /\ Holds(d, 15) <=> d["x"] = Ms /\ d["s1"] = Ns /\ d["s2"] = Gs /\ d["s3"] = Us
             /\ Holds(d, 16) <=> d["x"] = Ms /\ d["s1"] = Ns /\ d["s2"] = Ss
             /\ Holds(d, 17) <=> d["x"] = Ms /\ d["s1"] = Ds
             /\ Holds(d, 18) <=> d["x"] = Xs
  <2> HIDE DEF Ms, Ns, Gs, Us, Ss, Ds, Xs
  <2> QED BY DEF FeedForwardHolds, Ms, Ns, Gs, Us, Ss, Ds, Xs
<1>12. ASSUME Holds(b, 12)
      PROVE  Holds(Put(b, "s1", WithWeight(b, l, "norm", <<"f32", "ffn_norm">>, "x", n)), 13)
  <2>1. b["x"] = Ms
    BY <1>0, <1>12
  <2>2. WithWeight(b, l, "norm", <<"f32", "ffn_norm">>, "x", n) = Ns
    BY <2>1 DEF Normed, WithWeight, OfTwo, Turned
  <2> HIDE DEF Holds, Ms, Ns, Gs, Us, Ss, Ds, Xs
  <2> QED BY <1>0, <1>12, <2>2 DEF Put, Names
<1>13. ASSUME Holds(b, 13)
      PROVE  Holds(Put(b, "s2", WithWeight(b, l, "matmul", <<"q8_0", "ffn_gate">>, "s1", n)), 14)
  <2>1. b["s1"] = Ns
    BY <1>0, <1>13
  <2>2. WithWeight(b, l, "matmul", <<"q8_0", "ffn_gate">>, "s1", n) = Gs
    BY <2>1 DEF Mul, WithWeight, OfTwo, Turned
  <2> HIDE DEF Holds, Ms, Ns, Gs, Us, Ss, Ds, Xs
  <2> QED BY <1>0, <1>13, <2>2 DEF Put, Names
<1>14. ASSUME Holds(b, 14)
      PROVE  Holds(Put(b, "s3", WithWeight(b, l, "matmul", <<"q8_0", "ffn_up">>, "s1", n)), 15)
  <2>1. b["s1"] = Ns
    BY <1>0, <1>14
  <2>2. WithWeight(b, l, "matmul", <<"q8_0", "ffn_up">>, "s1", n) = Us
    BY <2>1 DEF Mul, WithWeight, OfTwo, Turned
  <2> HIDE DEF Holds, Ms, Ns, Gs, Us, Ss, Ds, Xs
  <2> QED BY <1>0, <1>14, <2>2 DEF Put, Names
<1>15. ASSUME Holds(b, 15)
      PROVE  Holds(Put(b, "s2", OfTwo(b, "swiglu", "s2", "s3", n)), 16)
  <2>1. b["s2"] = Gs /\ b["s3"] = Us
    BY <1>0, <1>15
  <2>2. OfTwo(b, "swiglu", "s2", "s3", n) = Ss
    BY <2>1 DEF Mul, WithWeight, OfTwo, Turned
  <2> HIDE DEF Holds, Ms, Ns, Gs, Us, Ss, Ds, Xs
  <2> QED BY <1>0, <1>15, <2>2 DEF Put, Names
<1>16. ASSUME Holds(b, 16)
      PROVE  Holds(Put(b, "s1", WithWeight(b, l, "matmul", <<"q8_0", "ffn_down">>, "s2", n)), 17)
  <2>1. b["s2"] = Ss
    BY <1>0, <1>16
  <2>2. WithWeight(b, l, "matmul", <<"q8_0", "ffn_down">>, "s2", n) = Ds
    BY <2>1 DEF Gated, Mul, WithWeight, OfTwo, Turned
  <2> HIDE DEF Holds, Ms, Ns, Gs, Us, Ss, Ds, Xs
  <2> QED BY <1>0, <1>16, <2>2 DEF Put, Names
<1>17. ASSUME Holds(b, 17)
      PROVE  Holds(Put(b, "x", OfTwo(b, "add", "x", "s1", n)), 18)
  <2>1. b["x"] = Ms /\ b["s1"] = Ds
    BY <1>0, <1>17
  <2>2. OfTwo(b, "add", "x", "s1", n) = Xs
    BY <2>1 DEF Gated, WithWeight, OfTwo, Turned
  <2> HIDE DEF Holds, Ms, Ns, Gs, Us, Ss, Ds, Xs
  <2> QED BY <1>0, <1>17, <2>2 DEF Put, Names
<1> QED BY <1>12, <1>13, <1>14, <1>15, <1>16, <1>17

-----------------------------------------------------------------------------
(* A block, one kernel call after the other.                               *)

\* Which calls each action makes.
LEMMA CallsAt ==
  /\ AtCall({"norm", "matmul", "add", "swiglu"}) => call \in {1, 2, 3, 7, 10, 11, 12, 13, 14, 15, 16, 17}
  /\ AtCall({"rope"}) => call \in {4, 5}
  /\ AtCall({"write"}) => call \in {6, 8}
  /\ AtCall({"attend"}) => call = 9
<1> SUFFICES ASSUME InBlock
             PROVE  /\ Now.kernel \in {"norm", "matmul", "add", "swiglu"} => call \notin {4, 5, 6, 8, 9}
                    /\ Now.kernel = "rope" => call \in {4, 5}
                    /\ Now.kernel = "write" => call \in {6, 8}
                    /\ Now.kernel = "attend" => call = 9
  <2>1. InBlock => call \in 1..17
    BY ProgramCalls DEF InBlock
  <2> QED BY <2>1 DEF AtCall
<1>1. call \in 1..17
  BY ProgramCalls DEF InBlock
<1>2. Program[1].kernel = "norm" /\ Program[12].kernel = "norm"
  BY DEF Program, Call
<1>3. Program[2].kernel = "matmul" /\ Program[3].kernel = "matmul" /\ Program[7].kernel = "matmul" /\ Program[10].kernel = "matmul" /\ Program[13].kernel = "matmul" /\ Program[14].kernel = "matmul" /\ Program[16].kernel = "matmul"
  BY DEF Program, Call
<1>4. Program[4].kernel = "rope" /\ Program[5].kernel = "rope"
  BY DEF Program, Call
<1>5. Program[6].kernel = "write" /\ Program[8].kernel = "write"
  BY DEF Program, Call
<1>6. Program[9].kernel = "attend"
  BY DEF Program, Call
<1>7. Program[11].kernel = "add" /\ Program[17].kernel = "add"
  BY DEF Program, Call
<1>8. Program[15].kernel = "swiglu"
  BY DEF Program, Call
<1> QED BY <1>1, <1>2, <1>3, <1>4, <1>5, <1>6, <1>7, <1>8 DEF Now

\* Where the call is claimed for, and what is at hand there.
LEMMA Ready ==
  ASSUME LlamaTyped, Claimed
  PROVE  /\ query.places = "own" /\ query.conf # "other" /\ Blocks = Depth
         /\ Units = Zone(cfg) /\ cfg \in Setups
         /\ Len(toks) \in Nat /\ kvPos \in Nat /\ Len(toks) - kvPos \in Nat
         /\ Current = 1..(Len(toks) - kvPos)
         /\ Depth \in Nat \ {0} /\ Slots \in Nat /\ Len(toks) <= Slots
         /\ Wide(cfg) * Len(toks) <= Slots \/ cfg.again
<1>1. query.conf # "other" /\ query.places = "own"
  BY DEF LlamaTyped, Loads, Claimed
<1>2. Blocks = Depth /\ Units = Zone(cfg)
  BY <1>1, UnitIsPlace DEF Claimed
<1>3. Len(toks) \in Nat /\ Len(toks) <= Slots /\ kvPos \in 0..Len(toks)
  BY DEF LlamaTyped
<1>4. CASE cfg.f16
  <2>1. Wide(cfg) = 1
    BY <1>4 DEF Wide
  <2>2. Wide(cfg) * Len(toks) <= Slots
    BY <1>3, <2>1
  <2> QED BY <1>1, <1>2, <1>3, <2>2, LlamaAssumption DEF LlamaTyped, Current
<1>5. CASE ~cfg.f16
  <2>1. Wide(cfg) = 2
    BY <1>5 DEF Wide
  <2>2. Wide(cfg) * Len(toks) <= Slots \/ cfg.again
    BY <1>3, <1>5, <2>1 DEF Claimed
  <2> QED BY <1>1, <1>2, <1>3, <2>2, LlamaAssumption DEF LlamaTyped, Current
<1> QED BY <1>4, <1>5

\* A call that puts a buffer leaves the shape of the state as it was.
LEMMA StillAtBlock ==
  ASSUME AtBlock, block \in 1..Depth, call \in 1..17, Depth \in Nat,
         NEW to \in Names, NEW f, buf' = Put(buf, to, f),
         call' = call + 1, UNCHANGED <<block, caches>>
  PROVE  AtBlock'
<1>1. DOMAIN buf' = Names /\ buf' = [b \in Names |-> buf'[b]]
  BY DEF Put
<1>2. block' \in 1..(Depth + 1) /\ call' \in 1..18 /\ block' # Depth + 1
  OBVIOUS
<1> QED BY <1>1, <1>2 DEF AtBlock

\* The calls that work on each token by itself.
LEMMA KernelKeeps ==
  ASSUME LlamaTyped, Claimed, AtBlock, Kernel, NEW l, l = block, NEW xs,
         BlockHolds(buf, cfg, l, call, xs, kvPos, Len(toks) - kvPos)
  PROVE  AtBlock' /\ BlockHolds(buf', cfg, l, call + 1, xs, kvPos, Len(toks) - kvPos)
<1> DEFINE n == Len(toks) - kvPos
           Goal(k) == AtBlock' /\ BlockHolds(buf', cfg, l, k, xs, kvPos, n)
<1>1. /\ query.places = "own" /\ Blocks = Depth /\ Depth \in Nat \ {0}
      /\ n \in Nat /\ kvPos \in Nat /\ Current = 1..n
  BY Ready
<1>2. /\ block \in 1..Depth /\ call \in {1, 2, 3, 7, 10, 11, 12, 13, 14, 15, 16, 17}
      /\ call' = call + 1 /\ UNCHANGED <<block, caches>>
  BY <1>1, CallsAt DEF Kernel, AtCall, InBlock
<1>3. /\ \A k \in 1..11 : \A b : BlockHolds(b, cfg, l, k, xs, kvPos, n)
                                 <=> AttentionHolds(b, cfg, l, k, xs, kvPos, n)
      /\ \A k \in 12..18 : \A b : BlockHolds(b, cfg, l, k, xs, kvPos, n)
                                 <=> FeedForwardHolds(b, l, k, Middles(cfg, l, xs, kvPos, n), n)
  BY TwoHalves
<1> DEFINE ms == Middles(cfg, l, xs, kvPos, n)
<1>4. /\ \A k \in 1..11 : call = k => AttentionHolds(buf, cfg, l, k, xs, kvPos, n)
      /\ \A k \in 12..17 : call = k => FeedForwardHolds(buf, l, k, ms, n)
  BY <1>2, <1>3
<1>5. ASSUME NEW to \in Names, NEW f, buf' = Put(buf, to, f) PROVE AtBlock'
  BY <1>1, <1>2, <1>5, StillAtBlock
<1> HIDE DEF n, ms
<1>11. CASE call = 1
  <2>1. Now = Call("norm", "attn_norm_w", <<"x">>, "s1")
    BY <1>11, ProgramCalls DEF Now
  <2>2. buf' = Put(buf, "s1", [i \in Current |-> <<"norm", LayerWeight(block, "attn_norm_w"), buf["x"][i]>>])
    BY <2>1, OneOperand DEF Names
  <2>3. buf' = Put(buf, "s1", WithWeight(buf, l, "norm", <<"f32", "attn_norm">>, "x", n))
    BY <1>1, <2>2, OwnWeights DEF WithWeight
  <2>4. AttentionHolds(buf', cfg, l, 2, xs, kvPos, n)
    BY <1>1, <1>4, <1>11, <2>3, FirstHalf
  <2>5. AtBlock'
    BY <1>5, <2>3 DEF Names
  <2> QED BY <1>3, <1>11, <2>4, <2>5 DEF ms, n
<1>12. CASE call = 2
  <2>1. Now = Call("matmul", "w_q", <<"s1">>, "s2")
    BY <1>12, ProgramCalls DEF Now
  <2>2. buf' = Put(buf, "s2", [i \in Current |-> <<"matmul", LayerWeight(block, "w_q"), buf["s1"][i]>>])
    BY <2>1, OneOperand DEF Names
  <2>3. buf' = Put(buf, "s2", WithWeight(buf, l, "matmul", <<"q8_0", "attn_q">>, "s1", n))
    BY <1>1, <2>2, OwnWeights DEF WithWeight
  <2>4. AttentionHolds(buf', cfg, l, 3, xs, kvPos, n)
    BY <1>1, <1>4, <1>12, <2>3, FirstHalf
  <2>5. AtBlock'
    BY <1>5, <2>3 DEF Names
  <2> QED BY <1>3, <1>12, <2>4, <2>5 DEF ms, n
<1>13. CASE call = 3
  <2>1. Now = Call("matmul", "w_k", <<"s1">>, "s3")
    BY <1>13, ProgramCalls DEF Now
  <2>2. buf' = Put(buf, "s3", [i \in Current |-> <<"matmul", LayerWeight(block, "w_k"), buf["s1"][i]>>])
    BY <2>1, OneOperand DEF Names
  <2>3. buf' = Put(buf, "s3", WithWeight(buf, l, "matmul", <<"q8_0", "attn_k">>, "s1", n))
    BY <1>1, <2>2, OwnWeights DEF WithWeight
  <2>4. AttentionHolds(buf', cfg, l, 4, xs, kvPos, n)
    BY <1>1, <1>4, <1>13, <2>3, FirstHalf
  <2>5. AtBlock'
    BY <1>5, <2>3 DEF Names
  <2> QED BY <1>3, <1>13, <2>4, <2>5 DEF ms, n
<1>17. CASE call = 7
  <2>1. Now = Call("matmul", "w_v", <<"s1">>, "s3")
    BY <1>17, ProgramCalls DEF Now
  <2>2. buf' = Put(buf, "s3", [i \in Current |-> <<"matmul", LayerWeight(block, "w_v"), buf["s1"][i]>>])
    BY <2>1, OneOperand DEF Names
  <2>3. buf' = Put(buf, "s3", WithWeight(buf, l, "matmul", <<"q8_0", "attn_v">>, "s1", n))
    BY <1>1, <2>2, OwnWeights DEF WithWeight
  <2>4. AttentionHolds(buf', cfg, l, 8, xs, kvPos, n)
    BY <1>1, <1>4, <1>17, <2>3, FirstHalf
  <2>5. AtBlock'
    BY <1>5, <2>3 DEF Names
  <2> QED BY <1>3, <1>17, <2>4, <2>5 DEF ms, n
<1>20. CASE call = 10
  <2>1. Now = Call("matmul", "w_o", <<"s1">>, "s2")
    BY <1>20, ProgramCalls DEF Now
  <2>2. buf' = Put(buf, "s2", [i \in Current |-> <<"matmul", LayerWeight(block, "w_o"), buf["s1"][i]>>])
    BY <2>1, OneOperand DEF Names
  <2>3. buf' = Put(buf, "s2", WithWeight(buf, l, "matmul", <<"q8_0", "attn_output">>, "s1", n))
    BY <1>1, <2>2, OwnWeights DEF WithWeight
  <2>4. AttentionHolds(buf', cfg, l, 11, xs, kvPos, n)
    BY <1>1, <1>4, <1>20, <2>3, FirstHalf
  <2>5. AtBlock'
    BY <1>5, <2>3 DEF Names
  <2> QED BY <1>3, <1>20, <2>4, <2>5 DEF ms, n
<1>22. CASE call = 12
  <2>1. Now = Call("norm", "ffn_norm_w", <<"x">>, "s1")
    BY <1>22, ProgramCalls DEF Now
  <2>2. buf' = Put(buf, "s1", [i \in Current |-> <<"norm", LayerWeight(block, "ffn_norm_w"), buf["x"][i]>>])
    BY <2>1, OneOperand DEF Names
  <2>3. buf' = Put(buf, "s1", WithWeight(buf, l, "norm", <<"f32", "ffn_norm">>, "x", n))
    BY <1>1, <2>2, OwnWeights DEF WithWeight
  <2>4. FeedForwardHolds(buf', l, 13, ms, n)
    BY <1>1, <1>4, <1>22, <2>3, SecondHalf
  <2>5. AtBlock'
    BY <1>5, <2>3 DEF Names
  <2> QED BY <1>3, <1>22, <2>4, <2>5 DEF ms, n
<1>23. CASE call = 13
  <2>1. Now = Call("matmul", "w_gate", <<"s1">>, "s2")
    BY <1>23, ProgramCalls DEF Now
  <2>2. buf' = Put(buf, "s2", [i \in Current |-> <<"matmul", LayerWeight(block, "w_gate"), buf["s1"][i]>>])
    BY <2>1, OneOperand DEF Names
  <2>3. buf' = Put(buf, "s2", WithWeight(buf, l, "matmul", <<"q8_0", "ffn_gate">>, "s1", n))
    BY <1>1, <2>2, OwnWeights DEF WithWeight
  <2>4. FeedForwardHolds(buf', l, 14, ms, n)
    BY <1>1, <1>4, <1>23, <2>3, SecondHalf
  <2>5. AtBlock'
    BY <1>5, <2>3 DEF Names
  <2> QED BY <1>3, <1>23, <2>4, <2>5 DEF ms, n
<1>24. CASE call = 14
  <2>1. Now = Call("matmul", "w_up", <<"s1">>, "s3")
    BY <1>24, ProgramCalls DEF Now
  <2>2. buf' = Put(buf, "s3", [i \in Current |-> <<"matmul", LayerWeight(block, "w_up"), buf["s1"][i]>>])
    BY <2>1, OneOperand DEF Names
  <2>3. buf' = Put(buf, "s3", WithWeight(buf, l, "matmul", <<"q8_0", "ffn_up">>, "s1", n))
    BY <1>1, <2>2, OwnWeights DEF WithWeight
  <2>4. FeedForwardHolds(buf', l, 15, ms, n)
    BY <1>1, <1>4, <1>24, <2>3, SecondHalf
  <2>5. AtBlock'
    BY <1>5, <2>3 DEF Names
  <2> QED BY <1>3, <1>24, <2>4, <2>5 DEF ms, n
<1>26. CASE call = 16
  <2>1. Now = Call("matmul", "w_down", <<"s2">>, "s1")
    BY <1>26, ProgramCalls DEF Now
  <2>2. buf' = Put(buf, "s1", [i \in Current |-> <<"matmul", LayerWeight(block, "w_down"), buf["s2"][i]>>])
    BY <2>1, OneOperand DEF Names
  <2>3. buf' = Put(buf, "s1", WithWeight(buf, l, "matmul", <<"q8_0", "ffn_down">>, "s2", n))
    BY <1>1, <2>2, OwnWeights DEF WithWeight
  <2>4. FeedForwardHolds(buf', l, 17, ms, n)
    BY <1>1, <1>4, <1>26, <2>3, SecondHalf
  <2>5. AtBlock'
    BY <1>5, <2>3 DEF Names
  <2> QED BY <1>3, <1>26, <2>4, <2>5 DEF ms, n
<1>25. CASE call = 15
  <2>1. Now = Call("swiglu", "", <<"s2", "s3">>, "s2")
    BY <1>25, ProgramCalls DEF Now
  <2>2. buf' = Put(buf, "s2", [i \in Current |-> <<"swiglu", buf["s2"][i], buf["s3"][i]>>])
    BY <2>1, TwoOperands DEF Names
  <2>3. buf' = Put(buf, "s2", OfTwo(buf, "swiglu", "s2", "s3", n))
    BY <1>1, <2>2 DEF OfTwo
  <2>4. FeedForwardHolds(buf', l, 16, ms, n)
    BY <1>1, <1>4, <1>25, <2>3, SecondHalf
  <2>5. AtBlock'
    BY <1>5, <2>3 DEF Names
  <2> QED BY <1>3, <1>25, <2>4, <2>5 DEF ms, n
<1>27. CASE call = 17
  <2>1. Now = Call("add", "", <<"x", "s1">>, "x")
    BY <1>27, ProgramCalls DEF Now
  <2>2. buf' = Put(buf, "x", [i \in Current |-> <<"add", buf["x"][i], buf["s1"][i]>>])
    BY <2>1, TwoOperands DEF Names
  <2>3. buf' = Put(buf, "x", OfTwo(buf, "add", "x", "s1", n))
    BY <1>1, <2>2 DEF OfTwo
  <2>4. FeedForwardHolds(buf', l, 18, ms, n)
    BY <1>1, <1>4, <1>27, <2>3, SecondHalf
  <2>5. AtBlock'
    BY <1>5, <2>3 DEF Names
  <2> QED BY <1>3, <1>27, <2>4, <2>5 DEF ms, n
<1>21. CASE call = 11
  <2>1. Now = Call("add", "", <<"x", "s2">>, "x")
    BY <1>21, ProgramCalls DEF Now
  <2>2. buf' = Put(buf, "x", [i \in Current |-> <<"add", buf["x"][i], buf["s2"][i]>>])
    BY <2>1, TwoOperands DEF Names
  <2>3. buf' = Put(buf, "x", OfTwo(buf, "add", "x", "s2", n))
    BY <1>1, <2>2 DEF OfTwo
  <2>4. /\ buf["x"] = [i \in 1..n |-> xs[kvPos + i]]
        /\ buf["s2"] = [i \in 1..n |-> Mul(l, "attn_output", Attended(cfg, l, xs, kvPos + i))]
    BY <1>4, <1>21 DEF AttentionHolds
  <2>5. OfTwo(buf, "add", "x", "s2", n) = ms
    BY <2>4 DEF ms, Middles, Middle, OfTwo
  <2>6. ms = [i \in 1..n |-> ms[i]]
    BY DEF ms, Middles
  <2>7. buf'["x"] = [i \in 1..n |-> ms[i]]
    BY <2>3, <2>5, <2>6 DEF Put, Names
  <2>8. FeedForwardHolds(buf', l, 12, ms, n)
    BY <2>7 DEF FeedForwardHolds
  <2>9. AtBlock'
    BY <1>5, <2>3 DEF Names
  <2> QED BY <1>3, <1>21, <2>8, <2>9 DEF ms, n
<1> QED BY <1>2, <1>11, <1>12, <1>13, <1>17, <1>20, <1>21, <1>22, <1>23, <1>24, <1>25, <1>26, <1>27

\* Turning the queries and the keys.
LEMMA RopeKeeps ==
  ASSUME LlamaTyped, Claimed, AtBlock, RopeInPlace, NEW l, l = block, NEW xs,
         BlockHolds(buf, cfg, l, call, xs, kvPos, Len(toks) - kvPos)
  PROVE  AtBlock' /\ BlockHolds(buf', cfg, l, call + 1, xs, kvPos, Len(toks) - kvPos)
<1> DEFINE n == Len(toks) - kvPos
<1>1. /\ Blocks = Depth /\ Depth \in Nat \ {0}
      /\ n \in Nat /\ kvPos \in Nat /\ Current = 1..n
  BY Ready
<1>2. /\ block \in 1..Depth /\ call \in {4, 5}
      /\ call' = call + 1 /\ UNCHANGED <<block, caches>>
  BY <1>1, CallsAt DEF RopeInPlace, AtCall, InBlock
<1>3. \A k \in 1..11 : \A b : BlockHolds(b, cfg, l, k, xs, kvPos, n)
                             <=> AttentionHolds(b, cfg, l, k, xs, kvPos, n)
  BY TwoHalves
<1>4. \A k \in 4..5 : call = k => AttentionHolds(buf, cfg, l, k, xs, kvPos, n)
  BY <1>2, <1>3
<1>5. ASSUME NEW to \in Names, NEW f, buf' = Put(buf, to, f) PROVE AtBlock'
  BY <1>1, <1>2, <1>5, StillAtBlock
<1>6. buf' = [buf EXCEPT ![Now.to] = [i \in Current |-> <<"rope", kvPos + i - 1, buf[Now.from[1]][i]>>]]
  BY DEF RopeInPlace
<1> HIDE DEF n
<1>7. CASE call = 4
  <2>1. Now.to = "s2" /\ Now.from[1] = "s2"
    BY <1>7 DEF Now, Program, Call
  <2>2. buf' = Put(buf, "s2", Turned(buf, "s2", kvPos, n))
    BY <1>1, <1>6, <2>1 DEF AtBlock, Put, Names, Turned
  <2>3. AttentionHolds(buf', cfg, l, 5, xs, kvPos, n)
    BY <1>1, <1>4, <1>7, <2>2, FirstHalf
  <2>4. AtBlock'
    BY <1>5, <2>2 DEF Names
  <2> QED BY <1>3, <1>7, <2>3, <2>4 DEF n
<1>8. CASE call = 5
  <2>1. Now.to = "s3" /\ Now.from[1] = "s3"
    BY <1>8 DEF Now, Program, Call
  <2>2. buf' = Put(buf, "s3", Turned(buf, "s3", kvPos, n))
    BY <1>1, <1>6, <2>1 DEF AtBlock, Put, Names, Turned
  <2>3. AttentionHolds(buf', cfg, l, 6, xs, kvPos, n)
    BY <1>1, <1>4, <1>8, <2>2, FirstHalf
  <2>4. AtBlock'
    BY <1>5, <2>2 DEF Names
  <2> QED BY <1>3, <1>8, <2>3, <2>4 DEF n
<1> QED BY <1>2, <1>7, <1>8

\* Rows that were there stay, and those of the batch come to them.
LEMMA RowsGrow ==
  ASSUME LlamaTyped, Claimed, NEW m, DOMAIN m = Zone(cfg), NEW l \in 1..Depth, NEW xs,
         NEW terms, DOMAIN terms = 1..(Len(toks) - kvPos)
  PROVE  /\ /\ KeysHeld(m, cfg, l, xs, kvPos)
            /\ \A t \in DOMAIN terms :
                 Cached(cfg, terms[t]) = Key(cfg, l, xs[kvPos + t], kvPos + t - 1)
            => KeysHeld(RowsWritten(m, l, terms), cfg, l, xs, Len(toks))
         /\ /\ ValuesHeld(m, cfg, l, xs, kvPos)
            /\ \A t \in DOMAIN terms : Cached(cfg, terms[t]) = Value(cfg, l, xs[kvPos + t])
            => ValuesHeld(RowsWritten(m, l, terms), cfg, l, xs, Len(toks))
<1> DEFINE new == RowsWritten(m, l, terms)
           len == Len(toks)
           W == 0..(Wide(cfg) - 1)
<1>1. /\ cfg \in Setups /\ len \in Nat /\ kvPos \in Nat /\ len - kvPos \in Nat /\ len <= Slots
      /\ Slots \in Nat /\ Depth \in Nat \ {0} /\ cfg.peer # "other"
  BY Ready DEF Claimed
<1>2. /\ \A t \in DOMAIN terms : \A j \in W :
           new[Place(cfg, l, kvPos + t - 1, j)] = <<Cached(cfg, terms[t]), j>>
      /\ \A u \in Zone(cfg) :
           (\A p \in kvPos..(len - 1) : \A j \in W : u # Place(cfg, l, p, j)) => new[u] = m[u]
  BY <1>1, WrittenRows
<1> HIDE DEF new, len
<1>3. ASSUME NEW p \in 0..(kvPos - 1), NEW j \in W
      PROVE  new[Place(cfg, l, p, j)] = m[Place(cfg, l, p, j)]
  <2>1. Place(cfg, l, p, j) \in Zone(cfg)
    <3>1. p \in 0..(Slots - 1)
      BY <1>1
    <3> QED BY <1>1, <3>1, InZone
  <2>2. ASSUME NEW q \in kvPos..(len - 1), NEW i \in W PROVE Place(cfg, l, p, j) # Place(cfg, l, q, i)
    <3>1. p # q /\ p \in Nat /\ q \in Nat /\ l \in Nat \ {0}
      BY <1>1
    <3> QED BY <1>1, <3>1, SameLayer
  <2> QED BY <1>2, <2>1, <2>2
<1>4. ASSUME NEW p \in 0..(len - 1), p >= kvPos
      PROVE  p - kvPos + 1 \in DOMAIN terms /\ kvPos + (p - kvPos + 1) - 1 = p /\ kvPos + (p - kvPos + 1) = p + 1
  BY <1>1, <1>4 DEF len
<1>5. ASSUME KeysHeld(m, cfg, l, xs, kvPos),
             \A t \in DOMAIN terms : Cached(cfg, terms[t]) = Key(cfg, l, xs[kvPos + t], kvPos + t - 1)
      PROVE  KeysHeld(new, cfg, l, xs, len)
  <2> SUFFICES ASSUME NEW p \in 0..(len - 1), NEW j \in W
               PROVE  new[Place(cfg, l, p, j)] = <<Key(cfg, l, xs[p + 1], p), j>>
    BY DEF KeysHeld
  <2>1. CASE p < kvPos
    <3>1. p \in 0..(kvPos - 1)
      BY <1>1, <2>1
    <3>2. m[Place(cfg, l, p, j)] = <<Key(cfg, l, xs[p + 1], p), j>>
      BY <1>5, <3>1 DEF KeysHeld
    <3> QED BY <1>3, <3>1, <3>2
  <2>2. CASE p >= kvPos
    <3>1. new[Place(cfg, l, p, j)] = <<Cached(cfg, terms[p - kvPos + 1]), j>>
      BY <1>2, <1>4, <2>2
    <3>2. Cached(cfg, terms[p - kvPos + 1]) = Key(cfg, l, xs[p + 1], p)
      BY <1>4, <1>5, <2>2
    <3> QED BY <3>1, <3>2
  <2> QED BY <1>1, <2>1, <2>2
<1>6. ASSUME ValuesHeld(m, cfg, l, xs, kvPos),
             \A t \in DOMAIN terms : Cached(cfg, terms[t]) = Value(cfg, l, xs[kvPos + t])
      PROVE  ValuesHeld(new, cfg, l, xs, len)
  <2> SUFFICES ASSUME NEW p \in 0..(len - 1), NEW j \in W
               PROVE  new[Place(cfg, l, p, j)] = <<Value(cfg, l, xs[p + 1]), j>>
    BY DEF ValuesHeld
  <2>1. CASE p < kvPos
    <3>1. p \in 0..(kvPos - 1)
      BY <1>1, <2>1
    <3>2. m[Place(cfg, l, p, j)] = <<Value(cfg, l, xs[p + 1]), j>>
      BY <1>6, <3>1 DEF ValuesHeld
    <3> QED BY <1>3, <3>1, <3>2
  <2>2. CASE p >= kvPos
    <3>1. new[Place(cfg, l, p, j)] = <<Cached(cfg, terms[p - kvPos + 1]), j>>
      BY <1>2, <1>4, <2>2
    <3>2. Cached(cfg, terms[p - kvPos + 1]) = Value(cfg, l, xs[p + 1])
      BY <1>4, <1>6, <2>2
    <3> QED BY <3>1, <3>2
  <2> QED BY <1>1, <2>1, <2>2
<1> QED BY <1>5, <1>6 DEF new, len

\* Rows of the other layers stay where those of the sequence do not reach them.
LEMMA OthersStay ==
  ASSUME LlamaTyped, Claimed, ~cfg.again, NEW m, DOMAIN m = Zone(cfg), NEW l \in 1..Depth,
         NEW terms, DOMAIN terms = 1..(Len(toks) - kvPos),
         NEW b \in 1..Depth, b # l, NEW ys, NEW k \in 0..Len(toks)
  PROVE  /\ KeysHeld(m, cfg, b, ys, k) => KeysHeld(RowsWritten(m, l, terms), cfg, b, ys, k)
         /\ ValuesHeld(m, cfg, b, ys, k) => ValuesHeld(RowsWritten(m, l, terms), cfg, b, ys, k)
<1> DEFINE new == RowsWritten(m, l, terms)
           len == Len(toks)
           W == 0..(Wide(cfg) - 1)
<1>1. /\ cfg \in Setups /\ len \in Nat /\ kvPos \in Nat /\ len <= Slots
      /\ Slots \in Nat /\ Depth \in Nat \ {0} /\ cfg.peer # "other" /\ Wide(cfg) * len <= Slots
  BY Ready DEF Claimed
<1>2. \A u \in Zone(cfg) :
        (\A p \in kvPos..(len - 1) : \A j \in W : u # Place(cfg, l, p, j)) => new[u] = m[u]
  BY <1>1, WrittenRows
<1> HIDE DEF new, len
<1>3. ASSUME NEW p \in 0..(k - 1), NEW j \in W
      PROVE  new[Place(cfg, b, p, j)] = m[Place(cfg, b, p, j)]
  <2>1. p \in 0..(len - 1) /\ p \in 0..(Slots - 1)
    BY <1>1 DEF len
  <2>2. Place(cfg, b, p, j) \in Zone(cfg)
    BY <1>1, <2>1, InZone
  <2>3. ASSUME NEW q \in kvPos..(len - 1), NEW i \in W PROVE Place(cfg, b, p, j) # Place(cfg, l, q, i)
    <3>1. q \in 0..(len - 1) /\ l \in Nat \ {0} /\ b \in Nat \ {0}
      BY <1>1
    <3> QED BY <1>1, <2>1, <3>1, OtherLayer
  <2> QED BY <1>2, <2>2, <2>3
<1> QED BY <1>3 DEF KeysHeld, ValuesHeld, new

\* The caches stay as they are at a call that does not write them.
LEMMA CachesThrough ==
  ASSUME NEW ks, NEW vs, NEW c, NEW h, NEW l, NEW k \in 1..17, k \notin {6, 8}, NEW p, NEW len,
         CachesHold(ks, vs, c, h, l, k, p, len)
  PROVE  CachesHold(ks, vs, c, h, l, k + 1, p, len)
<1>1. (k <= 6 <=> k + 1 <= 6) /\ (k <= 8 <=> k + 1 <= 8) /\ (k > 6 <=> k + 1 > 6) /\ (k > 8 <=> k + 1 > 8)
  OBVIOUS
<1> QED BY <1>1 DEF CachesHold

\* A call that puts a buffer.
LEMMA BufferStep ==
  ASSUME LlamaTyped, Claimed, NEW h, HoldsAll(h), InBlock, call \notin {6, 8}, AtBlock',
         NEW l, l = block,
         BlockHolds(buf', cfg, l, call + 1, h[l - 1], kvPos, Len(toks) - kvPos),
         call' = call + 1, UNCHANGED <<cfg, query, toks, kvPos, block, caches>>
  PROVE  HoldsAll(h)'
<1>1. /\ block \in 1..Depth /\ call \in 1..17 /\ Depth \in Nat \ {0}
  BY Ready, ProgramCalls DEF InBlock
<1>2. CachesHold(caches["k"], caches["v"], cfg, h, block, call, kvPos, Len(toks))
  BY DEF HoldsAll
<1>3. CachesHold(caches["k"], caches["v"], cfg, h, block, call + 1, kvPos, Len(toks))
  BY <1>1, <1>2, CachesThrough
<1>4. block' # Depth + 1
  BY <1>1
<1> QED BY <1>3, <1>4 DEF HoldsAll

LEMMA KernelStep ==
  ASSUME LlamaTyped, Claimed, NEW h, HoldsAll(h), Kernel
  PROVE  HoldsAll(h)'
<1>1. InBlock /\ call \notin {6, 8} /\ call' = call + 1 /\ UNCHANGED <<cfg, query, toks, kvPos, block, caches>>
  BY CallsAt DEF Kernel, AtCall
<1>2. block \in 1..Depth /\ Depth \in Nat
  BY <1>1, Ready DEF InBlock
<1>3. PICK l : l = block
  OBVIOUS
<1>4. BlockHolds(buf, cfg, l, call, h[l - 1], kvPos, Len(toks) - kvPos)
  BY <1>2, <1>3 DEF HoldsAll
<1>5. AtBlock
  BY DEF HoldsAll
<1>6. AtBlock' /\ BlockHolds(buf', cfg, l, call + 1, h[l - 1], kvPos, Len(toks) - kvPos)
  BY <1>3, <1>4, <1>5, KernelKeeps
<1> QED BY <1>1, <1>3, <1>6, BufferStep

LEMMA RopeStep ==
  ASSUME LlamaTyped, Claimed, NEW h, HoldsAll(h), RopeInPlace
  PROVE  HoldsAll(h)'
<1>1. InBlock /\ call \notin {6, 8} /\ call' = call + 1 /\ UNCHANGED <<cfg, query, toks, kvPos, block, caches>>
  BY CallsAt DEF RopeInPlace, AtCall
<1>2. block \in 1..Depth /\ Depth \in Nat
  BY <1>1, Ready DEF InBlock
<1>3. PICK l : l = block
  OBVIOUS
<1>4. BlockHolds(buf, cfg, l, call, h[l - 1], kvPos, Len(toks) - kvPos)
  BY <1>2, <1>3 DEF HoldsAll
<1>5. AtBlock
  BY DEF HoldsAll
<1>6. AtBlock' /\ BlockHolds(buf', cfg, l, call + 1, h[l - 1], kvPos, Len(toks) - kvPos)
  BY <1>3, <1>4, <1>5, RopeKeeps
<1> QED BY <1>1, <1>3, <1>6, BufferStep

\* Attention over the rows that are there.
LEMMA AttendStep ==
  ASSUME LlamaTyped, Claimed, NEW h, HoldsAll(h), AttendRows
  PROVE  HoldsAll(h)'
<1> DEFINE n == Len(toks) - kvPos
<1>1. /\ InBlock /\ call = 9 /\ call \notin {6, 8} /\ call' = call + 1
      /\ UNCHANGED <<cfg, query, toks, kvPos, block, caches>>
  BY CallsAt DEF AttendRows, AtCall
<1>2. /\ block \in 1..Depth /\ Depth \in Nat /\ n \in Nat /\ kvPos \in Nat /\ Current = 1..n
      /\ Len(toks) \in Nat /\ cfg.peer # "other"
  BY <1>1, Ready DEF InBlock, Claimed
<1>3. PICK l : l = block
  OBVIOUS
<1>4. PICK xs : xs = h[l - 1]
  OBVIOUS
<1>5. /\ KeysHeld(caches["k"], cfg, l, xs, Len(toks))
      /\ ValuesHeld(caches["v"], cfg, l, xs, Len(toks))
      /\ BlockHolds(buf, cfg, l, 9, xs, kvPos, n)
      /\ AtBlock
  BY <1>1, <1>2, <1>3, <1>4 DEF HoldsAll, CachesHold
<1>6. AttentionHolds(buf, cfg, l, 9, xs, kvPos, n)
  BY <1>5 DEF BlockHolds
<1>7. /\ buf["x"] = [i \in 1..n |-> xs[kvPos + i]]
      /\ buf["s2"] = [i \in 1..n |-> Query(l, xs[kvPos + i], kvPos + i - 1)]
  BY <1>6 DEF AttentionHolds
<1>8. Base(l) \in Nat
  BY <1>2, <1>3, BaseStep
<1>9. ASSUME NEW p \in 0..(Len(toks) - 1)
      PROVE  Row(caches.k, l, p) = Key(cfg, l, xs[p + 1], p) /\ Row(caches.v, l, p) = Value(cfg, l, xs[p + 1])
  <2>1. RowIs(caches.k, cfg, l, p, Key(cfg, l, xs[p + 1], p))
    BY <1>5 DEF KeysHeld, RowIs
  <2>2. RowIs(caches.v, cfg, l, p, Value(cfg, l, xs[p + 1]))
    BY <1>5 DEF ValuesHeld, RowIs
  <2>3. p \in Nat
    BY <1>2
  <2>4. Row(caches.k, l, p) = Key(cfg, l, xs[p + 1], p)
    BY <1>2, <1>8, <2>1, <2>3, RowThere
  <2>5. Row(caches.v, l, p) = Value(cfg, l, xs[p + 1])
    BY <1>2, <1>8, <2>2, <2>3, RowThere
  <2> QED BY <2>4, <2>5
<1> DEFINE got(i) == [p \in 0..(kvPos + i - 1) |-> <<Row(caches.k, block, p), Row(caches.v, block, p)>>]
           new == [i \in 1..n |-> <<"attend", buf["s2"][i], got(i)>>]
<1>10. ASSUME NEW i \in 1..n PROVE <<"attend", buf["s2"][i], got(i)>> = Attended(cfg, l, xs, kvPos + i)
  <2>1. ASSUME NEW p \in 0..(kvPos + i - 1)
        PROVE  <<Row(caches.k, block, p), Row(caches.v, block, p)>>
               = <<Key(cfg, l, xs[p + 1], p), Value(cfg, l, xs[p + 1])>>
    <3>1. p \in 0..(Len(toks) - 1)
      BY <1>2
    <3> QED BY <1>3, <1>9, <3>1
  <2>2. got(i) = [p \in 0..((kvPos + i) - 1) |-> <<Key(cfg, l, xs[p + 1], p), Value(cfg, l, xs[p + 1])>>]
    BY <1>2, <2>1
  <2>3. buf["s2"][i] = Query(l, xs[kvPos + i], (kvPos + i) - 1)
    BY <1>2, <1>7
  <2> HIDE DEF got
  <2> QED BY <2>2, <2>3 DEF Attended
<1>11. new = [i \in 1..n |-> Attended(cfg, l, xs, kvPos + i)]
  <2> HIDE DEF got
  <2> QED BY <1>10
<1>12. Now.to = "s1" /\ Now.from[1] = "s2"
  BY <1>1 DEF Now, Program, Call
<1>13. buf' = [buf EXCEPT !["s1"] = new]
  BY <1>2, <1>12 DEF AttendRows
<1> HIDE DEF got, new, n
<1>14. buf' = Put(buf, "s1", new)
  BY <1>5, <1>13 DEF AtBlock, Put, Names
<1>15. buf'["s1"] = new /\ buf'["x"] = buf["x"]
  BY <1>14 DEF Put, Names
<1>16. AttentionHolds(buf', cfg, l, 10, xs, kvPos, n)
  BY <1>7, <1>11, <1>15 DEF AttentionHolds
<1>17. BlockHolds(buf', cfg, l, call + 1, xs, kvPos, n)
  BY <1>1, <1>16, TwoHalves
<1>18. AtBlock'
  <2>1. "s1" \in Names /\ call \in 1..17
    BY <1>1 DEF Names
  <2> QED BY <1>1, <1>2, <1>5, <1>14, <2>1, StillAtBlock
<1> QED BY <1>1, <1>3, <1>4, <1>17, <1>18, BufferStep DEF n

\* Of no rows, anything holds.
LEMMA NoRows ==
  ASSUME NEW m, NEW c, NEW l, NEW xs
  PROVE  KeysHeld(m, c, l, xs, 0) /\ ValuesHeld(m, c, l, xs, 0)
BY DEF KeysHeld, ValuesHeld

\* Writing the keys.
LEMMA KeysStep ==
  ASSUME LlamaTyped, Claimed, NEW h, HoldsAll(h), WriteCache, call = 6
  PROVE  HoldsAll(h)'
<1> DEFINE n == Len(toks) - kvPos
<1>1. InBlock /\ call' = 7 /\ UNCHANGED <<cfg, query, toks, kvPos, block, buf>>
  BY DEF WriteCache, AtCall
<1>2. /\ block \in 1..Depth /\ Depth \in Nat /\ n \in Nat /\ kvPos \in Nat /\ kvPos \in 0..Len(toks)
      /\ Len(toks) \in Nat /\ cfg.peer # "other" /\ (cfg.again => kvPos = 0)
  BY <1>1, Ready DEF InBlock, Claimed, LlamaTyped
<1>3. PICK l \in 1..Depth : l = block
  BY <1>2
<1>4. PICK xs : xs = h[l - 1]
  OBVIOUS
<1>5. PICK m : m = caches["k"]
  OBVIOUS
<1>6. PICK o : o = caches["v"]
  OBVIOUS
<1>7. /\ CachesHold(m, o, cfg, h, l, 6, kvPos, Len(toks))
      /\ BlockHolds(buf, cfg, l, 6, xs, kvPos, n)
      /\ AtBlock /\ DOMAIN m = Zone(cfg) /\ DOMAIN o = Zone(cfg)
  BY <1>2, <1>3, <1>4, <1>5, <1>6 DEF HoldsAll
<1>8. AttentionHolds(buf, cfg, l, 6, xs, kvPos, n)
  BY <1>7 DEF BlockHolds
<1> HIDE DEF n
<1>9. PICK terms : terms = buf["s3"]
  OBVIOUS
<1>10. terms = [i \in 1..n |-> <<"rope", kvPos + i - 1, Mul(l, "attn_k", Normed(l, "attn_norm", xs[kvPos + i]))>>]
  BY <1>8, <1>9 DEF AttentionHolds
<1>11. DOMAIN terms = 1..(Len(toks) - kvPos)
  BY <1>10 DEF n
<1>12. \A t \in DOMAIN terms : Cached(cfg, terms[t]) = Key(cfg, l, xs[kvPos + t], kvPos + t - 1)
  BY <1>10 DEF Key
<1>13. PICK new : new = RowsWritten(m, l, terms)
  OBVIOUS
<1>14. DOMAIN new = Zone(cfg)
  BY <1>2, <1>7, <1>11, <1>13, WrittenRows
<1>15. KeysHeld(new, cfg, l, xs, Len(toks))
  <2>1. KeysHeld(m, cfg, l, xs, kvPos)
    BY <1>3, <1>4, <1>7 DEF CachesHold
  <2> QED BY <1>7, <1>11, <1>12, <1>13, <2>1, RowsGrow
<1>16. ASSUME NEW b \in 1..Depth, b # l, NEW k \in 0..Len(toks), ~cfg.again,
              KeysHeld(m, cfg, b, h[b - 1], k)
       PROVE  KeysHeld(new, cfg, b, h[b - 1], k)
  BY <1>7, <1>11, <1>13, <1>16, OthersStay
<1>17. CachesHold(new, o, cfg, h, l, 7, kvPos, Len(toks))
  <2>1. ASSUME ~cfg.again, NEW b \in 1..(l - 1) PROVE RowsHeld(new, o, cfg, b, h[b - 1], Len(toks))
    <3>1. b \in 1..Depth /\ b # l /\ Len(toks) \in 0..Len(toks)
      BY <1>2
    <3>2. RowsHeld(m, o, cfg, b, h[b - 1], Len(toks))
      BY <1>7, <2>1 DEF CachesHold
    <3> QED BY <1>16, <2>1, <3>1, <3>2 DEF RowsHeld
  <2>2. ASSUME NEW b \in (l + 1)..Depth PROVE RowsHeld(new, o, cfg, b, h[b - 1], kvPos)
    <3>1. b \in 1..Depth /\ b # l
      BY <1>2
    <3>2. RowsHeld(m, o, cfg, b, h[b - 1], kvPos)
      BY <1>7 DEF CachesHold
    <3>3. CASE cfg.again
      BY <1>2, <3>3, NoRows DEF RowsHeld
    <3>4. CASE ~cfg.again
      BY <1>2, <1>16, <3>1, <3>2, <3>4 DEF RowsHeld
    <3> QED BY <3>3, <3>4
  <2>3. ValuesHeld(o, cfg, l, h[l - 1], kvPos)
    BY <1>3, <1>7 DEF CachesHold
  <2>4. KeysHeld(new, cfg, l, h[l - 1], Len(toks))
    BY <1>4, <1>15
  <2> QED BY <2>1, <2>2, <2>3, <2>4 DEF CachesHold
<1>18. Now.to = "k" /\ Now.from[1] = "s3"
  BY DEF Now, Program, Call
<1>19. caches' = [caches EXCEPT !["k"] = new]
  BY <1>3, <1>5, <1>9, <1>13, <1>18 DEF WriteCache
<1>20. /\ caches'["k"] = new /\ caches'["v"] = o /\ DOMAIN caches' = {"k", "v"}
       /\ caches' = [b \in {"k", "v"} |-> caches'[b]]
  BY <1>6, <1>7, <1>19 DEF AtBlock
<1>21. AtBlock'
  <2>1. DOMAIN buf' = Names /\ buf' = [b \in Names |-> buf'[b]]
    BY <1>1, <1>7 DEF AtBlock
  <2>2. block' \in 1..(Depth + 1) /\ call' \in 1..18 /\ block' # Depth + 1
    BY <1>1, <1>2
  <2> QED BY <1>20, <2>1, <2>2 DEF AtBlock
<1>22. BlockHolds(buf, cfg, l, 7, xs, kvPos, n)
  <2>1. AttentionHolds(buf, cfg, l, 6 + 1, xs, kvPos, n)
    BY <1>2, <1>8, FirstHalf
  <2> QED BY <2>1, TwoHalves
<1>23. block' # Depth + 1
  BY <1>1, <1>2
<1> QED BY <1>1, <1>3, <1>4, <1>7, <1>14, <1>17, <1>20, <1>21, <1>22, <1>23 DEF HoldsAll, n

\* Writing the values.
LEMMA ValuesStep ==
  ASSUME LlamaTyped, Claimed, NEW h, HoldsAll(h), WriteCache, call = 8
  PROVE  HoldsAll(h)'
<1> DEFINE n == Len(toks) - kvPos
<1>1. InBlock /\ call' = 9 /\ UNCHANGED <<cfg, query, toks, kvPos, block, buf>>
  BY DEF WriteCache, AtCall
<1>2. /\ block \in 1..Depth /\ Depth \in Nat /\ n \in Nat /\ kvPos \in Nat /\ kvPos \in 0..Len(toks)
      /\ Len(toks) \in Nat /\ cfg.peer # "other" /\ (cfg.again => kvPos = 0)
  BY <1>1, Ready DEF InBlock, Claimed, LlamaTyped
<1>3. PICK l \in 1..Depth : l = block
  BY <1>2
<1>4. PICK xs : xs = h[l - 1]
  OBVIOUS
<1>5. PICK m : m = caches["v"]
  OBVIOUS
<1>6. PICK o : o = caches["k"]
  OBVIOUS
<1>7. /\ CachesHold(o, m, cfg, h, l, 8, kvPos, Len(toks))
      /\ BlockHolds(buf, cfg, l, 8, xs, kvPos, n)
      /\ AtBlock /\ DOMAIN m = Zone(cfg) /\ DOMAIN o = Zone(cfg)
  BY <1>2, <1>3, <1>4, <1>5, <1>6 DEF HoldsAll
<1>8. AttentionHolds(buf, cfg, l, 8, xs, kvPos, n)
  BY <1>7 DEF BlockHolds
<1> HIDE DEF n
<1>9. PICK terms : terms = buf["s3"]
  OBVIOUS
<1>10. terms = [i \in 1..n |-> Mul(l, "attn_v", Normed(l, "attn_norm", xs[kvPos + i]))]
  BY <1>8, <1>9 DEF AttentionHolds
<1>11. DOMAIN terms = 1..(Len(toks) - kvPos)
  BY <1>10 DEF n
<1>12. \A t \in DOMAIN terms : Cached(cfg, terms[t]) = Value(cfg, l, xs[kvPos + t])
  BY <1>10 DEF Value
<1>13. PICK new : new = RowsWritten(m, l, terms)
  OBVIOUS
<1>14. DOMAIN new = Zone(cfg)
  BY <1>2, <1>7, <1>11, <1>13, WrittenRows
<1>15. ValuesHeld(new, cfg, l, xs, Len(toks))
  <2>1. ValuesHeld(m, cfg, l, xs, kvPos)
    BY <1>3, <1>4, <1>7 DEF CachesHold
  <2> QED BY <1>7, <1>11, <1>12, <1>13, <2>1, RowsGrow
<1>16. ASSUME NEW b \in 1..Depth, b # l, NEW k \in 0..Len(toks), ~cfg.again,
              ValuesHeld(m, cfg, b, h[b - 1], k)
       PROVE  ValuesHeld(new, cfg, b, h[b - 1], k)
  BY <1>7, <1>11, <1>13, <1>16, OthersStay
<1>17. CachesHold(o, new, cfg, h, l, 9, kvPos, Len(toks))
  <2>1. ASSUME ~cfg.again, NEW b \in 1..(l - 1) PROVE RowsHeld(o, new, cfg, b, h[b - 1], Len(toks))
    <3>1. b \in 1..Depth /\ b # l /\ Len(toks) \in 0..Len(toks)
      BY <1>2
    <3>2. RowsHeld(o, m, cfg, b, h[b - 1], Len(toks))
      BY <1>7, <2>1 DEF CachesHold
    <3> QED BY <1>16, <2>1, <3>1, <3>2 DEF RowsHeld
  <2>2. ASSUME NEW b \in (l + 1)..Depth PROVE RowsHeld(o, new, cfg, b, h[b - 1], kvPos)
    <3>1. b \in 1..Depth /\ b # l
      BY <1>2
    <3>2. RowsHeld(o, m, cfg, b, h[b - 1], kvPos)
      BY <1>7 DEF CachesHold
    <3>3. CASE cfg.again
      BY <1>2, <3>3, NoRows DEF RowsHeld
    <3>4. CASE ~cfg.again
      BY <1>2, <1>16, <3>1, <3>2, <3>4 DEF RowsHeld
    <3> QED BY <3>3, <3>4
  <2>3. KeysHeld(o, cfg, l, h[l - 1], Len(toks))
    BY <1>3, <1>7 DEF CachesHold
  <2>4. ValuesHeld(new, cfg, l, h[l - 1], Len(toks))
    BY <1>4, <1>15
  <2> QED BY <2>1, <2>2, <2>3, <2>4 DEF CachesHold
<1>18. Now.to = "v" /\ Now.from[1] = "s3"
  BY DEF Now, Program, Call
<1>19. caches' = [caches EXCEPT !["v"] = new]
  BY <1>3, <1>5, <1>9, <1>13, <1>18 DEF WriteCache
<1>20. /\ caches'["v"] = new /\ caches'["k"] = o /\ DOMAIN caches' = {"k", "v"}
       /\ caches' = [b \in {"k", "v"} |-> caches'[b]]
  BY <1>6, <1>7, <1>19 DEF AtBlock
<1>21. AtBlock'
  <2>1. DOMAIN buf' = Names /\ buf' = [b \in Names |-> buf'[b]]
    BY <1>1, <1>7 DEF AtBlock
  <2>2. block' \in 1..(Depth + 1) /\ call' \in 1..18 /\ block' # Depth + 1
    BY <1>1, <1>2
  <2> QED BY <1>20, <2>1, <2>2 DEF AtBlock
<1>22. BlockHolds(buf, cfg, l, 9, xs, kvPos, n)
  <2>1. AttentionHolds(buf, cfg, l, 8 + 1, xs, kvPos, n)
    BY <1>2, <1>8, FirstHalf
  <2> QED BY <2>1, TwoHalves
<1>23. block' # Depth + 1
  BY <1>1, <1>2
<1> QED BY <1>1, <1>3, <1>4, <1>7, <1>14, <1>17, <1>20, <1>21, <1>22, <1>23 DEF HoldsAll, n

-----------------------------------------------------------------------------
(* From block to block, and the head.                                      *)

LEMMA NextBlockStep ==
  ASSUME LlamaTyped, Claimed, NEW h, h = Hidden(cfg, toks), HoldsAll(h), NextBlock
  PROVE  HoldsAll(h)'
<1> DEFINE n == Len(toks) - kvPos
<1>0. Len(Program) = 17
  BY ProgramCalls
<1>1. /\ call = 18 /\ block \in 1..Blocks /\ block' = block + 1 /\ call' = 1
      /\ UNCHANGED <<cfg, query, toks, kvPos, buf, caches>>
  BY <1>0 DEF NextBlock
<1>2. /\ block \in 1..Depth /\ Depth \in Nat /\ n \in Nat /\ kvPos \in Nat /\ Len(toks) \in Nat
  BY <1>1, Ready
<1>3. PICK l \in 1..Depth : l = block
  BY <1>2
<1>4. PICK xs : xs = h[l - 1]
  OBVIOUS
<1>5. PICK ms : ms = Middles(cfg, l, xs, kvPos, n)
  OBVIOUS
<1>6. /\ AtBlock
      /\ CachesHold(caches["k"], caches["v"], cfg, h, l, 18, kvPos, Len(toks))
      /\ FeedForwardHolds(buf, l, 18, ms, n)
  BY <1>1, <1>3, <1>4, <1>5 DEF HoldsAll, BlockHolds
<1>7. buf["x"] = [i \in 1..n |-> <<"add", ms[i], Gated(l, ms[i])>>]
  BY <1>6 DEF FeedForwardHolds
<1>8. \A i \in 1..n : h[l][kvPos + i] = Above(cfg, l, xs, kvPos + i)
  <2>1. h[l] = Through(cfg, toks, l, xs)
    BY <1>4, HiddenLayers
  <2>2. DOMAIN toks = 1..Len(toks)
    BY DEF LlamaTyped
  <2>3. \A i \in 1..n : kvPos + i \in DOMAIN toks
    BY <1>2, <2>2
  <2> QED BY <2>1, <2>3 DEF Through
<1>9. \A i \in 1..n : ms[i] = Middle(cfg, l, xs, kvPos + i)
  BY <1>5 DEF Middles
<1> HIDE DEF n
<1>10. buf["x"] = [i \in 1..n |-> h[l][kvPos + i]]
  BY <1>7, <1>8, <1>9 DEF Above
<1>11. BlockHolds(buf, cfg, l + 1, 1, h[l], kvPos, n)
  BY <1>10 DEF BlockHolds, AttentionHolds, FeedForwardHolds
<1>12. l = Depth => HeadHolds(buf, cfg, 1, h[Depth], kvPos, n)
  BY <1>10 DEF HeadHolds
<1>13. CachesHold(caches["k"], caches["v"], cfg, h, l + 1, 1, kvPos, Len(toks))
  <2>1. RowsHeld(caches["k"], caches["v"], cfg, l, h[l - 1], Len(toks))
    BY <1>2, <1>6 DEF CachesHold, RowsHeld
  <2>2. ASSUME ~cfg.again, NEW b \in 1..l
        PROVE  RowsHeld(caches["k"], caches["v"], cfg, b, h[b - 1], Len(toks))
    <3>1. CASE b = l
      BY <2>1, <3>1
    <3>2. CASE b # l
      <4>1. b \in 1..(l - 1)
        BY <1>2, <3>2
      <4> QED BY <1>6, <2>2, <4>1 DEF CachesHold
    <3> QED BY <3>1, <3>2
  <2>3. \A b \in (l + 1)..Depth : RowsHeld(caches["k"], caches["v"], cfg, b, h[b - 1], kvPos)
    BY <1>6 DEF CachesHold
  <2>4. l + 1 <= Depth => RowsHeld(caches["k"], caches["v"], cfg, l + 1, h[(l + 1) - 1], kvPos)
    BY <1>2, <2>3
  <2>5. \A b \in ((l + 1) + 1)..Depth : b \in (l + 1)..Depth
    BY <1>2
  <2>6. (l + 1) - 1 = l /\ ~(1 > 6) /\ ~(1 > 8)
    BY <1>2
  <2> QED BY <2>2, <2>3, <2>4, <2>5, <2>6 DEF CachesHold, RowsHeld
<1>14. AtBlock'
  <2>1. block' \in 1..(Depth + 1) /\ call' \in 1..18 /\ call' \in 1..2
    BY <1>1, <1>2
  <2> QED BY <1>1, <1>6, <2>1 DEF AtBlock
<1>15. block' = l + 1 /\ block' - 1 = l /\ (block' = Depth + 1 => l = Depth)
  BY <1>1, <1>2, <1>3
<1>16. DOMAIN caches["k"] = Zone(cfg) /\ DOMAIN caches["v"] = Zone(cfg)
  BY DEF HoldsAll
<1> QED BY <1>1, <1>11, <1>12, <1>13, <1>14, <1>15, <1>16 DEF HoldsAll, n

LEMMA LogitsStep ==
  ASSUME LlamaTyped, Claimed, NEW h, HoldsAll(h), Logits
  PROVE  HoldsAll(h)'
<1> DEFINE n == Len(toks) - kvPos
<1>1. /\ block = Depth + 1 /\ call = 1 /\ call' = 2 /\ query.places = "own" /\ Current = 1..n
      /\ Depth \in Nat /\ UNCHANGED <<cfg, query, toks, kvPos, block, caches>>
  BY Ready DEF Logits
<1>2. /\ AtBlock
      /\ CachesHold(caches["k"], caches["v"], cfg, h, block, 1, kvPos, Len(toks))
      /\ HeadHolds(buf, cfg, 1, h[Depth], kvPos, n)
      /\ DOMAIN caches["k"] = Zone(cfg) /\ DOMAIN caches["v"] = Zone(cfg)
  BY <1>1 DEF HoldsAll
<1>3. buf["x"] = [i \in 1..n |-> h[Depth][kvPos + i]]
  BY <1>2 DEF HeadHolds
<1>4. OutputNormW = Own("f32", "output_norm")
  BY <1>1 DEF OutputNormW, ReadAs, Own
<1>5. OutputW = Own("q8_0", IF cfg.tied THEN "token_embd" ELSE "output")
  BY <1>1 DEF OutputW, TokenEmbd, ReadAs, Own
<1> DEFINE normed == [i \in Current |-> <<"norm", OutputNormW, buf.x[i]>>]
           last == [i \in Current |-> <<"matmul", OutputW, normed[i]>>]
<1>6. buf' = [buf EXCEPT !.s1 = normed, !.logits = last]
  BY DEF Logits
<1>7. last = [i \in 1..n |-> Scores(cfg, h[Depth][kvPos + i])]
  BY <1>1, <1>3, <1>4, <1>5 DEF Scores
<1> HIDE DEF normed, last, n
<1>8. DOMAIN buf' = Names /\ buf' = [b \in Names |-> buf'[b]] /\ buf'["logits"] = last
  BY <1>2, <1>6 DEF AtBlock, Names
<1>9. AtBlock'
  BY <1>1, <1>2, <1>8 DEF AtBlock
<1>10. HeadHolds(buf', cfg, 2, h[Depth], kvPos, n)
  BY <1>7, <1>8 DEF HeadHolds
<1>11. CachesHold(caches["k"], caches["v"], cfg, h, block, 2, kvPos, Len(toks))
  BY <1>2 DEF CachesHold
<1>12. ~ (block' <= Depth)
  BY <1>1
<1> QED BY <1>1, <1>2, <1>9, <1>10, <1>11, <1>12 DEF HoldsAll, n

-----------------------------------------------------------------------------
(* From call to call.                                                      *)

\* The buffers a call begins with.
LEMMA FreshHolds ==
  ASSUME query.places = "own", NEW seq \in Seq(Vocab), NEW from \in 0..Len(seq), NEW c
  PROVE  LET b == Fresh(seq, from)
         IN  /\ DOMAIN b = Names /\ b = [k \in Names |-> b[k]]
             /\ BlockHolds(b, c, 1, 1, Hidden(c, seq)[0], from, Len(seq) - from)
<1> DEFINE b == Fresh(seq, from)
           n == Len(seq) - from
<1>1. Hidden(c, seq)[0] = Embedded(seq)
  BY HiddenLayers
<1>2. Len(seq) \in Nat /\ DOMAIN seq = 1..Len(seq)
  OBVIOUS
<1>3. TokenEmbd = Own("q8_0", "token_embd")
  BY DEF TokenEmbd, ReadAs, Own
<1>4. DOMAIN b = Names /\ b = [k \in Names |-> b[k]]
  BY DEF Fresh, Names
<1>5. b["x"] = [i \in 1..n |-> <<"embed", TokenEmbd, seq[from + i]>>]
  BY DEF Fresh
<1>6. \A i \in 1..n : Embedded(seq)[from + i] = <<"embed", TokenEmbd, seq[from + i]>>
  <2>1. \A i \in 1..n : from + i \in DOMAIN seq
    BY <1>2
  <2> QED BY <1>3, <2>1 DEF Embedded
<1> HIDE DEF b, n
<1>7. b["x"] = [i \in 1..n |-> Hidden(c, seq)[0][from + i]]
  BY <1>1, <1>5, <1>6
<1>8. BlockHolds(b, c, 1, 1, Hidden(c, seq)[0], from, n)
  BY <1>7 DEF BlockHolds, AttentionHolds, FeedForwardHolds
<1> QED BY <1>4, <1>8 DEF b, n

\* A call begins with the rows of the tokens before it in every layer.
LEMMA Begun ==
  ASSUME NEW ks, NEW vs, NEW c, NEW h, NEW p, NEW len,
         \A b \in 1..Depth : RowsHeld(ks, vs, c, b, h[b - 1], p)
  PROVE  CachesHold(ks, vs, c, h, 1, 1, p, len)
<1>1. Depth \in Nat \ {0}
  BY LlamaAssumption
<1>2. \A b \in (1 + 1)..Depth : b \in 1..Depth
  BY <1>1
<1>3. 1 \in 1..Depth /\ 1 - 1 = 0 /\ ~(1 > 6) /\ ~(1 > 8)
  BY <1>1
<1>4. \A b \in 1..(1 - 1) : FALSE
  OBVIOUS
<1>5. RowsHeld(ks, vs, c, 1, h[1 - 1], p)
  BY <1>3
<1> QED BY <1>2, <1>3, <1>4, <1>5 DEF CachesHold, RowsHeld

\* The caches of a first call.
LEMMA ZeroCaches ==
  ASSUME LlamaTyped, cfg.peer # "other"
  PROVE  /\ DOMAIN ZeroMem = {"k", "v"} /\ ZeroMem = [b \in {"k", "v"} |-> ZeroMem[b]]
         /\ DOMAIN ZeroMem["k"] = Zone(cfg) /\ DOMAIN ZeroMem["v"] = Zone(cfg)
<1>1. Units = Zone(cfg)
  BY UnitIsPlace DEF LlamaTyped, Loads
<1> QED BY <1>1 DEF ZeroMem

LEMMA FirstCallStep ==
  ASSUME LlamaTyped, FirstCall, cfg.peer # "other", NEW h, h = Hidden(cfg, toks)
  PROVE  HoldsAll(h)'
<1>1. /\ query.at = "loaded" /\ buf' = Fresh(toks, 0) /\ caches' = ZeroMem /\ block' = 1 /\ call' = 1
      /\ UNCHANGED <<cfg, toks, kvPos>>
  BY DEF FirstCall
<1>2. query.places = "own" /\ kvPos = 0 /\ toks \in Seq(Vocab) /\ Len(toks) \in Nat
  BY <1>1 DEF LlamaTyped, Loads
<1>3. PICK z : z = ZeroMem
  OBVIOUS
<1>4. PICK b : b = Fresh(toks, 0)
  OBVIOUS
<1>5. DOMAIN z = {"k", "v"} /\ z = [a \in {"k", "v"} |-> z[a]] /\ DOMAIN z["k"] = Zone(cfg) /\ DOMAIN z["v"] = Zone(cfg)
  BY <1>3, ZeroCaches
<1>6. DOMAIN b = Names /\ b = [k \in Names |-> b[k]] /\ BlockHolds(b, cfg, 1, 1, h[0], 0, Len(toks) - 0)
  <2>1. 0 \in 0..Len(toks)
    BY <1>2
  <2> QED BY <1>2, <1>4, <2>1, FreshHolds
<1>7. CachesHold(z["k"], z["v"], cfg, h, 1, 1, 0, Len(toks))
  BY NoRows, Begun DEF RowsHeld
<1>8. Depth \in Nat \ {0} /\ 1 \in 1..(Depth + 1) /\ 1 \in 1..18 /\ 1 # Depth + 1 /\ 1 - 1 = 0
  BY LlamaAssumption
<1>9. AtBlock'
  BY <1>1, <1>3, <1>4, <1>5, <1>6, <1>8 DEF AtBlock
<1> QED BY <1>1, <1>2, <1>3, <1>4, <1>5, <1>6, <1>7, <1>8, <1>9 DEF HoldsAll


\* A longer sequence is claimed for only if the shorter one was.
LEMMA ClaimedBefore ==
  ASSUME LlamaTyped, NextToken, Claimed'
  PROVE  Claimed
<1>1. UNCHANGED <<cfg, query>>
  BY DEF NextToken
<1>2. PICK t \in Vocab : toks' = Append(toks, t)
  BY DEF NextToken
<1>3. Len(toks) \in Nat /\ Len(toks') = Len(toks) + 1
  BY <1>2 DEF LlamaTyped
<1>4. 2 * Len(toks') <= Slots => 2 * Len(toks) <= Slots
  BY <1>3, LlamaAssumption
<1> QED BY <1>1, <1>4 DEF Claimed

\* The rows of a sequence are rows of the longer one.
LEMMA RowsOfLonger ==
  ASSUME NEW ks, NEW vs, NEW c, NEW s \in Seq(Vocab), NEW t \in Vocab, NEW b \in 1..Depth,
         RowsHeld(ks, vs, c, b, Hidden(c, s)[b - 1], Len(s))
  PROVE  RowsHeld(ks, vs, c, b, Hidden(c, Append(s, t))[b - 1], Len(s))
<1>1. PICK xs : xs = Hidden(c, s)[b - 1]
  OBVIOUS
<1>2. PICK ys : ys = Hidden(c, Append(s, t))[b - 1]
  OBVIOUS
<1>3. \A i \in 1..Len(s) : ys[i] = xs[i]
  <2>1. b - 1 \in 0..Depth
    BY LlamaAssumption
  <2> QED BY <1>1, <1>2, <2>1, HiddenOfPrefix
<1>4. \A p \in 0..(Len(s) - 1) : ys[p + 1] = xs[p + 1]
  <2>1. Len(s) \in Nat
    OBVIOUS
  <2>2. \A p \in 0..(Len(s) - 1) : p + 1 \in 1..Len(s)
    BY <2>1
  <2> QED BY <1>3, <2>2
<1>5. KeysHeld(ks, c, b, xs, Len(s)) /\ ValuesHeld(vs, c, b, xs, Len(s))
  BY <1>1 DEF RowsHeld
<1>6. KeysHeld(ks, c, b, ys, Len(s))
  BY <1>4, <1>5 DEF KeysHeld
<1>7. ValuesHeld(vs, c, b, ys, Len(s))
  BY <1>4, <1>5 DEF ValuesHeld
<1> QED BY <1>2, <1>6, <1>7 DEF RowsHeld

\* The next token: all of them again with caches set to zero, or the last alone
\* over the rows that the calls before it left.
LEMMA NextTokenStep ==
  ASSUME LlamaTyped, NextToken, Claimed, NEW h, h = Hidden(cfg, toks), HoldsAll(h),
         NEW s, s = toks', NEW g, g = Hidden(cfg, s)
  PROVE  HoldsAll(g)'
<1>1. /\ Returned /\ buf' = Fresh(s, kvPos') /\ block' = 1 /\ call' = 1
      /\ kvPos' = (IF cfg.again THEN 0 ELSE Len(toks))
      /\ caches' = (IF cfg.again THEN ZeroMem ELSE caches)
      /\ UNCHANGED <<cfg, query>>
  BY DEF NextToken
<1>2. PICK t \in Vocab : s = Append(toks, t)
  BY DEF NextToken
<1>3. /\ toks \in Seq(Vocab) /\ s \in Seq(Vocab) /\ Len(toks) \in Nat /\ Len(s) = Len(toks) + 1
  BY <1>2 DEF LlamaTyped
<1>4. PICK p : p = kvPos'
  OBVIOUS
<1>5. p \in 0..Len(s)
  BY <1>1, <1>3, <1>4
<1>6. query.places = "own" /\ block = Depth + 1 /\ Depth \in Nat \ {0}
  BY <1>1, Ready DEF Returned
<1>7. PICK b : b = Fresh(s, p)
  OBVIOUS
<1>8. DOMAIN b = Names /\ b = [k \in Names |-> b[k]] /\ BlockHolds(b, cfg, 1, 1, g[0], p, Len(s) - p)
  BY <1>3, <1>5, <1>6, <1>7, FreshHolds
<1>9. PICK z : z = caches'
  OBVIOUS
<1>10. /\ DOMAIN z = {"k", "v"} /\ z = [a \in {"k", "v"} |-> z[a]]
       /\ DOMAIN z["k"] = Zone(cfg) /\ DOMAIN z["v"] = Zone(cfg)
  <2>1. CASE cfg.again
    BY <1>1, <1>9, <2>1, ZeroCaches DEF Claimed
  <2>2. CASE ~cfg.again
    BY <1>1, <1>9, <2>2 DEF HoldsAll, AtBlock
  <2> QED BY <2>1, <2>2
<1>11. ASSUME NEW l \in 1..Depth PROVE RowsHeld(z["k"], z["v"], cfg, l, g[l - 1], p)
  <2>1. CASE cfg.again
    BY <1>1, <1>4, <2>1, NoRows DEF RowsHeld
  <2>2. CASE ~cfg.again
    <3>1. p = Len(toks) /\ z = caches
      BY <1>1, <1>4, <1>9, <2>2
    <3>2. l \in 1..(block - 1)
      BY <1>6
    <3>3. RowsHeld(z["k"], z["v"], cfg, l, h[l - 1], Len(toks))
      BY <2>2, <3>1, <3>2 DEF HoldsAll, CachesHold
    <3> QED BY <1>2, <1>3, <3>1, <3>3, RowsOfLonger
  <2> QED BY <2>1, <2>2
<1>12. CachesHold(z["k"], z["v"], cfg, g, 1, 1, p, Len(s))
  BY <1>11, Begun
<1>13. 1 \in 1..(Depth + 1) /\ 1 \in 1..18 /\ 1 # Depth + 1 /\ 1 - 1 = 0 /\ 1 <= Depth
  BY <1>6
<1>14. AtBlock'
  BY <1>1, <1>4, <1>7, <1>8, <1>9, <1>10, <1>13 DEF AtBlock
<1> QED BY <1>1, <1>4, <1>7, <1>8, <1>9, <1>10, <1>12, <1>13, <1>14 DEF HoldsAll

-----------------------------------------------------------------------------
(* The invariant holds.                                                    *)

\* What is loaded, and from whose script.
LEMMA LoadTyped ==
  ASSUME LlamaTyped, Load
  PROVE  LlamaTyped' /\ (query'.at = "ready" <=> query.at = "ready")
                     /\ (query.at = "ready" => query'.conf = query.conf /\ query'.places = query.places)
<1>1. UNCHANGED <<cfg, toks, kvPos, block, call, buf, caches>>
  BY DEF Load
<1>2. query \in Queries /\ Loads
  BY DEF LlamaTyped, Loads
<1> SUFFICES /\ Loads'
             /\ (query'.at = "ready" <=> query.at = "ready")
             /\ (query.at = "ready" => query'.conf = query.conf /\ query'.places = query.places)
  BY <1>1 DEF LlamaTyped
<1>3. CASE WriteScript
  BY <1>1, <1>2, <1>3 DEF WriteScript, Loads, Queries, Stages, Printed
<1>4. CASE PeerOpens
  BY <1>1, <1>2, <1>4 DEF PeerOpens, Loads, Queries, Stages, Printed
<1>5. CASE PeerCloses
  BY <1>1, <1>2, <1>5 DEF PeerCloses, Loads, Queries, Stages, Printed, LlamaTyped, Setups
<1>6. CASE QueryConfig
  BY <1>1, <1>2, <1>6 DEF QueryConfig, Loads, Queries, Stages, Printed
<1>7. CASE QueryTensors
  BY <1>1, <1>2, <1>7 DEF QueryTensors, Placed, Loads, Queries, Stages, Printed
<1> QED BY <1>3, <1>4, <1>5, <1>6, <1>7 DEF Load

\* A load beside a call that runs is a second process at its script.
LEMMA LoadStep ==
  ASSUME LlamaTyped, Load, NEW h, HoldsAll(h)
  PROVE  HoldsAll(h)'
<1>1. UNCHANGED <<cfg, toks, kvPos, block, call, buf, caches>>
  BY DEF Load
<1> QED BY <1>1 DEF HoldsAll, AtBlock

LEMMA StepTyped ==
  ASSUME LlamaTyped, LlamaNext
  PROVE  LlamaTyped'
<1>1. CASE Load
  BY <1>1, LoadTyped
<1>2. CASE FirstCall
  <2>1. UNCHANGED <<cfg, toks, kvPos>> /\ query' = [query EXCEPT !.at = "ready", !.script = "none"]
        /\ query.at = "loaded"
    BY <1>2 DEF FirstCall
  <2>2. kvPos = 0
    BY <2>1 DEF LlamaTyped
  <2>3. Loads'
    BY <2>1 DEF LlamaTyped, Loads, Queries, Stages, Printed
  <2> QED BY <2>1, <2>2, <2>3 DEF LlamaTyped
<1>3. CASE NextToken
  <2>1. /\ UNCHANGED <<cfg, query>> /\ kvPos' = (IF cfg.again THEN 0 ELSE Len(toks))
        /\ query.at = "ready" /\ Len(toks) < Slots
    BY <1>3 DEF NextToken, Returned
  <2>2. PICK t \in Vocab : toks' = Append(toks, t)
    BY <1>3 DEF NextToken
  <2>3. toks' \in Seq(Vocab) /\ Len(toks') = Len(toks) + 1 /\ Len(toks) \in Nat
    BY <2>2 DEF LlamaTyped
  <2>4. Len(toks') <= Slots /\ kvPos' \in 0..Len(toks')
    BY <2>1, <2>3, LlamaAssumption
  <2>5. Loads'
    BY <2>1 DEF LlamaTyped, Loads
  <2> QED BY <2>1, <2>3, <2>4, <2>5 DEF LlamaTyped
<1>4. CASE Kernel \/ RopeInPlace \/ WriteCache \/ AttendRows \/ NextBlock \/ Logits
  <2>1. UNCHANGED <<cfg, query, toks, kvPos>>
    BY <1>4 DEF Kernel, RopeInPlace, WriteCache, AttendRows, NextBlock, Logits
  <2> QED BY <2>1 DEF LlamaTyped, Loads
<1> QED BY <1>1, <1>2, <1>3, <1>4 DEF LlamaNext

\* Of the calls within a sequence.
LEMMA CallStep ==
  ASSUME LlamaTyped, Claimed, NEW h, h = Hidden(cfg, toks), HoldsAll(h),
         Kernel \/ RopeInPlace \/ WriteCache \/ AttendRows \/ NextBlock \/ Logits
  PROVE  HoldsAll(h)'
<1>1. CASE WriteCache
  <2>1. call = 6 \/ call = 8
    BY <1>1, CallsAt DEF WriteCache
  <2> QED BY <1>1, <2>1, KeysStep, ValuesStep
<1> QED BY <1>1, KernelStep, RopeStep, AttendStep, NextBlockStep, LogitsStep

LEMMA LlamaStep ==
  ASSUME LlamaInv, LlamaNext
  PROVE  LlamaInv'
<1>1. LlamaTyped
  BY DEF LlamaInv
<1>2. LlamaTyped'
  BY <1>1, StepTyped
<1> SUFFICES ASSUME Claimed' PROVE HoldsAll(Hidden(cfg, toks))'
  BY <1>2 DEF LlamaInv
<1>3. PICK g : g = Hidden(cfg', toks')
  OBVIOUS
<1> SUFFICES HoldsAll(g)'
  BY <1>3
<1>4. PICK h : h = Hidden(cfg, toks)
  OBVIOUS
<1>5. Claimed => HoldsAll(h)
  BY <1>4 DEF LlamaInv
<1>6. CASE Load
  <2>1. UNCHANGED <<cfg, toks>> /\ query.at = "ready"
    BY <1>1, <1>6, LoadTyped DEF Load, Claimed
  <2>2. Claimed /\ g = h
    BY <1>3, <1>4, <2>1 DEF Claimed
  <2> QED BY <1>1, <1>5, <1>6, <2>2, LoadStep
<1>7. CASE FirstCall
  <2>1. UNCHANGED <<cfg, toks>> /\ cfg.peer # "other"
    BY <1>7 DEF FirstCall, Claimed
  <2>2. g = Hidden(cfg, toks)
    BY <1>3, <2>1
  <2> QED BY <1>1, <1>7, <2>1, <2>2, FirstCallStep
<1>8. CASE NextToken
  <2>1. Claimed /\ cfg' = cfg
    BY <1>1, <1>8, ClaimedBefore DEF NextToken
  <2>2. PICK s : s = toks'
    OBVIOUS
  <2>3. g = Hidden(cfg, s)
    BY <1>3, <2>1, <2>2
  <2> QED BY <1>1, <1>4, <1>5, <1>8, <2>1, <2>2, <2>3, NextTokenStep
<1>9. CASE Kernel \/ RopeInPlace \/ WriteCache \/ AttendRows \/ NextBlock \/ Logits
  <2>1. UNCHANGED <<cfg, query, toks, kvPos>>
    BY <1>9 DEF Kernel, RopeInPlace, WriteCache, AttendRows, NextBlock, Logits
  <2>2. Claimed /\ g = h
    BY <1>3, <1>4, <2>1 DEF Claimed
  <2> QED BY <1>1, <1>4, <1>5, <1>9, <2>2, CallStep
<1> QED BY <1>6, <1>7, <1>8, <1>9 DEF LlamaNext

LEMMA LlamaStart ==
  ASSUME LlamaInit
  PROVE  LlamaInv
<1>1. toks \in Seq(Vocab) /\ Len(toks) <= Slots /\ Len(toks) \in Nat
  BY LlamaAssumption DEF LlamaInit
<1>2. query = [at |-> "config", script |-> "none", conf |-> "none", places |-> "none"]
      /\ cfg \in Setups /\ kvPos = 0
  BY DEF LlamaInit, Setups
<1>3. Loads
  BY <1>2 DEF Loads, Queries, Stages, Printed
<1>4. LlamaTyped
  BY <1>1, <1>2, <1>3 DEF LlamaTyped
<1>5. ~Claimed
  BY <1>2 DEF Claimed
<1> QED BY <1>4, <1>5 DEF LlamaInv

LEMMA LlamaHolds == LlamaSpec => []LlamaInv
<1>1. LlamaInit => LlamaInv
  BY LlamaStart
<1>2. LlamaInv /\ [LlamaNext]_llamaVars => LlamaInv'
  <2> SUFFICES ASSUME LlamaInv, [LlamaNext]_llamaVars PROVE LlamaInv'
    OBVIOUS
  <2>1. CASE LlamaNext
    BY <2>1, LlamaStep
  <2>2. CASE UNCHANGED llamaVars
    BY <2>2 DEF llamaVars, LlamaInv, LlamaTyped, Loads, Claimed, HoldsAll, AtBlock
  <2> QED BY <2>1, <2>2
<1> QED BY <1>1, <1>2, PTL DEF LlamaSpec

\* What the head holds when the call returns is what the whole sequence would give.
LEMMA ReturnedIsWhole ==
  ASSUME LlamaInv
  PROVE  ForwardIsWhole
<1> SUFFICES ASSUME Returned, cfg.peer # "other", cfg.f16 \/ cfg.again \/ 2 * Len(toks) <= Slots
             PROVE  Result
  BY DEF ForwardIsWhole
<1>1. LlamaTyped /\ Claimed
  BY DEF LlamaInv, Claimed, Returned
<1>2. PICK h : h = Hidden(cfg, toks)
  OBVIOUS
<1>3. HoldsAll(h)
  BY <1>1, <1>2 DEF LlamaInv
<1>4. PICK n : n = Len(toks) - kvPos
  OBVIOUS
<1>5. /\ block = Depth + 1 /\ call = 2 /\ Current = 1..n /\ n \in Nat /\ kvPos \in Nat /\ Len(toks) \in Nat
  BY <1>1, <1>4, Ready DEF Returned
<1>6. buf["logits"] = [i \in 1..n |-> Scores(cfg, h[Depth][kvPos + i])]
  BY <1>3, <1>4, <1>5 DEF HoldsAll, HeadHolds
<1>7. Whole(cfg, toks) = [i \in DOMAIN toks |-> Scores(cfg, h[Depth][i])]
  BY <1>2 DEF Whole
<1>8. \A i \in 1..n : kvPos + i \in DOMAIN toks
  <2>1. DOMAIN toks = 1..Len(toks)
    BY <1>1 DEF LlamaTyped
  <2> QED BY <1>4, <1>5, <2>1
<1> QED BY <1>5, <1>6, <1>7, <1>8 DEF Result

\* In every file whose number of layers and slots are Depth and Slots, from every
\* prompt, with caches of two or four bytes, token by token or all again, and with
\* or without a second process on the same file: the logits that the C forward
\* returns (bpd_cpu.c:5637-5749) are those of the whole sequence, wherever
\* two-byte caches, a call on all tokens or at most half of the slots keep one
\* layer's rows out of the next one's.
THEOREM ForwardComputesWhole == LlamaSpec => []ForwardIsWhole
<1>1. LlamaInv => ForwardIsWhole
  BY ReturnedIsWhole
<1> QED BY <1>1, LlamaHolds, PTL

=============================================================================
