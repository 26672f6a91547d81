---------------------------- MODULE DeviceArgmax ----------------------------
(***************************************************************************)
(* The choice of the next token on the device: k_argmax, one block over    *)
(* the whole vocabulary, and its two-stage form, k_argmax_s1, whose blocks *)
(* each reduce a contiguous chunk into the partial arrays, and             *)
(* k_argmax_s2, which reduces those.  The partials are allocated once and  *)
(* live from one token to the next.  Both must return what torch.argmax    *)
(* returns of the same logits: the first index of the maximum.             *)
(*                                                                         *)
(* Logits are classes of floats that the comparisons tell apart: NaN,      *)
(* what lies below the kernels' start value (-3.4e38, so -inf is there),   *)
(* that value, and a few above it.                                         *)
(***************************************************************************)
EXTENDS Halving, Sequences, FiniteSets

CONSTANTS
  Floats,    \* classes of logits: NaN, Below, Floor and those above
  MaxN,      \* bound on the number of logits
  NB,        \* blocks of stage 1 (256 in the code)
  BlockDim,  \* threads of a block (256 in the code); a power of two
  Rubbish,   \* partials an allocation may hold: cuMemAlloc clears nothing
  MaxTokens  \* bound on the tokens decoded

NaN   == 0
Below == 1
Floor == 2
INT_MAX == 2147483647

\* argmax_dev asserts n > 0; n + nblocks - 1 is an int.
ASSUME ArgmaxAssumption ==
  /\ Floats \subseteq Nat
  /\ MaxN \in Nat \ {0} /\ NB \in Nat \ {0} /\ MaxN + NB <= INT_MAX /\ MaxTokens \in Nat
  /\ BlockDim \in Nat \ {0} /\ PowerOfTwo(BlockDim)

VARIABLES
  logits,  \* the logits in _LOGITS_BUF
  parts,   \* _ARGMAX_PARTIALS: a <<pval, pidx>> per block of stage 1
  ran,     \* blocks of stage 1 that have run for this token
  token,   \* the index in _ARGMAX_BUF, if this token's has been chosen
  n        \* tokens decoded

argVars == <<logits, parts, ran, token, n>>

Inputs == UNION {[0 .. len - 1 -> Floats] : len \in 1..MaxN}
Size   == Cardinality(DOMAIN logits)

-----------------------------------------------------------------------------
(* A block's reduction.  Comparisons with NaN are false.                   *)

Gt(a, b) == a # NaN /\ b # NaN /\ a > b
Eq(a, b) == a # NaN /\ a = b

SlipNoTieBreak(new, old) == Gt(new[1], old[1])
Better(new, old) == Gt(new[1], old[1]) \/ (Eq(new[1], old[1]) /\ new[2] < old[2])

Take(old, new) == IF Better(new, old) THEN new ELSE old
Start == <<Floor, INT_MAX>>

\* Each thread strides over its share of the entries, in order.
ThreadBest(entries, t) ==
  LET best[i \in 0 .. Len(entries)] ==
        IF i = 0 THEN Start
        ELSE IF (i - 1) % BlockDim = t THEN Take(best[i - 1], entries[i]) ELSE best[i - 1]
  IN  best[Len(entries)]

\* sval and sidx are halved in place: a pass of the loop, which ends at s = 0.
Halved(r) ==
  LET s == r.s \div 2
  IN  IF s = 0 THEN r
      ELSE [s |-> s, best |-> [t \in 0 .. s - 1 |-> Take(r.best[t], r.best[t + s])]]

Reduced(entries) ==
  LET pass[i \in 0 .. BlockDim] ==
        IF i = 0 THEN [s |-> BlockDim, best |-> [t \in 0 .. BlockDim - 1 |-> ThreadBest(entries, t)]]
        ELSE Halved(pass[i - 1])
  IN  pass[BlockDim].best[0]

Entries(lo, hi) == [i \in 1 .. hi - lo |-> <<logits[lo + i - 1], lo + i - 1>>]

\* Stage 1's chunk of block b; the last ones may be short or empty.
ChunkSize(m) == (m + NB - 1) \div NB
Chunk(b) ==
  LET lo == b * ChunkSize(Size)
      hi == IF lo + ChunkSize(Size) > Size THEN Size ELSE lo + ChunkSize(Size)
  IN  IF lo < hi THEN Entries(lo, hi) ELSE << >>

OneBlock == Reduced(Entries(0, Size))[2]

-----------------------------------------------------------------------------
ArgmaxInit ==
  /\ logits \in Inputs
  /\ \E junk \in Rubbish : parts = [b \in 0 .. NB - 1 |-> junk]
  /\ ran = {} /\ token = << >> /\ n = 0

\* Another token's logits, as many: stream order puts them after stage 2.
Decode ==
  /\ token # << >> /\ n < MaxTokens
  /\ logits' \in [DOMAIN logits -> Floats]
  /\ n' = n + 1 /\ ran' = {} /\ token' = << >>
  /\ UNCHANGED parts

\* The blocks of stage 1 run in any order.
StageOne(b) ==
  /\ b \notin ran
  /\ parts' = [parts EXCEPT ![b] = Reduced(Chunk(b))]
  /\ ran' = ran \cup {b}
  /\ UNCHANGED <<logits, token, n>>

StageTwo ==
  /\ ran = 0 .. NB - 1 /\ token = << >>
  /\ token' = << Reduced([i \in 1..NB |-> parts[i - 1]])[2] >>
  /\ UNCHANGED <<logits, parts, ran, n>>

ArgmaxNext == Decode \/ (\E b \in 0 .. NB - 1 : StageOne(b)) \/ StageTwo

ArgmaxSpec == ArgmaxInit /\ [][ArgmaxNext]_argVars

-----------------------------------------------------------------------------
(* Properties.                                                             *)

\* The first index of the maximum, which torch.argmax returns.
FirstMax ==
  CHOOSE i \in DOMAIN logits :
    /\ \A j \in DOMAIN logits : logits[j] <= logits[i]
    /\ \A j \in 0 .. i - 1 : logits[j] < logits[i]

Chosen == {token[i] : i \in DOMAIN token}

\* The token is the first maximum of this token's logits, ties and all, however
\* few logits there are for the blocks and whatever the partials held before,
\* as long as every logit is at or above the kernels' start value ("device
\* k_argmax == torch.argmax, ties incl"); for every other input, those of NaN
\* and -inf included, it is what the single-block form chooses.
TokenIsFirstMax == \A t \in Chosen :
  t = IF \A i \in DOMAIN logits : logits[i] >= Floor THEN FirstMax ELSE OneBlock
=============================================================================
