---------------------------- MODULE BlockSoftmax ----------------------------
(***************************************************************************)
(* One thread block of the decode attention: the softmax of k_attn_decode, *)
(* k_attn_decode_masked and k_attn_decode_pm, whose threads share the      *)
(* arrays sh (a score per position) and red (the reductions) and meet at   *)
(* __syncthreads().  The first two reduce over a frozen layout of RLANES   *)
(* lanes whatever the block size, the third over the block itself.         *)
(*                                                                         *)
(* Values are symbolic.  A maximum is the set of positions it was taken    *)
(* over (the mask's -1e30 is the maximum of none), an exponential names    *)
(* the score and the maximum subtracted, and a sum keeps the tree of       *)
(* additions, because float addition does not associate; adding an exact   *)
(* zero is the identity.  Two runs with the same tree agree to 0 ULP.      *)
(*                                                                         *)
(* A thread executes the accesses between two barriers at once: RaceFree   *)
(* shows that no thread could tell.                                        *)
(***************************************************************************)
EXTENDS Halving

CONSTANTS
  RLANES,     \* length of red (64 in the code); a power of two
  Blocks,     \* block sizes a launch may have (256 in the code)
  Attentions, \* kernels launched: "decode", "masked", "pm"
  MaxTs,      \* the bounds MAXT a masked kernel may be compiled for
  Lens,       \* the valid lengths
  HD          \* head dimension: how many threads write an output

ASSUME BlockAssumption ==
  /\ RLANES \in Nat \ {0} /\ PowerOfTwo(RLANES)
  /\ \A b \in Blocks : b \in Nat \ {0} /\ PowerOfTwo(b)
  /\ Attentions \subseteq {"decode", "masked", "pm"}
  /\ MaxTs \subseteq Nat \ {0} /\ Lens \subseteq Nat \ {0} /\ HD \in Nat

VARIABLES
  run,  \* the launch: kernel, block size, positions looped over, valid length
  at,   \* each thread's operation, and whether it waits at the barrier after it
  mem,  \* shared memory, by address
  reg,  \* each thread's registers mx and Z
  out   \* each thread's output, once written

softVars == <<run, at, mem, reg, out>>

Threads   == 0 .. run.block - 1
Positions == 0 .. run.positions - 1
Live      == 0 .. run.len - 1

\* The lanes of the reductions: red's length, or the block's.
Lanes == IF run.kernel = "pm" THEN run.block ELSE RLANES

-----------------------------------------------------------------------------
(* Symbolic floats.                                                        *)

Junk == <<"junk">>
Zero == <<"zero">>
MaxOf(S) == <<"max", S>>

fmaxf(a, b) == IF a[1] = "max" /\ b[1] = "max" THEN MaxOf(a[2] \cup b[2]) ELSE Junk

\* __expf(s - mx): exactly zero for a masked score.
expf(s, mx) ==
  IF s[1] # "max" \/ mx[1] # "max" THEN Junk
  ELSE IF s[2] = {} /\ mx[2] # {} THEN Zero
  ELSE <<"exp", s[2], mx[2]>>

Plus(a, b) ==
  IF a = Zero THEN b ELSE IF b = Zero THEN a ELSE <<"sum", a, b>>

-----------------------------------------------------------------------------
(* The kernels' operations, in order.  Those of a halving loop have the    *)
(* distance s2 between the cells they combine.                             *)

At(o, s2) == [op |-> o, s2 |-> s2, wait |-> FALSE]
Loop(o, s2, then) == IF s2 > 0 THEN At(o, s2) ELSE At(then, 0)

After(o) ==
  CASE o.op = "score"    -> At("lane_max", 0)
    [] o.op = "lane_max" -> Loop("tree_max", Lanes \div 2, "read_max")
    [] o.op = "tree_max" -> Loop("tree_max", o.s2 \div 2, "read_max")
    [] o.op = "read_max" -> At(IF run.kernel = "pm" THEN "exp_sum" ELSE "exp", 0)
    [] o.op = "exp"      -> At("lane_sum", 0)
    [] o.op \in {"exp_sum", "lane_sum"} -> Loop("tree_sum", Lanes \div 2, "read_sum")
    [] o.op = "tree_sum" -> Loop("tree_sum", o.s2 \div 2, "read_sum")
    [] o.op = "read_sum" -> At("out", 0)
    [] o.op = "out"      -> At("end", 0)

\* Every operation but the last ends at a __syncthreads().
SlipOneBarrier(o) == o.op # "out" /\ (o.op \in {"tree_max", "tree_sum"} => o.s2 = 1)
HasBarrier(o) == o.op # "out"
Past(o) == IF HasBarrier(o) THEN [o EXCEPT !.wait = TRUE] ELSE After(o)

Waits(d) == at[d].wait
Over(d)  == at[d].op = "end"
Runs(d)  == ~Waits(d) /\ ~Over(d)

Strided(d, step) == {t \in Positions : t % step = d}
Cells(array, S) == {array} \X S

Loads(d, o) ==
  CASE o.op = "lane_max" -> IF d < Lanes THEN Cells("sh", Strided(d, Lanes)) ELSE {}
    [] o.op \in {"tree_max", "tree_sum"} ->
         IF d < o.s2 THEN Cells("red", {d, d + o.s2}) ELSE {}
    [] o.op \in {"read_max", "read_sum"} -> Cells("red", {0})
    [] o.op \in {"exp", "exp_sum"} -> Cells("sh", Strided(d, run.block))
    [] o.op = "lane_sum" -> IF d < RLANES THEN Cells("sh", Strided(d, RLANES)) ELSE {}
    [] o.op = "out" -> IF d < HD THEN Cells("sh", Live) ELSE {}
    [] OTHER -> {}

Stores(d, o) ==
  CASE o.op \in {"score", "exp"} -> Cells("sh", Strided(d, run.block))
    [] o.op \in {"lane_max", "lane_sum"} -> IF d < Lanes THEN Cells("red", {d}) ELSE {}
    [] o.op \in {"tree_max", "tree_sum"} -> IF d < o.s2 THEN Cells("red", {d}) ELSE {}
    [] o.op = "exp_sum" -> Cells("sh", Strided(d, run.block)) \cup Cells("red", {d})
    [] OTHER -> {}

\* Where a cell is: the static array comes first, then the dynamic one, which
\* is asked for with RLANES floats to spare; nothing checks an index.
Address(c) == IF c[1] = "red" THEN c[2] ELSE RLANES + c[2]
Value(c) == IF Address(c) \in DOMAIN mem THEN mem[Address(c)] ELSE Junk

\* A lane's loop over its positions, in order.
LaneMax(d) ==
  LET max[t \in 0 .. run.positions] ==
        IF t = 0 THEN MaxOf({})
        ELSE IF (t - 1) % Lanes = d THEN fmaxf(max[t - 1], Value(<<"sh", t - 1>>)) ELSE max[t - 1]
  IN  max[run.positions]

LaneSum(terms, len, step, d) ==
  LET sum[t \in 0..len] ==
        IF t = 0 THEN Zero
        ELSE IF (t - 1) % step = d THEN Plus(sum[t - 1], terms[t - 1]) ELSE sum[t - 1]
  IN  sum[len]

SlipNoMask(t) == MaxOf({t})
Score(t) == IF t < run.len THEN MaxOf({t}) ELSE MaxOf({})
Exp(d, t) == expf(Value(<<"sh", t>>), reg[d].mx)

\* What thread d stores in cell c.
Stored(d, o, c) ==
  CASE o.op = "score" -> Score(c[2])
    [] o.op = "lane_max" -> LaneMax(d)
    [] o.op = "tree_max" -> fmaxf(Value(c), Value(<<"red", d + o.s2>>))
    [] o.op \in {"exp", "exp_sum"} /\ c[1] = "sh" -> Exp(d, c[2])
    [] o.op = "exp_sum" /\ c[1] = "red" ->
         LaneSum([t \in Positions |-> Exp(d, t)], run.positions, Lanes, d)
    [] o.op = "lane_sum" ->
         LaneSum([t \in Positions |-> Value(<<"sh", t>>)], run.positions, Lanes, d)
    [] o.op = "tree_sum" -> Plus(Value(c), Value(<<"red", d + o.s2>>))

-----------------------------------------------------------------------------
Launches ==
  {[kernel |-> k, block |-> b, positions |-> IF k = "masked" THEN m ELSE l, len |-> l] :
     k \in Attentions, b \in Blocks, m \in MaxTs, l \in Lens}

SoftmaxInit ==
  /\ run \in {r \in Launches : r.len <= r.positions}
  /\ at = [d \in Threads |-> At("score", 0)]
  /\ mem = [a \in 0 .. 2 * RLANES + run.positions - 1 |-> Junk]
  /\ reg = [d \in Threads |-> [mx |-> Junk, z |-> Junk]]
  /\ out = [d \in Threads |-> << >>]

\* A thread's accesses up to its next barrier.
Execute(d) ==
  /\ Runs(d)
  /\ LET o == at[d]
         w == Stores(d, o)
     IN  /\ mem' = [a \in DOMAIN mem |->
                      IF \E c \in w : Address(c) = a
                        THEN Stored(d, o, CHOOSE c \in w : Address(c) = a) ELSE mem[a]]
         /\ reg' = CASE o.op = "read_max" -> [reg EXCEPT ![d].mx = Value(<<"red", 0>>)]
                     [] o.op = "read_sum" -> [reg EXCEPT ![d].z = Value(<<"red", 0>>)]
                     [] OTHER -> reg
         /\ out' = IF o.op = "out" /\ d < HD
                     THEN [out EXCEPT ![d] =
                             <<[t \in Live |-> Value(<<"sh", t>>)], reg[d].z>>]
                     ELSE out
         /\ at' = [at EXCEPT ![d] = Past(o)]
  /\ UNCHANGED run

\* __syncthreads(): when everybody has come, everybody leaves.  Who is how far
\* in what follows is left to Execute.
Synchronise ==
  /\ \A d \in Threads : Waits(d)
  /\ at' = [d \in Threads |-> After(at[d])]
  /\ UNCHANGED <<run, mem, reg, out>>

Finished == (\A d \in Threads : Over(d)) /\ UNCHANGED softVars

SoftmaxNext == (\E d \in Threads : Execute(d)) \/ Synchronise \/ Finished

SoftmaxSpec == SoftmaxInit /\ [][SoftmaxNext]_softVars

-----------------------------------------------------------------------------
(* Properties.                                                             *)

Writes(d)  == IF Runs(d) THEN Stores(d, at[d]) ELSE {}
Touches(d) == IF Runs(d) THEN Loads(d, at[d]) \cup Stores(d, at[d]) ELSE {}

\* No two threads are ever about to touch the same cell when one of them writes
\* it: every barrier the reductions need is there.
RaceFree ==
  \A d, e \in Threads : d # e =>
    {Address(c) : c \in Writes(d)} \cap {Address(c) : c \in Touches(e)} = {}

\* "Only red[0..63] used": every access is inside its array.
RedInside ==
  \A d \in Threads : \A c \in Touches(d) : c[1] = "red" => c[2] < RLANES

\* The shared memory of a block is used safely: no race, and no access outside.
MemoryIsSafe == RaceFree /\ RedInside

\* The sum in the frozen order, a function of the length alone: each lane's
\* terms, then the lanes, two halves at a time.
FrozenSum ==
  LET lane == [i \in 0 .. RLANES - 1 |->
                 LaneSum([t \in Live |-> <<"exp", {t}, Live>>], run.len, RLANES, i)]
      sum[s \in 1 .. 2 * RLANES] ==
        IF s >= RLANES THEN lane
        ELSE LET half == sum[2 * s] IN [i \in 0 .. s - 1 |-> Plus(half[i], half[i + s])]
  IN  sum[1][0]

\* The output is the softmax over the valid positions, each weight relative to
\* the maximum of them all, divided by a sum whose order depends on neither the
\* block size nor MAXT ("0-ULP regardless of blockDim"): the captured masked
\* kernel, the eager one and any launch agree to the bit.
FrozenSoftmax ==
  \A d \in Threads : out[d] # << >> =>
    out[d] = << [t \in Live |-> <<"exp", {t}, Live>>], FrozenSum >>
=============================================================================
