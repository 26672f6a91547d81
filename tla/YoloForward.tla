----------------------------- MODULE YoloForward -----------------------------
(***************************************************************************)
(* YOLOv5n by the kernels of bpd-substrate: the forwards of yolo_forward,  *)
(* bpd_yolo_infer and bench_yolo_perf_report (a kernel per operation), of  *)
(* bench_yolo_cbsa (fused) and bench_yolo_reuse (fused, the bottlenecks in *)
(* two buffers), the sweep of verify_yolo_composition_sweep, and the       *)
(* verifications of parts of the network.  Each computes the network by    *)
(* the substrate and by PyTorch and compares.                              *)
(*                                                                         *)
(* A value is its number in the table of terms: an operation, the weights  *)
(* it used and the numbers of its operands.  Two values are bit-identical  *)
(* just when they have one number.  A kernel of the substrate may be wrong *)
(* at a layer: then it makes another term.  Shapes are left out.           *)
(***************************************************************************)
EXTENDS Integers, Sequences, FiniteSets, SequencesExt, TLC

CONSTANT Jobs \* what may be run: a script, a network, the kernels that are wrong

VARIABLES
  job,   \* the script, its network, and where the substrate is wrong
  arm,   \* who computes: "bpd", then "torch", or "done"
  pos,   \* the layer, or the stage, that is next
  state, \* the table of terms and the arrays
  outs,  \* per arm the output of each layer
  heads, \* per arm the outputs of Detect
  rows   \* the stages compared so far

yoloVars == <<job, arm, pos, state, outs, heads, rows>>

---------------------------------------------------------------------------
(* Values and kernels                                                      *)

\* The number of term t, and the table with it.
Numbered(ts, t) ==
  IF \E n \in DOMAIN ts : ts[n] = t
  THEN [ts |-> ts, v |-> CHOOSE n \in DOMAIN ts : ts[n] = t]
  ELSE [ts |-> Append(ts, t), v |-> Len(ts) + 1]

Weighted == {"conv", "bn"}
Term(op, w, args, off) ==
  [op |-> op, w |-> IF op \in Weighted THEN w ELSE <<0, 0, "">>,
   args |-> IF op = "+" /\ args[1] > args[2] THEN <<args[2], args[1]>> ELSE args, off |-> off]

\* A call: operations one after another on arrays, of which "+" takes res.
Kernel(by, ops, w, in, res, out) ==
  [by |-> by, ops |-> ops, w |-> w, in |-> in, res |-> res, out |-> out]

Wrong(k, op) == k.by = "bpd" /\ <<op, k.w[1]>> \in job.bad

\* The epilogue adds res to what the product left in out, which is what it finds
\* in res as well when the two are one array.
Exec(s, k) ==
  LET Step(a, op) ==
        LET args == IF op = "+" /\ a.v # 0 THEN <<a.v, IF k.res = k.out THEN a.first ELSE s.mem[k.res]>>
                    ELSE IF a.v # 0 THEN <<a.v>>
                    ELSE [n \in DOMAIN k.in |-> s.mem[k.in[n]]]
            new  == Numbered(a.ts, Term(op, k.w, args, Wrong(k, op)))
        IN [ts |-> new.ts, v |-> new.v, first |-> IF a.v = 0 THEN new.v ELSE a.first]
      end == FoldLeft(Step, [ts |-> s.ts, v |-> 0, first |-> 0], k.ops)
  IN [ts |-> end.ts, mem |-> k.out :> end.v @@ s.mem]

---------------------------------------------------------------------------
(* Layers as kernel calls, per style: "plain", "fused", "reuse", "torch"   *)

X == <<"x", 0>>
Saved(n) == <<"saved", n>>
By(style) == IF style = "torch" THEN "torch" ELSE "bpd"

One(style, op, w, in, out) == <<Kernel(By(style), <<op>>, w, in, X, out)>>

\* conv, bn and silu into arrays of their own ...
PlainCBS(style, w, in, out) ==
  One(style, "conv", w, <<in>>, <<"co", 0>>) \o One(style, "bn", w, <<<<"co", 0>>>>, <<"bo", 0>>)
    \o One(style, "silu", w, <<<<"bo", 0>>>>, out)
\* ... or in one kernel, which may add a residual.
FusedCBS(w, in, out)       == <<Kernel("bpd", <<"conv", "bn", "silu">>, w, <<in>>, X, out)>>
FusedCBSA(w, in, res, out) == <<Kernel("bpd", <<"conv", "bn", "silu", "+">>, w, <<in>>, res, out)>>
Fused(style) == style \in {"fused", "reuse"}
CBS(style, w, in, out) == IF Fused(style) THEN FusedCBS(w, in, out) ELSE PlainCBS(style, w, in, out)

PlainBottleneck(style, l, j, add, in, tmp, out) ==
  IF add THEN CBS(style, <<l, j, "cv1">>, in, tmp) \o CBS(style, <<l, j, "cv2">>, tmp, <<"y2", 0>>)
                \o One(style, "+", <<l, j, "+">>, <<<<"y2", 0>>, in>>, out)
  ELSE CBS(style, <<l, j, "cv1">>, in, tmp) \o CBS(style, <<l, j, "cv2">>, tmp, out)
FusedBottleneck(l, j, add, in, tmp, out) ==
  FusedCBS(<<l, j, "cv1">>, in, tmp)
    \o (IF add THEN FusedCBSA(<<l, j, "cv2">>, tmp, in, out) ELSE FusedCBS(<<l, j, "cv2">>, tmp, out))
Bottleneck(style, l, j, add, in, tmp, out) ==
  IF Fused(style) THEN FusedBottleneck(l, j, add, in, tmp, out)
                  ELSE PlainBottleneck(style, l, j, add, in, tmp, out)

\* Where bottleneck j leaves its output: two buffers in turn, or a new array.
SlipOneBuffer(style, j) == IF j = 0 \/ style # "reuse" THEN <<"b1", j>> ELSE <<"buf", 0>>
Chained(style, j) == IF j = 0 \/ style # "reuse" THEN <<"b1", j>> ELSE <<"buf", j % 2>>
Chain(style, l, n, add) ==
  FlattenSeq([j \in 1..n |-> Bottleneck(style, l, j, add, Chained(style, j - 1), <<"cv1", 0>>, Chained(style, j))])

PlainC3(style, l, n, add) ==
  CBS(style, <<l, 0, "cv1">>, X, <<"b1", 0>>) \o Chain(style, l, n, add)
    \o CBS(style, <<l, 0, "cv2">>, X, <<"b2", 0>>)
    \o One(style, "cat", <<l, 0, "cat">>, <<Chained(style, n), <<"b2", 0>>>>, <<"cat", 0>>)
    \o CBS(style, <<l, 0, "cv3">>, <<"cat", 0>>, X)
ReuseC3(l, n, add) ==
  FusedCBS(<<l, 0, "cv1">>, X, <<"b1", 0>>) \o FusedCBS(<<l, 0, "cv2">>, X, <<"b2", 0>>)
    \o Chain("reuse", l, n, add)
    \o One("reuse", "cat", <<l, 0, "cat">>, <<Chained("reuse", n), <<"b2", 0>>>>, <<"cat", 0>>)
    \o FusedCBS(<<l, 0, "cv3">>, <<"cat", 0>>, X)

SPPF(style, l) ==
  LET y(n) == <<"y", n>>
      pool(n) == One(style, "maxpool", <<l, 0, "m">>, <<y(n - 1)>>, y(n))
  IN CBS(style, <<l, 0, "cv1">>, X, y(0)) \o pool(1) \o pool(2) \o pool(3)
       \o One(style, "cat", <<l, 0, "cat">>, <<y(0), y(1), y(2), y(3)>>, <<"cat", 0>>)
       \o CBS(style, <<l, 0, "cv2">>, <<"cat", 0>>, X)

\* A list of sources is concatenated, whatever the layer: x and the second.
LayerCalls(style, layer, l) ==
  CASE layer.from # << >>      -> One(style, "cat", <<l, 0, "cat">>, <<X, Saved(layer.from[2])>>, X)
    [] layer.kind = "Conv"     -> CBS(style, <<l, 0, "conv">>, X, X)
    [] layer.kind = "C3"       -> IF style = "reuse" THEN ReuseC3(l, layer.n, layer.add)
                                                     ELSE PlainC3(style, l, layer.n, layer.add)
    [] layer.kind = "SPPF"     -> SPPF(style, l)
    [] layer.kind = "Upsample" -> One(style, "upsample", <<l, 0, "up">>, <<X>>, X)

\* Detect reads three layers whose numbers are written in the scripts.
Sources == <<17, 20, 23>>
HeadOut(d) == <<"head", d>>
DetectCalls(style, l) ==
  FlattenSeq([d \in 1..3 |-> One(style, "conv", <<l, d, "m">>, <<Saved(Sources[d])>>, HeadOut(d))])
\* The sweep and the check of layer 24 also decode boxes and concatenate them.
DecodeCalls(style, l) ==
  LET z(d) == <<"z", d>>
  IN FlattenSeq([d \in 1..3 |-> One(style, "sigmoid", <<l, d, "sig">>, <<HeadOut(d)>>, z(d))
                                  \o One(style, "grid", <<l, d, "grid">>, <<z(d)>>, z(d))])
       \o One(style, "cat", <<l, 0, "z">>, <<z(1), z(2), z(3)>>, HeadOut(4))

---------------------------------------------------------------------------
(* The network: the sweep's table, which is model.model of the checkpoint  *)

Layer(kind, n, add, from) == [kind |-> kind, n |-> n, add |-> add, from |-> from]
Conv      == Layer("Conv", 0, FALSE, << >>)
C3(n, add) == Layer("C3", n, add, << >>)
Up        == Layer("Upsample", 0, FALSE, << >>)
Cat(n)    == Layer("Concat", 0, FALSE, <<-1, n>>)
Detect    == Layer("Detect", 0, FALSE, << >>)
\* Of yolov5n with a multiple of its bottlenecks, as its larger siblings have.
Yolo(k) ==
  << Conv, Conv, C3(k, TRUE), Conv, C3(2 * k, TRUE), Conv, C3(3 * k, TRUE), Conv, C3(k, TRUE),
     Layer("SPPF", 0, FALSE, << >>), Conv, Up, Cat(6), C3(k, FALSE), Conv, Up, Cat(4), C3(k, FALSE),
     Conv, Cat(14), C3(k, FALSE), Conv, Cat(10), C3(k, FALSE), Detect >>

\* model.save: the layers that a later one reads.
Save(net) == {net[n].from[2] : n \in {m \in DOMAIN net : net[m].from # << >>}} \cup {17, 20, 23}

---------------------------------------------------------------------------
(* The scripts                                                             *)

Input(n) == Term("input", <<0, 0, "">>, <<n>>, FALSE)
\* One input, and features where a script begins with those.
Inputs == <<Input(1), Input(2), Input(3), Input(4)>>
Arrays == X :> 1 @@ Saved(17) :> 2 @@ Saved(20) :> 3 @@ Saved(23) :> 4

Empty == [bpd |-> << >>, torch |-> << >>]
YoloInit ==
  /\ job \in Jobs /\ arm = "bpd" /\ pos = 0
  /\ state = [ts |-> Inputs, mem |-> Arrays]
  /\ outs = Empty /\ heads = Empty /\ rows = << >>

Next1 == job.net[pos + 1]
More  == pos < Len(job.net)
Run(calls) == FoldLeft(Exec, state, calls)

\* x and what is saved outlive a layer; kept says of which layers.
Onward(after, kept) ==
  LET live == {b \in DOMAIN after.mem : b = X \/ b[1] = "saved"}
      mem  == [b \in live |-> after.mem[b]]
  IN /\ state' = [ts |-> after.ts, mem |-> IF pos \in kept THEN Saved(pos) :> mem[X] @@ mem ELSE mem]
     /\ outs' = [outs EXCEPT ![arm] = Append(@, mem[X])]
     /\ pos' = pos + 1
     /\ UNCHANGED <<job, arm, heads, rows>>

\* The other arm begins with the same input, or the comparison.
Turn(ts) ==
  /\ arm' = IF arm = "bpd" THEN "torch" ELSE "done"
  /\ pos' = 0
  /\ state' = [ts |-> ts, mem |-> Arrays]
  /\ UNCHANGED <<job, outs, rows>>

Walk(style, kept) ==
  /\ More /\ Next1.kind # "Detect"
  /\ Onward(Run(LayerCalls(style, Next1, pos)), kept)

ReadHeads(style, decoded) ==
  LET calls == DetectCalls(style, pos) \o (IF decoded THEN DecodeCalls(style, pos) ELSE << >>)
      after == Run(calls)
  IN /\ More /\ Next1.kind = "Detect"
     /\ heads' = [heads EXCEPT ![arm] = [d \in 1..(IF decoded THEN 4 ELSE 3) |-> after.mem[HeadOut(d)]]]
     /\ Turn(after.ts)

Forward(who, style) ==
  /\ arm = "bpd" /\ job.who = who
  /\ Walk(style, Save(job.net)) \/ ReadHeads(style, FALSE)
PlainForward  == Forward("yolo_forward", "plain")
InferForward  == Forward("bpd_yolo_infer", "plain")
TimedForward  == Forward("bench_yolo_perf_report", "plain")
FusedForward  == Forward("bench_yolo_cbsa", "fused")
ReuseForward  == Forward("bench_yolo_reuse", "reuse")

\* The sweep keeps every layer.
SweepForward ==
  /\ arm = "bpd" /\ job.who = "sweep"
  /\ Walk("plain", 0..23) \/ ReadHeads("plain", TRUE)

\* PyTorch's layers, walked as the script walks its own.
TorchForward ==
  /\ arm = "torch" /\ job.who \notin {"sweep", "layer24"}
  /\ Walk("torch", Save(job.net)) \/ ReadHeads("torch", FALSE)
SweepTorch ==
  /\ arm = "torch" /\ job.who = "sweep"
  /\ Walk("torch", 0..23) \/ ReadHeads("torch", TRUE)

\* One layer by itself: C3 on what the substrate made of layers 0 and 1, SPPF
\* and Detect on random features.
C3Alone    == arm = "bpd" /\ job.who = "layer2" /\ Walk("plain", {})
SPPFAlone  == arm = "bpd" /\ job.who = "layer9" /\ Walk("plain", {})
PartDone   == ~More /\ arm \in {"bpd", "torch"} /\ job.who \in {"layer2", "layer9"} /\ Turn(state.ts) /\ UNCHANGED heads
HeadsAlone == arm \in {"bpd", "torch"} /\ job.who = "layer24"
              /\ ReadHeads(IF arm = "bpd" THEN "plain" ELSE "torch", TRUE)

---------------------------------------------------------------------------
(* verify_yolo_per_stage and verify_yolo_block: operation by operation     *)

StageOps == [per_stage |-> <<"conv", "bn", "silu">>, block |-> <<"conv", "bn", "mish">>]
Stages   == [per_stage |-> 6, block |-> 3]
Op(n)    == StageOps[job.who][(n % 3) + 1]
Of(n)    == n \div 3
OwnChain == <<"b1", 1>>
RefChain == <<"b1", 2>>
SlipOwnInput(n) == IF n = 0 THEN X ELSE OwnChain
RefInput(n)     == IF n = 0 THEN X ELSE RefChain
OwnInput(n)     == IF n = 0 THEN X ELSE OwnChain

\* A stage on PyTorch's previous stage, on the substrate's own, and PyTorch's;
\* verify_yolo_block compares only its own chain.
Stage ==
  /\ arm = "bpd" /\ job.who \in {"per_stage", "block"} /\ pos < Stages[job.who]
  /\ LET w    == <<Of(pos), 0, "conv">>
         made == Run(One("plain", Op(pos), w, <<RefInput(pos)>>, <<"y", 0>>)
                       \o One("torch", Op(pos), w, <<IF pos = 0 THEN X ELSE RefChain>>, RefChain)
                       \o One("plain", Op(pos), w, <<OwnInput(pos)>>, OwnChain))
         ref  == made.mem[RefChain]
     IN /\ state' = made
        /\ rows' = Append(rows, [alone |-> IF job.who = "per_stage" THEN made.mem[<<"y", 0>>] = ref
                                                                     ELSE made.mem[OwnChain] = ref,
                                 chain |-> made.mem[OwnChain] = ref])
  /\ pos' = pos + 1
  /\ UNCHANGED <<job, arm, outs, heads>>

YoloNext ==
  \/ PlainForward \/ InferForward \/ TimedForward \/ FusedForward \/ ReuseForward \/ SweepForward
  \/ TorchForward \/ SweepTorch \/ C3Alone \/ SPPFAlone \/ PartDone \/ HeadsAlone \/ Stage

YoloSpec == YoloInit /\ [][YoloNext]_yoloVars

---------------------------------------------------------------------------
(* What the scripts report                                                 *)

Over == arm = "done"
AllMatch == heads.bpd = heads.torch                   \* the scripts' verdict
Diverged == {l \in DOMAIN outs.bpd : outs.bpd[l] # outs.torch[l]}   \* the sweep's rows, from 1

\* "Bit-identical" is printed of a network just when every kernel was right at
\* every layer, and then every layer's output was PyTorch's: the three outputs
\* of Detect depend on all that a forward computes, in its fused form and in
\* its two buffers as much as in the plain one.
HeadsTellAll ==
  Over => /\ AllMatch /\ Diverged = {} <=> job.bad = {}
          /\ Len(job.net) > 1 /\ AllMatch => Diverged = {}

\* The first row of the sweep that diverges, and in per_stage every row on
\* PyTorch's own previous stage, names a layer or a stage whose kernel is wrong;
\* a chain diverges from the first such stage on.
DivergenceIsPlaced ==
  /\ Over /\ job.who = "sweep" /\ Diverged # {} =>
       LET first == CHOOSE l \in Diverged : \A m \in Diverged : l <= m
       IN \E b \in job.bad : b[2] = first - 1 /\ \A c \in job.bad : b[2] <= c[2]
  /\ \A n \in DOMAIN rows :
       /\ job.who = "per_stage" => (rows[n].alone <=> <<Op(n - 1), Of(n - 1)>> \notin job.bad)
       /\ rows[n].chain <=> \A m \in 1..n : <<Op(m - 1), Of(m - 1)>> \notin job.bad

\* A comparison of forwards reports a difference just when a kernel is wrong, and
\* blames it on a layer or a stage of that kernel.
BlameIsPlaced == HeadsTellAll /\ DivergenceIsPlaced
=============================================================================
