----------------------------- MODULE MCHostModels -----------------------------
(***************************************************************************)
(* The sequential programs around the engine, for TLC: how a model's file  *)
(* is read (GGUFBlocks), the scripts that decode it (HostDecode), the      *)
(* sweep that judges generated kernels (KernelSweep), the planners that    *)
(* fuse a graph (FusionPlanner), the verification of chains of operations  *)
(* (L2Chain), the referees of the decode path (Referees) and the table of  *)
(* robust operations (RobustTable).  A behaviour is of one of the seven.   *)
(***************************************************************************)
EXTENDS HostDecode, KernelSweep, RobustTable, Referees

CONSTANTS Shapes, Matrices, Given, MaxSecond

VARIABLES load, ptr, last,
          graph, rules, known, planner,
          serial, work, tail, code, hasty

blockVars == <<load, ptr, last>>
plannerVars == <<graph, rules, known, planner>>
chainVars == <<serial, work, tail, code, hasty>>
judgeVars == <<refereeVars, tableVars>>

\* Elementwise problems, of which one needs libdevice and one stops needing it;
\* two pools with parameters of their own, a matmul and a loss; two plain 2-D
\* convolutions, a transposed one, a sum without an axis and a norm.
P(fact, klass, term) == [fact |-> fact, klass |-> klass, term |-> term]
MCPlans == { <<P("relu", "elementwise", "none"), P("tanh", "elementwise", "none")>>,
             <<P("pool", "pool", "2d"), P("pool", "pool", "2d"),
               P("matmul", "reduction", "none"), P("mse", "loss", "none")>>,
             <<P("conv", "conv", "2d"), P("conv", "conv", "2d"), P("convt", "conv", "other"),
               P("sum", "axis_reduce", "none"), P("groupnorm", "norm", "other")>> }
MCBackends  == <<"cuda_c", "mlir_gpu", "llvm", "torch">>
MCLibdevice == {<<"tanh", 0>>, <<"tanh", 1>>, <<"relu", 0>>}

\* Compute graphs: every graph of three operations, every graph of four over the
\* three kinds that fuse most, and feed-forward blocks.
Context == Given + 1
Before(i) == {Given} \cup 1..(i - 1)
Op(kind, in, i) == [kind |-> <<kind>>, in |-> in, takes |-> <<Len(in)>>, out |-> i, seq |-> i,
                    level |-> IF kind = "build_norm" THEN "builder" ELSE "primitive"]
Ops(i) == UNION {
  {Op("ggml_mul_mat", <<Given + 2, t>>, i) : t \in Before(i)},
  {Op(k, <<t>>, i) : k \in {"ggml_silu", "softmax"}, t \in Before(i)},
  {Op(k, <<t, Given + 2>>, i) : k \in {"ggml_scale", "build_norm"}, t \in Before(i)},
  {Op("ggml_reshape_3d", <<Context, t>>, i) : t \in Before(i)},
  {Op("ggml_rope_ext", <<Context, t, Given + 3>>, i) : t \in Before(i)},
  {Op(k, <<t, u>>, i) : k \in {"ggml_mul", "sub"}, t \in Before(i), u \in Before(i)} }
Common(i) == {o \in Ops(i) : o.kind[1] \in {"ggml_mul_mat", "ggml_silu", "ggml_mul"}}
Ffn(x, i) == Op("build_ffn", <<x, Given + 4, Given + 5, Given + 6>>, i)
MCGraphs ==
  {<<o1, o2, o3>> : o1 \in Ops(1), o2 \in Ops(2), o3 \in Ops(3)}
    \cup {<<o1, o2, o3, o4>> : o1 \in Common(1), o2 \in Common(2), o3 \in Common(3), o4 \in Common(4)}
    \cup { <<Ffn(Given, 1)>>, <<Ffn(Given, 1), Op("ggml_add", <<1, Given>>, 2)>>,
           <<Op("build_norm", <<Given, Given + 2>>, 1), Ffn(1, 2)>> }
MCRuleLists == { <<"epilogue_matmul_elementwise">>, <<"elementwise_chain">>,
                 <<"epilogue_matmul_elementwise", "elementwise_chain", "layout_transparent">>,
                 <<"layout_transparent", "elementwise_chain", "epilogue_matmul_elementwise">> }

\* Lines of a forward(): every kind the patterns know, and some they do not.
Line(form, op, par, keep) == [to |-> "x", form |-> form, op |-> op, par |-> par, keep |-> keep]
Saved(form) == [Line(form, "identity", "", TRUE) EXCEPT !.to = "r"]
Lines == UNION {
  {Line("module", o, "", TRUE) : o \in {"conv", "tanh", "identity", "odd"}},
  {Line("module", "leaky_relu", "0.2", TRUE), Line("module", "softmax", "2", TRUE)},
  {Line("call", "tanh", "", TRUE), Line("call", "log_softmax", "1", TRUE)},
  {Line("call", "leaky_relu", slope, TRUE) : slope \in {"0.2", "0.01"}},
  {Line("call", "softmax", dim, TRUE) : dim \in {"1", "2", "-1"}},
  {Line("call", o, dim, keep) : o \in {"mean", "amax"}, dim \in {"1", "2"}, keep \in BOOLEAN},
  {Line(form, "scaling", "2.0", TRUE) : form \in {"literal", "other"}},
  {Saved("clone"), Saved("alias"), [Line("module", "tanh", "", TRUE) EXCEPT !.to = "r"]},
  {Line("with", "+", v, TRUE) : v \in {"r", "y"}},
  {Line("return", o, "", TRUE) : o \in {"identity", "tanh"}} }
Runs(b) == \A i \in DOMAIN b :
  /\ b[i].form = "with" /\ b[i].par = "r" => \E j \in 1..(i - 1) : b[j].to = "r"
  /\ b[i].form = "return" => i = Len(b)
Core == {l \in Lines : \/ l.op \in {"conv", "+", "scaling"} \/ l.form = "clone"
                       \/ l.form = "call" /\ l.op \in {"tanh", "softmax"} /\ l.par # "-1"
                       \/ l.form = "call" /\ l.op \in {"mean", "amax"} /\ l.par = "1"}
\* Forwards of one, two and (of the core lines) three lines, one at a time, and
\* all pairs of a few with one, with two and with several runs to compose.
Few == LET Tanh == Line("call", "tanh", "", TRUE)
           Soft == Line("call", "softmax", "1", TRUE)
           Conv == Line("module", "conv", "", TRUE)
       IN { <<Tanh>>, <<Soft, Conv, Tanh>>, <<Tanh, Soft, Conv, Soft, Tanh>>,
            <<Line("call", "amax", "1", FALSE)>>, <<Line("call", "amin", "1", FALSE)>>,
            <<Saved("clone"), Tanh, Line("with", "+", "r", TRUE)>> }
MCBatches == {<<b, << >> >> : b \in {d \in UNION {[1..n -> Lines] : n \in 1..2} \cup [1..3 -> Core] : Runs(d)}}
               \cup (Few \X Few)

\* Every defect a referee may meet, at each step and layer where that matters.
Trial(who, steps, prompt, defect, at, in, resident, exact, cadence) ==
  [who |-> who, steps |-> steps, prompt |-> prompt, defect |-> defect, at |-> at, layer |-> in,
   resident |-> resident, exact |-> exact, cadence |-> cadence]
OnceAt == {"store", "read", "lost", "nan"}
Always == {"batch", "batchnan", "math"}
MCTrials ==
  UNION { {Trial("decode", n, p, d, at, l, r, e, c) : d \in OnceAt, at \in 0..2, l \in 1..2}
            \cup {Trial("decode", n, p, d, 0, l, r, e, c) : d \in Always, l \in 1..2}
            \cup {Trial("decode", n, p, d, 0, 1, r, e, c) : d \in {"none", "head"}}
          : n \in {0, 1, 3}, p \in 1..2, r \in BOOLEAN, e \in BOOLEAN, c \in {1, 3} }
  \cup {Trial("graph", n, p, d, at, l, TRUE, TRUE, 1) : n \in 2..5, p \in 1..2,
           d \in {"none", "slot", "len", "input", "leak", "stray"}, at \in 1..4, l \in 1..2}
  \cup {Trial("long", 4, 2, "none", 0, 1, TRUE, TRUE, 1)}

\* A unary kernel the harness has a recipe of, one it has not, and a matmul.
Measured(kind, problem, kernel, ulps, edges) ==
  [kind |-> kind, problem |-> problem, kernel |-> kernel, ulps |-> ulps, edges |-> edges]
Unary == {Measured("unary", p, k, u, e) : p \in BOOLEAN, k \in BOOLEAN,
            u \in [1..2 -> {0, 3, 9}], e \in {0, 9}}
Matmul == {Measured("matmul", p, TRUE, <<u>>, 0) : p \in BOOLEAN, u \in {0, 3, 9}}
MCMeasurements == {[relu |-> u, gelu |-> g, matmul |-> m] :
                     u \in Unary, g \in {x \in Unary : x.problem /\ x.kernel}, m \in Matmul}

G == INSTANCE GGUFBlocks
F == INSTANCE FusionPlanner WITH Graphs <- MCGraphs, RuleLists <- MCRuleLists, facts <- known
C == INSTANCE L2Chain WITH Batches <- MCBatches

\* All sequences of one and of two tokens.
MCPrompts == UNION {[1..n -> Tokens] : n \in 1..2}

\* A vector, a matrix and stacked experts of unequal sizes.
MCShapes   == {<<4>>, <<2, 3>>, <<2, 3, 2>>}
\* Wider, taller and square.
MCMatrices == {<<4, 6>>, <<6, 4>>, <<4, 4>>}

BlocksOver == /\ load = [by |-> "none", type |-> "none"] /\ ptr = [y |-> 0] /\ last = << >>
HostOver   == /\ eng = "none" /\ arch = "none" /\ asked = << >> /\ ids = << >>
              /\ pos = 0 /\ cache = << >> /\ out = << >> /\ raised = "ended"
SweepOver  == /\ plan = << >> /\ ver = MaxEdits /\ static = NoFile /\ dir = << >> /\ inb = 0 /\ outb = << >>
              /\ prob = 1 /\ back = 1 /\ stage = "done" /\ row = NoRow /\ faults = 0
PlannerOver == graph = << >> /\ rules = << >> /\ known = << >> /\ planner = "done"
ChainOver   == /\ serial = TRUE /\ work = [p \in C!Problems |-> [C!Start(<< >>) EXCEPT !.phase = "done"]]
               /\ tail = C!NoTail /\ code = C!NoTail /\ hasty = FALSE

JudgeOver   == /\ trial = Trial("none", 1, 1, "none", 0, 1, TRUE, TRUE, 1) /\ one = NoRows /\ two = NoRows
               /\ dlen = 0 /\ step = 0 /\ tally = FreshTally /\ exit = "running"
TableOver   == measured = << >> /\ wired = {} /\ facts = << >> /\ table = << >>

Init ==
  \/ G!BlockInit /\ HostOver /\ SweepOver /\ PlannerOver /\ ChainOver /\ JudgeOver /\ TableOver
  \/ BlocksOver /\ HostInit /\ SweepOver /\ PlannerOver /\ ChainOver /\ JudgeOver /\ TableOver
  \/ BlocksOver /\ HostOver /\ SweepInit /\ PlannerOver /\ ChainOver /\ JudgeOver /\ TableOver
  \/ BlocksOver /\ HostOver /\ SweepOver /\ F!PlannerInit /\ ChainOver /\ JudgeOver /\ TableOver
  \/ BlocksOver /\ HostOver /\ SweepOver /\ PlannerOver /\ C!ChainInit /\ JudgeOver /\ TableOver
  \/ BlocksOver /\ HostOver /\ SweepOver /\ PlannerOver /\ ChainOver /\ RefereeInit /\ TableOver
  \/ BlocksOver /\ HostOver /\ SweepOver /\ PlannerOver /\ ChainOver /\ JudgeOver /\ TableInit

BlockStep ==
  \/ G!Walk4_0  /\ UNCHANGED <<hostVars, sweepVars, plannerVars, chainVars, judgeVars>>
  \/ G!Walk8_0  /\ UNCHANGED <<hostVars, sweepVars, plannerVars, chainVars, judgeVars>>
  \/ G!Walk2K3K /\ UNCHANGED <<hostVars, sweepVars, plannerVars, chainVars, judgeVars>>
  \/ G!Walk4K5K /\ UNCHANGED <<hostVars, sweepVars, plannerVars, chainVars, judgeVars>>
  \/ G!Walk6K   /\ UNCHANGED <<hostVars, sweepVars, plannerVars, chainVars, judgeVars>>

HostStep ==
  \/ KeyError     /\ UNCHANGED <<blockVars, sweepVars, plannerVars, chainVars, judgeVars>>
  \/ IndexError   /\ UNCHANGED <<blockVars, sweepVars, plannerVars, chainVars, judgeVars>>
  \/ GenerateStep /\ UNCHANGED <<blockVars, sweepVars, plannerVars, chainVars, judgeVars>>
  \/ KvCacheStep  /\ UNCHANGED <<blockVars, sweepVars, plannerVars, chainVars, judgeVars>>
  \/ Dp4aKvStep   /\ UNCHANGED <<blockVars, sweepVars, plannerVars, chainVars, judgeVars>>
  \/ ResidentStep /\ UNCHANGED <<blockVars, sweepVars, plannerVars, chainVars, judgeVars>>
  \/ CStep        /\ UNCHANGED <<blockVars, sweepVars, plannerVars, chainVars, judgeVars>>
  \/ LastOnlyStep /\ UNCHANGED <<blockVars, sweepVars, plannerVars, chainVars, judgeVars>>

SweepStep ==
  \/ Start         /\ UNCHANGED <<blockVars, hostVars, plannerVars, chainVars, judgeVars>>
  \/ Emit          /\ UNCHANGED <<blockVars, hostVars, plannerVars, chainVars, judgeVars>>
  \/ EmitFails     /\ UNCHANGED <<blockVars, hostVars, plannerVars, chainVars, judgeVars>>
  \/ Build         /\ UNCHANGED <<blockVars, hostVars, plannerVars, chainVars, judgeVars>>
  \/ BuildFails    /\ UNCHANGED <<blockVars, hostVars, plannerVars, chainVars, judgeVars>>
  \/ Lower         /\ UNCHANGED <<blockVars, hostVars, plannerVars, chainVars, judgeVars>>
  \/ LowerFails    /\ UNCHANGED <<blockVars, hostVars, plannerVars, chainVars, judgeVars>>
  \/ RunAndJudge   /\ UNCHANGED <<blockVars, hostVars, plannerVars, chainVars, judgeVars>>
  \/ RunFails      /\ UNCHANGED <<blockVars, hostVars, plannerVars, chainVars, judgeVars>>
  \/ CompileStatic /\ UNCHANGED <<blockVars, hostVars, plannerVars, chainVars, judgeVars>>
  \/ NoStatic      /\ UNCHANGED <<blockVars, hostVars, plannerVars, chainVars, judgeVars>>
  \/ TimeStatic    /\ UNCHANGED <<blockVars, hostVars, plannerVars, chainVars, judgeVars>>
  \/ TimeEmit      /\ UNCHANGED <<blockVars, hostVars, plannerVars, chainVars, judgeVars>>
  \/ TimeEmitFails /\ UNCHANGED <<blockVars, hostVars, plannerVars, chainVars, judgeVars>>
  \/ TimeBuild     /\ UNCHANGED <<blockVars, hostVars, plannerVars, chainVars, judgeVars>>
  \/ TimeFails     /\ UNCHANGED <<blockVars, hostVars, plannerVars, chainVars, judgeVars>>
  \/ Time          /\ UNCHANGED <<blockVars, hostVars, plannerVars, chainVars, judgeVars>>
  \/ Done          /\ UNCHANGED <<blockVars, hostVars, plannerVars, chainVars, judgeVars>>
  \/ SweepAgain    /\ UNCHANGED <<blockVars, hostVars, plannerVars, chainVars, judgeVars>>

PlannerStep ==
  \/ F!Expand          /\ UNCHANGED <<blockVars, hostVars, sweepVars, chainVars, judgeVars>>
  \/ F!FixpointStep    /\ UNCHANGED <<blockVars, hostVars, sweepVars, chainVars, judgeVars>>
  \/ F!GraphStep       /\ UNCHANGED <<blockVars, hostVars, sweepVars, chainVars, judgeVars>>
  \/ F!FixpointReached /\ UNCHANGED <<blockVars, hostVars, sweepVars, chainVars, judgeVars>>

ChainStep == \E p \in C!Problems :
  \/ C!Lift(p)       /\ UNCHANGED <<blockVars, hostVars, sweepVars, plannerVars, judgeVars>>
  \/ C!OracleStep(p) /\ UNCHANGED <<blockVars, hostVars, sweepVars, plannerVars, judgeVars>>
  \/ C!JudgeOracle(p)/\ UNCHANGED <<blockVars, hostVars, sweepVars, plannerVars, judgeVars>>
  \/ C!Pend(p)       /\ UNCHANGED <<blockVars, hostVars, sweepVars, plannerVars, judgeVars>>
  \/ C!FusedStep(p)  /\ UNCHANGED <<blockVars, hostVars, sweepVars, plannerVars, judgeVars>>
  \/ C!Open(p)       /\ UNCHANGED <<blockVars, hostVars, sweepVars, plannerVars, judgeVars>>
  \/ C!Close(p)      /\ UNCHANGED <<blockVars, hostVars, sweepVars, plannerVars, judgeVars>>
  \/ C!EmitFails(p)  /\ UNCHANGED <<blockVars, hostVars, sweepVars, plannerVars, judgeVars>>
  \/ C!Load(p)       /\ UNCHANGED <<blockVars, hostVars, sweepVars, plannerVars, judgeVars>>
  \/ C!JudgeFused(p) /\ UNCHANGED <<blockVars, hostVars, sweepVars, plannerVars, judgeVars>>

engineVars == <<blockVars, hostVars, sweepVars, plannerVars, chainVars>>
JudgeStep ==
  \/ DecodeStep   /\ UNCHANGED <<engineVars, tableVars>>
  \/ GraphSeed    /\ UNCHANGED <<engineVars, tableVars>>
  \/ GraphStep    /\ UNCHANGED <<engineVars, tableVars>>
  \/ LongStep     /\ UNCHANGED <<engineVars, tableVars>>
  \/ Refuse       /\ UNCHANGED <<engineVars, tableVars>>
  \/ ReadReferees /\ UNCHANGED <<engineVars, refereeVars>>
  \/ MergeFact    /\ UNCHANGED <<engineVars, refereeVars>>

Next == BlockStep \/ HostStep \/ SweepStep \/ PlannerStep \/ ChainStep \/ JudgeStep

\* Elements are read as ggml's walk reads them, in GGUF's order, and the dp4a kernel
\* finds its weights, as in GGUFBlocks.
WeightsAreTheFiles == G!WeightsAreTheFiles

\* A plan computes what its graph means, in an order it can run in, as in
\* FusionPlanner.
PlanIsItsGraph == F!PlanIsItsGraph

\* The steps of a chain compute what forward() does, as in L2Chain.
OracleIsForward == C!OracleIsForward

\* The fused form of a chain computes it too, as in L2Chain.
FusedIsOracle == C!FusedIsOracle


=============================================================================
