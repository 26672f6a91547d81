------------------------------- MODULE MCTools -------------------------------
(***************************************************************************)
(* The programs that compare kernels with PyTorch, for TLC: the forwards   *)
(* of YOLOv5n (YoloForward), the hundred problems of one kernel            *)
(* (KernelProblems), the models walked module by module (ModuleWalk) and   *)
(* the comparisons bit for bit (BitIdentity); the reader generated from a  *)
(* format's facts (FormatReader) and the programs generated from a         *)
(* network's (GraphConvert).  A behaviour is of one of these; the others   *)
(* are over before they begin.                                             *)
(***************************************************************************)
EXTENDS YoloForward, ModuleWalk, BitIdentity, TLC

CONSTANTS Libs, Base, Declarations, Files, Asks, Olds, Networks

VARIABLES lib, probs, probExit,
          decl, reader, gen, file, line, env, fileExit, answer,
          network, facts, tool, program, stmt, held, end

K == INSTANCE KernelProblems WITH results <- probs, exit <- probExit
F == INSTANCE FormatReader WITH pc <- line, exit <- fileExit
G == INSTANCE GraphConvert WITH vars <- held

\* The constants' values are made with the modules' own constructors, which are taken
\* from instances that do not have those values: an instance would refer to itself.
FData == INSTANCE FormatReader WITH Declarations <- {}, Files <- {}, Asks <- {}, Olds <- {}, pc <- line, exit <- fileExit
GData == INSTANCE GraphConvert WITH Networks <- {}, vars <- held

kernelVars == <<lib, probs, probExit>>
formatVars == <<decl, reader, gen, file, line, env, fileExit, answer>>
graphVars == <<network, facts, tool, program, stmt, held, end>>

---------------------------------------------------------------------------
(* YoloForward: each forward with one kernel wrong somewhere               *)

YoloScripts == {"yolo_forward", "bpd_yolo_infer", "bench_yolo_perf_report", "bench_yolo_cbsa", "bench_yolo_reuse", "sweep"}
Bads == {{}, {<<"conv", 0>>}, {<<"silu", 6>>}, {<<"bn", 13>>}, {<<"cat", 12>>, <<"conv", 20>>}, {<<"conv", 24>>},
         {<<"maxpool", 9>>}, {<<"upsample", 15>>}}
J(w, n, b) == [who |-> w, net |-> n, bad |-> b]
MCJobs == {J(w, Yolo(k), b) : w \in YoloScripts, k \in 1..2, b \in Bads}
  \cup {J("layer2", <<C3(n, TRUE)>>, b) : n \in 1..2, b \in {{}, {<<"conv", 0>>}, {<<"cat", 0>>}, {<<"+", 0>>}}}
  \cup {J("layer9", <<Layer("SPPF", 0, FALSE, << >>)>>, b) : b \in {{}, {<<"maxpool", 0>>}, {<<"bn", 0>>}}}
  \cup {J("layer24", <<Detect>>, b) : b \in {{}, {<<"conv", 0>>}, {<<"sigmoid", 0>>}}}
  \cup {J("per_stage", << >>, b) : b \in SUBSET ({"conv", "bn", "silu"} \X {0, 1})}
  \cup {J("block", << >>, b) : b \in SUBSET ({"conv", "bn", "mish"} \X {0})}

---------------------------------------------------------------------------
(* KernelProblems: libraries                                               *)

Library(missing, wrong, junk) == [missing |-> missing, wrong |-> wrong, junk |-> junk]
MCLibs == {Library({}, {}, 0), Library({}, {}, 1), Library({"mm"}, {"conv_transpose2d"}, 0)}

---------------------------------------------------------------------------
(* ModuleWalk: models whose modules meet each branch, and libraries        *)

M(op, size) == Module(op, size, TRUE, FALSE, << >>)
Bent(op, size) == Module(op, size, FALSE, FALSE, << >>)
Odd(op, size) == Module(op, size, TRUE, TRUE, << >>)
Box(parts) == Module("Sequential", << >>, TRUE, FALSE, parts)
Net(input, modules) == [loads |-> TRUE, input |-> input, modules |-> modules]
Image == <<2, 2, 5, 5>>
MCModels == {
  Net(Image, <<M("Conv2d", <<2, 4>>), M("BatchNorm2d", <<4>>), M("Hardswish", << >>), M("ReLU", << >>)>>),
  Net(Image, <<M("ConvTranspose2d", <<2, 3>>), Bent("MaxPool2d", << >>), M("Hardtanh", << >>), M("Tanh", << >>)>>),
  Net(Image, <<M("Conv2d", <<2, 4>>), M("GroupNorm", <<4>>), Bent("LeakyReLU", << >>), M("MaxPool2d", << >>), M("Linear", <<16, 3>>)>>),
  Net(<<2, 3>>, <<M("Linear", <<3, 4>>), M("BatchNorm1d", <<4>>), M("Softmax", <<1>>), M("GELU", << >>)>>),
  Net(<<2, 3>>, <<M("Linear", <<3, 4>>), M("Dropout", << >>), M("Softmax", <<2>>), M("Upsample", << >>), M("Mish", << >>)>>),
  Net(<<1, 2, 3, 3, 3>>, <<M("Conv3d", <<2, 2>>), M("GroupNorm", <<2>>), M("InstanceNorm3d", <<2>>), M("AdaptiveAvgPool3d", << >>)>>),
  Net(<<1, 2, 3, 3, 3>>, <<M("Conv3d", <<2, 2>>), M("BatchNorm3d", <<2>>), M("LayerNorm", <<3, 3>>), M("Sigmoid", << >>)>>),
  Net(<<2, 5, 5>>, <<M("Softplus", << >>), M("Conv2d", <<2, 2>>)>>),
  Net(Image, <<M("ReLU", << >>), Odd("Conv2d", <<2, 4>>), M("ReLU", << >>)>>),
  Net(Image, <<Box(<<M("Conv2d", <<2, 2>>), M("ReLU", << >>)>>), M("Conv2d", <<2, 2>>), M("ReLU", << >>), M("InstanceNorm2d", <<2>>)>>),
  Net(Image, <<Box(<<M("Conv2d", <<2, 4>>), M("ReLU", << >>)>>), M("Conv2d", <<2, 4>>)>>),
  Net(<<2, 3>>, <<M("LayerNorm", <<3>>), M("Embedding", << >>)>>),
  Net(<<2, 3>>, <<M("Embedding", << >>), M("Identity", << >>)>>),
  [Net(Image, << >>) EXCEPT !.loads = FALSE] }
Lib(l, w) == [lacks |-> l, wrong |-> w]
MCBuilds == {Lib({}, {})} \cup {Lib({k}, {}) : k \in {"Conv2d", "ReLU", "Linear", "Softmax"}}
  \cup {Lib({}, {k}) : k \in {"Conv2d", "Conv3d", "batchnorm", "instancenorm", "GroupNorm", "Linear", "MaxPool2d", "ConvTranspose2d", "LayerNorm", "Softmax", "Softplus"}}
  \cup {Lib({"ReLU"}, {"Conv2d", "Linear"}), Lib({"Conv2d"}, {"ReLU", "GroupNorm"})}

---------------------------------------------------------------------------
(* BitIdentity: scripts with a kernel off, a source missing or CUDA failing *)

Sc(n, off, abs, f) == [name |-> n, off |-> off, absent |-> abs, faults |-> f]
OffBy(n, g) == n :> g
Grades == {Grade(4, 1), Grade(64, 2), Grade(1024, 1), Grade(1024, 2), Grade(1024, 3), Grade(200000, 0), Grade(200000, 2), Far, Stub}
None == [x \in {} |-> 0]
MCScripts ==
  {Sc(n, None, {}, 1) : n \in {"v1", "v2", "v3"}} \cup {Sc(n, None, {}, 0) : n \in {"gpu", "universal"}}
  \cup {Sc("v2", OffBy(k, g), {}, 0) : k \in {"reduce_sum_rows", "reduce_mean", "conv_1d_forward", "conv_transpose_3d"}, g \in Grades}
  \cup {Sc("v1", OffBy(k, g), {}, 0) : k \in {"reduce_mean", "reduce_argmin"}, g \in Grades}
  \cup {Sc("v3", OffBy(k, g), {}, 0) : k \in {"cumsum", "norm_group_plain", "loss_triplet_margin", "pool_2d_avg"}, g \in Grades}
  \cup {Sc("v3", OffBy("norm_rms_plain", Stub) @@ OffBy("norm_group_plain", Stub), {"norm_l2_plain"}, 0)}
  \cup {Sc("v1", None, {"reduce_max"}, 0), Sc("v3", None, {"cumsum", "pool_2d_avg"}, 0)}
  \cup {Sc("gpu", OffBy(k, g), {}, 0) : k \in {"sgemm 64", "sgemm 64x1024", "mm+bias+relu 2048", "relu"}, g \in Grades \ {Stub}}
  \cup {Sc("universal", OffBy(k, g), {}, 0) : k \in {"sgemm 512", "gelu", "linear"}, g \in Grades \ {Stub}}
  \cup {Sc("gpu", None, {"library"}, 0), Sc("universal", None, {"library"}, 0), Sc("universal", None, {"bpd_mish_cpu"}, 0)}

---------------------------------------------------------------------------
(* FormatReader: the repository's declaration in small, and ones that      *)
(* strain the template; a magic of two bytes of Base 2                     *)

Field(name, at, dim, must, to) == FData!Field(name, at, IF name \in {"magic", "tensor_count", "element_count"} THEN 2 ELSE 1, dim, must, to)
Magic == Field("magic", 0, "magic_constant", "bytes", <<1, 0>>)
Version(must, to) == Field("version", 2, "format_version", must, to)
TensorCount(dim, to) == Field("tensor_count", 3, dim, "lt", to)
KvCount(dim, to) == Field("metadata_kv_count", 5, dim, "lt", to)
Header(version, tensors, kvs) == FData!Section("header", 0, 6, <<Magic, version, tensors, kvs>>)
Kv == FData!Section("metadata_kv_section", 1, 0, << >>)
MCHeader == Header(Version("eq", 1), TensorCount("tensor_count", 2), KvCount("metadata_kv_count", 1))
Gguf == <<MCHeader, Kv, FData!Section("metadata_array", -1, 0, <<Field("element_count", 0, "array_element_count", "lt", 3)>>)>>
OneDimension(v, to, kvs) == <<Header(Version("eq", v), TensorCount("count", to), KvCount("count", kvs))>>
MCDeclarations == {FData!None, Gguf, OneDimension(0, 2, 2), OneDimension(1, 3, 1),
  <<Header(Version("any", 0), TensorCount("tensor_count", 2), KvCount("metadata_kv_count", 1))>>,
  <<Kv, [MCHeader EXCEPT !.size = 7, !.fields = Append(@, Field("alignment", 6, "alignment", "any", 0))]>>,
  <<FData!Section("preamble", 0, 1, << >>), [MCHeader EXCEPT !.order = 1]>>,
  <<MCHeader, FData!Section("trailer", 1, 7, <<Field("end", 0, "magic_constant", "bytes", <<1>>)>>)>>}
MCFiles == {FData!Missing} \cup UNION {[1..n -> 0..1] : n \in {0, 1, 5, 6, 7}}
MCOlds == {Gguf, OneDimension(0, 2, 2)}
MCAsks == {"summary", "keys", "metadata_kv_count", "alignment", ".x | y"}

---------------------------------------------------------------------------
(* GraphConvert: small networks, one like YOLOv5n, and ones of more than   *)
(* ten layers; with the routes added to their facts or without             *)

Cbs == GData!Layer("Conv", 0, FALSE, TRUE, <<-1>>)
Linear == GData!Layer("Conv", 0, FALSE, FALSE, <<-1>>)
Csp(n, add, act) == GData!Layer("C3", n, add, act, <<-1>>)
Spp(act) == GData!Layer("SPPF", 0, FALSE, act, <<-1>>)
Twice == GData!Layer("Upsample", 0, FALSE, FALSE, <<-1>>)
Joint(from) == GData!Layer("Concat", 0, FALSE, FALSE, from)
Heads(from) == GData!Layer("Detect", 0, FALSE, FALSE, from)
Nets == {<<Cbs>>, <<Linear>>, <<Twice>>, <<Twice, Twice>>, <<Twice, Cbs>>, <<Twice, Cbs, Twice>>, <<Cbs, Cbs>>, <<Cbs, Twice>>,
         <<Spp(TRUE)>>, <<Cbs, Spp(FALSE)>>, <<Cbs, Cbs, Twice, Joint(<<-1, 0>>), Cbs>>, <<Twice, Joint(<<-1, -1>>)>>,
         <<Cbs, Csp(3, TRUE, TRUE), Spp(TRUE), Twice, Joint(<<-1, 1>>), Cbs, Csp(1, FALSE, TRUE), Heads(<<0, 5, 6>>)>>,
         [n \in 1..10 |-> Cbs], [n \in 1..11 |-> Cbs], [n \in 1..12 |-> Twice]}
  \cup {<<Csp(n, add, act)>> : n \in 1..2, add \in BOOLEAN, act \in BOOLEAN}
MCNetworks == {[layers |-> l, routed |-> r] : l \in Nets, r \in BOOLEAN}

---------------------------------------------------------------------------
YoloOver   == job = J("none", << >>, {}) /\ arm = "none" /\ pos = 0 /\ state = << >> /\ outs = << >> /\ heads = << >> /\ rows = << >>
KernelOver == lib = Library({}, {}, 0) /\ probs = << >> /\ probExit = "over"
WalkOver   == model = Net(<< >>, << >>) /\ build = Lib({}, {}) /\ walked = 0 /\ array = << >>
              /\ subOps = << >> /\ ptOps = << >> /\ rowStatus = "over"
BitOver    == script = Sc("v1", None, {}, 0) /\ cases = << >> /\ devmem = {} /\ lost = FALSE /\ caseExit = "over"
FormatOver == decl = F!None /\ reader = F!NoReader /\ gen = "not run" /\ file = F!Missing
              /\ line = 0 /\ env = << >> /\ fileExit = "over" /\ answer = << >>
GraphOver  == network = [layers |-> << >>, routed |-> FALSE] /\ facts = << >> /\ tool = "none" /\ program = << >>
              /\ stmt = 0 /\ held = << >> /\ end = "over"
ToolsInit ==
  \/ YoloInit /\ KernelOver /\ WalkOver /\ BitOver /\ FormatOver /\ GraphOver
  \/ YoloOver /\ K!Init /\ WalkOver /\ BitOver /\ FormatOver /\ GraphOver
  \/ YoloOver /\ KernelOver /\ WalkInit /\ BitOver /\ FormatOver /\ GraphOver
  \/ YoloOver /\ KernelOver /\ WalkOver /\ BitInit /\ FormatOver /\ GraphOver
  \/ YoloOver /\ KernelOver /\ WalkOver /\ BitOver /\ F!FormatInit /\ GraphOver
  \/ YoloOver /\ KernelOver /\ WalkOver /\ BitOver /\ FormatOver /\ G!ConvertInit

YoloStep ==
  \/ PlainForward /\ UNCHANGED <<kernelVars, walkVars, bitVars, formatVars, graphVars>>
  \/ InferForward /\ UNCHANGED <<kernelVars, walkVars, bitVars, formatVars, graphVars>>
  \/ TimedForward /\ UNCHANGED <<kernelVars, walkVars, bitVars, formatVars, graphVars>>
  \/ FusedForward /\ UNCHANGED <<kernelVars, walkVars, bitVars, formatVars, graphVars>>
  \/ ReuseForward /\ UNCHANGED <<kernelVars, walkVars, bitVars, formatVars, graphVars>>
  \/ SweepForward /\ UNCHANGED <<kernelVars, walkVars, bitVars, formatVars, graphVars>>
  \/ TorchForward /\ UNCHANGED <<kernelVars, walkVars, bitVars, formatVars, graphVars>>
  \/ SweepTorch   /\ UNCHANGED <<kernelVars, walkVars, bitVars, formatVars, graphVars>>
  \/ C3Alone      /\ UNCHANGED <<kernelVars, walkVars, bitVars, formatVars, graphVars>>
  \/ SPPFAlone    /\ UNCHANGED <<kernelVars, walkVars, bitVars, formatVars, graphVars>>
  \/ PartDone     /\ UNCHANGED <<kernelVars, walkVars, bitVars, formatVars, graphVars>>
  \/ HeadsAlone   /\ UNCHANGED <<kernelVars, walkVars, bitVars, formatVars, graphVars>>
  \/ Stage        /\ UNCHANGED <<kernelVars, walkVars, bitVars, formatVars, graphVars>>

KernelStep ==
  \/ K!Try    /\ UNCHANGED <<yoloVars, walkVars, bitVars, formatVars, graphVars>>
  \/ K!Finish /\ UNCHANGED <<yoloVars, walkVars, bitVars, formatVars, graphVars>>

WalkStep ==
  \/ RunSubstrate /\ UNCHANGED <<yoloVars, kernelVars, bitVars, formatVars, graphVars>>
  \/ FallBack     /\ UNCHANGED <<yoloVars, kernelVars, bitVars, formatVars, graphVars>>
  \/ Leave        /\ UNCHANGED <<yoloVars, kernelVars, bitVars, formatVars, graphVars>>
  \/ Raise        /\ UNCHANGED <<yoloVars, kernelVars, bitVars, formatVars, graphVars>>

BitStep ==
  \/ Uncompiled   /\ UNCHANGED <<yoloVars, kernelVars, walkVars, formatVars, graphVars>>
  \/ RunCase      /\ UNCHANGED <<yoloVars, kernelVars, walkVars, formatVars, graphVars>>
  \/ CompareOnGpu /\ UNCHANGED <<yoloVars, kernelVars, walkVars, formatVars, graphVars>>
  \/ CompareOnCpu /\ UNCHANGED <<yoloVars, kernelVars, walkVars, formatVars, graphVars>>
  \/ Unloaded     /\ UNCHANGED <<yoloVars, kernelVars, walkVars, formatVars, graphVars>>
  \/ Conclude     /\ UNCHANGED <<yoloVars, kernelVars, walkVars, formatVars, graphVars>>

FormatStep ==
  \/ F!Generate    /\ UNCHANGED <<yoloVars, kernelVars, walkVars, bitVars, graphVars>>
  \/ F!ImportError /\ UNCHANGED <<yoloVars, kernelVars, walkVars, bitVars, graphVars>>
  \/ F!Open        /\ UNCHANGED <<yoloVars, kernelVars, walkVars, bitVars, graphVars>>
  \/ F!NoFile      /\ UNCHANGED <<yoloVars, kernelVars, walkVars, bitVars, graphVars>>
  \/ F!Pass        /\ UNCHANGED <<yoloVars, kernelVars, walkVars, bitVars, graphVars>>
  \/ F!ParseError  /\ UNCHANGED <<yoloVars, kernelVars, walkVars, bitVars, graphVars>>
  \/ F!Answer      /\ UNCHANGED <<yoloVars, kernelVars, walkVars, bitVars, graphVars>>

GraphStep ==
  \/ G!Walk     /\ UNCHANGED <<yoloVars, kernelVars, walkVars, bitVars, formatVars>>
  \/ G!ToC      /\ UNCHANGED <<yoloVars, kernelVars, walkVars, bitVars, formatVars>>
  \/ G!ToRouted /\ UNCHANGED <<yoloVars, kernelVars, walkVars, bitVars, formatVars>>
  \/ G!ToTorch  /\ UNCHANGED <<yoloVars, kernelVars, walkVars, bitVars, formatVars>>
  \/ G!Execute  /\ UNCHANGED <<yoloVars, kernelVars, walkVars, bitVars, formatVars>>
  \/ G!Raise    /\ UNCHANGED <<yoloVars, kernelVars, walkVars, bitVars, formatVars>>
  \/ G!Return   /\ UNCHANGED <<yoloVars, kernelVars, walkVars, bitVars, formatVars>>

ToolsNext == YoloStep \/ KernelStep \/ WalkStep \/ BitStep \/ FormatStep \/ GraphStep

\* A status of verify_kernelbench_l1_cpu is of its kernel (KernelProblems).
StatusIsKernels == K!StatusIsKernels
\* A program that is generated does what its facts say: the reader of a format, the
\* programs of a network's graph, and the emitted kernels that are launched by index.
ProgramsAreTheirFacts == F!ReaderIsDeclared /\ G!GraphIsNetwork /\ IndicesAreRight /\ GatherIsScatter
=============================================================================
