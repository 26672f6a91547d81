# LlamaTov: TLA+ models, TLC runs and TLAPS proofs

LlamaTov (`src/bpd`) is an inference engine for quantised language models. Its
kernels are CUDA sources, written inline in Python or emitted from Prolog facts;
its production path keeps the residual stream, the KV cache, the logits and the
choice of the next token on the GPU, and replays one captured CUDA graph per
token. The claim that runs through the repository is *0 ULP*: every faster form
of a computation (fused, device-resident, captured, cached) gives the bits of the
plain one. Most of what could break that claim is not arithmetic. It is which
buffer a kernel reads, which of two counters is current, in what order threads
add, and what a cache key leaves out. That is what is modelled here.

## 1. The system

| Component | State | Operations |
|---|---|---|
| Device KV cache, `lib/dev_residency.py` 434-537 | per layer: K/V buffers, `length` on the host, an int at `len_ptr` on the device | append (at the host's or the device's length), increment, seed the device length, attend |
| Eager forward, `dev_residency.py` 1328-1593 | residual, scratch, slab, fusion toggles | one token: norm, QKV, rope, append, attention, projections, carry the residual, logits |
| `GraphRunner`, `dev_residency.py` 1626-1822 | runner phase, graph, weight snapshot | `seed`, `capture`, `replay_logits`, `replay_token` |
| Slab and scratch, `dev_residency.py` 119-175, 340-415 | bump pointer, `_SCRATCH`, owned `DevTensor`s, two residual buffers | allocate, rewind, free |
| Weight caches, `fact_dispatch.py` 255-299, `dev_residency.py` 783-812, 1283-1326 | four process-wide dictionaries | look up by a key of sampled elements, quantise, upload |
| Decode attention kernels, `dev_residency.py` 1824-2047 | shared memory `sh` and `red` of a block | score, max, exp, sum, output between barriers |
| Device argmax, `dev_residency.py` 196-271, 1066-1118 | partial maxima that live from token to token | one-block and two-stage reduction |
| Cubin cache, `fact_dispatch.py` 42-109, `dev_residency.py` 357-385 | files in a shared directory, dictionaries per process | write the source, run swipl and nvcc, load the module |
| CPU reference, `decode_fact.py` | list of K/V arrays per layer | the forward that every device path must reproduce |
| Host operations, `lib/llamatov_helpers.py`, `lib/fact_dispatch.py` | device buffers of a launch, cubins, functions, kept weights | norm, linear, attention, SwiGLU by torch, or by kernels from facts |
| CI webhook and pipeline, `scripts/` | two checkouts, build directory, fact files, a thread per push | pull, build, test, redraw; kill after 300 s |
| Autotuner and sweep, `kernelgen/referee/autotuner.py`, `gemm_sweep.py` | one JSON file; matrices, cubins and a result under fixed names | look up, compile, verify, measure, write back |
| Block readers, `llamatov_run.py`, `lib/llamatov_helpers.py`, `llamatov_inference.py` | none | unpack eight block formats, order a tensor's elements |
| Host engines, `llamatov_run.py` and the `llamatov_*` scripts | K/V arrays, position, the tokens so far | prefill, one token at a time, append |
| C forward, `bpd-substrate/bench/bpd_cpu.c`, `bpd_llamatov_infer.py` | four scratch buffers, a K and a V cache, two scripts in `/tmp` | find the tensors, one block as a list of kernels, all layers, the loop over tokens |
| Fusion planners, `lib/iterative_fusion.pl`, `graph_optimizer.pl`, `apply_fusion.pl`, `ffn_expander.pl` | the facts of a graph | find a pair, rewrite the facts, again |
| Kernel sweep, `kernelgen/referee/kernelbench_sweep.py` | files of fixed names in one directory | emit, build, run, compare, time, per problem and backend |
| Chain verification, `l2_chain_lift.py`, `l2_chain_verify.py` | one generated Python file, a pool of workers | lift lines to steps, run them, emit and load fused functions |
| Referees, `decode_referee.py`, `gr_referee.py`, `long_run_referee.py` | two decodes and a tally | step both, compare caches, logits and tokens |
| Table of robust operations, `stanford_referee`, `wire_referees_to_dashboard.py` | a tier per operation | judge, join the judges' facts |
| YOLOv5n forwards, `bpd-substrate/inference`, `bench/*yolo*` | the outputs of the layers, two buffers | every layer by kernels and by PyTorch, fused or not, stage by stage |
| Kernels one by one, `bench/verify_kernelbench_l1_cpu.py`, `bpd_cpu.c` | a list of statuses | a hundred kernels against PyTorch |
| Models one by one, `bench/verify_kernelbench_l2_cpu.py` | the array the walk holds | run each module by the substrate, else by PyTorch |
| Bit-identity scripts, `bench/bit_identical*.py`, `bench/tier2` | device memory, statuses, an exit code | compile, launch, compare, per case |
| Generated GGUF reader, `file-formats/gguf` | the generated program | generate from facts, read a file, answer |
| Network converters, `bpd-substrate/tools` | facts of a graph, a program | walk a network, emit C or PyTorch, export weights |
| Tokenizer, emitters, lifters, dashboards, benchmarks | files in, files out | pure or one-shot |

How they interact. The forward asks the cubin cache for each kernel by name and
options, the weight caches for each weight pointer, the slab for each output, and
the KV cache of the layer for a slot. All kernels go to one stream, so the device
executes them in program order. During `capture` the same Python runs and the
kernels are recorded instead: host state advances, device state does not. A replay
runs the kernels and no Python. Several processes share the directory of cubins;
several models in a process share the weight caches, which are module globals.

What is hard, and where:

- *two counts of one thing*: the host's and the device's cache length advance on
  different operations (`GraphDecode`);
- *half-done work*: a forward that raises has appended to the caches of the layers
  before, has allocated, and has listed scratch to free (`GraphDecode`,
  `ResidentForward`);
- *memory reuse*: the slab is rewound while the next layer's input was just computed
  in it, and freed device buffers come back at once (`ResidentForward`);
- *combinations*: fourteen toggles reroute kernels independently (`ResidentForward`);
- *threads*: reductions in shared memory, correct only with every barrier and only
  in one order of additions (`BlockSoftmax`);
- *boundaries*: short and empty chunks, ties, NaN (`DeviceArgmax`);
- *keys*: caches that outlive the source, the options or the model that filled
  them (`CubinCache`, `WeightCaches`);
- *files*: builders that check for a file, then write it under its final name
  (`CubinCache`), tools whose status nobody reads and whose old output lies where the
  new one should be (`CIPipeline`, `GemmTuner`, `KernelSweep`, `L2Chain`);
- *processes*: pushes, tunings and workers that overlap, tools that hang, a pipeline
  that is killed while its tool lives on (`CIPipeline`, `GemmTuner`, `L2Chain`);
- *indices*: nibbles and high bits of blocks, positions and masks of a decode that goes
  on after its prefill, buffers reused by the next kernel, strides in the wrong unit
  (`GGUFBlocks`, `HostDecode`, `LlamaBlock`);
- *rewriting*: facts removed and added one fusion after the other (`FusionPlanner`),
  lines dropped on the way from source to steps (`L2Chain`);
- *judging*: what a comparison cannot see, and which of two judges wins (`Referees`,
  `RobustTable`); which operation a difference is blamed on (`YoloForward`,
  `KernelProblems`, `ModuleWalk`, `BitIdentity`);
- *generating*: programs put together from facts, piece by piece (`FormatReader`,
  `GraphConvert`).

What makes each component correct: the logits of each token rest on exactly its
history; every toggle combination computes the reference's terms; nothing needed is
freed or overwritten; the reduction's tree is the same for every launch; the token
is the first maximum; a kernel or a weight that is served is the one asked for; a
dashboard is of one commit; a tuning is the best of its candidates and is kept; a
block, a host engine, the C forward, a plan and a chain each agree with the reference
they are written after; a verdict is about what it names and rules out what it says.

## 2. The modules

| Module | What it is |
|---|---|
| `KVDecode` | the abstract decode: a history that grows by a token, logits over all of it, no promise once a forward has raised |
| `GraphDecode` | caches with both lengths, eager forwards layer by layer, seed, capture, replay, forwards that raise, on all three attention paths; refines `KVDecode` |
| `GraphDecodeProofs` | theorems about `GraphDecode`: its types, then its safety and the refinement |
| `ResidentForward`, `MCResidentForward` | the dataflow of one forward on symbolic values and real allocation, with attention on the device or on the host |
| `ResidentForwardProofs` | theorems about it, in three storeys: what an operation does to memory, what stays held, what the values are |
| `Halving`, `BlockSoftmax`, `DeviceArgmax`, `KernelsProofs`, `MCKernels` | what halving needs; one block of the three attention kernels, thread by thread; both argmax forms over classes of floats; theorems about them; for TLC these and the caches, a behaviour being of one |
| `CubinCache`, `MCCubinCache` | the shared directory, its builders, edits, restarts, tool failures |
| `WeightCaches`, `MCWeightCaches` | the weight dictionaries and the pointers a graph bakes |
| `CachesProofs`, `MCCaches` | these two together: theorems about each, and both for TLC |
| `CIPipeline`, `GemmTuner`, `MCHostScripts` | the continuous integration and the autotuner, processes over files |
| `HostScriptsProofs` | theorems about the four scripts `CIPipeline`, `GemmTuner`, `ModuleWalk` and `BitIdentity` |
| `GGUFBlocks` | readers of quantised blocks against ggml's walk through them |
| `HostDecode`, `HostDecodeProofs` | the host engines against the recomputation of the sequence; theorems |
| `LlamaBlock`, `LlamaBlockProofs`, `MCLlamaBlock` | the C forward, from the scripts that find its tensors to its buffers and caches, against one pass over the sequence; the theorem about it |
| `FactDispatch` | the host's operations, by torch or by launches of kernels from facts, with a driver that fails |
| `MCForwards` | `ResidentForward`, `LlamaBlock` and `FactDispatch` for TLC; a behaviour is of one of them |
| `FusionPlanner` | two planners against the dataflow they must preserve |
| `KernelSweep`, `L2Chain` | the two benchmarks of generated kernels: files, tools, workers |
| `Referees`, `RobustTable` | what a verdict rules out, and how verdicts are joined |
| `JudgesProofs` | theorems about `KernelSweep`, `RobustTable` and `Referees` |
| `MCHostModels` | the seven modules from `GGUFBlocks` to `RobustTable`, `LlamaBlock` and `FactDispatch` apart, for TLC; a behaviour is of one of them |
| `YoloForward` | YOLOv5n by kernels against PyTorch, in every form the scripts run it |
| `RowMajor`, `KernelCatalog`, `KernelProblems` | flat arrays; a hundred kernels' loops against PyTorch's definitions; the script that judges them |
| `ModuleWalk` | a model run module by module by two libraries |
| `KernelLayouts`, `BitIdentity` | the index arithmetic of emitted kernels; the scripts that launch and compare them |
| `FormatReader` | the generator of the GGUF reader, the program it writes, the answers |
| `GraphConvert` | a network to facts, facts to programs, programs to values |
| `MCTools` | the six programs from `YoloForward` to `GraphConvert` for TLC; a behaviour is of one of them |

### GraphDecode

`length`, `dlen` and `rows` are `cache.length`, `*len_ptr` and the K/V buffers (a
row stands for its K and its V). `Begin`, `EagerLayer`, `LastLayer` are one eager
forward; a layer's rope, append, increment and attention are one step because the
stream runs them in order and nothing else uses the cache. `Capture` advances
`length` in every layer and nothing else, as the recorded forward does. `Replay` is
a whole replay: the host waits for it. The three `Raise...` actions stop a forward
before the append, between append and increment (possible only unfused), or after
it; `CaptureRaises` leaves the stream in capture mode for good. `path`, chosen at the
start, is what the toggles select: `graph_prep` (device lengths seeded before the append), `masked`
(after it), `host_len` (attention launched with the host's length). Abstracted: the
numbers. A row is the token and the position it was roped at, logits are the rows
attended to per layer.

### ResidentForward

Each action is one operation of the layer, with the buffers it allocates in the
order it allocates them, the values it leaves there as terms (`<<"gemv", ...>>`),
and the place it moves on to. `On("SLAB")` chooses the bump pointer or cuMemAlloc
(lowest free buffer first, the most adverse reuse). The reference's terms come from
`decode_fact.forward_pass`. Terms equal to the reference's are replaced by a name so
that they stay small; kernels' reduction order is not part of a term (that is
`BlockSoftmax`). Without
`_DEVICE_ATTN` or `_DEVICE_KV_CACHE` (the flag `HOST_ATTN`) a layer is the `Host...`
actions between the same projections: the residual is a tensor of the host, uploaded for
the norm and again for the sum, and attention's output a third upload. The bisection
hooks (`BPD_RESIDENT_HOST_OPS`) are left out.

### BlockSoftmax

Each thread is at an operation of its kernel (`After` gives their order, the rounds of the
halving loops one by one) and may wait at the `__syncthreads` that ends it (`HasBarrier`);
threads interleave freely between barriers. A maximum is the set it was taken over, a sum
is its tree of additions, so equality is bit equality. The dot products with K and
V are symbolic.

### DeviceArgmax

Logits are classes: NaN, below the start value -3.4e38, at it, and above. Blocks of
the first stage run in any order into partials that hold an earlier token's values.

### CubinCache

Files are opened (truncated), then completed; nvcc reads the source, opens the cubin,
completes it. A `setup` says whether kernels are inline or emitted, whether builds
overlap, whether the directory is complete, and which failures happen. swipl, nvcc
and people who edit sources are external.

### WeightCaches

Weights are `<<model, name>>`; the keys are `Sample`, an arbitrary function. A forward
uses the weights its settings need in any order. `seed` takes the snapshot of present
pointers, `capture` checks it before and after, as `_assert_weight_cache_frozen` does.

### CIPipeline

A push is a thread of `webhook_runner.py` and a process of
`ci_build_test_dashboard.py`; its `pc` is the step, `job` the tool the step waits for.
`Launch` and `Finish` are apart, and `Finish` writes what `Launch` read, so that another
pipeline's writes fall in between. A file is the set of commits that went into it. `Fail`
covers a tool that says so and one whose inputs cannot work (`Hopeless`); what `main`
does next does not depend on it, except where the code returns early (`After`). `Kill` is
the webhook's `subprocess.run(timeout=300)`, which leaves the tool running.

### GemmTuner

One process per invocation of `tune` or of the sweep, with a step for each access to a
shared file. `Csw.bin` is what a comparison with it would say; candidates are right,
wrong, NaN throughout or not compilable; `Speed` fixes what the measurements would be.

### GGUFBlocks

An element is which bits of the block it is made of. The operators are the three
loaders' slices and shifts; the state machine is ggml's walk with its advancing
pointers, and the property compares what a step writes with what each loader reads.
Weights packed again for dp4a are compared with the indices of the kernel.

### HostDecode

Every engine's loop is an action; what it computes in a layer is a record of norm,
activation, rotation and tensors, what it attends to the cached rows. `Run` is `run()`
of `llamatov_run.py`, which keeps nothing and therefore serves as the reference.

### LlamaBlock

`call` walks the list of kernel calls of `bpd_llama_block_cpu`; each reads and writes
buffers of terms. The caches are memory in units of two bytes, so that the stride
between the layers can be taken as the code computes it. `query` is the loading before it:
a Prolog script is written under a name that is fixed per user, then run, once for the
settings and once for the tensors' places, and a peer may overwrite it in between. A
term names the tensor that was read, so that a weight taken from another place, field
or layer shows in the logits.

### FactDispatch

A process makes a few calls. `Torch` is the helpers' reshapes and products; a call by
facts is one or more launches, each of them the steps from `EmitAndBuild` to `Fetch`. The
kernels are the indices their emitters write. An array is a function on flat indices,
an element a term over the operands' elements, the order of additions left out; what a
call should return is written apart, on coordinates. Any call of the driver may fail,
and the model goes on as the code does, which looks at no status.

### FusionPlanner

An operation's `kind` is the sequence of what was fused into it. `FixpointStep` takes the
first rule that finds a pair, `GraphStep` the first pair any clause accepts; both rewrite
facts as `apply_fusion.pl` does, order of the facts included. `Value` evaluates a plan, and
its graph, to terms over the graph's inputs.

### KernelSweep

One action per tool with a failing twin. A file holds a text: its fact, its language,
and the version of the facts it was emitted from. `SweepAgain` is an edit and another
sweep in the same directory. For a 2-D convolution `benchmark_gpu_shape` does not time an
emitted kernel but `runtime/conv_implicit.cu` (`CompileStatic`, `TimeStatic`), whose cubin it
keeps as long as the source has no later modification time (`Fresh`); `static` is the version
of its last edit. Only without that source, or if nvcc rejects it, is the fact's kernel emitted
and timed (`NoStatic`). A compile of it that exceeds its time ends the timing; what it may
leave of the cubin does not load, and so gives no times.

### L2Chain

`Lift` is the pattern matching over a forward's lines with everything it drops;
`OracleStep` runs one step, `FusedStep` one that cannot be composed, and `Open`, `Close`,
`Load` pass a composed run through `fused_tail.py` and Python's bytecode cache, which looks
at the second of the last write.

### Referees

A trial is a referee, its options and one defect. Values are how wrong they are; a
forward spreads that through layers and rows, and the referees' comparisons are made of
it. `LongStep` leaves margins and drifts open and keeps the census the code keeps.

### RobustTable

A measurement is what running a kernel would show. `Status` and `StanfordTier` judge, `HarnessTier` the other one, `MergeFact` the join.

### YoloForward

A value is its number in a table of terms (operation, weights, operands), so that two
forwards agree bit for bit just when they hold one number. One arm after the other walks
the 25 layers; `Fused` arms make one value of conv, norm and activation but through the
same terms, and `reuse` puts the bottlenecks' values into two buffers in turn. A wrong
kernel makes another term at one layer.

### KernelCatalog, KernelProblems

An element of a result is the set of the tuples of operand elements that enter it. A
kernel is its loops' offsets and strides over flat arrays, called with the integers the
script passes, in their order; PyTorch is the definition over coordinates. `Try` judges
the next problem, `Finish` says what the exit code is.

### ModuleWalk

`RunSubstrate`, `FallBack`, `Leave` and `Raise` are `run_substrate`'s outcomes for the
module at hand: a kernel that reads its attributes or does not, PyTorch instead, a
module PyTorch refuses, an exception. An array is its extents and its history.

### BitIdentity

A kernel's grade is how far it is off, in ulp and absolutely, and whether it writes at
all. Device memory is a set of what may lie there; a case that fails to allocate, launch
or copy ends as its script has it end.

### FormatReader

A declaration is sections of fields with their constraints. `Generate` is the four
emissions of each field and where the template puts them; the reader is then run
statement by statement on a file of digits.

### GraphConvert

`Walk` writes the facts in the order of the walk; the three converters sort them and
write statements; `Execute` runs one. A value is the tree of its operations.

## 3. The runs

Properties marked * are also proved for every value of the constants (section 4).

| Run | Asks | Bounds |
|---|---|---|
| `graph_replay` | `TypeOK`*, `ContextExact`*, `MirrorDrift`*, `InBounds`*, `CachesInStep`*, `RowsAppendOnly`*, `ImplementsKVDecode`* | the three attention paths; 3 layers (first, middle, last), 5 rows, 2 tokens, 2 captures, 2 raises; append and increment apart, which includes the fused launch's behaviours |
| `forwards` | `SameForward`*, `NeededIsHeld`*, `HeapSteady`*; `ForwardIsWhole`*; `OpsAsDefined` | 4096 toggle combinations with attention on the device and 256 on the host, 2 layers, 2 tokens; 12 of them again with a slab of 18 buffers, 3 tokens and raises; C: 2 layers, 4 slots, both widths, tied or not, with and without a peer; 62 programs of up to 3 operations, more rows and columns than a block or a tile, 1 failure of the driver |
| `certified_ensemble` (violation) | is what the gate of `seed` lets through faithful? | 1 layer, 1 token |
| `kv_quant_fused` (violation) | do cached K and V round-trip through 8 bits? | 1 layer, 1 token |
| `engine_parts` | `ServesOwn`*, `BakedOwn`*, `BakedWarm`*; `KernelIsAsked`*, `FilesAreWhole`*, `WarmIsReadOnly`*; `MemoryIsSafe`, `FrozenSoftmax`; `TokenIsFirstMax` | one model that flips fusion, two that never fuse, a fused group, two linears, a norm; 2 processes, 1 kernel with 2 options, 2 edits or 2 failures; 4 lanes for 64, blocks of 4 and 8 for 64 and 256, lengths 1, 4, 5 under a mask of 5; up to 5 logits of 4 classes, 3 blocks of 2 threads |
| `pm_softmax` (violation) | does the position-major kernel stay inside `red`? | 2 lanes, block of 8: block over lanes is 4, as 256 over 64 |
| `cubin_cold_race` (violation) | can a process load a cubin with no kernel in it? | 2 processes, 1 kernel |
| `weights_two_fused` (violation) | are fused weights their model's own? | two models |
| `host_scripts` | `BuiltSoFar`*, `ThreadEnds`, `PushIsShown`; `TunedIsBest`*, `NothingForgotten`* | 3 pushes one at a time on a fresh machine with 2 faults, 3 two at a time, 2 with a kill; 3 tunings, alone and overlapping, 4 candidates, 2 mishaps |
| `host_models` | `WeightsAreTheFiles`; `SameAsRun`*, `NoTensorIgnored`*; `PlanIsItsGraph`; `RowIsOwn`*; `OracleIsForward`, `FusedIsOracle`; `VerdictIsEarned`*; `GoldIsMeasured`* | every loader and type; every engine and architecture, 2 layers, prompts of 1 and 2, 3 tokens asked for, 4 cache rows; all graphs of 3 operations of 9 kinds and of 4 of 3, 4 rule lists and `fuse_graph`; 2 sweeps of elementwise problems, shapes and convolutions, an edit, 2 faults; forwards of 1 to 3 lines, pairs of 6 in turn and pooled; every defect at each step and layer, up to 4 replays; a table of 3 operations |
| `tools` | `BlameIsPlaced`; `StatusIsKernels`; `RowIsItsOps`*; `CasesTell`*; `ProgramsAreTheirFacts` | the 25 layers of YOLOv5n, a wrong kernel at one or two of them; all hundred problems with the script's windows, 3 libraries; 14 models that meet each branch, 18 libraries; each script with kernels of 9 grades or one failing call; the emitted kernels' indices on the scripts' extents, made smaller; the repository's declaration in small and six that strain the template, every file of 0, 1 and 5 to 7 digits; 24 networks of up to 12 layers, routed or not |
| `layers_apart` (violation) | do rows of a layer stay in its cache? | 2 layers, 4 slots, four-byte elements |

Some properties join what one mistake would break together: `CachesInStep` is
`PositionIsSlot`, `LayerSkew` and `SeededMirror`; `FilesAreWhole` is `QuietFiles` and
`DamageIsContained`; `MemoryIsSafe` is `RaceFree` and `RedInside`; `WeightsAreTheFiles` is
`LoadsAsGgml` and `DotsItsOwnWeights`; `PlanIsItsGraph` is `PlanComputes` and `PlanInOrder`;
`BlameIsPlaced` is `HeadsTellAll` and `DivergenceIsPlaced`; `ProgramsAreTheirFacts` is
`ReaderIsDeclared` and `GraphIsNetwork`, each with a mutant, together with the two facts of
the emitted kernels' indices, `IndicesAreRight` and `GatherIsScatter`.

Why the bounds are enough. Layers of a decode act alike, so first, middle and last
suffice; five rows hold a seed, captures, replays and an overrun. One slab reuse
needs two layers, one residual reuse two tokens. Lengths 1, 4 and 5 are fewer
positions than lanes, as many, and more. Five logits over three blocks give full,
short and empty chunks, and ties within a thread, across threads and across blocks.
Two processes and one key are all a race on a file needs; a third push or tuning
shows what two have left behind. Three operations are the least in which a fusion can
take a tensor from another reader, four the least in which it can do so after another
fusion; three lines hold a save, a step and a use of what was saved. A referee's
cadence of 3 over 3 steps has a step that is gated by being the last. Two layers of a
file are the least of which one can be taken for the other. Extents that only repeat
(images, channels, rows) are small in the hundred problems; those the loops' arithmetic
depends on are the script's. What does not
depend on size is proved where TLAPS reaches.

Every property of a passing run has a mutant: a slip beside the definition it
replaces (`Slip...`, or the named alternatives in `GraphDecode`) that a plausible bug
would be, such as a missing barrier, a key without the options, or a length read
before the increment.

Scaled-down constants: RLANES 64 to 4 or 2, block 256 to 8, NB 256 to 3, BlockDim
256 to 2, the rows and columns of the GEMM's tile 128 to 4, elements of a Q8_0 block 32
to 2. All that the code requires of them (powers of two, a block at least as
wide as the lanes) is kept or assumed by name.

### What the violation runs show

- `certified_ensemble`: `q8_linear_dev` honours `rms_src` only on the stand-alone
  quantisation path. RMS_QUANT_FUSED with a GEMV that quantises in the kernel skips
  the ffn norm, and `_UNCERTIFIED_COMPOSITIONS` does not name the pair, although the
  gate says no uncertified ensemble can run silently.
- `kv_quant_fused`: `kv_quantize_q8_inplace` is called in the branch with separate
  projections only; with fused QKV the toggle has no effect.
- `pm_softmax`: the launch uses 256 threads for all kernels; `k_attn_decode_pm` was
  written for a block of 64 and writes `red[d]` for each thread.
- `cubin_cold_race`: any file at the path counts as built, and `_func` ignores the
  driver's error.
- `weights_two_fused`: the key is (layer, kind), where the comment says
  (id(w), layer, kind).
- `layers_apart`: `bpd_llama_forward_cpu` adds `layer * kv_layer_stride` to a
  `uint16_t*` whatever `kv_cache_f16` says. With floats a layer's rows past half of the
  cache are the next layer's first ones. The only caller feeds the whole sequence each
  time and does not see it; a caller that used `kv_pos` would.

Seen while modelling, described by the models and not given a run of their own.
A property that such a behaviour would break names it as an exception (`Overlooks`,
`DecodeBlind`, `LeftBehind`, ...), so the list below can be read off the definitions.

The engine:

- After captures and replays `cache.length` and `*len_ptr` differ by exactly the
  captures less the replays (`MirrorDrift`), so neither "number of valid positions
  written" (dev_residency.py:443) nor an eager forward after a capture is right.
- A raised forward leaves the slab pointer where it was, and the arena does not grow.
- A compile that times out leaves a partial cubin that later calls take as built;
  `DamageIsContained` says it costs that one cubin only.
- An emitter's facts are not part of the cubin's key, so editing them serves the old
  cubin; `KernelIsAsked` is therefore stated for inline kernels only.
- Attention on the host uploads the residual twice and its output once in every layer and
  frees none of the three, slab or no slab (`HeapSteady` counts them). The arm inside it
  that would attend on the device (dev_residency.py:1522) cannot be reached: its
  condition is the one that keeps a layer out of this branch.
- NaN and logits below -3.4e38 are skipped by the argmax; if there are no others the
  token is 2147483647 (`TokenIsFirstMax` asks for logits at or above the start).

The host's operations:

- No status of the driver is looked at. A launch that fails returns what an earlier call
  left at the address; a weight whose upload failed and a function that was not found
  are cached as they are; a null pointer costs the context, after which every call
  returns what `np.empty` finds. `OpsAsDefined` says that nothing else is touched.
- `swiglu_fact` is called a drop-in and answers a numpy array where a tensor was given
  (fact_dispatch.py:222); `attention_fact` multiplies with numpy where its text says the
  products are the fact-driven GEMM (229-231). `apply_rope` says that it turns
  consecutive dimensions and turns the halves of a head (llamatov_helpers.py:435).
- `SampleKey` tells weights apart by shape and four elements. In the runs different
  weights have different elements, which is what the code's comment claims of real ones.

The host scripts:

- `OUTPUT_DIR`, into which the tests write, is made by the step after them: on a fresh
  machine the first push has no facts.
- What `step_pull` and `step_build` return is ignored, `emit` ignores swipl's status, and a
  pipeline that is killed leaves its tool writing into the next one's files.
- The autotuner's gate (autotuner.py:88-91) lets an output of NaN throughout pass, the
  sweep's does not; both skip single NaNs. Two saves that overlap leave text that no
  longer parses, and every later tuning dies of it.

Readers and host engines:

- `llamatov_helpers.py` reshapes without the reversal GGUF needs, interleaves the
  elements of Q2_K, Q3_K and Q6_K, and splits nibbles of Q4_K against its own comment
  (142-153); `dq2k`, `dq3k` and the plain types reshape 3-D tensors without
  `_finalize_dequant`; `dq8_0` unpacks the shape into two before it asks how long it is.
- The `kvcache` engine rotates every token to position 0, `resident` never advances its
  position; `run_dp4a` and the C inference script pack [K, N] as [N, K].
- Engines with a cache run one token more than they report; the C loop appends a token
  when asked for none; `generate` and `run` differ for gemma, gemma2, phi3, starcoder2 and
  qwen3; the final softcapping that `gemma2_layer` mentions is nowhere.

- `bpd_llamatov_infer.py` keeps its two Prolog scripts under names fixed per user: a load
  of another model at the same time gets the other's settings or offsets without an error
  (`ForwardIsWhole` leaves such a peer out), a half-written script ends in defaults,
  a KeyError or a timeout. The type of a tensor is read and never compared with the Q8_0
  its bytes are taken for; the size of the vocabulary is written in the script.

Planners and chains:

- `fuse_graph` does not ask whether somebody else reads the producer's tensor
  (fusible.pl:60-75); then nobody writes what that reader reads. Merged inputs lose
  their places, so `sub` and `div` become ambiguous. A fused operation takes its producer's
  number, and is emitted before its other operand; the expander's five primitives take
  numbers that are taken. It fails, though documented as `det` (graph_optimizer.pl:38),
  where `apply_fusion.pl` has no clause, and the search drops such plans without a word.
  `op_class` knows no fused kinds, so `fixpoint_fuse` makes pairs only.
- `_unknown` lines are filtered before they are counted, so that "0 unknowns" cannot be
  otherwise; `log_softmax` is lifted as softmax; slopes, alphas and approximations are lifted
  and never read; negative and missing dimensions run as 1; `r = x` is dropped, and
  `x + r` adds the last clone or 0. The pool's workers share one file, and Python takes
  the old bytecode of a file written again in the same second.

Sweep, referees and table:

- A comment says "time the generated cuda kernel for the new shape classes (axis-reduce, pool,
  conv2d)" (kernelbench_sweep.py:652, and again at 982): of a 2-D convolution the static
  `conv_implicit.cu` is timed (807), and the row, which drops `perf["kernel"]`, does not tell.
  `RowIsOwn` names it (`PrefersStatic`).
- A cubin is preferred to a newer ptx; what is timed of an axis reduction or a pool is the fact's
  default kernel; a matmul whose timing fails loses its verdict; a shape passes when the largest
  difference is 0 although NaN mismatch, and only a common prefix is compared.
- `kv_compare` skips a layer with a NaN in it; nothing behind the last layer's rows is
  compared; a defect of the code for several tokens shows only if there is a second
  step; no steps at all are "VERIFIED". `gr_referee` compares the arms' lengths with each
  other, not with what they should be, and does not see a write after the last replay.
- The harness's tiers are 0 ULP by construction: alone, it shows gold for kernels
  nobody ran. `SHAPE_DIVERGENT` is bronze however large, where robust_match_status.pl:88
  says within 4 ULP; a matmul can be silver at most; `leaky_relu` and `leakyrelu` are
  two rows.

Comparisons in bpd-substrate:

- `verify_kernelbench_l1_cpu.py` declares seven integers for pools of two dimensions whose C
  functions take eight: the padding is what lies on the stack. All problems draw from one
  random generator, so a missing kernel changes the inputs of those after it; problem 50
  is counted in two categories.
- `verify_kernelbench_l2_cpu.py` counts a result of another shape as -1 differences, which is
  BIT_IDENTICAL; attributes no kernel reads (dilation, ceil mode, negative slope, dimension)
  are silently other; what `forward` does between its modules is not run.
- In `bit_identical_v1.py` values of opposite sign are near, in the others' `ulp` they are 2^32
  apart. `bit_identical_universal.py` without its library compares nothing, prints "ALL KERNELS
  BIT-IDENTICAL" and exits with 0, and fails some results whose error is as small as that of
  results further off in ulp that pass. `bit_identical.py` compares PyTorch with itself in
  its elementwise part, and passes results within tolerances where its docstring says 0 ULP.
- v2 and v3 exit with 0 whatever they found. Most of their outputs are not cleared, so that
  a kernel that writes nothing may show an earlier case's equal result
  (`norm_group_plain` after `norm_layer_plain`); the triplet loss checks no call.
- The YOLO scripts write the network twice by hand, so the reference shares the wiring. The
  verdict "all 24 layers" is of Detect's outputs; `verify_yolo_block.py` accepts 4 ULP; the
  report of times counts a bottleneck's convolutions under its norms; the sweep imports
  functions that `yolo_forward.py` does not define.

Generators in bpd-substrate:

- `generate.py:353` says that constants are deduplicated by name; what is compared is the
  whole line, so two bounds of one name are both written and the last counts. The template
  fixes the header's size and puts every section's checks into the first one's parser. A
  generation that fails leaves the old reader, and `build.sh` returns the status of `tail`.
- `prolog_to_c.py` has one variable for all values and sorts breadth first: its programs are
  right for chains that resample and end in at most one convolution. `prolog_to_c_v2.py` says
  it emits "ops in the correct order" and sorts those of C3 and SPPF in reverse; its Detect
  heads overwrite one layer, and load weights under names that `pt_to_weights.py` does not
  write. `prolog_to_pytorch.py` sorts layers as strings, ignores where they read from, and
  raises on Concat and Detect. The facts of routes that it would need are written by nobody.
  `GraphIsNetwork` states for each just which networks it gets right.

### Fairness, liveness, deadlock

The pipeline runs under weak fairness of `Owed(p)` for each push: a tool that has not
hung goes on (the operating system schedules it), and a timer that has expired is
noticed (`subprocess.run(timeout=...)`). Nothing is assumed of `Push`, `Hang` and `Kill`, and
a hung tool is owed nothing. Under it `ThreadEnds` says that no thread waits for ever,
which is false without the timeouts (its mutant), and `PushIsShown` that an undisturbed
push reaches the dashboard.

Everywhere else no fairness is assumed and no liveness is claimed. The engine is driven
by a caller who may stop at any token; kernels and tools end or fail, and the code
neither retries nor waits in a loop. The one wait, `__syncthreads`, is covered by TLC's
deadlock check in `engine_parts`: a thread that could not leave a barrier would be a
deadlock, since the only stuttering step requires all threads to have ended. Deadlock
is checked too in `cubin_cold_race`, `weights_two_fused` and `pm_softmax`. `CHECK_DEADLOCK FALSE` is set
where the model does stop: at MaxSeq tokens or with a stream left in capture
(`graph_replay`), at the last forward (`forwards`, `certified_ensemble`,
`kv_quant_fused`, `layers_apart`), at the last push or tuning (`host_scripts`), at the
last block, token, row or verdict (`host_models`), at the last case or answer (`tools`).

## 4. The proofs

| Theorem | Says, for every value of the constants |
|---|---|
| `GraphDecodeProofs!TypeCorrect` | `TypeOK`, and a runner past its seed has a device length in every layer |
| `GraphDecodeProofs!DriftCorrect` | `MirrorDrift`, also when forwards raise |
| `GraphDecodeProofs!BoundsCorrect` | `InBounds`: a caller that starts at most MaxSeq forwards never leaves a buffer |
| `GraphDecodeProofs!ContextCorrect` | `ContextExact`: logits rest on exactly the history |
| `GraphDecodeProofs!Refinement` | `GraphDecode` implements `KVDecode` |
| `GraphDecodeProofs!RowsCorrect` | `RowsAppendOnly`: no step overwrites a row that is counted |
| `GraphDecodeProofs!CachesCorrect` | `CachesInStep`, its three parts, also when forwards raise |
| `ResidentForwardProofs!NeededStaysHeld` | `NeededIsHeld`, under every combination of the toggles, also after forwards that raised |
| `ResidentForwardProofs!MemorySteady` | `HeapSteady` |
| `ResidentForwardProofs!ForwardIsReference` | `SameForward`: residuals, rows and logits are the reference's |
| `CachesProofs!WeightsAreOwn`, `BakedAreOwn` | `ServesOwn`, `BakedOwn` |
| `CachesProofs!BakedAreWarm` | `BakedWarm` |
| `CachesProofs!KernelsAreAsked` | `KernelIsAsked` |
| `CachesProofs!DirectoryIsWhole` | `FilesAreWhole`, both of its parts |
| `CachesProofs!CompleteIsReadOnly` | `WarmIsReadOnly` |
| `HostScriptsProofs!CIIsTyped` | the pipelines' types |
| `HostScriptsProofs!BuildsAreOwn` | `BuiltSoFar` |
| `HostScriptsProofs!TuningIsBest` | `TunedIsBest`, whatever fails or dies; of candidates as fast the first |
| `HostScriptsProofs!FileKeepsAll` | `NothingForgotten` |
| `HostScriptsProofs!RowsAreTheirOps` | `RowIsItsOps`: models of any modules, whatever kernels are wrong or missing |
| `HostScriptsProofs!CasesAreTold` | `CasesTell`: kernels of any grades, whatever calls fail, whatever the memory still holds |
| `KernelsProofs!TokensAreFirstMax` | `TokenIsFirstMax`, ties, NaN and old partials included |
| `KernelsProofs!MemoryStaysSafe` | `MemoryIsSafe`: no race and no access outside, for every block size and length |
| `KernelsProofs!SoftmaxIsFrozen` | `FrozenSoftmax`: one sum, in one order, whatever the block size and MAXT |
| `HostDecodeProofs!EnginesAreRun` | `SameAsRun`: an engine with a cache computes what `run()` does from nothing |
| `HostDecodeProofs!TensorsAreUsed` | `NoTensorIgnored` |
| `LlamaBlockProofs!ForwardComputesWhole` | `ForwardIsWhole`: the C forward's logits are those of one pass over the whole sequence |
| `JudgesProofs!RowsAreOwn` | `RowIsOwn`, whatever tools fail in whatever sweep over whatever the last one left |
| `JudgesProofs!GoldTilesAreMeasured` | `GoldIsMeasured`, whatever was measured, whatever the recipes and which outputs are given |
| `JudgesProofs!VerdictsAreEarned` | `VerdictIsEarned`: models of any depth, any cadence, prompt and length, a defect anywhere |

Assumptions. Each module names what its constants must satisfy. `ConstantsAssumption`: they
have their types, and garbage is neither a token nor a row. `ForwardAssumption`,
`PipelineAssumption`, `CacheAssumption`, `TunerAssumption`, `SweepAssumption`, `TableAssumption`: types only, so that
any toggles, any slab, any number of layers, pushes, processes, kernels and problems are covered
(with terms of their own for the four classes `build_param_term` makes one for). `WeightAssumption`: keys tell weights
apart, which the code's comment claims of real models. `HostAssumption`: types, and a prompt has
a token (`logits[0, -1]` of none raises). `LlamaAssumption`: types, and a prompt is no
longer than the slots (`generate` raises where it is). `TrialAssumption`: types, a trial has a
prompt, one of the defects, a layer of the model to strike in, and a run of `gr_referee` at least
a seed and a replay (its loop runs n + 1 times). `ModelsAssumption`: types, and a container is
none of the modules `run_substrate` has a branch for. `ScriptsAssumption`: types, results that
are equal bit for bit have no error, and only a kernel run on the device can write nothing. `ArgmaxAssumption`, `BlockAssumption`: types, lanes and
blocks are powers of two (64 and 256 in the code), and the argmax's indices fit an int. `NoReseed`: on the capture-ready path
the caller runs no eager forward after a capture. The code does not enforce it; without it
the theorems are false, as the drift shows. What else limits a theorem is in its property:
`ContextExact` speaks of states before the first raise, and the abstract decode fails, and
promises nothing more, with it; `SameForward` leaves out the two families of toggles that
the violation runs exhibit; `MemoryStaysSafe` asks of
the position-major kernel that its block is no larger than `red`, which the code does not
ensure (`pm_softmax`), and nothing of the other two; `SoftmaxIsFrozen` is about these two, in
blocks of at least RLANES threads; `KernelIsAsked` and `QuietFiles` ask for builds one at a time that
are not cut off, or a complete directory; `ServesOwn` and `BakedOwn` for fused groups that are
not shared.

The argument for `GraphDecode`. `TypeInv` adds to `TypeOK` that a forward in flight has
a token and that device lengths exist where replays read them. `CountInv` adds
`Protocol` (no eager forward in flight after a capture, no replay before one), `Drift`
and `Bound` (no layer counts more rows than forwards were started). Without `Drift`
an eager append, which goes to the host's length, could not be shown to land after
the rows attention counts; without `Bound` the slot could not be shown inside the
buffer. `ExactInv` adds, for behaviours without raises, that each layer's counted
rows are exactly the history at its positions, plus the row in flight in the layers
already done. From it `ContextExact` follows, and under the refinement mapping
(history = tokens of the last layer's counted rows) each last layer and each replay is
`KVDecode`'s `Decode`, a forward that raises its `Fail`, and everything else a stutter.
`RowsAppendOnly` follows from `CountInv` step by step, since an append goes to the slot just
past the counted rows. `CachesInStep` needs no more than `CountInv` beside itself: the skew of the layers
grows with a raise by one and by nothing else, and the masked path seeds a layer's device
length just where it advances the host's.

The argument for `ResidentForward` has three storeys. The first is
about one operation: `NthFree` is the least free buffer (`LeastNumber`, from the well-foundedness of <),
so the buffers of an operation are new and different from one another; its names point to
its own buffers; every place the operation does not write in place keeps its value. The
facts come out once per operation and are what the other two use. The second
has the invariant `MemInv`. `NeededIsHeld` is not inductive: at the end of a layer the residual
is freed or written over although no operation reads it any more, so it must be known to be
held all the time (`Live`), and different from everything else that is (`Apart`), or freeing
it would free a needed buffer. `HeapIs` and `HostHeapIs` count the heap after every operation,
without which nothing is known of it when the forward ends. The third has
`ValInv`: what each name still needed holds at each stage, as a term over the reference's; it
survives a step because the name's place is held (`MemInv`) and what is held is not written.
The one exception is the residual when the carry is fused into the down projection, which
writes the residual's home a step before the old value is given up; nothing reads it in between.

The argument for `WeightCaches`. The invariant `Owned` (in `WeightInv`): a pointer's key is the key of
the weight behind it, fused entries belong to a loaded model, the names left to use
are names the settings need, and what was used and baked points to the right
model's weights. All of it is conditional on `GroupsUnshared` (a process that never
fuses or has one model), which is what `weights_two_fused` shows to be needed. `BakedWarm`
needs no such condition: `Warmed` follows a capture from the snapshot of `seed` through the
two checks to the pointers it bakes.

The argument for `CubinCache`. `CubinInv` splits by setting. In a complete directory (`WarmInv`)
whatever is asked for is there, so nobody gets as far as nvcc, and inline sources, which are
written all the same, are not compiled. Otherwise, with builds one at a time (`TurnInv`), at
most one process builds; what a builder holds at each of its stages belongs to the key it
builds for (`StageFits`); a file is whole or the mark of a timeout; and the marks are counted
(`DamageCounted`), which needs that a timeout is counted in the step that leaves it. Memory of
a process (remembered, loaded, launched) holds only what some file held (`Kept`).

The argument for `CIPipeline`. `BuiltSoFar` is not inductive: the pipeline could be spoilt by
another (`Alone`: an undisturbed one has no other running beside it, and no tool of another),
by what its running tool has read (`OwnInput`), or by not having started at the first step
(`Fresh`). The order of the eleven steps enters through `Place`: a step reads what earlier
steps made, never a later one, which is what the mutants of `After` break.

The argument for `GemmTuner`. Where nobody has met anybody at most one process runs (`Solo`), so
a step concerns its own process only (`OthersRest`). Of that one the invariant says what the
shared files hold while it needs them (`Own`: its candidate's cubin, inputs of its size, and a
Csw.bin that is its own or empty), what it read of the cache (`HasRead`) and that its winner
is the best of the candidates it is through with (`BestSoFar`); of the files, what a dead
process may have left in them (`TunedFiles`: no cubin of a candidate that does not compile, no
entry that did not win). `NothingForgotten` needs the middle of a save besides: a file that
is cut is still known in full to the one who cut it.

The argument for `HostDecode`. `HostInv` says of the engines in `Faithful` where the cursor is
(`Cursor`), that the cached rows of every layer are those one pass over the tokens seen so far
would make (`Holds`), and that the answer is that pass's last state. That a pass exists at all
has to be shown first: it is a recursive function, made here layer by layer (`Tower`), and every
fact about it is an induction over the layers (`AllNumbers`). The step rests on causality
(`Causal`): the states of a prefix do not depend on what follows, because the mask lets a row
see only slots up to its own; so the rows kept from earlier passes are rows of the longer pass
(`RowsAfter`), and a pass over the new token alone with these rows gives the longer pass's last
state (`SameStates`). The rotation enters as the position of a row, which is why engines that
turn every token to position 0 are not in `Faithful`.

The argument for `LlamaBlock`. The four buffers are used again and again, so the invariant
says, for each of the seventeen kernel calls, what each buffer holds that a later call still
reads (`AttentionHolds`, `FeedForwardHolds`); that it is enough shows that four buffers are
enough. Of the caches it says which rows of which layer are of the sequence so far
(`CachesHold`): all of the layers below, the ones of earlier calls in the layers above, and
in the layer at hand the new ones once they are written. A layer's rows survive another
layer's write because they are apart (`OtherLayer`), which is where two-byte elements, a
call on all tokens, or half of the slots is needed; without that `layers_apart` finds the
overlap. A call token by token begins with the rows earlier calls left: they are rows of the
longer sequence too, by an induction over the layers (`HiddenOfPrefix`). The load enters
as `Loads`: whatever a second process on the same file does to the script, a model that was
loaded has the own file's offsets and number of layers.

The argument for `KernelSweep`. The name of a file tells what it computes and in which language,
whoever wrote it and whenever (`NamesTell`); only the version may be an old one. So a row
can be wrong in its version alone, and `Newest` follows the versions of the files a row has
come by, as long as no tool of it has failed: the source, the program, for MLIR the module,
unless an old cubin comes before it (`LeftBehind`, which, once true in a row, stays true). The
cubin of the static kernel is never of a later edit than its source (`StaticKept`), so one that
is not older is of the last edit; and a row without a failure comes to the fact's kernel of a
convolution only if there is no such source. That
the lowered form is the one that is loaded needs that the file and the facts agree on
libdevice, since the pipeline looks at the one and the property at the other.

The argument for `RobustTable`. A tile shows the lowest tier of the facts that were joined into
it (`MergeFact`), and every fact of a judged kernel is in it or still waits in the list
(`TableInv`). So a tile above its kernel's worth would need a fact above it, and `Status` gives
none: the edges come before the widest difference.

The argument for `Referees`. A verdict falls at the last step, on caches that all steps made;
`CacheIs` says what they hold after any number of them. Below the defect's layer all is good;
so is everything if the defect leaves no trace (`Harmless`); otherwise a row of its layer, or of
the next for a wrong read, keeps the mark to the end (`Marked`: no later step touches a row that
is there), and the two defects that are at work all the time are known row by row (`MarkedAlways`),
since they must be compared with a recomputation that has them too. How harm spreads in one
forward is a recursive function over the layers: it exists (`HarmsExist`), and where a layer's
tokens are all alike so are the next one's (`Exactly`, by induction). `BlindPasses` and
`ShownAtLast` then decide every defect, the first at each step and the second at the last, where
the caches are compared whatever the cadence. In `gr_referee` a replay shows (`Shows`) or leaves
the arms alike but for a row that a stray write has just hit (`GraphClean`). The census of
`long_run_referee` keeps near misses below five times the drift because the least margin only
falls and the drift only grows.

The argument for `ModuleWalk`. Before each module both libraries get one array, so their results
can differ in that module's entry of the history only (`NumberIs`), and in the shape where the
kernel does not read `ceil_mode`; what PyTorch makes of a container is a recursive function over
its modules (`ThroughExists`, by induction). A container is never run by the substrate, so no
number stands by one.

The argument for `BitIdentity`. `CasesTell` is not inductive. The invariant `BitInv` says besides
what the free memory may hold: nothing of note, or the result of a case that was run (`MemoryOf`);
and that a kernel which writes nothing passes only on such a result (`StubTells`), from which
the exit code of v1 follows, whose cases all have references of their own (`ReductionsAre`). The
triplet loss is the one dispatch that looks at no call; what it may then find is never its own
result, because it stands once in its script (`ExtensionIs`). Which calls a dispatch looks at
is read off its list of calls (`CallsAre`).

The argument for `DeviceArgmax`. Both forms pick the best (`BestOf`) of the same entries. With
NaN about, `Better` is no order; it is one among what the threads hold, because each of them
was compared with `Start` (`NotBetter`), and so the best is one (`OneBest`). A thread's loop
leaves the best of its share (`ThreadIs`), the halving the best of the block's (`ReducedIs`,
an induction over the widths that halving goes through), and the chunks of the first stage
cover every logit, the empty ones at the end included (`ChunksCover`). What the partials held before is overwritten before
the second stage reads it.

The argument for `BlockSoftmax`. The barriers keep a block in step: each thread is at the
block's operation or past it (`InStep`). So only two threads at one operation can
race, and what they touch is told apart by the thread's number, by its residue, or by the half
of the round (`NoRace`). For the value, `Contents` says of each cell and register what the
current operation needs of it where its thread has not run, and what the next one needs where
it has; a cell that nobody writes keeps what it held, and is not read in the next (`RedIdle`). The cell
i of a round of width w holds the maximum over the positions that are i modulo w, or
the entry i of the frozen sum's row w; a round joins two residues modulo 2s into one
modulo s (`HalfMod`). A lane's loop over MAXT positions ends with exact zeros, which leave a sum as
it is (`LaneSumIs`), so the bound MAXT drops out.

What proving showed. `Needed` was written as a CASE with two guards that overlap (`final` with
attention on the host). TLC takes the first that is true; the proof, like the semantics,
may choose either, and failed. The guards are now disjoint. So are those of `Status` in
`RobustTable`, which left open what is reported of a kernel with both a wrong edge and a small
difference. `CasesTell` said more than holds of all grades: that a kernel whose error is beyond its
bound never passes (v1 to v3 judge by ulp alone, so it must be beyond 1024 ulp too), and that a
kernel that writes nothing is a stub even where its source is absent. And it took the case
itself, where it meant the earlier one, for what must have been run for its result to lie
in memory.

Only model-checked. Out of this prover's reach are ENABLED and liveness under fairness: that a
thread ends and a push is shown (`ThreadEnds`, `PushIsShown`). The library's induction theorems take
a predicate as a parameter, which the installed provers cannot instantiate; an induction over the
numbers can be had about a set of numbers (`AllNumbers`, `LeastNumber`), and the proofs above use it
where a recursion is over layers, widths or modules. What stays with TLC is what computes over data:

| Property | Why it is not proved |
|---|---|
| `PlanIsItsGraph` | the meaning of a graph is a RECURSIVE operator on its tensors |
| `OracleIsForward`, `FusedIsOracle` | steps are folds over the tokens of a line, rewritten as they go |
| `WeightsAreTheFiles` | a finite table of readers, each with its own arithmetic of bits; TLC runs all of it |
| `OpsAsDefined` | each program is a fold of launches whose grids are its shape's quotients |
| `StatusIsKernels` | a hundred kernels on the extents the script has them run on; TLC runs all of it |
| `BlameIsPlaced` | the 25 layers of one network, whose terms are numbered by folds; TLC runs all of it |
| `ProgramsAreTheirFacts` | generated statements, folded over files and networks of bounded size |

## 5. Not modelled, and the plan

Not modelled, and why:

- *the numbers*: dot products, quantisation error, exp, the calibration of thresholds.
  The residual cache and the ULP tables consist of nothing else.
- *text in, text out*: the emitters and the schedule lowering (but for the indices of the
  kernels that `BitIdentity` and `FactDispatch` launch), the tokenizer, the
  lifters and assembly analyses, diagrams and dashboards. They keep no state; what they
  emit matters by its arithmetic.
- *one comparison per kernel*: `kernel_emit_bridge.py`, `cpu_references.py` and the referees
  of a single kernel are lists of calls, each of which computes one function twice. (The
  lists whose calls differ in layout, memory or blame are modelled: `KernelProblems`,
  `ModuleWalk`, `BitIdentity`.)
- *the bisection hooks* `BPD_RESIDENT_HOST_OPS`, which replace single operations of the
  forward by the host's and are refused by `seed`.
- *near copies* of modelled files under `bpd-substrate/lib` and `bpd-substrate/inference`.
- *the watchkeeper*, one sequential script with one time stamp (it touches the stamp
  before it looks for files newer than it).
- failed allocations in `bpd_cpu.c`; the token loop of the C library, whose source is not
  in the repository; `chain_to_ggml_ir.py`, which nothing verifies.
- The CUDA driver, nvcc, swipl, clang and torch are external.

Order of the work:

1. `GraphDecode` over `KVDecode`, with proofs. Done.
2. `ResidentForward`. Done.
3. `CubinCache`, `WeightCaches` (with proof). Done.
4. `BlockSoftmax`, `DeviceArgmax`. Done.
5. `CIPipeline`, with liveness. Done.
6. `GemmTuner`. Done.
7. `FusionPlanner`, `L2Chain`, `KernelSweep`. Done.
8. `GGUFBlocks`, `HostDecode`, `LlamaBlock`. Done.
9. `Referees`, `RobustTable`. Done.
10. `YoloForward`, `KernelProblems`, `ModuleWalk`, `BitIdentity`, `FormatReader`,
    `GraphConvert`. Done.
11. `FactDispatch`. Done.
12. Proofs of `GraphDecode`, `ResidentForward`, `WeightCaches`, `CubinCache`, `CIPipeline`,
    `HostDecode`, `GemmTuner`, `KernelSweep`, `DeviceArgmax`, `BlockSoftmax`, `LlamaBlock`,
    `RobustTable`, `Referees`, `ModuleWalk`, `BitIdentity`. Done.

Modules that share nothing share a run: a state variable says which of them a
behaviour is of, and the others have come to their end.
