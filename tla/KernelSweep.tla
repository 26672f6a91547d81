---------------------------- MODULE KernelSweep ----------------------------
(***************************************************************************)
(* kernelbench_sweep.py: for each problem of a benchmark, and for each     *)
(* backend, a kernel is emitted from the facts by Prolog, built, run on a  *)
(* file of inputs, compared with torch, and timed.  Every stage hands over *)
(* by files of fixed names in one directory that outlives the sweep, and   *)
(* the status of most tools is not looked at: a stage that failed leaves   *)
(* the file of an earlier row or sweep in its place.                       *)
(*                                                                         *)
(* A text is [key, kind, ver]: what it computes, in which language, from   *)
(* which version of the facts.                                             *)
(***************************************************************************)
EXTENDS Integers, Sequences

CONSTANTS
  Plans,     \* problem lists: sequences of [fact, klass, term]
  Backends,  \* of an elementwise problem, in order
  Libdevice, \* <<fact, version>> of kernels that need libdevice (a cubin)
  MaxEdits,  \* bound on edits of the facts
  MaxFaults  \* bound on tools that fail

\* A problem has a class and, of some classes, a term made of its own parameters:
\* of a plain 2-D operation, or of another one.
Classes == {"elementwise", "axis_reduce", "norm", "pool", "conv", "loss", "reduction"}
Terms == {"none", "2d", "other"}
WithTerms == {"axis_reduce", "norm", "pool", "conv"}

ASSUME SweepAssumption ==
  /\ \A p \in Plans :
       /\ p \in Seq([fact : {p[i].fact : i \in DOMAIN p}, klass : Classes, term : Terms])
       /\ \A i \in DOMAIN p : p[i].term # "none" => p[i].klass \in WithTerms
  /\ Backends \in Seq({"cuda_c", "mlir_gpu", "llvm", "torch"}) \ {<< >>}
  /\ MaxEdits \in Nat /\ MaxFaults \in Nat

VARIABLES
  plan,      \* the problems, for life
  ver,       \* version of the facts
  static,    \* and of runtime/conv_implicit.cu: that of its last edit, if it is there
  dir,       \* file name -> text
  inb, outb, \* in.bin: whose inputs; out.bin: [text, inputs], if any
  prob, back,\* the problem and the backend the sweep is at
  stage,     \* the tool that runs next
  row,       \* the row being filled in
  faults     \* tools that have failed

sweepVars == <<plan, ver, static, dir, inb, outb, prob, back, stage, row, faults>>

NoRow == [got |-> << >>, timed |-> << >>, clean |-> TRUE]

Problem == plan[prob]
\* A matmul has a driver of its own; what has a shape goes through torch.
Lanes(p) == CASE p.klass = "elementwise" -> Backends
              [] p.klass \in WithTerms \cup {"loss"} -> <<"torch">>
              [] p.klass = "reduction"   -> <<"gemm">>
Lane == Lanes(Problem)[back]

\* What is emitted: the problem's own term if there is one, else the fact.
Key(i) == IF plan[i].term # "none" THEN <<"op", i>> ELSE <<plan[i].fact>>

\* The name of its files: unique to the problem for a term of its own.
SlipFactName(i) == <<plan[i].fact>>
Stem(i) == IF plan[i].term # "none" THEN <<"op", i>> ELSE <<plan[i].fact>>

Source(lane) ==
  CASE lane = "cuda_c" -> "cu" [] lane = "mlir_gpu" -> "mlir" [] lane = "llvm" -> "ll"
    [] lane = "torch"  -> "torch_py" [] lane = "gemm" -> "gemm_v_cu"
Program(lane) ==
  CASE lane = "cuda_c" -> "exe" [] lane = "llvm" -> "exe_llvm" [] lane = "gemm" -> "gemm_v"

Name(kind)  == <<kind, Stem(prob)>>
Text(kind)  == [key |-> Key(prob), kind |-> kind, ver |-> ver]
Has(name)   == name \in DOMAIN dir
Put(name, t) == [f \in DOMAIN dir \cup {name} |-> IF f = name THEN t ELSE dir[f]]

NeedsLibdevice(t) == <<t.key[1], t.ver>> \in Libdevice
Lowered(t) == IF NeedsLibdevice(t) THEN "cubin" ELSE "ptx"

\* The module that is loaded: a cubin if there is one.
Module == IF Has(Name("cubin")) THEN Name("cubin") ELSE Name("ptx")

\* A kernel of the repository that is no fact's, and its cubin.
NoFile == -1
StaticKey == <<"conv_implicit">>
StaticCubin == <<"static_cubin", StaticKey>>

Running == prob <= Len(plan)

------------------------------------------------------------------------------
SweepInit ==
  /\ plan \in Plans /\ ver = 0 /\ static \in {NoFile, 0}
  /\ dir = << >> /\ inb = 0 /\ outb = << >>
  /\ prob = 1 /\ back = 1 /\ stage = "start"
  /\ row = NoRow /\ faults = 0


\* The next row: this problem's next backend, or the next problem.
NextRow ==
  /\ IF back < Len(Lanes(Problem)) THEN back' = back + 1 /\ prob' = prob
                                   ELSE back' = 1 /\ prob' = prob + 1
  /\ stage' = "start"

Fault == faults < MaxFaults /\ faults' = faults + 1
Dirty == row' = [row EXCEPT !.clean = FALSE]

\* The inputs are capped, and written for a kernel that reads a file.
Start ==
  /\ Running /\ stage = "start"
  /\ row' = NoRow
  /\ inb' = IF Lane = "torch" THEN inb ELSE prob
  /\ stage' = "emit"
  /\ UNCHANGED <<plan, ver, static, dir, outb, prob, back, faults>>

\* swipl writes the source; whether it did is not asked, only (but for MLIR and
\* the matmul) whether there is one.
SourceThere == Lane \in {"mlir_gpu", "gemm"} \/ Has(Name(Source(Lane)))
Emitted == IF Lane = "torch" THEN "run" ELSE "build"

Emit ==
  /\ Running /\ stage = "emit"
  /\ dir' = Put(Name(Source(Lane)), Text(Source(Lane)))
  /\ stage' = Emitted
  /\ UNCHANGED <<plan, ver, static, inb, outb, prob, back, row, faults>>

EmitFails ==
  /\ Running /\ stage = "emit" /\ Fault
  /\ IF SourceThere THEN stage' = Emitted /\ Dirty /\ UNCHANGED <<prob, back>>
                    ELSE NextRow /\ UNCHANGED row
  /\ UNCHANGED <<plan, ver, static, dir, inb, outb>>

\* nvcc and clang are checked.
Build ==
  /\ Running /\ stage = "build" /\ Lane # "mlir_gpu" /\ Has(Name(Source(Lane)))
  /\ dir' = Put(Name(Program(Lane)), dir[Name(Source(Lane))])
  /\ stage' = "run"
  /\ UNCHANGED <<plan, ver, static, inb, outb, prob, back, row, faults>>

BuildFails ==
  /\ Running /\ stage = "build" /\ Lane # "mlir_gpu"
  /\ IF Has(Name(Source(Lane))) THEN Fault ELSE UNCHANGED faults
  /\ NextRow
  /\ UNCHANGED <<plan, ver, static, dir, inb, outb, row>>

\* mlir_gpu_pipeline.sh, whose status is ignored, chooses the form by what is in
\* the source.
Lowering == Running /\ stage \in {"build", "time_build"} /\ Lane = "mlir_gpu"

Lower ==
  /\ Lowering /\ Has(Name("mlir"))
  /\ LET t == dir[Name("mlir")] IN dir' = Put(Name(Lowered(t)), t)
  /\ stage' = IF stage = "build" THEN "run" ELSE "time"
  /\ UNCHANGED <<plan, ver, static, inb, outb, prob, back, row, faults>>

LowerFails ==
  /\ Lowering
  /\ IF Has(Name("mlir")) THEN Fault ELSE UNCHANGED faults
  /\ stage' = IF stage = "build" THEN "run" ELSE "time"
  /\ Dirty
  /\ UNCHANGED <<plan, ver, static, dir, inb, outb, prob, back>>

Runnable == CASE Lane = "mlir_gpu" -> Module
              [] Lane = "torch"    -> Name("torch_py")
              [] OTHER             -> Name(Program(Lane))

\* The kernel reads in.bin and writes out.bin; torch's function is called on
\* the inputs themselves.  What came out is compared, and where it agrees a
\* kernel for the GPU is timed, if there is a fixture for its class.
Timeable ==
  \/ Lane \in {"cuda_c", "mlir_gpu", "gemm"}
  \/ Problem.klass = "axis_reduce"
  \/ Problem.klass \in {"pool", "conv"} /\ Problem.term = "2d"
IsConv2d == Problem.klass = "conv" /\ Problem.term = "2d"

RunAndJudge ==
  /\ Running /\ stage = "run" /\ Has(Runnable)
  /\ LET made == [text |-> dir[Runnable], inputs |-> IF Lane = "torch" THEN prob ELSE inb]
     IN  /\ outb' = IF Lane = "torch" THEN outb ELSE <<made>>
         /\ row' = [row EXCEPT !.got = <<made>>]
  /\ \/ stage' = "done"
     \/ Timeable /\ stage' = IF IsConv2d THEN "static" ELSE "time_emit"
  /\ UNCHANGED <<plan, ver, static, dir, inb, prob, back, faults>>

\* No module, or a program that ends with an error: out.bin is not read.
RunFails ==
  /\ Running /\ stage = "run"
  /\ IF Has(Runnable) THEN Fault ELSE UNCHANGED faults
  /\ NextRow
  /\ UNCHANGED <<plan, ver, static, dir, inb, outb, row>>

\* For a 2-D convolution the repository's own implicit-GEMM kernel is preferred
\* to an emitted one.  Its cubin is built unless there is one that is no older.
Fresh == static # NoFile /\ Has(StaticCubin) /\ dir[StaticCubin].ver >= static

CompileStatic ==
  /\ Running /\ stage = "static" /\ static # NoFile
  /\ dir' = IF Fresh THEN dir
            ELSE Put(StaticCubin, [key |-> StaticKey, kind |-> "static_cu", ver |-> static])
  /\ stage' = "time_static"
  /\ UNCHANGED <<plan, ver, static, inb, outb, prob, back, row, faults>>

\* Without a source, or if nvcc rejects it, the fact's kernel is next.
NoStatic ==
  /\ Running /\ stage = "static"
  /\ \/ static = NoFile /\ UNCHANGED <<row, faults>>
     \/ static # NoFile /\ ~Fresh /\ Fault /\ Dirty
  /\ stage' = "time_emit"
  /\ UNCHANGED <<plan, ver, static, dir, inb, outb, prob, back>>

TimeStatic ==
  /\ Running /\ stage = "time_static"
  /\ row' = [row EXCEPT !.timed = <<dir[StaticCubin]>>]
  /\ stage' = "done"
  /\ UNCHANGED <<plan, ver, static, dir, inb, outb, prob, back, faults>>

\* What else is timed is emitted again: for a shape, the fact's own kernel and
\* not one with the problem's parameters.
Again == IF Lane = "mlir_gpu" THEN Name("mlir") ELSE <<"k_cu", <<Problem.fact>>>>
Cubin == <<"k_cubin", <<Problem.fact>>>>

TimeEmit ==
  /\ Running /\ stage = "time_emit"
  /\ dir' = Put(Again, [key |-> Again[2], kind |-> Again[1], ver |-> ver])
  /\ stage' = "time_build"
  /\ UNCHANGED <<plan, ver, static, inb, outb, prob, back, row, faults>>

\* A row whose timing raises stays without times; a matmul's loses its verdict.
Untimed == IF Lane = "gemm" THEN NextRow ELSE stage' = "done" /\ UNCHANGED <<prob, back>>

\* With an earlier source the timing goes on, without one there is none.
TimeEmitFails ==
  /\ Running /\ stage = "time_emit" /\ Fault
  /\ IF Lane = "mlir_gpu" \/ Has(Again)
     THEN stage' = "time_build" /\ UNCHANGED <<prob, back>> ELSE Untimed
  /\ Dirty
  /\ UNCHANGED <<plan, ver, static, dir, inb, outb>>

TimeBuild ==
  /\ Running /\ stage = "time_build" /\ Lane # "mlir_gpu"
  /\ dir' = Put(Cubin, dir[Again])
  /\ stage' = "time"
  /\ UNCHANGED <<plan, ver, static, inb, outb, prob, back, row, faults>>

\* nvcc fails here, or the fixture prints nothing.  An nvcc that takes too long
\* over the static kernel raises: there is no fact's kernel instead.
TimeFails ==
  /\ Running /\ Fault
  /\ \/ stage \in {"time", "time_static"} /\ stage' = "done" /\ UNCHANGED <<prob, back>>
     \/ stage = "static" /\ static # NoFile /\ ~Fresh /\ stage' = "done" /\ UNCHANGED <<prob, back>>
     \/ stage = "time_build" /\ Lane # "mlir_gpu" /\ Untimed
  /\ UNCHANGED <<plan, ver, static, dir, inb, outb, row>>

Time ==
  /\ Running /\ stage = "time"
  /\ row' = [row EXCEPT !.timed = <<dir[IF Lane = "mlir_gpu" THEN Module ELSE Cubin]>>]
  /\ stage' = "done"
  /\ UNCHANGED <<plan, ver, static, dir, inb, outb, prob, back, faults>>

Done ==
  /\ Running /\ stage = "done"
  /\ NextRow
  /\ UNCHANGED <<plan, ver, static, dir, inb, outb, row, faults>>

\* The facts are edited, perhaps the static kernel too, and the sweep is run again
\* in the same directory.
SweepAgain ==
  /\ ~Running /\ ver < MaxEdits
  /\ ver' = ver + 1 /\ static' \in {static, ver'}
  /\ prob' = 1 /\ back' = 1 /\ stage' = "start" /\ row' = NoRow
  /\ UNCHANGED <<plan, dir, inb, outb, faults>>

SweepNext ==
  \/ Start \/ Emit \/ EmitFails \/ Build \/ BuildFails \/ Lower \/ LowerFails
  \/ RunAndJudge \/ RunFails \/ CompileStatic \/ NoStatic \/ TimeStatic \/ TimeEmit \/ TimeEmitFails \/ TimeBuild \/ TimeFails \/ Time \/ Done
  \/ SweepAgain

SweepSpec == SweepInit /\ [][SweepNext]_sweepVars

------------------------------------------------------------------------------
(* Properties.                                                              *)

\* A row whose verdict is in but which has not been left yet.
Judged == Running /\ stage \in {"static", "time_static", "time_emit", "time_build", "time", "done"}

\* A kernel that no longer needs libdevice leaves its old cubin, which is
\* loaded before the new ptx (kernelbench_sweep.py:499-502).
LeftBehind ==
  Lane = "mlir_gpu" /\ Has(Name("cubin")) /\ ~NeedsLibdevice(Text("mlir"))

\* The kernel that is timed is no fact's (kernelbench_sweep.py:807), whatever
\* "time the generated cuda kernel for the new shape classes (axis-reduce, pool,
\* conv2d)" says at 652, and the row does not tell.
PrefersStatic == IsConv2d /\ static # NoFile

\* Whatever fails, the verdict of a row is about its own problem: a kernel of
\* its own fact and backend, run on its own inputs; and where every tool
\* succeeded, about the facts of this sweep.  What is timed is the fact's kernel,
\* of the same version where every tool succeeded ("Times the SAME generated
\* kernel that was just verified"); but of a 2-D convolution it is the static
\* kernel as it was last edited, and the fact's only if that one is not there or
\* a tool failed.
RowIsOwn ==
  Judged =>
    LET got == row.got[1]
        clean == row.clean /\ ~LeftBehind
    IN  /\ got.text.key = Key(prob) /\ got.inputs = prob
        /\ got.text.kind = Source(Lane)
        /\ clean => got.text.ver = ver
        /\ \A i \in DOMAIN row.timed :
             LET t == row.timed[i]
             IN  IF t.kind = "static_cu"
                 THEN PrefersStatic /\ t.key = StaticKey /\ t.ver = static
                 ELSE /\ t.key = <<Problem.fact>>
                      /\ clean => ~PrefersStatic /\ t.ver = got.text.ver
=============================================================================
