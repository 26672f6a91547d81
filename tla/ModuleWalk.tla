------------------------------ MODULE ModuleWalk ------------------------------
(***************************************************************************)
(* verify_kernelbench_l2_cpu: the modules of a model, in the order they    *)
(* were registered, each run by the substrate and by PyTorch on the array  *)
(* that the walk holds; the substrate's result, when it has one, is the    *)
(* next module's array.  What forward does between its modules is left     *)
(* out, in the script as here: the walk ends at the first module that      *)
(* PyTorch refuses to apply.                                               *)
(*                                                                         *)
(* An array is its extents and its history: the modules applied to it, and *)
(* of each whether a kernel went wrong there.                              *)
(***************************************************************************)
EXTENDS Integers, Sequences, FiniteSets, SequencesExt

CONSTANTS
  Models, \* whether it loads and runs, its input's extents, its modules
  Builds  \* what the library lacks and what is wrong in it

VARIABLES
  model, build,
  walked,    \* modules walked
  array,     \* the array of the walk
  subOps,    \* of each module the substrate ran, its position and ulp
  ptOps,     \* the modules it did not
  rowStatus  \* the row's, once it is printed

walkVars == <<model, build, walked, array, subOps, ptOps, rowStatus>>

\* A module: size is what its weights ask for; plain, whether the attributes that
\* run_substrate never reads (a slope, dilation, affine, padding_mode) have their
\* defaults; odd, whether one that it reads has a form it cannot unpack.
Module(op, size, plain, odd, parts) == [op |-> op, size |-> size, plain |-> plain, odd |-> odd, parts |-> parts]

Activations == {"ReLU", "SiLU", "Mish", "Sigmoid", "Tanh", "GELU", "LeakyReLU", "ELU", "SELU",
                "Hardsigmoid", "Softplus", "Softsign"}
Convs   == {"Conv2d", "ConvTranspose2d", "Conv3d"}
Affine  == {"BatchNorm1d", "BatchNorm2d", "BatchNorm3d", "GroupNorm", "LayerNorm"}
ByNumpy == {"Dropout", "Hardtanh", "Hardswish"}
ByTorch == {"AdaptiveAvgPool1d", "AdaptiveAvgPool2d", "AdaptiveAvgPool3d", "MaxPool1d", "MaxPool3d",
            "AvgPool1d", "AvgPool3d"}
Kernels == Activations \cup Convs \cup Affine \cup {"Linear", "InstanceNorm2d", "InstanceNorm3d", "MaxPool2d", "Softmax"}
KernelOf(op) ==
  CASE op \in {"BatchNorm1d", "BatchNorm2d", "BatchNorm3d"} -> "batchnorm"
    [] op \in {"InstanceNorm2d", "InstanceNorm3d"} -> "instancenorm"
    [] OTHER -> op

\* No container is one of the modules that the substrate knows.
ASSUME ModelsAssumption ==
  \A m \in Models :
    /\ m.modules \in Seq(Range(m.modules))
    /\ \A part \in Range(m.modules) :
         /\ part.plain \in BOOLEAN /\ part.parts \in Seq(Range(part.parts))
         /\ part.parts # << >> => part.op \notin Kernels \cup ByNumpy \cup ByTorch

Planar == {"Conv2d", "ConvTranspose2d", "InstanceNorm2d", "MaxPool2d"} \* N_, C, H, W = x.shape
Ranks(op) ==
  CASE op \in Planar \ {"InstanceNorm2d"} -> {3, 4}
    [] op = "InstanceNorm2d" -> {3, 4} [] op = "BatchNorm2d" -> {4} [] op = "BatchNorm1d" -> {2, 3}
    [] op \in {"Conv3d", "BatchNorm3d", "InstanceNorm3d"} -> {5}
    [] op = "GroupNorm" -> 2..5
    [] OTHER -> 1..5
Channels(sh, op) == IF op \in Planar /\ Len(sh) = 3 THEN sh[1] ELSE sh[2]

\* Whether PyTorch applies m to an array of extents sh.
Accepts(m, sh) ==
  /\ Len(sh) \in Ranks(m.op)
  /\ m.op \in Convs \cup (Affine \ {"LayerNorm"}) => Channels(sh, m.op) = m.size[1]
  /\ m.op = "Linear" => Last(sh) = m.size[1]
  /\ m.op = "LayerNorm" => IsSuffix(m.size, sh)
  /\ m.op = "Softmax" => m.size[1] <= Len(sh)

\* Convolutions keep the extents of an image, pools halve them, PyTorch's up when
\* ceil_mode is not the default.
Extents(m, sh, up) ==
  CASE m.op \in Convs -> [sh EXCEPT ![IF Len(sh) = 3 /\ m.op # "Conv3d" THEN 1 ELSE 2] = m.size[2]]
    [] m.op = "Linear" -> [sh EXCEPT ![Len(sh)] = m.size[2]]
    [] m.op = "MaxPool2d" -> [d \in DOMAIN sh |-> IF d < Len(sh) - 1 THEN sh[d]
                                                  ELSE (sh[d] + (IF up THEN 1 ELSE 0)) \div 2]
    [] OTHER -> sh

Done(a, m, off, up) == [sh |-> Extents(m, a.sh, up), made |-> Append(a.made, <<m.op, m.size, off>>)]
ByTorchOn(m, a) == Done(a, m, FALSE, ~m.plain)
\* A container applies the modules in it, which are walked again after it: the array
\* before the first of them and after each.
Through(parts, a) ==
  LET after[n \in 0..Len(parts)] == IF n = 0 THEN a ELSE ByTorchOn(parts[n], after[n - 1]) IN after
Torch(m, a) == IF m.parts = << >> THEN ByTorchOn(m, a) ELSE Through(m.parts, a)[Len(m.parts)]
Applies(m, a) ==
  IF m.parts = << >> THEN Accepts(m, a.sh)
  ELSE \A n \in DOMAIN m.parts : Accepts(m.parts[n], Through(m.parts, a)[n - 1].sh)

Used(m) == m.op \in ByNumpy \cup ByTorch \/ (m.op \in Kernels /\ KernelOf(m.op) \notin build.lacks)
\* Four extents are unpacked from three; a weight is None; padding is a word.
Raises(m, a) == m.op \in Kernels /\ (m.odd \/ (m.op \in Planar /\ Len(a.sh) # 4))
\* What the branch makes of an array it was not written for: Softmax of another
\* axis, LayerNorm over several, GroupNorm of a volume.
Misread(m, a) ==
  \/ m.op = "Softmax" /\ m.size[1] # Len(a.sh)
  \/ m.op = "LayerNorm" /\ Len(m.size) > 1
  \/ m.op = "GroupNorm" /\ Len(a.sh) = 5 /\ a.sh[5] > 1
Off(m, a) == m.op \in Kernels /\ (KernelOf(m.op) \in build.wrong \/ ~m.plain \/ Misread(m, a))
Substrate(m, a) == IF m.op \in ByTorch THEN Torch(m, a) ELSE Done(a, m, Off(m, a), FALSE)

\* -1 of two lengths, 0 of equal values, and more than is forgiven otherwise.
Length(a) == FoldLeft(LAMBDA n, d : n * d, 1, a.sh)
Ulp(a, b) == IF Length(a) # Length(b) THEN -1 ELSE IF a.made = b.made THEN 0 ELSE 5

---------------------------------------------------------------------------
WalkInit ==
  /\ model \in Models /\ build \in Builds
  /\ walked = 0 /\ array = [sh |-> model.input, made |-> << >>]
  /\ subOps = << >> /\ ptOps = << >> /\ rowStatus = "walking"

SlipTorchInput == [array EXCEPT !.made = [n \in DOMAIN @ |-> <<@[n][1], @[n][2], FALSE>>]]
TorchInput == array
Module1 == model.modules[walked + 1]
Walking == rowStatus = "walking" /\ model.loads /\ walked < Len(model.modules)

Report ==
  rowStatus' = IF subOps' = << >> THEN "PYTORCH_ONLY"
            ELSE IF \A n \in DOMAIN subOps' : subOps'[n].ulp <= 4 THEN "BIT_IDENTICAL" ELSE "DIVERGENT"

\* The substrate's result goes on.
RunSubstrate ==
  /\ Walking /\ Applies(Module1, array) /\ Used(Module1) /\ ~Raises(Module1, array)
  /\ array' = Substrate(Module1, array)
  /\ subOps' = Append(subOps, [at |-> walked + 1, ulp |-> Ulp(array', Torch(Module1, TorchInput))])
  /\ walked' = walked + 1
  /\ UNCHANGED <<model, build, ptOps, rowStatus>>

\* A module without a kernel, a container among them.
FallBack ==
  /\ Walking /\ Applies(Module1, array) /\ ~Used(Module1)
  /\ array' = Torch(Module1, TorchInput)
  /\ ptOps' = Append(ptOps, Module1.op)
  /\ walked' = walked + 1
  /\ UNCHANGED <<model, build, subOps, rowStatus>>

\* PyTorch refuses the array, or there are no more: the row is printed.
Leave ==
  /\ rowStatus = "walking" /\ model.loads /\ (walked < Len(model.modules) => ~Applies(Module1, array))
  /\ UNCHANGED <<model, build, walked, array, subOps, ptOps>>
  /\ Report

\* The problem's file or its forward raises, or run_substrate does: the row is an
\* error, whatever was found before.
Raise ==
  /\ rowStatus = "walking"
  /\ \/ ~model.loads
     \/ Walking /\ Applies(Module1, array) /\ Used(Module1) /\ Raises(Module1, array)
  /\ rowStatus' = "ERROR"
  /\ UNCHANGED <<model, build, walked, array, subOps, ptOps>>

WalkNext == RunSubstrate \/ FallBack \/ Leave \/ Raise
WalkSpec == WalkInit /\ [][WalkNext]_walkVars

---------------------------------------------------------------------------
\* A number of the row is about the module it stands by: it is 0 or -1 whatever
\* went wrong before it, unless that module's own kernel is wrong or does not read
\* what the module asks for; and -1 is never printed of a module whose attributes
\* are all read.  So the status is DIVERGENT just when some module walked is off.
RowIsItsOps ==
  /\ \A n \in DOMAIN subOps :
       LET m == model.modules[subOps[n].at]
           own == m.op \in Kernels /\ KernelOf(m.op) \in build.wrong
           asks == ~m.plain \/ m.op \in {"Softmax", "LayerNorm", "GroupNorm"}
       IN /\ subOps[n].ulp > 0 => own \/ (m.op \in Kernels /\ asks)
          /\ own => subOps[n].ulp # 0
          /\ m.plain => subOps[n].ulp # -1
  /\ rowStatus = "BIT_IDENTICAL" =>
       \A n \in DOMAIN subOps : LET m == model.modules[subOps[n].at]
                                IN m.plain /\ m.op \in Kernels => KernelOf(m.op) \notin build.wrong
=============================================================================
