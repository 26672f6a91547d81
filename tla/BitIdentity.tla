----------------------------- MODULE BitIdentity -----------------------------
(***************************************************************************)
(* The scripts that compare kernels with a reference bit for bit:          *)
(* bit_identical_v1, v2 and v3 (emitted CUDA sources, compiled and         *)
(* launched one after another in one process), bit_identical (the GEMM     *)
(* against cuBLAS and against float64) and bit_identical_universal (the    *)
(* kernels in C against PyTorch).                                          *)
(*                                                                         *)
(* A kernel stands to its reference by its grade: how far its result is    *)
(* off, in ulp and absolutely, and whether it writes at all.  Device       *)
(* memory is not cleared when it is allocated: a kernel that writes        *)
(* nothing leaves what an earlier case left there.                         *)
(***************************************************************************)
EXTENDS KernelLayouts

CONSTANT Scripts \* runs: the script, what is off, what is absent, how many calls of CUDA may fail

\* Equal bits are no error; a kernel that writes nothing has no other grade, and
\* is run on the device.
ASSUME ScriptsAssumption ==
  \A s \in Scripts :
    /\ s.name \in {"v1", "v2", "v3", "gpu", "universal"}
    /\ \A name \in DOMAIN s.off :
         /\ s.off[name] \in [ulp : Nat, err : 0..4, writes : BOOLEAN]
         /\ s.off[name].ulp = 0 => s.off[name].err = 0
         /\ ~s.off[name].writes => s.off[name].ulp = 0 /\ s.name \in {"v1", "v2", "v3"}

VARIABLES
  script,   \* the run
  cases,    \* per case its status, and the call of CUDA that failed in it
  devmem,   \* what the device's free memory may hold
  lost,     \* the context is broken: every call fails
  caseExit  \* the exit code, once there is one

bitVars == <<script, cases, devmem, lost, caseExit>>

---------------------------------------------------------------------------
(* The cases                                                               *)

Case(name, sort) == [name |-> name, sort |-> sort, ref |-> name]
Cases(sort, names) == [i \in DOMAIN names |-> Case(names[i], sort)]

Reductions ==
  Cases("reduction", <<"reduce_sum_rows", "reduce_mean", "reduce_max", "reduce_min", "reduce_argmax", "reduce_argmin">>)
Convolutions ==
  Cases("conv_2d", <<"conv_2d_forward">>) \o
  Cases("conv", <<"conv_1d_forward", "conv_3d_forward", "conv_transpose_1d", "conv_transpose_2d", "conv_transpose_3d">>)
\* The reference of the group norm is the layer norm's, on the same input.
Plain ==
  Cases("rows", <<"norm_layer_plain", "norm_rms_plain", "norm_l2_plain">>) \o
  <<[Case("norm_group_plain", "rows") EXCEPT !.ref = "norm_layer_plain"]>>
Extension ==
  Cases("rows", <<"cumsum", "cumprod">>) \o Plain \o
  Cases("affine", <<"norm_layer_affine", "norm_rms_affine", "norm_l2_affine">>) \o
  Cases("loss", <<"loss_mse_mean", "loss_mse_sum", "loss_cross_entropy", "loss_kl_div", "loss_hinge", "loss_huber">>) \o
  Cases("triplet", <<"loss_triplet_margin">>) \o Cases("rows", <<"pool_2d_max", "pool_2d_avg">>)
Gpu ==
  Cases("product", <<"sgemm 64", "sgemm 128", "sgemm 256", "sgemm 512", "sgemm 1024", "sgemm 2048", "sgemm 64x1024",
                     "sgemm 128x512", "sgemm 1024x512", "sgemm 2048x1024">>) \o
  Cases("itself", <<"relu", "sigmoid", "tanh", "silu", "neg", "abs", "exp">>) \o
  Cases("product", <<"mm+bias+relu 512", "mm+bias+relu 1024", "mm+bias+relu 2048">>)
Universal ==
  Cases("cpu", <<"sgemm 64", "sgemm 256", "sgemm 512", "relu", "silu", "mish", "fused_mm_bias_relu", "conv2d", "upsample",
                 "sigmoid", "tanh", "gelu", "neg", "abs", "exp", "reduce_sum", "reduce_mean", "reduce_max", "softmax",
                 "layernorm", "maxpool2d", "linear">>)
Todo ==
  CASE script.name = "v1"        -> Reductions
    [] script.name = "v2"        -> Reductions \o Convolutions
    [] script.name = "v3"        -> Extension
    [] script.name = "gpu"       -> Gpu
    [] script.name = "universal" -> Universal

\* The calls of a dispatch and what it returns when one fails: 0 when it does not look.
Call(name, rc) == [call |-> name, rc |-> rc]
Mallocs(codes) == [i \in DOMAIN codes |-> Call("malloc", codes[i])]
Calls(sort) ==
  LET end == <<Call("launch", 4), Call("sync", 5), Call("back", 0)>>
  IN CASE sort = "reduction" -> Mallocs(<<1, 2>>) \o <<Call("copy", 3), Call("launch", 4), Call("sync", 5), Call("back", 6)>>
       [] sort = "conv_2d"   -> Mallocs(<<1, 2>>) \o <<Call("clear", 0), Call("copy", 3), Call("launch", 4), Call("sync", 5),
                                                      Call("back", 6)>>
       [] sort = "conv"      -> Mallocs(<<1, 2>>) \o <<Call("clear", 0), Call("copy", 0)>> \o end
       [] sort = "rows"      -> Mallocs(<<1, 2>>) \o <<Call("copy", 0)>> \o end
       [] sort = "affine"    -> Mallocs(<<1, 2, 21, 22>>) \o <<Call("copy", 0), Call("copy", 0), Call("copy", 0)>> \o end
       [] sort = "loss"      -> Mallocs(<<1, 2, 3>>) \o <<Call("copy", 0), Call("copy", 0)>> \o end
       [] sort = "triplet"   -> Mallocs(<<0, 0, 0, 0>>) \o <<Call("copy", 0), Call("copy", 0), Call("copy", 0),
                                 Call("launch", 0), Call("sync", 0), Call("back", 0)>>

---------------------------------------------------------------------------
(* A case of v1, v2 or v3                                                  *)

\* ulp: the distance of the bits; err: 0 none, 1 below 1e-5, 2 below 1e-4, 3 within
\* the bound of a product of that depth, 4 beyond.
Grade(ulp, err) == [ulp |-> ulp, err |-> err, writes |-> TRUE]
Exact == Grade(0, 0)
Far == Grade(200000, 4)
Stub == [Exact EXCEPT !.writes = FALSE]
GradeOf(c) ==
  IF c.name \in DOMAIN script.off THEN script.off[c.name]
  ELSE IF c.name \in (Forwards \cup Transposes \cup Pools) \ IndexedRight THEN Far ELSE Exact

Made(of, grade) == [of |-> of, grade |-> grade]
Zero == Made("zero", Exact)
Junk == Made("junk", Exact)
SlipOutCleared(c) == c.sort = "conv_2d"
OutCleared(c) == \E n \in DOMAIN Calls(c.sort) : Calls(c.sort)[n].call = "clear"
Found(c) == IF OutCleared(c) THEN {Zero} ELSE devmem \cup {Zero, Junk}
Writes(c) == IF GradeOf(c).writes THEN {Made(c.ref, GradeOf(c))} ELSE Found(c)

Ended(rc, out, gone, hit) == [rc |-> rc, out |-> out, gone |-> gone, hit |-> hit]
\* A call that fails: a dispatch that looks returns; an error that was passed over
\* is found at the launch; what is never copied back stays zero, and a kernel given
\* a null pointer breaks the context.
Fails(c, n) ==
  LET call == Calls(c.sort)[n]
      looks == \E m \in DOMAIN Calls(c.sort) : Calls(c.sort)[m].call = "launch" /\ Calls(c.sort)[m].rc # 0
  IN IF call.rc # 0 THEN {Ended(call.rc, Zero, call.call = "sync", call.call)}
     ELSE IF call.call = "back" THEN {Ended(0, Zero, FALSE, "back")}
     ELSE IF looks THEN {Ended(4, Zero, FALSE, call.call)}
     ELSE IF call.call = "copy" THEN {Ended(0, Junk, FALSE, "copy")}
     ELSE IF call.call = "launch" THEN {Ended(0, o, FALSE, "launch") : o \in Found(c)}
     ELSE {Ended(0, Zero, TRUE, call.call)}
Faulted == Cardinality({n \in DOMAIN cases : cases[n].hit \notin {"none", "lost"}})
Ends(c) ==
  IF lost THEN {Ended(Calls(c.sort)[1].rc, Zero, TRUE, "lost")}
  ELSE {Ended(0, o, FALSE, "none") : o \in Writes(c)}
       \cup (IF Faulted < script.faults THEN UNION {Fails(c, n) : n \in DOMAIN Calls(c.sort)} ELSE {})

Classify(c, end) ==
  LET ulp == IF end.out.of = c.ref THEN end.out.grade.ulp ELSE Far.ulp
  IN IF end.rc # 0 THEN "CUDA_ERROR"
     ELSE IF end.out = Zero THEN "STUB_DETECTED"
     ELSE IF ulp = 0 THEN "BIT_IDENTICAL"
     ELSE IF ulp <= 4 THEN "PASS_WITHIN_4_ULP"
     ELSE IF ulp <= 64 THEN "PASS_WITHIN_64_ULP"
     ELSE IF ulp <= 1024 THEN "REDUCTION_ORDER_DIVERGENCE" ELSE "MISMATCH"

BitInit ==
  /\ script \in Scripts
  /\ cases = << >> /\ devmem = {} /\ lost = FALSE /\ caseExit = "none"

Now == Todo[Len(cases) + 1]
MoreCases == caseExit = "none" /\ Len(cases) < Len(Todo)
OnDevice == script.name \in {"v1", "v2", "v3"}
Result(status, hit) == cases' = Append(cases, [status |-> status, hit |-> hit])

\* The emitted source is not there, or nvcc refuses it.
Uncompiled ==
  /\ MoreCases /\ OnDevice /\ Now.name \in script.absent
  /\ Result("HARNESS_ERROR", "none")
  /\ UNCHANGED <<script, devmem, lost, caseExit>>

RunCase ==
  /\ MoreCases /\ OnDevice /\ Now.name \notin script.absent
  /\ \E end \in Ends(Now) :
       /\ Result(Classify(Now, end), end.hit)
       /\ lost' = end.gone
       /\ devmem' = IF end.hit \in {"none", "back"} THEN devmem \cup Writes(Now) ELSE devmem
  /\ UNCHANGED <<script, caseExit>>

---------------------------------------------------------------------------
(* The other two                                                           *)

\* Against cuBLAS or against the truth: either will do.  The elementwise cases
\* compare PyTorch with itself.
CompareOnGpu ==
  /\ MoreCases /\ script.name = "gpu" /\ script.absent = {}
  /\ LET g == IF Now.sort = "itself" THEN Exact ELSE GradeOf(Now)
     IN Result(IF g.ulp = 0 THEN "BIT_IDENTICAL" ELSE IF g.err <= 2 THEN "PASS_ABS_TOLERANCE"
               ELSE IF g.err <= 3 THEN "WITHIN_ERROR_BOUND" ELSE "FAIL", "none")
  /\ UNCHANGED <<script, devmem, lost, caseExit>>

CompareOnCpu ==
  /\ MoreCases /\ script.name = "universal" /\ script.absent = {}
  /\ LET g == GradeOf(Now)
     IN Result(IF g.ulp = 0 THEN "BIT_IDENTICAL"
               ELSE IF g.err <= 2 /\ g.ulp > 100000 THEN "PASS_ABS_TOLERANCE"
               ELSE IF g.ulp <= 64 THEN "PASS_WITHIN_64_ULP"
               ELSE IF g.err <= 1 THEN "PASS_ABS_TOLERANCE" ELSE "FAIL", "none")
  /\ UNCHANGED <<script, devmem, lost, caseExit>>

\* Without a library the one ends in an error and the other has nothing to compare;
\* a kernel that the library lacks raises.
Unloaded ==
  /\ caseExit = "none" /\ cases = << >> /\ ~OnDevice /\ script.absent # {}
  /\ caseExit' = IF script.absent = {"library"} /\ script.name = "universal" THEN "0" ELSE "1"
  /\ UNCHANGED <<script, cases, devmem, lost>>

Passed(status) == status \notin {"CUDA_ERROR", "STUB_DETECTED", "MISMATCH", "HARNESS_ERROR", "FAIL"}
Conclude ==
  /\ caseExit = "none" /\ Len(cases) = Len(Todo)
  /\ caseExit' = IF script.name \in {"v2", "v3"} \/ \A n \in DOMAIN cases : Passed(cases[n].status) THEN "0" ELSE "1"
  /\ UNCHANGED <<script, cases, devmem, lost>>

BitNext == Uncompiled \/ RunCase \/ CompareOnGpu \/ CompareOnCpu \/ Unloaded \/ Conclude
BitSpec == BitInit /\ [][BitNext]_bitVars

---------------------------------------------------------------------------
\* Far off, by both measures.
Beyond(g) == g.err = 4 /\ g.ulp > 1024

\* A status speaks of its own kernel.  With every call answered, a right kernel is
\* BIT_IDENTICAL, one that writes nothing where the output is cleared is a stub, and
\* BIT_IDENTICAL is a right kernel, save where an uncleared output still holds the
\* equal result of an earlier case.  A call that fails is CUDA_ERROR, save that what
\* is not looked at (the copy back, and all of the triplet loss) shows as a stub or a
\* mismatch, never as a pass of a kernel that was not exact.
CaseTells(n) ==
  LET c == Todo[n]   r == cases[n]   g == IF c.sort = "itself" THEN Exact ELSE GradeOf(c)
      tried == c.name \notin script.absent
      shared == \E m \in 1 .. n - 1 : Todo[m].ref = c.ref /\ Todo[m].name \notin script.absent
  IN /\ r.hit = "none" /\ g = Exact /\ tried => r.status = "BIT_IDENTICAL"
     /\ r.hit = "none" /\ ~g.writes /\ c.sort \in {"conv", "conv_2d"} /\ tried => r.status = "STUB_DETECTED"
     /\ r.status = "BIT_IDENTICAL" => (g = Exact \/ (g.ulp = 0 /\ shared))
     /\ r.status = "CUDA_ERROR" => r.hit # "none"
     /\ r.hit \notin {"none", "back"} /\ c.sort # "triplet" => r.status = "CUDA_ERROR"
     /\ r.hit # "none" => r.status \in {"CUDA_ERROR", "STUB_DETECTED", "MISMATCH"}
     /\ Beyond(g) /\ g.writes => ~Passed(r.status)

\* The exit code is 0 only of passes, save where the script says 0 anyway or has
\* nothing to compare.
ExitTells ==
  caseExit = "0" => \/ script.name \in {"v2", "v3"}
                    \/ script.name = "universal" /\ script.absent = {"library"}
                    \/ /\ Len(cases) = Len(Todo)
                       /\ \A n \in DOMAIN Todo : LET g == GradeOf(Todo[n])
                                                 IN Todo[n].sort = "itself" \/ (~Beyond(g) /\ (OnDevice => g.writes))

\* A comparison bit for bit tells of the kernel it names.
CasesTell == (\A n \in DOMAIN cases : CaseTells(n)) /\ ExitTells
=============================================================================
