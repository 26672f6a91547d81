----------------------------- MODULE JudgesProofs -----------------------------
(***************************************************************************)
(* What the judges of kernels and engines say.  For any list of problems,  *)
(* any backends, any number of sweeps, of edits between them and of tools  *)
(* that fail: the verdict of a row of the sweep is about its own problem,  *)
(* and about these facts if every tool of the row succeeded; its times are *)
(* of the fact's kernel, for a 2-D convolution of the repository's own one *)
(* (RowIsOwn).  For any table of recipes and measurements: a               *)
(* tile is gold only if everything in it was measured (GoldIsMeasured).    *)
(* For a model of any depth and trials of any length: a referee of the     *)
(* decode path fails exactly the trials whose defect it can see            *)
(* (VerdictIsEarned).                                                      *)
(***************************************************************************)
EXTENDS KernelSweep, RobustTable, Referees, FiniteSetTheorems, WellFoundedInduction, TLAPS

-----------------------------------------------------------------------------
(* The sweep: the invariant.                                               *)

StageNames == {"start", "emit", "build", "run", "static", "time_static",
               "time_emit", "time_build", "time", "done"}

Placed ==
  /\ plan \in Plans /\ ver \in Nat
  /\ prob \in Nat \ {0} /\ back \in Nat \ {0}
  /\ stage \in StageNames
  /\ Running => back \in 1..Len(Lanes(Problem))

\* The language a file's kernel was written in, whatever it was built into.
KindOf(kind) ==
  CASE kind = "exe"      -> "cu"
    [] kind = "exe_llvm" -> "ll"
    [] kind = "gemm_v"   -> "gemm_v_cu"
    [] kind \in {"cubin", "ptx"} -> "mlir"
    [] kind = "k_cubin"  -> "k_cu"
    [] kind = "static_cubin" -> "static_cu"
    [] OTHER -> kind

\* A file's name tells what it computes, and its kind the language; only the
\* version may be an old one.
NamesTell(d) == \A f \in DOMAIN d : d[f].key = f[2] /\ d[f].kind = KindOf(f[1])

\* A file that is there and of this version.
Current(name) == Has(name) /\ dir[name].ver = ver

\* The cubin of the static kernel is never of a later edit than its source.
StaticKept ==
  /\ static \in Int /\ static <= ver
  /\ Has(StaticCubin) =>
       LET v == dir[StaticCubin].ver
       IN  v \in Int /\ v <= ver /\ (static # NoFile => v <= static)

\* The files a row has come by.
Passed ==
  /\ stage = "build" => Lane # "torch"
  /\ Lane # "torch" => inb = prob
  /\ Judged => Has(Runnable)
  /\ stage \in {"static", "time_static"} => IsConv2d
  /\ stage = "time_static" =>
       PrefersStatic /\ Has(StaticCubin) /\ dir[StaticCubin].ver = static
  /\ stage = "time_build" /\ Lane # "mlir_gpu" => Has(Again)
  /\ stage = "time" /\ Lane # "mlir_gpu" => Has(Cubin)

\* Those of a row without a failure are of this version.  A cubin that was left
\* behind comes before the ptx; a static kernel, before a fact's.
Newest ==
  /\ stage = "build" => Current(Name(Source(Lane)))
  /\ Lane = "mlir_gpu" /\ stage # "emit" => Current(Name("mlir"))
  /\ stage = "run" \/ (Judged /\ Lane = "mlir_gpu") => LeftBehind \/ Current(Runnable)
  /\ stage = "time_build" /\ Lane # "mlir_gpu" => Current(Again)
  /\ stage = "time" /\ Lane # "mlir_gpu" => Current(Cubin)
  /\ stage \in {"time_emit", "time_build", "time"} => ~PrefersStatic

\* What the row says.
Got ==
  LET got == row.got[1]
  IN  /\ got.text.key = Key(prob) /\ got.inputs = prob
      /\ got.text.kind = Source(Lane)
      /\ (row.clean /\ ~LeftBehind) => got.text.ver = ver

Timed ==
  \A i \in DOMAIN row.timed :
    LET t == row.timed[i]
    IN  IF t.kind = "static_cu"
        THEN PrefersStatic /\ t.key = StaticKey /\ t.ver = static
        ELSE /\ t.key = <<Problem.fact>>
             /\ (row.clean /\ ~LeftBehind) => ~PrefersStatic /\ t.ver = ver

RowInv ==
  /\ stage # "done" => row.timed = << >>
  /\ Passed
  /\ row.clean => Newest
  /\ Judged => Got /\ Timed

\* A row is a record of its own fields.
RowTyped ==
  /\ row.clean \in BOOLEAN
  /\ row = [got |-> row.got, timed |-> row.timed, clean |-> row.clean]

SweepInv ==
  /\ Placed /\ NamesTell(dir) /\ StaticKept /\ RowTyped
  /\ Running /\ stage # "start" => RowInv

-----------------------------------------------------------------------------
(* Where a sweep is.                                                       *)

LaneNames == {"cuda_c", "mlir_gpu", "llvm", "torch", "gemm"}

LEMMA PlanType ==
  ASSUME NEW p \in Plans
  PROVE  /\ Len(p) \in Nat
         /\ \A i \in 1..Len(p) :
              p[i].klass \in Classes /\ (p[i].term # "none" => p[i].klass \in WithTerms)
<1> DEFINE R == [fact : {p[i].fact : i \in DOMAIN p}, klass : Classes, term : Terms]
<1>1. p \in Seq(R) /\ \A i \in DOMAIN p : p[i].term # "none" => p[i].klass \in WithTerms
  BY SweepAssumption
<1>2. \A r \in R : r.klass \in Classes
  OBVIOUS
<1> HIDE DEF R
<1> QED BY <1>1, <1>2

LEMMA LanesType ==
  ASSUME NEW p, p.klass \in Classes
  PROVE  /\ Len(Lanes(p)) \in Nat \ {0}
         /\ \A i \in 1..Len(Lanes(p)) :
              /\ Lanes(p)[i] \in LaneNames
              /\ p.klass = "conv" => Lanes(p)[i] = "torch"
              /\ Lanes(p)[i] = "mlir_gpu" => p.klass = "elementwise"
<1>1. CASE p.klass = "elementwise"
  <2>1. Lanes(p) = Backends
    BY <1>1 DEF Lanes, WithTerms
  <2>2. Len(Backends) \in Nat \ {0} /\ \A i \in 1..Len(Backends) : Backends[i] \in LaneNames
    BY SweepAssumption DEF LaneNames
  <2> QED BY <1>1, <2>1, <2>2
<1>2. CASE p.klass \in WithTerms \cup {"loss"}
  <2>1. Lanes(p) = <<"torch">>
    BY <1>2 DEF Lanes, WithTerms
  <2> QED BY <1>2, <2>1 DEF LaneNames, WithTerms
<1>3. CASE p.klass = "reduction"
  <2>1. Lanes(p) = <<"gemm">>
    BY <1>3 DEF Lanes, WithTerms
  <2> QED BY <1>3, <2>1 DEF LaneNames
<1> QED BY <1>1, <1>2, <1>3 DEF Classes, WithTerms

LEMMA LaneType ==
  ASSUME Placed, Running
  PROVE  /\ Len(Lanes(Problem)) \in Nat \ {0}
         /\ Lane \in LaneNames
         /\ IsConv2d => Lane = "torch"
         /\ Lane = "mlir_gpu" => Problem.term = "none"
<1>1. prob \in 1..Len(plan) /\ Len(plan) \in Nat
  BY PlanType DEF Placed, Running
<1>2. Problem.klass \in Classes /\ (Problem.term # "none" => Problem.klass \in WithTerms)
  BY <1>1, PlanType DEF Problem, Placed
<1>3. /\ Len(Lanes(Problem)) \in Nat \ {0} /\ Lane \in LaneNames
      /\ Problem.klass = "conv" => Lane = "torch"
      /\ Lane = "mlir_gpu" => Problem.klass = "elementwise"
  BY <1>2, LanesType DEF Lane, Placed
<1> QED BY <1>2, <1>3 DEF IsConv2d, WithTerms

LEMMA NextRowPlaced ==
  ASSUME Placed, Running, NextRow, UNCHANGED <<plan, ver, static>>
  PROVE  Placed' /\ stage' = "start"
<1>1. stage' = "start" /\ prob' \in Nat \ {0} /\ back' \in Nat \ {0}
  BY DEF NextRow, Placed
<1>2. ASSUME Running' PROVE back' \in 1..Len(Lanes(Problem)')
  <2>1. CASE back < Len(Lanes(Problem))
    <3>1. Problem' = Problem
      BY <2>1 DEF NextRow, Problem
    <3>2. Lanes(Problem)' = Lanes(Problem)
      BY <3>1 DEF Lanes
    <3>3. back \in Nat \ {0} /\ Len(Lanes(Problem)) \in Nat /\ back' = back + 1
      BY <2>1, LaneType DEF NextRow, Placed
    <3> QED BY <2>1, <3>2, <3>3
  <2>2. CASE ~(back < Len(Lanes(Problem)))
    <3>1. plan \in Plans /\ prob' \in 1..Len(plan) /\ Problem' = plan[prob']
      BY <1>1, <1>2, PlanType DEF Placed, Running, Problem
    <3>2. Problem'.klass \in Classes
      BY <3>1, PlanType
    <3>3. Len(Lanes(Problem')) \in Nat \ {0}
      BY <3>2, LanesType
    <3>4. back' = 1
      BY <2>2 DEF NextRow
    <3>5. Lanes(Problem)' = Lanes(Problem')
      BY DEF Lanes
    <3> QED BY <3>3, <3>4, <3>5
  <2> QED BY <2>1, <2>2
<1> QED BY <1>1, <1>2 DEF Placed, StageNames

\* Steps that stay in their row.
LEMMA SamePlaced ==
  ASSUME Placed, UNCHANGED <<plan, ver, static, prob, back>>, stage' \in StageNames
  PROVE  Placed'
  BY DEF Placed, Running, Problem, Lanes

LEMMA PlacedStep ==
  ASSUME Placed, SweepNext
  PROVE  Placed'
<1>1. CASE Start
  BY <1>1, SamePlaced DEF Start, StageNames
<1>2. CASE Emit
  BY <1>2, SamePlaced DEF Emit, Emitted, StageNames
<1>3. CASE EmitFails
  <2>1. CASE SourceThere
    BY <1>3, <2>1, SamePlaced DEF EmitFails, Emitted, StageNames
  <2>2. CASE ~SourceThere
    BY <1>3, <2>2, NextRowPlaced DEF EmitFails
  <2> QED BY <2>1, <2>2
<1>4. CASE Build
  BY <1>4, SamePlaced DEF Build, StageNames
<1>5. CASE BuildFails
  BY <1>5, NextRowPlaced DEF BuildFails
<1>6. CASE Lower
  BY <1>6, SamePlaced DEF Lower, StageNames
<1>7. CASE LowerFails
  BY <1>7, SamePlaced DEF LowerFails, StageNames
<1>8. CASE RunAndJudge
  BY <1>8, SamePlaced DEF RunAndJudge, StageNames
<1>9. CASE RunFails
  BY <1>9, NextRowPlaced DEF RunFails
<1>10. CASE TimeEmit
  BY <1>10, SamePlaced DEF TimeEmit, StageNames
<1>17. CASE CompileStatic
  BY <1>17, SamePlaced DEF CompileStatic, StageNames
<1>18. CASE NoStatic
  BY <1>18, SamePlaced DEF NoStatic, StageNames
<1>19. CASE TimeStatic
  BY <1>19, SamePlaced DEF TimeStatic, StageNames
<1>11. CASE TimeEmitFails
  <2>1. CASE NextRow
    BY <1>11, <2>1, NextRowPlaced DEF TimeEmitFails
  <2>2. CASE UNCHANGED <<prob, back>> /\ stage' \in StageNames
    BY <1>11, <2>2, SamePlaced DEF TimeEmitFails
  <2> QED BY <1>11, <2>1, <2>2 DEF TimeEmitFails, Untimed, StageNames
<1>12. CASE TimeBuild
  BY <1>12, SamePlaced DEF TimeBuild, StageNames
<1>13. CASE TimeFails
  <2>1. CASE NextRow
    BY <1>13, <2>1, NextRowPlaced DEF TimeFails
  <2>2. CASE UNCHANGED <<prob, back>> /\ stage' \in StageNames
    BY <1>13, <2>2, SamePlaced DEF TimeFails
  <2> QED BY <1>13, <2>1, <2>2 DEF TimeFails, Untimed, StageNames
<1>14. CASE Time
  BY <1>14, SamePlaced DEF Time, StageNames
<1>15. CASE Done
  BY <1>15, NextRowPlaced DEF Done
<1>16. CASE SweepAgain
  <2>1. /\ plan' = plan /\ ver' = ver + 1 /\ prob' = 1 /\ back' = 1 /\ stage' = "start"
    BY <1>16 DEF SweepAgain
  <2>2. ASSUME Running' PROVE 1 \in 1..Len(Lanes(Problem)')
    <3>1. 1 \in 1..Len(plan) /\ Problem' = plan[1] /\ plan \in Plans
      BY <2>1, <2>2, PlanType DEF Running, Problem, Placed
    <3>2. Problem'.klass \in Classes
      BY <3>1, PlanType
    <3>3. Lanes(Problem)' = Lanes(Problem')
      BY DEF Lanes
    <3> QED BY <3>2, <3>3, LanesType
  <2> QED BY <2>1, <2>2 DEF Placed, StageNames
<1> QED BY <1>1, <1>2, <1>3, <1>4, <1>5, <1>6, <1>7, <1>8, <1>9, <1>10, <1>11, <1>12, <1>13,
           <1>14, <1>15, <1>16, <1>17, <1>18, <1>19 DEF SweepNext

-----------------------------------------------------------------------------
(* Files.                                                                  *)

\* A file that is put is there, and the others are as they were.
LEMMA PutIs ==
  ASSUME NEW name, NEW t, dir' = Put(name, t)
  PROVE  /\ name \in DOMAIN dir' /\ dir'[name] = t
         /\ \A f : f # name => (f \in DOMAIN dir' <=> f \in DOMAIN dir)
         /\ \A f \in DOMAIN dir : f \in DOMAIN dir' /\ (f # name => dir'[f] = dir[f])
  BY DEF Put

LEMMA PutTells ==
  ASSUME NamesTell(dir), NEW name, NEW t, dir' = Put(name, t),
         t.key = name[2], t.kind = KindOf(name[1])
  PROVE  NamesTell(dir)'
<1>1. \A f \in DOMAIN dir' : f = name \/ f \in DOMAIN dir
  BY PutIs
<1>2. ASSUME NEW f \in DOMAIN dir' PROVE dir'[f].key = f[2] /\ dir'[f].kind = KindOf(f[1])
  <2>1. CASE f = name
    BY <2>1, PutIs
  <2>2. CASE f # name
    <3>1. f \in DOMAIN dir /\ dir'[f] = dir[f]
      BY <1>1, <1>2, <2>2, PutIs
    <3> QED BY <3>1 DEF NamesTell
  <2> QED BY <2>1, <2>2
<1> QED BY <1>2 DEF NamesTell

LEMMA KeyIsStem == \A i : Key(i) = Stem(i)
  BY DEF Key, Stem

\* What the files of a row are called.
LEMMA RowNames ==
  \A kind : /\ Name(kind)[1] = kind /\ Name(kind)[2] = Key(prob)
            /\ Text(kind).key = Key(prob) /\ Text(kind).kind = kind /\ Text(kind).ver = ver
  BY KeyIsStem DEF Name, Text

LEMMA SourceKinds ==
  ASSUME Lane \in LaneNames
  PROVE  /\ KindOf(Source(Lane)) = Source(Lane)
         /\ Lane \notin {"mlir_gpu", "torch"} => KindOf(Program(Lane)) = Source(Lane)
         /\ Lane = "mlir_gpu" => Source(Lane) = "mlir"
         /\ Lane = "torch" => Source(Lane) = "torch_py"
  BY DEF LaneNames, Source, Program, KindOf

LEMMA NamesStep ==
  ASSUME SweepInv, SweepNext
  PROVE  NamesTell(dir)'
<1>0. Placed /\ NamesTell(dir) /\ (Running /\ stage # "start" => Passed)
  BY DEF SweepInv, RowInv
<1>1. CASE Emit
  <2>1. Lane \in LaneNames
    BY <1>0, <1>1, LaneType DEF Emit
  <2>2. dir' = Put(Name(Source(Lane)), Text(Source(Lane)))
    BY <1>1 DEF Emit
  <2> QED BY <1>0, <2>1, <2>2, RowNames, SourceKinds, PutTells
<1>2. CASE Build
  <2>1. Lane \in LaneNames /\ Lane \notin {"mlir_gpu", "torch"}
    BY <1>0, <1>2, LaneType DEF Build, Passed
  <2>2. /\ Name(Source(Lane)) \in DOMAIN dir
        /\ dir' = Put(Name(Program(Lane)), dir[Name(Source(Lane))])
    BY <1>2 DEF Build, Has
  <2>3. /\ dir[Name(Source(Lane))].key = Key(prob)
        /\ dir[Name(Source(Lane))].kind = Source(Lane)
    BY <1>0, <2>1, <2>2, RowNames, SourceKinds DEF NamesTell
  <2> QED BY <1>0, <2>1, <2>2, <2>3, RowNames, SourceKinds, PutTells
<1>3. CASE Lower
  <2>1. Name("mlir") \in DOMAIN dir /\ dir' = Put(Name(Lowered(dir[Name("mlir")])), dir[Name("mlir")])
    BY <1>3 DEF Lower, Has
  <2>2. Lowered(dir[Name("mlir")]) \in {"cubin", "ptx"}
    BY DEF Lowered
  <2>3. dir[Name("mlir")].key = Key(prob) /\ dir[Name("mlir")].kind = "mlir"
    BY <1>0, <2>1, RowNames DEF NamesTell, KindOf
  <2> QED BY <1>0, <2>1, <2>2, <2>3, RowNames, PutTells DEF KindOf
<1>4. CASE TimeEmit
  <2>1. dir' = Put(Again, [key |-> Again[2], kind |-> Again[1], ver |-> ver])
    BY <1>4 DEF TimeEmit
  <2>2. Again[1] \in {"mlir", "k_cu"}
    BY RowNames DEF Again
  <2>3. KindOf(Again[1]) = Again[1]
    BY <2>2 DEF KindOf
  <2> QED BY <1>0, <2>1, <2>3, PutTells
<1>5. CASE TimeBuild
  <2>1. dir' = Put(Cubin, dir[Again])
    BY <1>5 DEF TimeBuild
  <2>2. Again \in DOMAIN dir /\ Again = <<"k_cu", <<Problem.fact>>>>
    BY <1>0, <1>5 DEF TimeBuild, Passed, Has, Again
  <2>3. dir[Again].key = <<Problem.fact>> /\ dir[Again].kind = "k_cu"
    BY <1>0, <2>2 DEF NamesTell, KindOf
  <2> QED BY <1>0, <2>1, <2>3, PutTells DEF Cubin, KindOf
<1>6. CASE dir' = dir
  BY <1>0, <1>6 DEF NamesTell
<1>7. CASE CompileStatic /\ dir' # dir
  <2>1. dir' = Put(StaticCubin, [key |-> StaticKey, kind |-> "static_cu", ver |-> static])
    BY <1>7 DEF CompileStatic
  <2> QED BY <1>0, <2>1, PutTells DEF StaticCubin, KindOf
<1> QED BY <1>1, <1>2, <1>3, <1>4, <1>5, <1>6, <1>7 DEF SweepNext, Start, EmitFails, BuildFails,
     LowerFails, RunAndJudge, RunFails, NoStatic, TimeStatic, TimeEmitFails, TimeFails, Time, Done,
     SweepAgain

LEMMA StaticStep ==
  ASSUME SweepInv, SweepNext
  PROVE  StaticKept'
<1>0. Placed /\ StaticKept /\ ver \in Nat /\ (Running /\ stage # "start" => Passed)
  BY DEF SweepInv, RowInv, Placed
<1>1. CASE dir' = dir /\ static' = static /\ ver' = ver
  BY <1>0, <1>1 DEF StaticKept, Has
<1>2. ASSUME NEW name, NEW t, name # StaticCubin, dir' = Put(name, t), static' = static, ver' = ver
      PROVE  StaticKept'
  <2>1. (Has(StaticCubin)' <=> Has(StaticCubin)) /\ (Has(StaticCubin) => dir'[StaticCubin] = dir[StaticCubin])
    BY <1>2, PutIs DEF Has
  <2> QED BY <1>0, <1>2, <2>1 DEF StaticKept
<1>3. CASE CompileStatic /\ dir' # dir
  <2> DEFINE t == [key |-> StaticKey, kind |-> "static_cu", ver |-> static]
  <2>1. dir' = Put(StaticCubin, t) /\ static' = static /\ ver' = ver
    BY <1>3 DEF CompileStatic
  <2>2. dir'[StaticCubin].ver = static
    BY <2>1, PutIs
  <2> QED BY <1>0, <2>1, <2>2 DEF StaticKept
<1>4. CASE SweepAgain
  <2>1. dir' = dir /\ ver' = ver + 1 /\ static' \in {static, ver'}
    BY <1>4 DEF SweepAgain
  <2> QED BY <1>0, <2>1 DEF StaticKept, Has
<1>5. \A kind : kind # "static_cubin" => Name(kind) # StaticCubin
  BY RowNames DEF StaticCubin
<1>6. CASE Emit
  <2>1. Lane \in LaneNames
    BY <1>0, <1>6, LaneType DEF Emit
  <2>2. Source(Lane) # "static_cubin"
    BY <2>1 DEF Source, LaneNames
  <2> QED BY <1>2, <1>5, <1>6, <2>2 DEF Emit
<1>7. CASE Build
  <2>1. Lane \in LaneNames /\ Lane \notin {"mlir_gpu", "torch"}
    BY <1>0, <1>7, LaneType DEF Build, Passed
  <2>2. Program(Lane) # "static_cubin"
    BY <2>1 DEF Program, LaneNames
  <2> QED BY <1>2, <1>5, <1>7, <2>2 DEF Build
<1>8. CASE Lower
  <2>1. Lowered(dir[Name("mlir")]) # "static_cubin"
    BY DEF Lowered
  <2> QED BY <1>2, <1>5, <1>8, <2>1 DEF Lower
<1>9. CASE TimeEmit
  <2>1. Again # StaticCubin
    BY <1>5 DEF Again, StaticCubin
  <2> QED BY <1>2, <1>9, <2>1 DEF TimeEmit
<1>10. CASE TimeBuild
  <2>1. Cubin # StaticCubin
    BY DEF Cubin, StaticCubin
  <2> QED BY <1>2, <1>10, <2>1 DEF TimeBuild
<1> QED BY <1>1, <1>3, <1>4, <1>6, <1>7, <1>8, <1>9, <1>10 DEF SweepNext, Start, EmitFails,
     BuildFails, LowerFails, RunAndJudge, RunFails, CompileStatic, NoStatic, TimeStatic,
     TimeEmitFails, TimeFails, Time, Done

-----------------------------------------------------------------------------
(* A step within a row.                                                    *)

LEMMA RowFields ==
  ASSUME RowTyped
  PROVE  /\ Dirty => /\ row'.got = row.got /\ row'.timed = row.timed
                     /\ row'.clean = FALSE /\ RowTyped'
         /\ \A g : row' = [row EXCEPT !.got = g] =>
              row'.got = g /\ row'.timed = row.timed /\ row'.clean = row.clean /\ RowTyped'
         /\ \A t : row' = [row EXCEPT !.timed = t] =>
              row'.got = row.got /\ row'.timed = t /\ row'.clean = row.clean /\ RowTyped'
         /\ row' = NoRow => row'.timed = << >> /\ RowTyped'
         /\ row' = row => RowTyped'
<1> DEFINE r == [got |-> row.got, timed |-> row.timed, clean |-> row.clean]
<1>1. row = r /\ row.clean \in BOOLEAN
  BY DEF RowTyped
<1>2. ASSUME Dirty
      PROVE  /\ row'.got = row.got /\ row'.timed = row.timed
             /\ row'.clean = FALSE /\ RowTyped'
  <2>1. row' = [r EXCEPT !.clean = FALSE]
    BY <1>1, <1>2 DEF Dirty
  <2>2. row' = [got |-> row.got, timed |-> row.timed, clean |-> FALSE]
    BY <2>1
  <2> QED BY <2>2 DEF RowTyped
<1>3. ASSUME NEW g, row' = [row EXCEPT !.got = g]
      PROVE  row'.got = g /\ row'.timed = row.timed /\ row'.clean = row.clean /\ RowTyped'
  <2>1. row' = [r EXCEPT !.got = g]
    BY <1>1, <1>3
  <2>2. row' = [got |-> g, timed |-> row.timed, clean |-> row.clean]
    BY <2>1
  <2> QED BY <1>1, <2>2 DEF RowTyped
<1>4. ASSUME NEW t, row' = [row EXCEPT !.timed = t]
      PROVE  row'.got = row.got /\ row'.timed = t /\ row'.clean = row.clean /\ RowTyped'
  <2>1. row' = [r EXCEPT !.timed = t]
    BY <1>1, <1>4
  <2>2. row' = [got |-> row.got, timed |-> t, clean |-> row.clean]
    BY <2>1
  <2> QED BY <1>1, <2>2 DEF RowTyped
<1>5. row' = NoRow => row'.timed = << >> /\ RowTyped'
  BY DEF NoRow, RowTyped
<1>6. row' = row => RowTyped'
  BY DEF RowTyped
<1> QED BY <1>2, <1>3, <1>4, <1>5, <1>6

LEMMA RowTypedStep ==
  ASSUME RowTyped, SweepNext
  PROVE  RowTyped'
<1>1. CASE row' = row
  BY <1>1, RowFields
<1>2. CASE row' = NoRow
  BY <1>2, RowFields
<1>3. CASE Dirty
  BY <1>3, RowFields
<1>4. CASE RunAndJudge
  <2>1. PICK g : row' = [row EXCEPT !.got = g]
    BY <1>4 DEF RunAndJudge
  <2> QED BY <2>1, RowFields
<1>5. CASE Time
  <2>1. PICK t : row' = [row EXCEPT !.timed = t]
    BY <1>5 DEF Time
  <2> QED BY <2>1, RowFields
<1>6. CASE TimeStatic
  <2>1. PICK t : row' = [row EXCEPT !.timed = t]
    BY <1>6 DEF TimeStatic
  <2> QED BY <2>1, RowFields
<1> QED BY <1>1, <1>2, <1>3, <1>4, <1>5, <1>6 DEF SweepNext, Start, Emit, EmitFails, Build, BuildFails,
     Lower, LowerFails, RunFails, CompileStatic, NoStatic, TimeEmit, TimeEmitFails, TimeBuild, TimeFails, Done, SweepAgain

\* What a row is called by stays, as long as the sweep is at it.
SameNames ==
  /\ Lane' = Lane /\ Problem' = Problem /\ Key(prob)' = Key(prob)
  /\ prob' = prob /\ ver' = ver /\ (Running' <=> Running)
  /\ Again' = Again /\ Cubin' = Cubin
  /\ static' = static /\ (IsConv2d' <=> IsConv2d) /\ (PrefersStatic' <=> PrefersStatic)
  /\ \A kind : Name(kind)' = Name(kind) /\ Text(kind)' = Text(kind)

LEMMA RowStays ==
  ASSUME UNCHANGED <<plan, ver, static, prob, back>>
  PROVE  SameNames
<1>1. Problem' = Problem /\ Lane' = Lane
  BY DEF Problem, Lane, Lanes
<1>2. Key(prob)' = Key(prob) /\ Stem(prob)' = Stem(prob)
  BY DEF Key, Stem
<1>3. \A kind : Name(kind)' = Name(kind) /\ Text(kind)' = Text(kind)
  BY <1>2 DEF Name, Text
<1>4. Again' = Again /\ Cubin' = Cubin /\ (Running' <=> Running)
  BY <1>1, <1>3 DEF Again, Cubin, Running
<1> QED BY <1>1, <1>2, <1>3, <1>4 DEF SameNames, IsConv2d, PrefersStatic

\* And so does what its files say, if none is written.
SameFiles ==
  /\ Runnable' = Runnable /\ (LeftBehind' <=> LeftBehind)
  /\ \A n : (Has(n)' <=> Has(n)) /\ (Current(n)' <=> Current(n))

LEMMA FilesStay ==
  ASSUME SameNames, dir' = dir
  PROVE  SameFiles
<1>1. \A n : (Has(n)' <=> Has(n)) /\ (Current(n)' <=> Current(n))
  BY DEF Has, Current, SameNames
<1>2. Module' = Module
  BY <1>1 DEF Module, SameNames
<1>3. Runnable' = Runnable
  BY <1>2 DEF Runnable, Program, SameNames
<1>4. NeedsLibdevice(Text("mlir"))' <=> NeedsLibdevice(Text("mlir"))
  BY DEF NeedsLibdevice, SameNames
<1>5. LeftBehind' <=> LeftBehind
  BY <1>1, <1>4 DEF LeftBehind, SameNames
<1> QED BY <1>1, <1>3, <1>5 DEF SameFiles

\* A file that is written stays; the module is another one only if it is
\* written itself.
LEMMA FilesGrow ==
  ASSUME SameNames, NEW name, NEW t, dir' = Put(name, t)
  PROVE  /\ Has(name)' /\ (t.ver = ver => Current(name)')
         /\ \A n : Has(n) => Has(n)'
         /\ \A n : n # name => (Has(n)' <=> Has(n)) /\ (Current(n)' <=> Current(n))
         /\ LeftBehind => LeftBehind'
         /\ name \notin {Name("cubin"), Name("ptx")} => Module' = Module
<1>1. /\ Has(name)' /\ (t.ver = ver => Current(name)')
      /\ \A n : Has(n) => Has(n)'
      /\ \A n : n # name => (Has(n)' <=> Has(n)) /\ (Current(n)' <=> Current(n))
  BY PutIs DEF Has, Current, SameNames
<1>2. NeedsLibdevice(Text("mlir"))' <=> NeedsLibdevice(Text("mlir"))
  BY DEF NeedsLibdevice, SameNames
<1>3. LeftBehind => LeftBehind'
  BY <1>1, <1>2 DEF LeftBehind, SameNames
<1>4. name \notin {Name("cubin"), Name("ptx")} => Module' = Module
  BY <1>1 DEF Module, SameNames
<1> QED BY <1>1, <1>3, <1>4

\* A verdict stays true of its row.
LEMMA VerdictStays ==
  ASSUME Got, SameNames, row'.got = row.got, row'.clean => row.clean,
         LeftBehind => LeftBehind'
  PROVE  Got'
<1>1. Source(Lane)' = Source(Lane)
  BY DEF Source, SameNames
<1> QED BY <1>1 DEF Got, SameNames

LEMMA NotTimed ==
  ASSUME row'.timed = << >>
  PROVE  Timed'
  BY DEF Timed

-----------------------------------------------------------------------------
(* What each step does to its row.                                         *)

InRow == SweepInv /\ Running /\ stage # "start" /\ RowInv /\ SameNames /\ Lane \in LaneNames

LEMMA RowHolds ==
  ASSUME SweepInv, Running, stage # "start", UNCHANGED <<plan, ver, static, prob, back>>
  PROVE  InRow
  BY RowStays, LaneType DEF InRow, SweepInv

LEMMA RunnableStays ==
  ASSUME SameNames, Lane = "mlir_gpu" => Module' = Module
  PROVE  Runnable' = Runnable
<1>1. Lane' = Lane /\ \A kind : Name(kind)' = Name(kind)
  BY DEF SameNames
<1>2. CASE Lane = "mlir_gpu"
  BY <1>1, <1>2 DEF Runnable
<1>3. CASE Lane # "mlir_gpu"
  <2>1. Program(Lane)' = Program(Lane)
    BY <1>1 DEF Program
  <2>2. Name(Program(Lane))' = Name(Program(Lane))
    BY <1>1, <2>1 DEF Name
  <2> QED BY <1>1, <1>3, <2>2 DEF Runnable
<1> QED BY <1>2, <1>3

LEMMA NamesDiffer ==
  \A j, k : j # k => Name(j) # Name(k)
  BY RowNames

LEMMA StartStep ==
  ASSUME SweepInv, Start
  PROVE  RowInv'
<1>1. SameNames
  BY RowStays DEF Start
<1>2. row'.timed = << >>
  BY RowFields DEF SweepInv, Start
<1>3. stage' = "emit" /\ (Lane # "torch" => inb' = prob)
  BY DEF Start
<1>4. Passed'
  BY <1>1, <1>3 DEF Passed, SameNames, Judged
<1>5. Newest' /\ ~Judged'
  BY <1>3 DEF Newest, Judged
<1> QED BY <1>2, <1>4, <1>5 DEF RowInv

LEMMA EmitStep ==
  ASSUME SweepInv, Emit
  PROVE  RowInv'
<1>1. InRow /\ ~Judged'
  BY RowHolds DEF Emit, Emitted, Judged
<1>2. row' = row /\ inb' = inb /\ stage = "emit" /\ stage' = Emitted
  BY DEF Emit
<1>3. row'.timed = << >>
  BY <1>1, <1>2 DEF InRow, RowInv
<1>4. Current(Name(Source(Lane)))'
  <2>1. Text(Source(Lane)).ver = ver
    BY RowNames
  <2>2. dir' = Put(Name(Source(Lane)), Text(Source(Lane)))
    BY DEF Emit
  <2> DEFINE n == Name(Source(Lane))
  <2>3. n' = n
    BY <1>1 DEF InRow, SameNames, Source
  <2>4. dir' = Put(n, Text(Source(Lane))) /\ SameNames
    BY <1>1, <2>2 DEF InRow
  <2> HIDE DEF n
  <2>5. n \in DOMAIN dir' /\ dir'[n].ver = ver /\ ver' = ver
    BY <2>1, <2>4, PutIs DEF SameNames
  <2>6. Current(n)'
    BY <2>3, <2>5 DEF Current, Has
  <2> QED BY <2>6 DEF n
<1>5. Passed'
  BY <1>1, <1>2 DEF InRow, RowInv, Passed, Emitted, SameNames, Judged
<1>6. Newest'
  <2>1. Lane' = Lane /\ stage' \in {"build", "run"}
    BY <1>1, <1>2 DEF InRow, SameNames, Emitted
  <2>2. Lane' = "mlir_gpu" => Current(Name("mlir"))'
    BY <1>4 DEF Source
  <2>3. stage' = "run" => Lane' = "torch"
    BY <1>2, <2>1 DEF Emitted
  <2>4. Lane' = "torch" => Current(Runnable)'
    BY <1>4 DEF Runnable, Source
  <2>5. Lane' = "torch" => Lane' # "mlir_gpu"
    OBVIOUS
  <2> QED BY <1>1, <1>4, <2>1, <2>2, <2>3, <2>4 DEF Newest
<1> QED BY <1>1, <1>3, <1>5, <1>6 DEF RowInv

LEMMA EmitFailsStep ==
  ASSUME SweepInv, EmitFails, stage' # "start"
  PROVE  RowInv'
<1>1. stage' = Emitted /\ Dirty /\ UNCHANGED <<prob, back>> /\ inb' = inb /\ stage = "emit"
  BY DEF EmitFails, NextRow
<1>2. InRow /\ ~Judged'
  BY <1>1, RowHolds DEF EmitFails, Emitted, Judged
<1>3. row'.timed = << >> /\ row'.clean = FALSE
  BY <1>1, <1>2, RowFields DEF InRow, RowInv, SweepInv
<1>4. Passed'
  BY <1>1, <1>2 DEF InRow, RowInv, Passed, Emitted, SameNames, Judged
<1> QED BY <1>2, <1>3, <1>4 DEF RowInv

LEMMA BuildStep ==
  ASSUME SweepInv, Build
  PROVE  RowInv'
<1>1. InRow /\ ~Judged'
  BY RowHolds DEF Build, Judged
<1>2. /\ row' = row /\ inb' = inb /\ stage = "build" /\ stage' = "run"
      /\ Lane # "mlir_gpu" /\ Lane # "torch" /\ Lane' = Lane
  BY <1>1 DEF Build, InRow, RowInv, Passed, SameNames
<1>3. row'.timed = << >>
  BY <1>1, <1>2 DEF InRow, RowInv
<1>4. Passed'
  BY <1>1, <1>2 DEF InRow, RowInv, Passed, SameNames, Judged
<1>5. ASSUME row'.clean PROVE Current(Runnable)'
  <2> DEFINE n == Name(Program(Lane))
             t == dir[Name(Source(Lane))]
  <2>1. Runnable' = n
    BY <1>1, <1>2 DEF InRow, SameNames, Runnable, Program
  <2>2. t.ver = ver
    BY <1>1, <1>2, <1>5 DEF InRow, RowInv, Newest, Current
  <2>3. dir' = Put(n, t) /\ ver' = ver
    BY DEF Build
  <2> HIDE DEF n, t
  <2>4. n \in DOMAIN dir' /\ dir'[n].ver = ver'
    BY <2>2, <2>3, PutIs
  <2> QED BY <2>1, <2>4 DEF Current, Has
<1>6. row'.clean => Newest'
  BY <1>2, <1>5, <1>1 DEF Newest
<1> QED BY <1>1, <1>3, <1>4, <1>6 DEF RowInv

LEMMA LowerStep ==
  ASSUME SweepInv, Lower
  PROVE  RowInv'
<1> DEFINE t == dir[Name("mlir")]
           n == Name(Lowered(t))
<1>1. InRow
  BY RowHolds DEF Lower, Lowering
<1>2. /\ row' = row /\ inb' = inb /\ Lane = "mlir_gpu" /\ Lane' = Lane /\ dir' = Put(n, t)
      /\ \/ stage = "build" /\ stage' = "run"
         \/ stage = "time_build" /\ stage' = "time"
      /\ Name("mlir") \in DOMAIN dir /\ Lowered(t) \in {"cubin", "ptx"}
  BY <1>1 DEF Lower, Lowering, Lowered, InRow, SameNames, Has
<1>3. Runnable' = Module' /\ Name("cubin")' = Name("cubin") /\ Name("ptx")' = Name("ptx")
  BY <1>1, <1>2 DEF Runnable, InRow, SameNames
<1>4. SameNames /\ n \in {Name("cubin"), Name("ptx")} /\ n # Name("mlir")
  BY <1>1, <1>2, NamesDiffer DEF InRow
<1> HIDE DEF t, n
<1>5. /\ n \in DOMAIN dir' /\ dir'[n] = t /\ (LeftBehind => LeftBehind')
      /\ Name("mlir") \in DOMAIN dir' /\ dir'[Name("mlir")] = dir[Name("mlir")]
  BY <1>2, <1>4, PutIs, FilesGrow
<1>6. Has(Runnable)'
  <2>1. Name("cubin") \in DOMAIN dir' \/ Name("ptx") \in DOMAIN dir'
    BY <1>4, <1>5
  <2>2. Has(Module)'
    BY <2>1, <1>3 DEF Module, Has
  <2> QED BY <1>3, <2>2 DEF Has
<1>7. row'.timed = << >>
  BY <1>1, <1>2 DEF InRow, RowInv
<1>8. Passed'
  BY <1>1, <1>2, <1>6 DEF InRow, RowInv, Passed, SameNames
<1>9. ASSUME row'.clean PROVE Current(Name("mlir"))' /\ (LeftBehind' \/ Current(Runnable)')
  <2>1. Current(Name("mlir"))
    BY <1>1, <1>2, <1>9 DEF InRow, RowInv, Newest, Source
  <2>2. t.ver = ver /\ t.key = Key(prob)
    BY <1>1, <1>2, <2>1, RowNames DEF Current, InRow, SweepInv, NamesTell, t
  <2>3. NeedsLibdevice(t) <=> NeedsLibdevice(Text("mlir"))
    BY <2>2, RowNames DEF NeedsLibdevice
  <2>4. NeedsLibdevice(Text("mlir"))' <=> NeedsLibdevice(Text("mlir"))
    BY <1>4 DEF NeedsLibdevice, SameNames
  <2>5. Current(Name("mlir"))'
    BY <1>4, <1>5, <2>1 DEF SameNames, Current, Has
  <2>6. CASE NeedsLibdevice(t)
    <3>1. n = Name("cubin")
      BY <2>6 DEF Lowered, n
    <3>2. Runnable' = n
      BY <3>1, <1>3, <1>5 DEF Module, Has
    <3> QED BY <3>2, <1>4, <1>5, <2>2, <2>5 DEF Current, Has, SameNames
  <2>7. CASE ~NeedsLibdevice(t) /\ Has(Name("cubin"))'
    BY <2>3, <2>4, <2>5, <2>7, <1>2 DEF LeftBehind
  <2>8. CASE ~NeedsLibdevice(t) /\ ~Has(Name("cubin"))'
    <3>1. n = Name("ptx")
      BY <2>8 DEF Lowered, n
    <3>2. Runnable' = n
      BY <3>1, <2>8, <1>3 DEF Module
    <3> QED BY <3>2, <1>4, <1>5, <2>2, <2>5 DEF Current, Has, SameNames
  <2> QED BY <2>6, <2>7, <2>8
<1>10. row'.clean => Newest'
  <2>1. ~PrefersStatic'
    BY <1>1, <1>2, LaneType DEF InRow, SweepInv, SameNames, PrefersStatic
  <2> QED BY <1>2, <1>9, <2>1 DEF Newest
<1>11. ASSUME Judged' PROVE Got' /\ Timed'
  <2>1. Judged
    BY <1>11, <1>1, <1>2 DEF Judged, InRow, SameNames
  <2>2. Got
    BY <2>1, <1>1 DEF InRow, RowInv
  <2>3. row'.got = row.got /\ (row'.clean => row.clean)
    BY <1>2
  <2> QED BY <2>2, <2>3, <1>4, <1>5, <1>7, VerdictStays, NotTimed
<1> QED BY <1>7, <1>8, <1>10, <1>11 DEF RowInv

LEMMA LowerFailsStep ==
  ASSUME SweepInv, LowerFails
  PROVE  RowInv'
<1>1. InRow
  BY RowHolds DEF LowerFails, Lowering
<1>2. /\ Dirty /\ inb' = inb /\ dir' = dir /\ Lane = "mlir_gpu"
      /\ \/ stage = "build" /\ stage' = "run"
         \/ stage = "time_build" /\ stage' = "time"
  BY DEF LowerFails, Lowering
<1>3. SameNames /\ SameFiles
  BY <1>1, <1>2, FilesStay DEF InRow
<1>4. row'.got = row.got /\ row'.timed = << >> /\ row'.clean = FALSE
  BY <1>1, <1>2, RowFields DEF InRow, RowInv, SweepInv
<1>5. Judged' => Judged
  BY <1>2, <1>3 DEF Judged, SameNames
<1>6. Judged' => Has(Runnable)'
  BY <1>1, <1>3, <1>5 DEF InRow, RowInv, Passed, SameFiles, Has
<1>7. Passed'
  BY <1>1, <1>2, <1>3, <1>6 DEF InRow, RowInv, Passed, SameNames
<1>8. Judged' => Got' /\ Timed'
  BY <1>1, <1>3, <1>4, <1>5, VerdictStays, NotTimed DEF InRow, RowInv, SameFiles
<1> QED BY <1>4, <1>7, <1>8 DEF RowInv

LEMMA RunStep ==
  ASSUME SweepInv, RunAndJudge
  PROVE  RowInv'
<1> DEFINE made == [text |-> dir[Runnable], inputs |-> IF Lane = "torch" THEN prob ELSE inb]
<1>1. InRow
  BY RowHolds DEF RunAndJudge
<1>2. /\ row' = [row EXCEPT !.got = <<made>>] /\ inb' = inb /\ dir' = dir
      /\ stage = "run" /\ Has(Runnable)
      /\ \/ stage' = "done"
         \/ stage' = "static" /\ IsConv2d
         \/ stage' = "time_emit" /\ ~IsConv2d
  BY DEF RunAndJudge
<1>3. SameNames /\ SameFiles
  BY <1>1, <1>2, FilesStay DEF InRow
<1>4. row'.got = <<made>> /\ row'.timed = << >> /\ row'.clean = row.clean
  BY <1>1, <1>2, RowFields DEF InRow, RowInv, SweepInv
<1>5. Has(Runnable)'
  BY <1>2, <1>3 DEF SameFiles, Has
<1>6. Passed'
  BY <1>1, <1>2, <1>3, <1>5 DEF InRow, RowInv, Passed, SameNames
<1>7. row'.clean => (LeftBehind \/ Current(Runnable))
  BY <1>1, <1>2, <1>4 DEF InRow, RowInv, Newest
<1>8. row'.clean /\ Lane = "mlir_gpu" => Current(Name("mlir"))
  BY <1>1, <1>2, <1>4 DEF InRow, RowInv, Newest
<1>9. row'.clean => Newest'
  <2>1. /\ Lane' = Lane /\ (LeftBehind' <=> LeftBehind)
        /\ (Current(Runnable)' <=> Current(Runnable))
        /\ (Current(Name("mlir"))' <=> Current(Name("mlir")))
    <3>1. Runnable' = Runnable /\ Name("mlir")' = Name("mlir") /\ dir' = dir /\ ver' = ver
      BY <1>2, <1>3 DEF SameNames, SameFiles
    <3> QED BY <3>1, <1>3 DEF SameFiles, SameNames, Current, Has
  <2>2. stage' = "time_emit" => ~PrefersStatic'
    BY <1>2, <1>3 DEF SameNames, PrefersStatic
  <2> QED BY <1>2, <1>7, <1>8, <2>1, <2>2 DEF Newest
<1>10. Got'
  <2>1. dir[Runnable].key = Key(prob) /\ dir[Runnable].kind = Source(Lane)
    <3>1. NamesTell(dir) /\ Runnable \in DOMAIN dir /\ Lane \in LaneNames
      BY <1>1, <1>2 DEF InRow, SweepInv, Has
    <3>2. \E kind : Runnable = Name(kind) /\ KindOf(kind) = Source(Lane)
      <4>1. CASE Lane = "mlir_gpu"
        BY <4>1 DEF Runnable, Module, KindOf, Source
      <4>2. CASE Lane = "torch"
        BY <4>2 DEF Runnable, KindOf, Source
      <4>3. CASE Lane \notin {"mlir_gpu", "torch"}
        <5>1. Runnable = Name(Program(Lane))
          BY <4>3 DEF Runnable
        <5>2. KindOf(Program(Lane)) = Source(Lane)
          BY <3>1, <4>3, SourceKinds
        <5> QED BY <5>1, <5>2
      <4> QED BY <4>1, <4>2, <4>3
    <3> QED BY <3>1, <3>2, RowNames DEF NamesTell
  <2>2. made.inputs = prob
    BY <1>1, <1>2 DEF InRow, RowInv, Passed
  <2>3. row'.got[1] = made /\ made.text = dir[Runnable]
    BY <1>4
  <2>4. (row'.clean /\ ~LeftBehind) => dir[Runnable].ver = ver
    BY <1>7 DEF Current
  <2>5. /\ Key(prob)' = Key(prob) /\ prob' = prob /\ ver' = ver /\ Source(Lane)' = Source(Lane)
        /\ (LeftBehind' <=> LeftBehind)
    BY <1>3 DEF SameNames, SameFiles, Source
  <2> HIDE DEF made
  <2> QED BY <2>1, <2>2, <2>3, <2>4, <2>5 DEF Got
<1>11. Timed'
  BY <1>4, NotTimed
<1> QED BY <1>4, <1>6, <1>9, <1>10, <1>11 DEF RowInv

\* Timing an agreed kernel: the row's verdict and the file it ran stay.
LEMMA TimingStays ==
  ASSUME SweepInv, Running,
         stage \in {"static", "time_static", "time_emit", "time_build", "time"},
         UNCHANGED <<plan, ver, static, prob, back, inb>>,
         row'.got = row.got, row'.clean => row.clean,
         Runnable' = Runnable, LeftBehind => LeftBehind', \A n : Has(n) => Has(n)'
  PROVE  /\ InRow /\ Judged /\ Has(Runnable)' /\ Got'
         /\ row.timed = << >>
         /\ Lane # "torch" => inb' = prob'
         /\ row.clean /\ Lane = "mlir_gpu" =>
              Current(Name("mlir")) /\ (LeftBehind \/ Current(Runnable))
         /\ row.clean /\ stage \in {"time_emit", "time_build", "time"} => ~PrefersStatic
         /\ stage \in {"static", "time_static"} => IsConv2d /\ Lane = "torch"
<1>1. InRow /\ Judged
  BY RowHolds DEF Judged
<1>2. Got /\ Passed /\ row.timed = << >> /\ (row.clean => Newest)
  BY <1>1 DEF InRow, RowInv
<1>3. Has(Runnable)'
  BY <1>1, <1>2 DEF Passed, Has
<1>4. Got'
  BY <1>1, <1>2, VerdictStays DEF InRow
<1>5. stage \in {"static", "time_static"} => IsConv2d /\ Lane = "torch"
  BY <1>2, LaneType DEF Passed, SweepInv
<1> QED BY <1>1, <1>2, <1>3, <1>4, <1>5 DEF Passed, Newest

LEMMA CompileStaticStep ==
  ASSUME SweepInv, CompileStatic
  PROVE  RowInv'
<1> DEFINE t == [key |-> StaticKey, kind |-> "static_cu", ver |-> static]
<1>1. InRow /\ SameNames
  BY RowHolds DEF CompileStatic, InRow
<1>2. /\ row' = row /\ Running /\ stage = "static" /\ stage' = "time_static" /\ static # NoFile
      /\ UNCHANGED <<plan, ver, static, prob, back, inb>>
      /\ dir' = (IF Fresh THEN dir ELSE Put(StaticCubin, t))
  BY DEF CompileStatic
<1>3. /\ \A n : Has(n) => Has(n)'
      /\ LeftBehind => LeftBehind'
      /\ Lane # "mlir_gpu"
  <2>1. Lane # "mlir_gpu"
    BY <1>1, <1>2, LaneType DEF InRow, RowInv, Passed, SweepInv
  <2>2. CASE dir' = dir
    BY <1>1, <2>1, <2>2, FilesStay DEF SameFiles
  <2>3. CASE dir' = Put(StaticCubin, t)
    BY <1>1, <2>1, <2>3, FilesGrow
  <2> QED BY <1>2, <2>1, <2>2, <2>3
<1>4. Runnable' = Runnable
  BY <1>1, <1>3, RunnableStays
<1>5. /\ Has(Runnable)' /\ Got' /\ row.timed = << >> /\ IsConv2d
      /\ Lane # "torch" => inb' = prob'
  BY <1>2, <1>3, <1>4, TimingStays
<1>6. Has(StaticCubin)' /\ (dir[StaticCubin].ver = static)'
  <2>1. CASE Fresh
    <3>1. dir' = dir /\ Has(StaticCubin) /\ dir[StaticCubin].ver >= static
      BY <1>2, <2>1 DEF Fresh
    <3>2. dir[StaticCubin].ver \in Int /\ dir[StaticCubin].ver <= static /\ static \in Int
      BY <1>2, <3>1 DEF SweepInv, StaticKept
    <3>3. dir[StaticCubin].ver = static
      BY <3>1, <3>2
    <3> QED BY <1>2, <3>1, <3>3 DEF Has
  <2>2. CASE ~Fresh
    <3>1. dir' = Put(StaticCubin, t) /\ t.ver = static
      BY <1>2, <2>2
    <3> HIDE DEF t
    <3> QED BY <1>2, <3>1, PutIs DEF Has
  <2> QED BY <2>1, <2>2
<1>7. Passed'
  BY <1>1, <1>2, <1>3, <1>5, <1>6 DEF Passed, SameNames, PrefersStatic
<1>8. row'.clean => Newest'
  BY <1>1, <1>2, <1>3 DEF Newest, SameNames
<1>9. Timed'
  BY <1>2, <1>5, NotTimed
<1> QED BY <1>2, <1>5, <1>7, <1>8, <1>9 DEF RowInv

LEMMA NoStaticStep ==
  ASSUME SweepInv, NoStatic
  PROVE  RowInv'
<1>1. /\ Running /\ stage = "static" /\ stage' = "time_emit" /\ dir' = dir
      /\ UNCHANGED <<plan, ver, static, prob, back, inb>>
      /\ (static = NoFile /\ row' = row) \/ Dirty
  BY DEF NoStatic
<1>2. SameNames /\ SameFiles
  BY <1>1, RowStays, FilesStay
<1>3. /\ row'.got = row.got /\ row'.timed = row.timed
      /\ row'.clean => row.clean /\ static = NoFile
  BY <1>1, RowFields DEF SweepInv
<1>4. /\ Has(Runnable)' /\ Got' /\ row.timed = << >> /\ Lane = "torch"
      /\ Lane # "torch" => inb' = prob'
  BY <1>1, <1>2, <1>3, TimingStays DEF SameFiles
<1>5. Passed'
  BY <1>1, <1>2, <1>4 DEF Passed, SameNames
<1>6. row'.clean => Newest'
  BY <1>1, <1>2, <1>3, <1>4 DEF Newest, SameNames, PrefersStatic
<1>7. Timed'
  BY <1>3, <1>4, NotTimed
<1> QED BY <1>3, <1>4, <1>5, <1>6, <1>7 DEF RowInv

LEMMA TimeStaticStep ==
  ASSUME SweepInv, TimeStatic
  PROVE  RowInv'
<1> DEFINE t == dir[StaticCubin]
<1>1. /\ Running /\ stage = "time_static" /\ row' = [row EXCEPT !.timed = <<t>>] /\ dir' = dir
      /\ UNCHANGED <<plan, ver, static, prob, back, inb>> /\ stage' = "done"
  BY DEF TimeStatic
<1>2. SameNames /\ SameFiles
  BY <1>1, RowStays, FilesStay
<1>3. row'.got = row.got /\ row'.timed = <<t>> /\ row'.clean = row.clean
  BY <1>1, RowFields DEF SweepInv
<1>4. /\ Has(Runnable)' /\ Got' /\ InRow /\ Lane = "torch"
      /\ Lane # "torch" => inb' = prob'
  BY <1>1, <1>2, <1>3, TimingStays DEF SameFiles
<1>5. Passed'
  BY <1>1, <1>2, <1>4 DEF Passed, SameNames
<1>6. row'.clean => Newest'
  BY <1>1, <1>2, <1>4 DEF Newest, SameNames
<1>7. PrefersStatic /\ Has(StaticCubin) /\ t.ver = static
  BY <1>1, <1>4 DEF InRow, RowInv, Passed
<1>8. t.key = StaticKey /\ t.kind = "static_cu"
  BY <1>7 DEF SweepInv, NamesTell, Has, StaticCubin, KindOf
<1>9. Timed'
  <2>1. row'.timed = <<t>> /\ (PrefersStatic' <=> PrefersStatic) /\ static' = static
    BY <1>2, <1>3 DEF SameNames
  <2> HIDE DEF t
  <2> QED BY <1>7, <1>8, <2>1 DEF Timed
<1> QED BY <1>1, <1>4, <1>5, <1>6, <1>9 DEF RowInv

LEMMA TimeEmitStep ==
  ASSUME SweepInv, TimeEmit
  PROVE  RowInv'
<1> DEFINE t == [key |-> Again[2], kind |-> Again[1], ver |-> ver]
<1>1. InRow /\ SameNames
  BY RowHolds DEF TimeEmit, InRow
<1>2. /\ dir' = Put(Again, t) /\ row' = row /\ Running /\ stage = "time_emit"
      /\ stage' = "time_build" /\ UNCHANGED <<plan, ver, static, prob, back, inb>>
  BY DEF TimeEmit
<1>3. t.ver = ver
  OBVIOUS
<1> HIDE DEF t
<1>4. /\ Again \in DOMAIN dir' /\ dir'[Again].ver = ver
      /\ \A n : Has(n) => Has(n)'
      /\ LeftBehind => LeftBehind'
      /\ \A n : n # Again => (Current(n)' <=> Current(n))
      /\ Again \notin {Name("cubin"), Name("ptx")} => Module' = Module
  BY <1>1, <1>2, <1>3, PutIs, FilesGrow
<1>5. Again \notin {Name("cubin"), Name("ptx")} /\ (Lane = "mlir_gpu" => Again = Name("mlir"))
  BY RowNames DEF Again
<1>6. Runnable' = Runnable
  BY <1>1, <1>4, <1>5, RunnableStays
<1>7. /\ Has(Runnable)' /\ Got' /\ row.timed = << >>
      /\ Lane # "torch" => inb' = prob'
      /\ row.clean /\ Lane = "mlir_gpu" => LeftBehind \/ Current(Runnable)
      /\ row.clean => ~PrefersStatic
  BY <1>2, <1>4, <1>6, TimingStays
<1>8. Current(Again)' /\ Has(Again)'
  BY <1>1, <1>4 DEF Current, Has, SameNames
<1>9. Passed'
  BY <1>1, <1>2, <1>7, <1>8 DEF Passed, SameNames
<1>10. row'.clean => Newest'
  <2>1. Lane = "mlir_gpu" => Current(Name("mlir"))'
    BY <1>1, <1>5, <1>8 DEF SameNames, Current, Has
  <2>2. Lane = "mlir_gpu" => Runnable \in {Name("cubin"), Name("ptx")}
    BY DEF Runnable, Module
  <2>3. Lane = "mlir_gpu" => (Current(Runnable)' <=> Current(Runnable))
    <3>1. Lane = "mlir_gpu" => Runnable # Again
      BY <1>5, <2>2
    <3>2. ASSUME NEW n, n = Runnable, n # Again PROVE Current(Runnable)' <=> Current(Runnable)
      <4>1. Current(n)' <=> Current(n)
        BY <1>4, <3>2
      <4>2. n = Runnable'
        BY <1>6, <3>2
      <4> QED BY <4>1, <4>2, <3>2, <1>6 DEF Current, Has
    <3> QED BY <3>1, <3>2
  <2> QED BY <1>1, <1>2, <1>4, <1>7, <1>8, <2>1, <2>3 DEF Newest, SameNames
<1>11. row' = row /\ Timed'
  BY <1>2, <1>7, NotTimed
<1> QED BY <1>2, <1>7, <1>9, <1>10, <1>11 DEF RowInv

LEMMA TimeEmitFailsStep ==
  ASSUME SweepInv, TimeEmitFails, stage' # "start"
  PROVE  RowInv'
<1>1. /\ Running /\ stage = "time_emit" /\ Dirty /\ dir' = dir
      /\ UNCHANGED <<plan, ver, static, prob, back, inb>>
      /\ \/ stage' = "time_build" /\ (Lane = "mlir_gpu" \/ Has(Again))
         \/ stage' = "done"
  BY DEF TimeEmitFails, Untimed, NextRow
<1>2. SameNames /\ SameFiles
  BY <1>1, RowStays, FilesStay
<1>3. row'.got = row.got /\ row'.timed = row.timed /\ row'.clean = FALSE
  BY <1>1, RowFields DEF SweepInv
<1>4. /\ Has(Runnable)' /\ Got' /\ row.timed = << >>
      /\ Lane # "torch" => inb' = prob'
  BY <1>1, <1>2, <1>3, TimingStays DEF SameFiles
<1>5. Passed'
  BY <1>1, <1>2, <1>4 DEF Passed, SameNames, Has
<1>6. Timed'
  BY <1>3, <1>4, NotTimed
<1> QED BY <1>3, <1>4, <1>5, <1>6 DEF RowInv

LEMMA TimeBuildStep ==
  ASSUME SweepInv, TimeBuild
  PROVE  RowInv'
<1> DEFINE t == dir[Again]
<1>1. InRow /\ SameNames /\ Lane # "mlir_gpu"
  BY RowHolds DEF TimeBuild, InRow
<1>2. /\ dir' = Put(Cubin, t) /\ row' = row /\ Running /\ stage = "time_build"
      /\ stage' = "time" /\ UNCHANGED <<plan, ver, static, prob, back, inb>>
  BY DEF TimeBuild
<1>3. row.clean => t.ver = ver
  BY <1>1, <1>2 DEF InRow, RowInv, Newest, Current
<1> HIDE DEF t
<1>4. /\ Cubin \in DOMAIN dir' /\ dir'[Cubin] = t
      /\ \A n : Has(n) => Has(n)'
      /\ LeftBehind => LeftBehind'
  BY <1>1, <1>2, PutIs, FilesGrow
<1>5. Runnable' = Runnable
  BY <1>1, RunnableStays
<1>6. /\ Has(Runnable)' /\ Got' /\ row.timed = << >> /\ (Lane # "torch" => inb' = prob')
      /\ row.clean => ~PrefersStatic
  BY <1>2, <1>4, <1>5, TimingStays
<1>7. Has(Cubin)' /\ (row.clean => Current(Cubin)')
  BY <1>1, <1>3, <1>4 DEF Current, Has, SameNames
<1>8. Passed'
  BY <1>1, <1>2, <1>6, <1>7 DEF Passed, SameNames
<1>9. row'.clean => Newest'
  BY <1>1, <1>2, <1>6, <1>7 DEF Newest, SameNames
<1>10. Timed'
  BY <1>2, <1>6, NotTimed
<1> QED BY <1>2, <1>6, <1>8, <1>9, <1>10 DEF RowInv

LEMMA TimeFailsStep ==
  ASSUME SweepInv, TimeFails, stage' # "start"
  PROVE  RowInv'
<1>1. /\ Running /\ stage \in {"static", "time_static", "time_build", "time"} /\ row' = row /\ dir' = dir
      /\ UNCHANGED <<plan, ver, static, prob, back, inb>> /\ stage' = "done"
  BY DEF TimeFails, Untimed, NextRow
<1>2. SameNames /\ SameFiles
  BY <1>1, RowStays, FilesStay
<1>3. /\ Has(Runnable)' /\ Got' /\ row.timed = << >>
      /\ Lane # "torch" => inb' = prob'
      /\ row.clean /\ Lane = "mlir_gpu" =>
           Current(Name("mlir")) /\ (LeftBehind \/ Current(Runnable))
  BY <1>1, <1>2, TimingStays DEF SameFiles
<1>4. Passed'
  BY <1>1, <1>2, <1>3 DEF Passed, SameNames
<1>5. row'.clean => Newest'
  <2>1. row'.clean /\ Lane' = "mlir_gpu" => Current(Name("mlir"))' /\ (LeftBehind \/ Current(Runnable))'
    BY <1>1, <1>2, <1>3 DEF SameNames, SameFiles, Current, Has
  <2> QED BY <1>1, <2>1 DEF Newest
<1>6. Timed'
  BY <1>1, <1>3, NotTimed
<1> QED BY <1>1, <1>3, <1>4, <1>5, <1>6 DEF RowInv

LEMMA TimeStep ==
  ASSUME SweepInv, Time
  PROVE  RowInv'
<1> DEFINE n == IF Lane = "mlir_gpu" THEN Module ELSE Cubin
<1>1. /\ Running /\ stage = "time" /\ row' = [row EXCEPT !.timed = <<dir[n]>>] /\ dir' = dir
      /\ UNCHANGED <<plan, ver, static, prob, back, inb>> /\ stage' = "done"
  BY DEF Time
<1>2. SameNames /\ SameFiles
  BY <1>1, RowStays, FilesStay
<1>3. row'.got = row.got /\ row'.timed = <<dir[n]>> /\ row'.clean = row.clean
  BY <1>1, RowFields DEF SweepInv
<1>4. /\ Has(Runnable)' /\ Got' /\ InRow /\ Judged
      /\ Lane # "torch" => inb' = prob'
      /\ row.clean /\ Lane = "mlir_gpu" =>
           Current(Name("mlir")) /\ (LeftBehind \/ Current(Runnable))
      /\ row.clean => ~PrefersStatic
  BY <1>1, <1>2, <1>3, TimingStays DEF SameFiles
<1>5. Passed'
  BY <1>1, <1>2, <1>4 DEF Passed, SameNames
<1>6. row'.clean => Newest'
  <2>1. row'.clean /\ Lane' = "mlir_gpu" => Current(Name("mlir"))' /\ (LeftBehind \/ Current(Runnable))'
    BY <1>1, <1>2, <1>3, <1>4 DEF SameNames, SameFiles, Current, Has
  <2> QED BY <1>1, <2>1 DEF Newest
<1>7. n \in DOMAIN dir /\ n[2] = <<Problem.fact>> /\ n[1] \in {"cubin", "ptx", "k_cubin"}
  <2>1. CASE Lane = "mlir_gpu"
    <3>1. n = Runnable /\ n = Module
      BY <2>1 DEF Runnable
    <3>2. n \in DOMAIN dir
      BY <3>1, <1>1, <1>4 DEF InRow, RowInv, Passed, Has
    <3>3. n[2] = Key(prob)
      BY <3>1, RowNames DEF Module
    <3>5. n[1] \in {"cubin", "ptx"}
      BY <3>1, RowNames DEF Module
    <3>4. Problem.term = "none"
      BY <2>1, <1>1, LaneType DEF SweepInv
    <3> QED BY <3>2, <3>3, <3>4, <3>5 DEF Key, Problem
  <2>2. CASE Lane # "mlir_gpu"
    BY <2>2, <1>1, <1>4 DEF InRow, RowInv, Passed, Has, Cubin
  <2> QED BY <2>1, <2>2
<1>8. row.clean => LeftBehind \/ dir[n].ver = ver
  <2>1. CASE Lane = "mlir_gpu"
    BY <2>1, <1>4 DEF Runnable, Current
  <2>2. CASE Lane # "mlir_gpu"
    BY <2>2, <1>1, <1>4 DEF InRow, RowInv, Newest, Current
  <2> QED BY <2>1, <2>2
<1>9. Timed'
  <2>1. dir[n].key = <<Problem.fact>> /\ dir[n].kind # "static_cu"
    BY <1>7 DEF SweepInv, NamesTell, KindOf
  <2> DEFINE t == dir[n]
  <2>2. row'.timed = <<t>> /\ row'.clean = row.clean /\ Problem' = Problem /\ ver' = ver
      /\ (PrefersStatic' <=> PrefersStatic)
    BY <1>2, <1>3 DEF SameNames
  <2>3. /\ t.key = <<Problem.fact>> /\ t.kind # "static_cu"
        /\ row.clean => (LeftBehind' \/ t.ver = ver) /\ ~PrefersStatic
    BY <1>2, <1>4, <1>8, <2>1 DEF SameFiles
  <2> HIDE DEF t
  <2> QED BY <2>2, <2>3 DEF Timed
<1> QED BY <1>1, <1>4, <1>5, <1>6, <1>9 DEF RowInv

-----------------------------------------------------------------------------
(* The theorem.                                                            *)

LEMMA RowInvStep ==
  ASSUME SweepInv, SweepNext, Running', stage' # "start"
  PROVE  RowInv'
<1>1. stage' = "start" => FALSE
  OBVIOUS
<1>2. ~NextRow
  BY <1>1 DEF NextRow
<1>3. ~BuildFails /\ ~RunFails /\ ~Done /\ ~SweepAgain
  BY <1>1, <1>2 DEF BuildFails, RunFails, Done, SweepAgain
<1> QED BY <1>3, StartStep, EmitStep, EmitFailsStep, BuildStep, LowerStep, LowerFailsStep, RunStep,
           CompileStaticStep, NoStaticStep, TimeStaticStep, TimeEmitStep, TimeEmitFailsStep, TimeBuildStep, TimeFailsStep, TimeStep DEF SweepNext

LEMMA SweepInvInit ==
  ASSUME SweepInit
  PROVE  SweepInv
<1>1. stage = "start" /\ ver \in Nat /\ prob = 1 /\ back = 1 /\ plan \in Plans
  BY DEF SweepInit
<1>2. ASSUME Running PROVE 1 \in 1..Len(Lanes(Problem))
  <2>1. 1 \in 1..Len(plan) /\ Problem = plan[1]
    BY <1>1, <1>2, PlanType DEF Running, Problem
  <2> QED BY <1>1, <2>1, PlanType, LanesType
<1>3. Placed
  BY <1>1, <1>2 DEF Placed, StageNames
<1>4. NamesTell(dir)
  BY DEF SweepInit, NamesTell
<1>5. RowTyped
  BY DEF SweepInit, NoRow, RowTyped
<1>6. StaticKept
  BY DEF SweepInit, StaticKept, Has, NoFile
<1> QED BY <1>1, <1>3, <1>4, <1>5, <1>6 DEF SweepInv

LEMMA SweepInvStep ==
  ASSUME SweepInv, [SweepNext]_sweepVars
  PROVE  SweepInv'
<1>1. CASE SweepNext
  <2>1. Placed' /\ NamesTell(dir)' /\ StaticKept' /\ RowTyped'
    BY <1>1, PlacedStep, NamesStep, StaticStep, RowTypedStep DEF SweepInv
  <2>2. Running' /\ stage' # "start" => RowInv'
    BY <1>1, RowInvStep
  <2> QED BY <2>1, <2>2 DEF SweepInv
<1>2. CASE UNCHANGED sweepVars
  <2>1. UNCHANGED <<plan, ver, static, prob, back>> /\ dir' = dir /\ row' = row /\ stage' = stage /\ inb' = inb
    BY <1>2 DEF sweepVars
  <2>2. SameNames /\ SameFiles
    BY <2>1, RowStays, FilesStay
  <2>3. Placed' /\ NamesTell(dir)' /\ StaticKept' /\ RowTyped'
    BY <2>1, SamePlaced DEF SweepInv, NamesTell, StaticKept, Has, RowTyped, Placed
  <2>4. ASSUME Running', stage' # "start" PROVE RowInv'
    <3>1. RowInv
      BY <2>1, <2>2, <2>4 DEF SweepInv, SameNames
    <3>2. /\ Current(Name("mlir"))' <=> Current(Name("mlir"))
          /\ Current(Name(Source(Lane)))' <=> Current(Name(Source(Lane)))
          /\ Current(Runnable)' <=> Current(Runnable)
          /\ Has(Runnable)' <=> Has(Runnable)
      BY <2>1, <2>2 DEF SameNames, SameFiles, Source, Current, Has
    <3>3. /\ Current(Again)' <=> Current(Again)
          /\ Has(Again)' <=> Has(Again)
          /\ Current(Cubin)' <=> Current(Cubin)
          /\ Has(Cubin)' <=> Has(Cubin)
          /\ Has(StaticCubin)' <=> Has(StaticCubin)
      BY <2>1, <2>2 DEF SameNames, Current, Has
    <3>4. Judged' <=> Judged
      BY <2>1, <2>2 DEF SameNames, Judged
    <3>5. Passed'
      BY <2>1, <2>2, <3>1, <3>2, <3>3, <3>4 DEF RowInv, Passed, SameNames
    <3>6. row.clean => Newest'
      BY <2>1, <2>2, <3>1, <3>2, <3>3, <3>4 DEF RowInv, Newest, SameNames, SameFiles
    <3>7. Judged => Got' /\ Timed'
      BY <2>1, <2>2, <3>1, VerdictStays DEF RowInv, Timed, SameNames, SameFiles
    <3> QED BY <2>1, <3>1, <3>4, <3>5, <3>6, <3>7 DEF RowInv
  <2> QED BY <2>3, <2>4 DEF SweepInv
<1> QED BY <1>1, <1>2

\* A row's verdict is of its own kernel on its own inputs, and its times are of
\* the fact's kernel, both of these facts if no tool failed and no old cubin was
\* left behind; but those of a 2-D convolution are of the static kernel as last
\* edited, unless it is not there or a tool failed (RowIsOwn): the loop of sweep
\* (kernelbench_sweep.py:904) with benchmark_gpu_shape (760).
THEOREM RowsAreOwn == SweepSpec => []RowIsOwn
<1>1. SweepInit => SweepInv
  BY SweepInvInit
<1>2. SweepInv /\ [SweepNext]_sweepVars => SweepInv'
  BY SweepInvStep
<1>3. SweepInv => RowIsOwn
  BY DEF SweepInv, RowInv, RowIsOwn, Judged, Got, Timed
<1> QED BY <1>1, <1>2, <1>3, PTL DEF SweepSpec

-----------------------------------------------------------------------------
(* The table of robust operations, for any measurements and any recipes:   *)
(* a kernel's own tier is among what was reported for it, or still waits   *)
(* to be, and a tile shows the lowest that was.                            *)

TierNames == {"untested", "bronze", "silver", "gold"}
TableFacts == [op : DOMAIN measured \cup Recipes, tier : TierNames]
OwnTier(op) == StanfordTier(measured[op])

\* What the tiles show.
TilesTyped == \A op \in DOMAIN table : table[op].tier \in TierNames /\ table[op].seen \subseteq TierNames
TilesLowest == \A op \in DOMAIN table : \A tier \in table[op].seen : Rank(table[op].tier) <= Rank(tier)

\* A kernel's own tier: reported, or waiting.
Reported(op) == op \in DOMAIN table /\ OwnTier(op) \in table[op].seen
Waiting(op)  == \E i \in 1..Len(facts) : facts[i] = Fact(op, OwnTier(op))
Unread == facts = << >> /\ DOMAIN table = {}
KernelsTold == "stanford" \in wired => Unread \/ \A op \in DOMAIN measured : Reported(op) \/ Waiting(op)

TableInv ==
  /\ measured \in Measurements
  /\ facts \in Seq(TableFacts)
  /\ TilesTyped /\ TilesLowest /\ KernelsTold

\* The tiers are ordered as tier_order lists them.
LEMMA RankIs == /\ Rank("untested") = 1 /\ Rank("bronze") = 2
                /\ Rank("silver") = 3 /\ Rank("gold") = 4
<1>1. DOMAIN TierOrder = 1..4 /\ TierOrder[1] = "untested" /\ TierOrder[2] = "bronze"
      /\ TierOrder[3] = "silver" /\ TierOrder[4] = "gold"
  BY DEF TierOrder
<1>2. ASSUME NEW k \in 1..4
      PROVE  Rank(TierOrder[k]) = k
  <2>1. \A i \in 1..4 : TierOrder[i] = TierOrder[k] <=> i = k
    BY <1>1
  <2> QED BY <2>1, <1>1 DEF Rank
<1> QED BY <1>1, <1>2

\* A kernel has one of the four tiers.
LEMMA StanfordTierType == \A m : StanfordTier(m) \in TierNames
  BY DEF StanfordTier, TierNames

\* A finite set listed as a sequence: each element is in it.
LEMMA SetToSeqIs ==
  ASSUME NEW S, IsFiniteSet(S)
  PROVE  /\ Cardinality(S) \in Nat
         /\ SetToSeq(S) \in [1..Cardinality(S) -> S]
         /\ \A x \in S : \E i \in 1..Cardinality(S) : SetToSeq(S)[i] = x
<1> DEFINE n == Cardinality(S)
           s == SetToSeq(S)
<1>1. n \in Nat /\ ExistsBijection(1..n, S)
  BY FS_CardinalityType
<1>2. \E f \in [1..n -> S] : IsInjective(f)
  BY <1>1 DEF ExistsBijection, Bijection, Injection
<1>3. s \in [1..n -> S] /\ IsInjective(s)
  BY <1>2 DEF SetToSeq
<1>4. s \in Injection(1..n, S)
  BY <1>3 DEF Injection
<1>5. Cardinality(1..n) = n
  BY <1>1, FS_Interval
<1>6. s \in Surjection(1..n, S)
  BY <1>4, <1>5, FS_Injection
<1> QED BY <1>1, <1>3, <1>6 DEF Surjection

\* What the referees report before it is joined.
LEMMA StanfordFactsAre ==
  ASSUME measured \in Measurements
  PROVE  /\ StanfordFacts \in Seq(TableFacts)
         /\ \A op \in DOMAIN measured :
              \E i \in 1..Len(StanfordFacts) : StanfordFacts[i] = Fact(op, OwnTier(op))
<1> DEFINE S == DOMAIN measured
           n == Cardinality(S)
           s == SetToSeq(S)
<1>1. IsFiniteSet(S)
  BY TableAssumption
<1>2. n \in Nat /\ s \in [1..n -> S] /\ \A x \in S : \E i \in 1..n : s[i] = x
  BY <1>1, SetToSeqIs
<1>3. StanfordFacts = [i \in 1..n |-> Fact(s[i], OwnTier(s[i]))]
  BY DEF StanfordFacts, OwnTier
<1> HIDE DEF n, s
<1>4. \A i \in 1..n : Fact(s[i], OwnTier(s[i])) \in TableFacts
  BY <1>2, StanfordTierType DEF Fact, TableFacts, OwnTier
<1>5. StanfordFacts \in Seq(TableFacts) /\ Len(StanfordFacts) = n
  BY <1>2, <1>3, <1>4
<1>6. ASSUME NEW op \in S
      PROVE  \E i \in 1..Len(StanfordFacts) : StanfordFacts[i] = Fact(op, OwnTier(op))
  <2>1. PICK i \in 1..n : s[i] = op
    BY <1>2
  <2> QED BY <2>1, <1>3, <1>5
<1> QED BY <1>5, <1>6

LEMMA HarnessFactsAre == HarnessFacts \in Seq(TableFacts)
<1> DEFINE n == Cardinality(Recipes)
           s == SetToSeq(Recipes)
<1>1. n \in Nat /\ s \in [1..n -> Recipes]
  BY TableAssumption, SetToSeqIs
<1>2. HarnessFacts = [i \in 1..n |-> Fact(s[i], HarnessTier)]
  BY DEF HarnessFacts
<1> HIDE DEF n, s
<1>3. \A i \in 1..n : Fact(s[i], HarnessTier) \in TableFacts
  BY <1>1 DEF Fact, TableFacts, HarnessTier, TierNames
<1> QED BY <1>1, <1>2, <1>3

LEMMA TableInvInit == TableInit => TableInv
  BY DEF TableInit, TableInv, TilesTyped, TilesLowest, KernelsTold, Unread

LEMMA ReadRefereesStep ==
  ASSUME TableInv, ReadReferees
  PROVE  TableInv'
<1> DEFINE judged == IF "stanford" \in wired THEN StanfordFacts ELSE << >>
           told   == IF "harness" \in wired THEN HarnessFacts ELSE << >>
<1>1. measured \in Measurements /\ DOMAIN table = {}
  BY DEF TableInv, ReadReferees
<1>2. facts' = judged \o told /\ measured' = measured /\ wired' = wired /\ table' = table
  BY DEF ReadReferees
<1>3. judged \in Seq(TableFacts) /\ told \in Seq(TableFacts)
  BY <1>1, StanfordFactsAre, HarnessFactsAre
<1>4. facts' \in Seq(TableFacts) /\ TableFacts' = TableFacts
  BY <1>2, <1>3 DEF TableFacts
<1>5. ASSUME "stanford" \in wired, NEW op \in DOMAIN measured
      PROVE  \E i \in 1..Len(facts') : facts'[i] = Fact(op, OwnTier(op))
  <2>1. judged = StanfordFacts
    BY <1>5
  <2>2. PICK i \in 1..Len(judged) : judged[i] = Fact(op, OwnTier(op))
    BY <2>1, <1>1, StanfordFactsAre
  <2> HIDE DEF judged, told
  <2> QED BY <2>2, <1>2, <1>3
<1>6. KernelsTold'
  BY <1>2, <1>5 DEF KernelsTold, Waiting, OwnTier
<1>7. TilesTyped' /\ TilesLowest'
  BY <1>1, <1>2 DEF TilesTyped, TilesLowest
<1> QED BY <1>1, <1>2, <1>4, <1>6, <1>7 DEF TableInv

\* Joining a fact: its own tile.
LEMMA MergedTile ==
  ASSUME TableInv, MergeFact
  PROVE  /\ Head(facts) \in TableFacts
         /\ DOMAIN table' = DOMAIN table \cup {Head(facts).op}
         /\ \A op \in DOMAIN table : op # Head(facts).op => table'[op] = table[op]
         /\ LET f == Head(facts)
                new == table'[f.op]
            IN \/ /\ f.op \notin DOMAIN table
                  /\ new.tier = f.tier /\ new.seen = {f.tier}
               \/ /\ f.op \in DOMAIN table
                  /\ new.tier = IF Rank(f.tier) < Rank(table[f.op].tier) THEN f.tier ELSE table[f.op].tier
                  /\ new.seen = table[f.op].seen \cup {f.tier}
<1>1. facts \in Seq(TableFacts) /\ facts # << >>
  BY DEF TableInv, MergeFact
<1>2. Head(facts) \in TableFacts
  BY <1>1
<1> QED BY <1>2 DEF MergeFact

LEMMA MergeFactStep ==
  ASSUME TableInv, MergeFact
  PROVE  TableInv'
<1> DEFINE f == Head(facts)
<1>1. facts \in Seq(TableFacts) /\ facts # << >> /\ facts' = Tail(facts)
      /\ measured' = measured /\ wired' = wired
  BY DEF TableInv, MergeFact
<1>2. f \in TableFacts /\ f.tier \in TierNames
  BY MergedTile DEF TableFacts
<1>3. facts' \in Seq(TableFacts) /\ TableFacts' = TableFacts
  BY <1>1 DEF TableFacts
<1>4. \A tier \in TierNames : Rank(tier) \in Nat
  BY RankIs DEF TierNames
<1>5. TilesTyped'
  BY <1>2, MergedTile DEF TableInv, TilesTyped
<1>6. ASSUME NEW op \in DOMAIN table', NEW tier \in table'[op].seen
      PROVE  Rank(table'[op].tier) <= Rank(tier)
  <2>1. CASE op # f.op
    BY <2>1, <1>6, MergedTile DEF TableInv, TilesLowest
  <2>2. CASE op = f.op /\ op \notin DOMAIN table
    BY <2>2, <1>2, <1>4, <1>6, MergedTile
  <2>3. CASE op = f.op /\ op \in DOMAIN table
    <3>1. /\ table[op].tier \in TierNames /\ table[op].seen \subseteq TierNames
          /\ \A t \in table[op].seen : Rank(table[op].tier) <= Rank(t)
      BY <2>3 DEF TableInv, TilesTyped, TilesLowest
    <3>2. /\ table'[op].tier = IF Rank(f.tier) < Rank(table[op].tier) THEN f.tier ELSE table[op].tier
          /\ tier \in table[op].seen \cup {f.tier}
      BY <2>3, <1>6, MergedTile
    <3>3. tier \in TierNames /\ table'[op].tier \in TierNames
      BY <3>1, <3>2, <1>2
    <3> QED BY <3>1, <3>2, <3>3, <1>2, <1>4
  <2> QED BY <2>1, <2>2, <2>3
<1>7. ASSUME NEW op, Reported(op)
      PROVE  Reported(op)'
  BY <1>1, <1>7, MergedTile DEF Reported, OwnTier
<1>8. ASSUME NEW op, Waiting(op)
      PROVE  (Reported(op) \/ Waiting(op))'
  <2>1. PICK i \in 1..Len(facts) : facts[i] = Fact(op, OwnTier(op))
    BY <1>8 DEF Waiting
  <2>2. CASE i = 1
    <3>1. f.op = op /\ f.tier = OwnTier(op)
      BY <2>1, <2>2, <1>1 DEF Fact
    <3>2. op \in DOMAIN table' /\ OwnTier(op) \in table'[op].seen
      BY <3>1, MergedTile
    <3> QED BY <3>2, <1>1 DEF Reported, OwnTier
  <2>3. CASE i # 1
    <3>1. i - 1 \in 1..Len(facts') /\ facts'[i - 1] = Fact(op, OwnTier(op))
      BY <2>1, <2>3, <1>1
    <3> QED BY <3>1, <1>1 DEF Waiting, OwnTier
  <2> QED BY <2>2, <2>3
<1>9. KernelsTold'
  BY <1>1, <1>7, <1>8 DEF TableInv, KernelsTold, Unread
<1> QED BY <1>1, <1>3, <1>5, <1>6, <1>9 DEF TableInv, TilesLowest

LEMMA TableInvStep == TableInv /\ [TableNext]_tableVars => TableInv'
<1> SUFFICES ASSUME TableInv, [TableNext]_tableVars
             PROVE  TableInv'
  OBVIOUS
<1>1. CASE ReadReferees
  BY <1>1, ReadRefereesStep
<1>2. CASE MergeFact
  BY <1>2, MergeFactStep
<1>3. CASE UNCHANGED tableVars
  <2>1. measured' = measured /\ wired' = wired /\ facts' = facts /\ table' = table
    BY <1>3 DEF tableVars
  <2> QED BY <2>1 DEF TableInv, TableFacts, TilesTyped, TilesLowest, KernelsTold,
             Unread, Reported, Waiting, OwnTier
<1> QED BY <1>1, <1>2, <1>3 DEF TableNext

\* What a kernel of a high tier has shown.
LEMMA TierEarned ==
  ASSUME NEW m, m.edges \in Nat
  PROVE  /\ StanfordTier(m) \in {"gold", "silver"} => m.problem /\ m.kernel /\ ToSet(m.ulps) = {0}
         /\ StanfordTier(m) = "gold" => m.kind = "unary" /\ m.edges = 0
<1>1. StanfordTier(m) \in {"gold", "silver"} => Status(m) \in {"BIT_IDENTICAL", "ROBUST_GAP"}
  <2> DEFINE status == Status(m)
  <2>1. StanfordTier(m) =
          CASE status = "BIT_IDENTICAL"   -> IF m.kind = "unary" THEN "gold" ELSE "silver"
            [] status = "ROBUST_GAP"      -> "silver"
            [] status = "SHAPE_DIVERGENT" -> "bronze"
            [] status = "DIVERGENT"       -> IF Max(ToSet(m.ulps)) <= 4 THEN "bronze" ELSE "untested"
            [] OTHER                      -> "untested"
    BY DEF StanfordTier
  <2> HIDE DEF status
  <2>2. StanfordTier(m) \in {"gold", "silver"} => status \in {"BIT_IDENTICAL", "ROBUST_GAP"}
    BY <2>1
  <2> QED BY <2>2 DEF status
<1>2. StanfordTier(m) = "gold" => Status(m) = "BIT_IDENTICAL" /\ m.kind = "unary"
  BY <1>1 DEF StanfordTier
<1>3. Status(m) \in {"BIT_IDENTICAL", "ROBUST_GAP"} => m.problem /\ m.kernel /\ ToSet(m.ulps) = {0}
  BY DEF Status, Identical
<1>4. Status(m) = "BIT_IDENTICAL" /\ m.kind = "unary" => ~(m.edges > 0)
  BY DEF Status, Identical
<1> QED BY <1>1, <1>2, <1>3, <1>4

\* A gold or silver tile is of a kernel without a differing bit, a gold one of a
\* unary kernel that is so at the edge cases too, and no tile hides a lower tier
\* (GoldIsMeasured): merge_facts (wire_referees_to_dashboard.py) takes the lower of
\* what the kernels' judge and the harness report.
THEOREM GoldTilesAreMeasured == TableSpec => []GoldIsMeasured
<1>1. TableInit => TableInv
  BY TableInvInit
<1>2. TableInv /\ [TableNext]_tableVars => TableInv'
  BY TableInvStep
<1>3. TableInv => GoldIsMeasured
  <2> SUFFICES ASSUME TableInv, "stanford" \in wired, facts = << >>,
                      NEW op \in DOMAIN table \cap DOMAIN measured
               PROVE  LET m == measured[op]
                      IN /\ table[op].tier \in {"gold", "silver"} =>
                              m.problem /\ m.kernel /\ ToSet(m.ulps) = {0}
                         /\ table[op].tier = "gold" => m.kind = "unary" /\ m.edges = 0
                         /\ \A tier \in table[op].seen : Rank(table[op].tier) <= Rank(tier)
    BY DEF GoldIsMeasured
  <2>1. Reported(op)
    BY DEF TableInv, KernelsTold, Unread, Waiting
  <2>2. Rank(table[op].tier) <= Rank(OwnTier(op))
    BY <2>1 DEF TableInv, TilesLowest, Reported
  <2>3. table[op].tier \in TierNames /\ OwnTier(op) \in TierNames
    BY StanfordTierType DEF TableInv, TilesTyped, OwnTier
  <2>4. /\ table[op].tier \in {"gold", "silver"} => OwnTier(op) \in {"gold", "silver"}
        /\ table[op].tier = "gold" => OwnTier(op) = "gold"
    BY <2>2, <2>3, RankIs DEF TierNames
  <2>5. measured[op].edges \in Nat
    BY TableAssumption DEF TableInv
  <2>6. \A tier \in table[op].seen : Rank(table[op].tier) <= Rank(tier)
    BY DEF TableInv, TilesLowest
  <2> DEFINE m == measured[op]
  <2>7. /\ OwnTier(op) \in {"gold", "silver"} => m.problem /\ m.kernel /\ ToSet(m.ulps) = {0}
        /\ OwnTier(op) = "gold" => m.kind = "unary" /\ m.edges = 0
    <3>1. m.edges \in Nat
      BY <2>5
    <3> HIDE DEF m
    <3>2. /\ StanfordTier(m) \in {"gold", "silver"} => m.problem /\ m.kernel /\ ToSet(m.ulps) = {0}
          /\ StanfordTier(m) = "gold" => m.kind = "unary" /\ m.edges = 0
      BY <3>1, TierEarned
    <3> QED BY <3>2 DEF OwnTier, m
  <2> QED BY <2>4, <2>6, <2>7
<1> QED BY <1>1, <1>2, <1>3, PTL DEF TableSpec

\* Induction over the numbers.
LEMMA AllNumbers ==
  ASSUME NEW T \in SUBSET Nat, 0 \in T, \A n \in T : n + 1 \in T
  PROVE  \A n \in Nat : n \in T
<1> DEFINE R == OpToRel(<, Nat)
           U == Nat \ T
<1>1. \A k, n \in Nat : <<k, n>> \in R <=> k < n
  BY DEF OpToRel
<1>2. IsWellFoundedOn(R, Nat)
  BY NatLessThanWellFounded
<1> SUFFICES ASSUME U # {} PROVE FALSE
  OBVIOUS
<1>3. U \subseteq Nat
  OBVIOUS
<1> HIDE DEF R, U
<1>4. PICK m \in U : \A k \in U : ~ (<<k, m>> \in R)
  BY <1>2, <1>3, WFMin
<1>5. m \in Nat /\ m # 0
  BY <1>3 DEF U
<1>6. m - 1 \in Nat /\ m - 1 < m
  BY <1>5
<1>7. m - 1 \notin U
  BY <1>1, <1>4, <1>5, <1>6
<1>8. (m - 1) + 1 \in T
  BY <1>6, <1>7 DEF U
<1>9. m \in T
  BY <1>5, <1>8
<1> QED BY <1>9 DEF U

-----------------------------------------------------------------------------
(* The referees, for a model of any depth and trials of any length: first  *)
(* what a forward does to the caches, layer by layer.                      *)

Harm == Good..Nan
Typed(cache) == cache \in [Layers -> Seq(Harm)]
AllGood(rows) == \A p \in 1..Len(rows) : rows[p] = Good

\* The largest of some harms, and of two numbers.
LEMMA MaxIs ==
  ASSUME NEW S \in SUBSET Harm, S # {}
  PROVE  Max(S) \in S /\ \A x \in S : x <= Max(S)
<1>1. \E x \in S : \A y \in S : x >= y
  <2>1. Harm = {0, 1, 2, 3}
    BY DEF Harm, Good, Nan
  <2>2. CASE 3 \in S
    BY <2>1, <2>2
  <2>3. CASE 3 \notin S /\ 2 \in S
    BY <2>1, <2>3
  <2>4. CASE 3 \notin S /\ 2 \notin S /\ 1 \in S
    BY <2>1, <2>4
  <2>5. CASE 3 \notin S /\ 2 \notin S /\ 1 \notin S
    <3>1. \A y \in S : y = 0
      BY <2>1, <2>5
    <3>2. PICK z \in S : TRUE
      OBVIOUS
    <3> QED BY <3>1, <3>2
  <2> QED BY <2>2, <2>3, <2>4, <2>5
<1>2. \A x, y \in Harm : x >= y <=> y <= x
  BY DEF Harm, Good, Nan
<1> QED BY <1>1, <1>2 DEF Max

LEMMA MaxPair ==
  ASSUME NEW a \in Int, NEW b \in Int
  PROVE  Max({a, b}) = IF a < b THEN b ELSE a
<1> DEFINE m == IF a < b THEN b ELSE a
<1>1. m \in {a, b} /\ \A y \in {a, b} : m >= y
  OBVIOUS
<1>2. \A x \in {a, b} : (\A y \in {a, b} : x >= y) => x = m
  OBVIOUS
<1> HIDE DEF m
<1>3. Max({a, b}) = m
  BY <1>1, <1>2 DEF Max
<1> QED BY <1>3 DEF m

LEMMA MinPair ==
  ASSUME NEW a \in Int, NEW b \in Int
  PROVE  Min({a, b}) = IF a < b THEN a ELSE b
<1> DEFINE m == IF a < b THEN a ELSE b
<1>1. m \in {a, b} /\ \A y \in {a, b} : m <= y
  OBVIOUS
<1>2. \A x \in {a, b} : (\A y \in {a, b} : x <= y) => x = m
  OBVIOUS
<1> HIDE DEF m
<1>3. Min({a, b}) = m
  BY <1>1, <1>2 DEF Min
<1> QED BY <1>3 DEF m

\* What a trial is.
TrialOK ==
  /\ trial.steps \in Nat /\ trial.prompt \in Nat \ {0}
  /\ trial.at \in Nat /\ trial.layer \in Layers
  /\ trial.resident \in BOOLEAN /\ trial.exact \in BOOLEAN
LEMMA TrialIs == trial \in Trials => TrialOK
  BY TrialAssumption DEF TrialOK, Layers

\* A forward of at least one token.
CallOK(call) == call.n \in Nat \ {0} /\ call.own \in BOOLEAN /\ call.live \in BOOLEAN
LEMMA CallIs == \A n \in Nat \ {0}, own \in BOOLEAN, live \in BOOLEAN :
                  /\ CallOK(Call(n, own, live))
                  /\ Call(n, own, live).n = n /\ Call(n, own, live).own = own
                  /\ Call(n, own, live).live = live
  BY DEF CallOK, Call

\* The harm done in one layer: of one kind only.
LEMMA RowHarmIs ==
  ASSUME NEW call, NEW l
  PROVE  RowHarm(call, l) =
           IF Strikes(call, l, "nan") \/ Strikes(call, l, "batchnan") THEN Nan
           ELSE IF Strikes(call, l, "store") \/ Strikes(call, l, "batch") THEN Bad ELSE Good
<1> DEFINE b == Taint(call, l, {"store", "batch"}, Bad)
           n == Taint(call, l, {"nan", "batchnan"}, Nan)
<1>1. b = IF Strikes(call, l, "store") \/ Strikes(call, l, "batch") THEN Bad ELSE Good
  BY DEF Taint
<1>2. n = IF Strikes(call, l, "nan") \/ Strikes(call, l, "batchnan") THEN Nan ELSE Good
  BY DEF Taint
<1>3. RowHarm(call, l) = Max({b, n})
  BY DEF RowHarm
<1> HIDE DEF b, n
<1>4. b \in Int /\ n \in Int
  BY <1>1, <1>2 DEF Bad, Nan, Good
<1>5. Max({b, n}) = IF b < n THEN n ELSE b
  BY <1>4, MaxPair
<1> QED BY <1>1, <1>2, <1>3, <1>5 DEF Bad, Nan, Good

LEMMA OutHarmIs ==
  ASSUME NEW call, NEW l
  PROVE  OutHarm(call, l) = IF Strikes(call, l, "read") THEN Bad
                            ELSE IF Strikes(call, l, "math") THEN Math ELSE Good
<1> DEFINE b == Taint(call, l, {"read"}, Bad)
           n == Taint(call, l, {"math"}, Math)
<1>1. b = IF Strikes(call, l, "read") THEN Bad ELSE Good
  BY DEF Taint
<1>2. n = IF Strikes(call, l, "math") THEN Math ELSE Good
  BY DEF Taint
<1>3. OutHarm(call, l) = Max({b, n})
  BY DEF OutHarm
<1> HIDE DEF b, n
<1>4. b \in Int /\ n \in Int
  BY <1>1, <1>2 DEF Bad, Math, Good
<1>5. Max({b, n}) = IF b < n THEN n ELSE b
  BY <1>4, MaxPair
<1> QED BY <1>1, <1>2, <1>3, <1>5 DEF Bad, Math, Good

LEMMA HarmType ==
  ASSUME NEW call, NEW l
  PROVE  RowHarm(call, l) \in Harm /\ OutHarm(call, l) \in Harm
  BY RowHarmIs, OutHarmIs DEF Harm, Good, Bad, Math, Nan

\* New rows follow the old ones; a row is what its token is, or the harm done to it.
Appended(old, new, h, call, l) ==
  /\ old \in Seq(Harm) /\ new \in Seq(Harm)
  /\ Len(new) = Len(old) + call.n - (IF Strikes(call, l, "lost") THEN 1 ELSE 0)
  /\ \A p \in 1..Len(new) :
       \/ p <= Len(old) /\ new[p] = old[p]
       \/ /\ p > Len(old) /\ p - Len(old) \in 1..call.n
          /\ new[p] = IF h[p - Len(old)] < RowHarm(call, l) THEN RowHarm(call, l) ELSE h[p - Len(old)]

\* A token becomes the worst of itself, the harm done, and the rows it sees.
BecameAt(old, new, h, out, call, l, i) ==
  /\ out[i] \in Harm
  /\ h[i] <= out[i] /\ OutHarm(call, l) <= out[i]
  /\ \A j \in 1..Len(new) : j <= Len(old) + i => new[j] <= out[i]
  /\ \/ out[i] = h[i] \/ out[i] = OutHarm(call, l)
     \/ \E j \in 1..Len(new) : out[i] = new[j]
Became(old, new, h, out, call, l) ==
  \A i \in 1..call.n : BecameAt(old, new, h, out, call, l, i)

\* The rows of a layer after it has appended.
LEMMA AppendIs ==
  ASSUME NEW call, CallOK(call), NEW l, NEW rows \in Seq(Harm), NEW h \in [1..call.n -> Harm],
         NEW after, after = AppendRows(rows, h, call, l)
  PROVE  Appended(rows, after, h, call, l)
<1> DEFINE n == call.n
           r == RowHarm(call, l)
           new == [i \in 1..n |-> Max({h[i], r})]
           all == rows \o new
<1>1. n \in Nat \ {0}
  BY DEF CallOK
<1>2. after = IF Strikes(call, l, "lost") THEN Front(all) ELSE all
  BY DEF AppendRows
<1>3. \A i \in 1..n : Max({h[i], r}) = (IF h[i] < r THEN r ELSE h[i]) /\ Max({h[i], r}) \in Harm
  <2> SUFFICES ASSUME NEW i \in 1..n
               PROVE  Max({h[i], r}) = (IF h[i] < r THEN r ELSE h[i]) /\ Max({h[i], r}) \in Harm
    OBVIOUS
  <2>1. h[i] \in Harm /\ r \in Harm
    BY HarmType
  <2>2. h[i] \in Int /\ r \in Int
    BY <2>1 DEF Harm, Good, Nan
  <2> HIDE DEF r
  <2> QED BY <2>1, <2>2, MaxPair
<1> HIDE DEF r
<1>4. new \in Seq(Harm) /\ Len(new) = n /\ \A i \in 1..n : new[i] = IF h[i] < r THEN r ELSE h[i]
  <2>1. \A i \in 1..n : new[i] = Max({h[i], r})
    OBVIOUS
  <2>2. DOMAIN new = 1..n /\ new = [i \in 1..n |-> new[i]]
    OBVIOUS
  <2> HIDE DEF new
  <2>3. new \in [1..n -> Harm]
    BY <2>1, <2>2, <1>3
  <2>4. new \in Seq(Harm) /\ Len(new) = n
    <3> HIDE DEF n
    <3> QED BY <2>3, <1>1
  <2> QED BY <2>1, <2>4, <1>3
<1> HIDE DEF new
<1>5. /\ all \in Seq(Harm) /\ Len(all) = Len(rows) + n
      /\ \A i \in 1..Len(rows) : all[i] = rows[i]
      /\ \A i \in 1..n : all[Len(rows) + i] = new[i]
  BY <1>1, <1>4
<1> HIDE DEF all
<1>6. /\ after \in Seq(Harm)
      /\ Len(after) = Len(rows) + n - (IF Strikes(call, l, "lost") THEN 1 ELSE 0)
      /\ \A p \in 1..Len(after) : p \in 1..Len(all) /\ after[p] = all[p]
  <2>1. CASE ~Strikes(call, l, "lost")
    <3>1. after = all
      BY <1>2, <2>1
    <3> QED BY <3>1, <1>1, <1>5, <2>1
  <2>2. CASE Strikes(call, l, "lost")
    <3>1. after = SubSeq(all, 1, Len(all) - 1)
      BY <1>2, <2>2 DEF Front
    <3>2. after \in Seq(Harm) /\ Len(after) = Len(all) - 1 /\ \A i \in 1..Len(all) - 1 : after[i] = all[i]
      BY <3>1, <1>1, <1>5
    <3> QED BY <3>2, <1>1, <1>5, <2>2
  <2> QED BY <2>1, <2>2
<1>7. ASSUME NEW p \in 1..Len(after)
      PROVE  \/ p <= Len(rows) /\ after[p] = rows[p]
             \/ /\ p > Len(rows) /\ p - Len(rows) \in 1..n
                /\ after[p] = IF h[p - Len(rows)] < r THEN r ELSE h[p - Len(rows)]
  <2>1. CASE p <= Len(rows)
    <3>1. p \in 1..Len(rows)
      BY <2>1, <1>6
    <3>2. after[p] = all[p] /\ all[p] = rows[p]
      BY <3>1, <1>5, <1>6
    <3> QED BY <2>1, <3>2
  <2>2. CASE p > Len(rows)
    <3> DEFINE i == p - Len(rows)
    <3>1. i \in 1..n /\ Len(rows) + i = p
      BY <2>2, <1>1, <1>5, <1>6
    <3> HIDE DEF i
    <3>2. after[p] = new[i]
      BY <3>1, <1>5, <1>6
    <3>3. after[p] = IF h[i] < r THEN r ELSE h[i]
      BY <3>1, <3>2, <1>4
    <3> QED BY <2>2, <3>1, <3>3 DEF i
  <2> QED BY <2>1, <2>2, <1>1, <1>5, <1>6
<1> QED BY <1>6, <1>7 DEF Appended, r

\* A new token after attention: it takes the worst of what it sees, no more.
LEMMA AttendedIs ==
  ASSUME NEW call, CallOK(call), NEW l, NEW old \in Seq(Harm), NEW new \in Seq(Harm),
         NEW h \in [1..call.n -> Harm], NEW out, out = Attended(new, Len(old), h, call, l),
         NEW i \in 1..call.n
  PROVE  BecameAt(old, new, h, out, call, l, i)
<1> DEFINE o == OutHarm(call, l)
           had == Len(old)
           k == Min({had + i, Len(new)})
           S == {h[i], o} \cup {new[j] : j \in 1..k}
<1>1. out[i] = Max(S)
  BY DEF Attended
<1>2. Len(new) \in Nat /\ i \in Nat /\ had \in Nat
  BY DEF CallOK
<1>3. k = IF had + i < Len(new) THEN had + i ELSE Len(new)
  BY <1>2, MinPair
<1>4. o \in Harm
  BY HarmType
<1> HIDE DEF k, o, had
<1>5. 1..k \subseteq 1..Len(new)
  BY <1>2, <1>3
<1>6. S \subseteq Harm /\ S # {}
  BY <1>4, <1>5
<1>7. Max(S) \in S /\ \A x \in S : x <= Max(S)
  BY <1>6, MaxIs
<1>8. \A j \in 1..Len(new) : j <= had + i => new[j] \in S
  <2> SUFFICES ASSUME NEW j \in 1..Len(new), j <= had + i PROVE j \in 1..k
    OBVIOUS
  <2> QED BY <1>2, <1>3
<1>9. out[i] \in S /\ \A x \in S : x <= out[i]
  BY <1>1, <1>7
<1>10. /\ out[i] \in Harm /\ h[i] <= out[i] /\ o <= out[i]
       /\ \A j \in 1..Len(new) : j <= had + i => new[j] <= out[i]
  BY <1>6, <1>8, <1>9
<1>11. out[i] = h[i] \/ out[i] = o \/ \E j \in 1..Len(new) : out[i] = new[j]
  BY <1>5, <1>9
<1> QED BY <1>10, <1>11 DEF had, o, BecameAt

LEMMA BecameIs ==
  ASSUME NEW call, CallOK(call), NEW l, NEW old \in Seq(Harm), NEW new \in Seq(Harm),
         NEW h \in [1..call.n -> Harm], NEW out, out = Attended(new, Len(old), h, call, l)
  PROVE  out \in [1..call.n -> Harm] /\ Became(old, new, h, out, call, l)
<1>1. \A i \in 1..call.n : BecameAt(old, new, h, out, call, l, i)
  BY AttendedIs
<1>2. \A i \in 1..call.n : out[i] \in Harm
  BY <1>1 DEF BecameAt
<1>3. DOMAIN out = 1..call.n /\ out = [i \in 1..call.n |-> out[i]]
  BY DEF Attended
<1> QED BY <1>1, <1>2, <1>3 DEF Became

\* The new tokens layer by layer: such a function exists, so Harms is one.
IsHarms(h, cache, call) ==
  h = [l \in 0..Depth |->
        IF l = 0 THEN [i \in 1..call.n |-> Good]
        ELSE LET below == h[l - 1]
             IN Attended(AppendRows(cache[l], below, call, l), Len(cache[l]), below, call, l)]

LEMMA HarmsExist ==
  ASSUME NEW cache, NEW call
  PROVE  \E h : IsHarms(h, cache, call)
<1> DEFINE Up(f, l) == Attended(AppendRows(cache[l], f, call, l), Len(cache[l]), f, call, l)
           First == [i \in 1..call.n |-> Good]
           Is(h, n) == h = [l \in 0..n |-> IF l = 0 THEN First ELSE Up(h[l - 1], l)]
           T == {n \in Nat : \E h : Is(h, n)}
<1> SUFFICES \E h : Is(h, Depth)
  BY DEF IsHarms
<1>1. 0 \in T
  <2> DEFINE f == [l \in 0..0 |-> First]
  <2>1. f = [l \in 0..0 |-> IF l = 0 THEN First ELSE Up(f[l - 1], l)]
    <3> HIDE DEF Up, First
    <3> QED OBVIOUS
  <2> QED BY <2>1
<1>2. ASSUME NEW n \in T PROVE n + 1 \in T
  <2>1. n \in Nat
    OBVIOUS
  <2>2. PICK f : Is(f, n)
    OBVIOUS
  <2> DEFINE g == [l \in 0..(n + 1) |-> IF l = n + 1 THEN Up(f[n], l) ELSE f[l]]
  <2> HIDE DEF Up, First
  <2>3. \A l \in 0..n : f[l] = IF l = 0 THEN First ELSE Up(f[l - 1], l)
    BY <2>2
  <2>4. \A l \in 0..n : g[l] = f[l]
    BY <2>1
  <2>5. ASSUME NEW l \in 0..(n + 1) PROVE g[l] = IF l = 0 THEN First ELSE Up(g[l - 1], l)
    <3>1. CASE l = n + 1
      <4>1. g[n] = f[n] /\ l # 0 /\ l - 1 = n
        BY <2>1, <2>4, <3>1
      <4>2. g[l] = Up(f[n], l)
        BY <3>1
      <4> HIDE DEF g
      <4> QED BY <4>1, <4>2
    <3>2. CASE l # n + 1
      <4>1. l \in 0..n /\ (l # 0 => l - 1 \in 0..n)
        BY <2>1, <3>2
      <4> HIDE DEF g
      <4> QED BY <2>3, <2>4, <4>1
    <3> QED BY <3>1, <3>2
  <2>6. g = [l \in 0..(n + 1) |-> IF l = 0 THEN First ELSE Up(g[l - 1], l)]
    <3>1. DOMAIN g = 0..(n + 1) /\ g = [l \in 0..(n + 1) |-> g[l]]
      OBVIOUS
    <3> HIDE DEF g
    <3> QED BY <2>5, <3>1
  <2>7. \E h : Is(h, n + 1)
    <3> HIDE DEF g
    <3> QED BY <2>6
  <2> QED BY <2>1, <2>7
<1> HIDE DEF T
<1>3. Depth \in T
  BY <1>1, <1>2, AllNumbers, TrialAssumption DEF T
<1> QED BY <1>3 DEF T

LEMMA HarmsAre ==
  ASSUME NEW cache, NEW call
  PROVE  /\ Harms(cache, call)[0] = [i \in 1..call.n |-> Good]
         /\ \A l \in 1..Depth :
              LET below == Harms(cache, call)[l - 1]
              IN Harms(cache, call)[l] =
                   Attended(AppendRows(cache[l], below, call, l), Len(cache[l]), below, call, l)
<1> DEFINE h == Harms(cache, call)
<1>1. h = CHOOSE g : IsHarms(g, cache, call)
  BY DEF Harms, IsHarms
<1>2. \E g : IsHarms(g, cache, call)
  BY HarmsExist, Zenon
<1> HIDE DEF h
<1>3. IsHarms(h, cache, call)
  BY <1>1, <1>2
<1>4. Depth \in Nat
  BY TrialAssumption
<1>5. h[0] = [i \in 1..call.n |-> Good]
  BY <1>3, <1>4 DEF IsHarms
<1>6. ASSUME NEW l \in 1..Depth
      PROVE  h[l] = Attended(AppendRows(cache[l], h[l - 1], call, l), Len(cache[l]), h[l - 1], call, l)
  <2>1. l \in 0..Depth /\ l # 0
    BY <1>4
  <2> QED BY <1>3, <2>1 DEF IsHarms
<1> QED BY <1>5, <1>6 DEF h

-----------------------------------------------------------------------------
(* A forward: what a layer appends, and what its tokens become.            *)

After(cache, call) == ForwardPass(cache, call).cache

LEMMA LayerPasses ==
  ASSUME NEW cache, Typed(cache), NEW call, CallOK(call), NEW l \in Layers,
         Harms(cache, call)[l - 1] \in [1..call.n -> Harm]
  PROVE  LET h == Harms(cache, call)
         IN /\ h[l] \in [1..call.n -> Harm]
            /\ Appended(cache[l], After(cache, call)[l], h[l - 1], call, l)
            /\ Became(cache[l], After(cache, call)[l], h[l - 1], h[l], call, l)
<1> DEFINE h == Harms(cache, call)
           new == After(cache, call)[l]
           f == h[l - 1]
<1>0. After(cache, call) = [k \in Layers |-> AppendRows(cache[k], Harms(cache, call)[k - 1], call, k)]
  BY DEF After, ForwardPass
<1>1. new = AppendRows(cache[l], f, call, l)
  BY <1>0
<1>2. h[l] = Attended(AppendRows(cache[l], f, call, l), Len(cache[l]), f, call, l)
  BY HarmsAre DEF Layers
<1>3. cache[l] \in Seq(Harm)
  BY DEF Typed
<1>4. f \in [1..call.n -> Harm]
  OBVIOUS
<1> HIDE DEF f, new, h
<1>5. Appended(cache[l], new, f, call, l)
  BY <1>1, <1>3, <1>4, AppendIs
<1>6. new \in Seq(Harm)
  BY <1>5 DEF Appended
<1>7. h[l] = Attended(new, Len(cache[l]), f, call, l)
  BY <1>1, <1>2
<1>8. h[l] \in [1..call.n -> Harm] /\ Became(cache[l], new, f, h[l], call, l)
  BY <1>3, <1>4, <1>6, <1>7, BecameIs
<1> QED BY <1>5, <1>8 DEF f, new, h

LEMMA PassTyped ==
  ASSUME NEW cache, Typed(cache), NEW call, CallOK(call)
  PROVE  \A l \in 0..Depth : Harms(cache, call)[l] \in [1..call.n -> Harm]
<1> DEFINE h == Harms(cache, call)
           T == {n \in Nat : n <= Depth => h[n] \in [1..call.n -> Harm]}
<1>0. Depth \in Nat
  BY TrialAssumption
<1>1. 0 \in T
  <2>1. h[0] = [i \in 1..call.n |-> Good]
    BY HarmsAre
  <2>2. Good \in Harm
    BY DEF Harm, Good, Nan
  <2> HIDE DEF h
  <2> QED BY <2>1, <2>2
<1>2. ASSUME NEW n \in T PROVE n + 1 \in T
  <2>1. CASE n + 1 <= Depth
    <3>1. n + 1 \in Layers /\ n <= Depth /\ (n + 1) - 1 = n
      BY <2>1, <1>0 DEF Layers
    <3>2. h[n + 1] \in [1..call.n -> Harm]
      BY <3>1, LayerPasses
    <3> QED BY <3>2
  <2> QED BY <2>1
<1> HIDE DEF T
<1>3. \A n \in Nat : n \in T
  BY <1>1, <1>2, AllNumbers DEF T
<1> QED BY <1>0, <1>3 DEF T

\* A pass as a whole.
LEMMA PassIs ==
  ASSUME NEW cache, Typed(cache), NEW call, CallOK(call)
  PROVE  LET h == Harms(cache, call)
         IN /\ h[0] \in [1..call.n -> {Good}]
            /\ Typed(After(cache, call))
            /\ \A l \in Layers :
                 /\ h[l - 1] \in [1..call.n -> Harm] /\ h[l] \in [1..call.n -> Harm]
                 /\ Appended(cache[l], After(cache, call)[l], h[l - 1], call, l)
                 /\ Became(cache[l], After(cache, call)[l], h[l - 1], h[l], call, l)
<1> DEFINE h == Harms(cache, call)
<1>1. h[0] \in [1..call.n -> {Good}]
  <2>1. h[0] = [i \in 1..call.n |-> Good]
    BY HarmsAre
  <2> HIDE DEF h
  <2> QED BY <2>1
<1>2. ASSUME NEW l \in Layers
      PROVE  /\ h[l - 1] \in [1..call.n -> Harm] /\ h[l] \in [1..call.n -> Harm]
             /\ Appended(cache[l], After(cache, call)[l], h[l - 1], call, l)
             /\ Became(cache[l], After(cache, call)[l], h[l - 1], h[l], call, l)
  <2>1. l - 1 \in 0..Depth
    BY TrialAssumption DEF Layers
  <2> QED BY <2>1, PassTyped, LayerPasses
<1>3. \A l \in Layers : After(cache, call)[l] \in Seq(Harm)
  BY <1>2 DEF Appended
<1>4. Typed(After(cache, call))
  BY <1>3 DEF Typed, After, ForwardPass
<1> QED BY <1>1, <1>2, <1>4

\* Rows without a NaN, and what a layer makes of them.
Clear(rows) == \A p \in 1..Len(rows) : rows[p] # Nan
Same(rows, x) == \A p \in 1..Len(rows) : rows[p] = x
Tokens(h, call, x) == \A i \in 1..call.n : h[i] = x
Larger(x, y) == IF x < y THEN y ELSE x

LEMMA LayerClear ==
  ASSUME NEW call, CallOK(call), NEW l, NEW old, NEW new, NEW h \in [1..call.n -> Harm], NEW out,
         Appended(old, new, h, call, l), Became(old, new, h, out, call, l),
         RowHarm(call, l) # Nan, Clear(old), \A i \in 1..call.n : h[i] # Nan
  PROVE  Clear(new) /\ \A i \in 1..call.n : out[i] # Nan
<1>1. \A p \in 1..Len(new) : new[p] # Nan
  <2> SUFFICES ASSUME NEW p \in 1..Len(new) PROVE new[p] # Nan
    OBVIOUS
  <2>1. CASE p <= Len(old) /\ new[p] = old[p]
    <3>1. p \in 1..Len(old)
      BY <2>1 DEF Appended
    <3> QED BY <3>1, <2>1 DEF Clear
  <2>2. CASE p - Len(old) \in 1..call.n /\ (new[p] = RowHarm(call, l) \/ new[p] = h[p - Len(old)])
    BY <2>2
  <2> QED BY <2>1, <2>2 DEF Appended
<1>2. OutHarm(call, l) # Nan
  BY OutHarmIs DEF Nan, Bad, Math, Good
<1>3. \A i \in 1..call.n : out[i] # Nan
  BY <1>1, <1>2 DEF Became, BecameAt
<1> QED BY <1>1, <1>3 DEF Clear

\* A layer whose rows and tokens are all alike, not losing a row.
LEMMA LayerExact ==
  ASSUME NEW call, CallOK(call), NEW l, NEW old, NEW new, NEW h \in [1..call.n -> Harm], NEW out,
         Appended(old, new, h, call, l), Became(old, new, h, out, call, l),
         ~Strikes(call, l, "lost"), NEW x \in Harm, Tokens(h, call, x),
         Same(old, Larger(x, RowHarm(call, l)))
  PROVE  /\ Same(new, Larger(x, RowHarm(call, l)))
         /\ Tokens(out, call, Larger(Larger(x, RowHarm(call, l)), OutHarm(call, l)))
<1> DEFINE r == RowHarm(call, l)
           o == OutHarm(call, l)
           w == Larger(x, r)
<1>1. r \in Harm /\ o \in Harm
  BY HarmType
<1> HIDE DEF r, o
<1>2. r \in Int /\ o \in Int /\ x \in Int /\ \A y \in Harm : y \in Int
  BY <1>1 DEF Harm, Good, Nan
<1>3. \A p \in 1..Len(new) : new[p] = w
  <2> SUFFICES ASSUME NEW p \in 1..Len(new) PROVE new[p] = w
    OBVIOUS
  <2>1. CASE p <= Len(old) /\ new[p] = old[p]
    <3>1. p \in 1..Len(old)
      BY <2>1 DEF Appended
    <3> QED BY <3>1, <2>1 DEF Same, r
  <2>2. CASE /\ p - Len(old) \in 1..call.n
             /\ new[p] = IF h[p - Len(old)] < r THEN r ELSE h[p - Len(old)]
    BY <2>2 DEF Tokens, Larger
  <2> QED BY <2>1, <2>2 DEF Appended, r
<1>4. ASSUME NEW i \in 1..call.n PROVE out[i] = Larger(w, o)
  <2>1. BecameAt(old, new, h, out, call, l, i)
    BY DEF Became
  <2>2. Len(old) \in Nat /\ Len(new) = Len(old) + call.n /\ call.n \in Nat
    BY DEF Appended, CallOK
  <2>3. Len(old) + i \in 1..Len(new)
    BY <2>2
  <2>4. w <= out[i] /\ o <= out[i] /\ x <= out[i]
    BY <2>1, <2>3, <1>3 DEF BecameAt, Tokens, o
  <2>5. out[i] = x \/ out[i] = o \/ out[i] = w
    BY <2>1, <1>3 DEF BecameAt, Tokens, o
  <2>6. out[i] \in Int
    BY <2>1, <1>2 DEF BecameAt
  <2> QED BY <2>4, <2>5, <2>6, <1>2 DEF Larger
<1> QED BY <1>3, <1>4 DEF Same, Tokens, r, o

\* No NaN comes of nothing.
LEMMA NoNan ==
  ASSUME NEW cache, Typed(cache), NEW call, CallOK(call),
         \A l \in Layers : RowHarm(call, l) # Nan /\ Clear(cache[l])
  PROVE  /\ \A i \in 1..call.n : Harms(cache, call)[Depth][i] # Nan
         /\ \A l \in Layers : Clear(After(cache, call)[l])
<1> DEFINE h == Harms(cache, call)
           T == {n \in Nat : n <= Depth => \A i \in 1..call.n : h[n][i] # Nan}
<1>0. Depth \in Nat
  BY TrialAssumption
<1>1. 0 \in T
  <2>1. h[0] \in [1..call.n -> {Good}]
    BY PassIs
  <2> HIDE DEF h
  <2>2. \A i \in 1..call.n : h[0][i] = Good
    BY <2>1
  <2> QED BY <2>2 DEF Good, Nan
<1>2. ASSUME NEW l \in Layers, \A i \in 1..call.n : h[l - 1][i] # Nan
      PROVE  Clear(After(cache, call)[l]) /\ \A i \in 1..call.n : h[l][i] # Nan
  BY <1>2, PassIs, LayerClear
<1>3. ASSUME NEW n \in T PROVE n + 1 \in T
  <2>1. CASE n + 1 <= Depth
    <3>1. n + 1 \in Layers /\ n <= Depth /\ (n + 1) - 1 = n
      BY <2>1, <1>0 DEF Layers
    <3>2. \A i \in 1..call.n : h[n + 1][i] # Nan
      BY <3>1, <1>2
    <3> QED BY <3>2
  <2> QED BY <2>1
<1> HIDE DEF T
<1>4. \A n \in Nat : n \in T
  BY <1>1, <1>3, AllNumbers DEF T
<1>5. \A n \in 0..Depth : \A i \in 1..call.n : h[n][i] # Nan
  BY <1>0, <1>4 DEF T
<1>6. \A l \in Layers : l - 1 \in 0..Depth
  BY <1>0 DEF Layers
<1> QED BY <1>0, <1>2, <1>5, <1>6

\* What is the same harm all over a layer, up to layer k: w that of the rows, v that
\* of the tokens after it.
Steady(cache, call, k, v, w) ==
  /\ v[0] = Good
  /\ \A l \in 1..k :
       /\ v[l - 1] \in Harm /\ ~Strikes(call, l, "lost")
       /\ w[l] = Larger(v[l - 1], RowHarm(call, l)) /\ v[l] = Larger(w[l], OutHarm(call, l))
       /\ Same(cache[l], w[l])

LEMMA Exactly ==
  ASSUME NEW cache, Typed(cache), NEW call, CallOK(call),
         NEW k \in 0..Depth, NEW v, NEW w, Steady(cache, call, k, v, w)
  PROVE  /\ \A l \in 0..k : Tokens(Harms(cache, call)[l], call, v[l])
         /\ \A l \in 1..k : Same(After(cache, call)[l], w[l])
<1> DEFINE h == Harms(cache, call)
           T == {n \in Nat : n <= k => Tokens(h[n], call, v[n])}
<1>0. Depth \in Nat /\ k \in Nat /\ k <= Depth
  BY TrialAssumption
<1>1. 0 \in T
  <2>1. h[0] \in [1..call.n -> {Good}]
    BY PassIs
  <2> HIDE DEF h
  <2>2. Tokens(h[0], call, v[0])
    BY <2>1 DEF Tokens, Steady
  <2> QED BY <2>2
<1>2. ASSUME NEW l \in 1..k, Tokens(h[l - 1], call, v[l - 1])
      PROVE  Same(After(cache, call)[l], w[l]) /\ Tokens(h[l], call, v[l])
  <2>1. l \in Layers
    BY <1>0 DEF Layers
  <2>2. /\ v[l - 1] \in Harm /\ ~Strikes(call, l, "lost")
        /\ w[l] = Larger(v[l - 1], RowHarm(call, l)) /\ v[l] = Larger(w[l], OutHarm(call, l))
        /\ Same(cache[l], w[l])
    BY DEF Steady
  <2>3. /\ h[l - 1] \in [1..call.n -> Harm]
        /\ Appended(cache[l], After(cache, call)[l], h[l - 1], call, l)
        /\ Became(cache[l], After(cache, call)[l], h[l - 1], h[l], call, l)
    BY <2>1, PassIs
  <2> HIDE DEF h
  <2> QED BY <1>2, <2>2, <2>3, LayerExact
<1>3. ASSUME NEW n \in T PROVE n + 1 \in T
  <2>1. CASE n + 1 <= k
    <3>1. n + 1 \in 1..k /\ n <= k /\ (n + 1) - 1 = n
      BY <2>1, <1>0
    <3>2. Tokens(h[n + 1], call, v[n + 1])
      BY <3>1, <1>2
    <3> QED BY <3>2
  <2> QED BY <2>1
<1> HIDE DEF T
<1>4. \A n \in Nat : n \in T
  BY <1>1, <1>3, AllNumbers DEF T
<1>5. \A l \in 0..k : Tokens(h[l], call, v[l])
  BY <1>0, <1>4 DEF T
<1>6. \A l \in 1..k : l - 1 \in 0..k
  BY <1>0
<1> QED BY <1>2, <1>5, <1>6

-----------------------------------------------------------------------------
(* decode_referee: what the subject's caches hold after s steps, and what   *)
(* is recomputed.                                                           *)

SeenBy(s) == IF s = 0 THEN 0 ELSE trial.prompt + s - 1
OnceKinds == {"store", "read", "lost", "nan"}
DecodeKinds == OnceKinds \cup {"none", "head", "batch", "batchnan", "math"}
DecodeTrial == TrialOK /\ trial.defect \in DecodeKinds /\ step \in Nat

\* The caches show nothing after s steps.
Harmless(s) ==
  \/ trial.defect \in {"none", "head"}
  \/ trial.defect \in OnceKinds /\ trial.at >= s
  \/ trial.defect \in {"read", "math"} /\ trial.layer = Depth
  \/ trial.defect \in {"batch", "batchnan"} /\ trial.prompt = 1

\* ... or they show the defect.
Marked(c, s) ==
  /\ trial.defect = "store" /\ trial.at < s =>
       \E p \in 1..Len(c[trial.layer]) : c[trial.layer][p] = Bad
  /\ trial.defect = "read" /\ trial.at < s /\ trial.layer < Depth =>
       \E p \in 1..Len(c[trial.layer + 1]) : c[trial.layer + 1][p] # Good
  /\ trial.defect = "nan" /\ trial.at < s =>
       \E p \in 1..Len(c[trial.layer]) : c[trial.layer][p] = Nan
  /\ trial.defect = "batchnan" /\ trial.prompt > 1 /\ s > 0 =>
       \E p \in 1..Len(c[trial.layer]) : c[trial.layer][p] = Nan

\* The defects that are at work all the time leave rows that are known in full.
MarkedAlways(c, s) ==
  /\ trial.defect = "batch" /\ trial.prompt > 1 =>
       \A p \in 1..Len(c[trial.layer]) : c[trial.layer][p] = IF p <= trial.prompt THEN Bad ELSE Good
  /\ trial.defect = "batch" /\ trial.prompt > 1 /\ s = 1 =>
       \A l \in Layers : Same(c[l], IF l >= trial.layer THEN Bad ELSE Good)
  /\ trial.defect = "math" =>
       \A l \in Layers : Same(c[l], IF l > trial.layer THEN Math ELSE Good)

Lost(l, s) == trial.defect = "lost" /\ trial.layer = l /\ trial.at < s
CacheIs(c, s) ==
  /\ Typed(c)
  /\ \A l \in Layers : Len(c[l]) = SeenBy(s) - (IF Lost(l, s) THEN 1 ELSE 0)
  /\ \A l \in Layers : l < trial.layer => AllGood(c[l])
  /\ Harmless(s) => \A l \in Layers : AllGood(c[l])
  /\ trial.defect \notin {"nan", "batchnan"} => \A l \in Layers : Clear(c[l])
  /\ Marked(c, s) /\ MarkedAlways(c, s)

\* Which layers a call of this trial is struck in: its own only.
LEMMA StrikesAre ==
  ASSUME NEW call, NEW l
  PROVE  /\ \A kind \in {"store", "read", "lost", "nan"} :
              Strikes(call, l, kind) <=> /\ trial.defect = kind /\ trial.layer = l
                                         /\ call.live /\ trial.at = step
         /\ \A kind \in {"batch", "batchnan"} :
              Strikes(call, l, kind) <=> /\ trial.defect = kind /\ trial.layer = l
                                         /\ call.own /\ call.n > 1
         /\ Strikes(call, l, "math") <=> trial.defect = "math" /\ trial.layer = l /\ call.own
  BY DEF Strikes

LEMMA RowHarmWhere ==
  ASSUME NEW call, NEW l
  PROVE  RowHarm(call, l) =
           IF trial.layer # l THEN Good
           ELSE IF trial.defect = "nan" /\ call.live /\ trial.at = step THEN Nan
           ELSE IF trial.defect = "batchnan" /\ call.own /\ call.n > 1 THEN Nan
           ELSE IF trial.defect = "store" /\ call.live /\ trial.at = step THEN Bad
           ELSE IF trial.defect = "batch" /\ call.own /\ call.n > 1 THEN Bad
           ELSE Good
<1>1. /\ Strikes(call, l, "nan") <=> trial.defect = "nan" /\ trial.layer = l /\ call.live /\ trial.at = step
      /\ Strikes(call, l, "store") <=> trial.defect = "store" /\ trial.layer = l /\ call.live /\ trial.at = step
      /\ Strikes(call, l, "batch") <=> trial.defect = "batch" /\ trial.layer = l /\ call.own /\ call.n > 1
      /\ Strikes(call, l, "batchnan") <=> trial.defect = "batchnan" /\ trial.layer = l /\ call.own /\ call.n > 1
  BY StrikesAre
<1> QED BY <1>1, RowHarmIs

LEMMA OutHarmWhere ==
  ASSUME NEW call, NEW l
  PROVE  OutHarm(call, l) =
           IF trial.layer # l THEN Good
           ELSE IF trial.defect = "read" /\ call.live /\ trial.at = step THEN Bad
           ELSE IF trial.defect = "math" /\ call.own THEN Math
           ELSE Good
<1>1. /\ Strikes(call, l, "read") <=> trial.defect = "read" /\ trial.layer = l /\ call.live /\ trial.at = step
      /\ Strikes(call, l, "math") <=> trial.defect = "math" /\ trial.layer = l /\ call.own
  BY StrikesAre
<1> QED BY <1>1, OutHarmIs

\* The rows of layer l of a pass over n tokens from the first, by the subject or not.
RecHarm(own, n, l) ==
  IF own /\ trial.defect = "math" /\ l > trial.layer THEN Math
  ELSE IF own /\ trial.defect = "batch" /\ l >= trial.layer /\ n > 1 THEN Bad
  ELSE IF own /\ trial.defect = "batchnan" /\ l >= trial.layer /\ n > 1 THEN Nan
  ELSE Good

LEMMA RecomputedIs ==
  ASSUME DecodeTrial, NEW own \in BOOLEAN
  PROVE  /\ Consumed(step) \in Nat \ {0} /\ Typed(Recomputed(own))
         /\ \A l \in Layers : /\ Len(Recomputed(own)[l]) = Consumed(step)
                              /\ Same(Recomputed(own)[l], RecHarm(own, Consumed(step), l))
<1> DEFINE n == Consumed(step)
           call == Call(n, own, FALSE)
           v == [l \in 0..Depth |-> IF own /\ trial.defect = "math" /\ l >= trial.layer THEN Math
                                    ELSE IF l = 0 THEN Good ELSE RecHarm(own, n, l)]
           w == [l \in 0..Depth |-> RecHarm(own, n, l)]
<1>1. n \in Nat \ {0}
  BY DEF DecodeTrial, TrialOK, Consumed
<1>2. CallOK(call) /\ call.n = n /\ call.own = own /\ call.live = FALSE
  BY <1>1, CallIs
<1>3. Recomputed(own) = After(NoRows, call)
  BY DEF Recomputed, After
<1> HIDE DEF n, call
<1>4. Depth \in Nat /\ trial.layer \in 1..Depth /\ Layers = 1..Depth
  BY TrialAssumption DEF DecodeTrial, TrialOK, Layers
<1>5. Typed(NoRows) /\ \A l \in Layers : NoRows[l] = << >>
  BY DEF Typed, NoRows
<1>6. ASSUME NEW l \in 1..Depth
      PROVE  /\ v[l - 1] \in Harm /\ ~Strikes(call, l, "lost")
             /\ w[l] = Larger(v[l - 1], RowHarm(call, l)) /\ v[l] = Larger(w[l], OutHarm(call, l))
             /\ Same(NoRows[l], w[l])
  <2>1. ~Strikes(call, l, "lost")
    BY <1>2, StrikesAre
  <2>2. RowHarm(call, l) =
           IF trial.layer # l THEN Good
           ELSE IF trial.defect = "batchnan" /\ own /\ n > 1 THEN Nan
           ELSE IF trial.defect = "batch" /\ own /\ n > 1 THEN Bad ELSE Good
    BY <1>2, RowHarmWhere
  <2>3. OutHarm(call, l) = IF trial.layer = l /\ trial.defect = "math" /\ own THEN Math ELSE Good
    BY <1>2, OutHarmWhere
  <2>4. l \in 0..Depth /\ l - 1 \in 0..Depth /\ l # 0
    BY <1>4
  <2>5. v[l - 1] = IF own /\ trial.defect = "math" /\ l - 1 >= trial.layer THEN Math
                   ELSE IF l - 1 = 0 THEN Good ELSE RecHarm(own, n, l - 1)
    BY <2>4
  <2>6. v[l] = IF own /\ trial.defect = "math" /\ l >= trial.layer THEN Math ELSE RecHarm(own, n, l)
    BY <2>4
  <2>7. w[l] = RecHarm(own, n, l)
    BY <2>4
  <2> HIDE DEF v, w
  <2>8. v[l - 1] \in Harm
    BY <2>5 DEF RecHarm, Harm, Good, Math, Bad, Nan
  <2>9. w[l] = Larger(v[l - 1], RowHarm(call, l)) /\ v[l] = Larger(w[l], OutHarm(call, l))
    <3>1. CASE own /\ trial.defect = "math"
      BY <3>1, <2>2, <2>3, <2>5, <2>6, <2>7, <1>4 DEF RecHarm, Larger, Good, Math, Bad, Nan
    <3>2. CASE own /\ trial.defect = "batch" /\ n > 1
      BY <3>2, <2>2, <2>3, <2>5, <2>6, <2>7, <1>4 DEF RecHarm, Larger, Good, Math, Bad, Nan
    <3>3. CASE own /\ trial.defect = "batchnan" /\ n > 1
      BY <3>3, <2>2, <2>3, <2>5, <2>6, <2>7, <1>4 DEF RecHarm, Larger, Good, Math, Bad, Nan
    <3>4. CASE ~own \/ (trial.defect # "math" /\ (trial.defect \notin {"batch", "batchnan"} \/ ~(n > 1)))
      BY <3>4, <2>2, <2>3, <2>5, <2>6, <2>7, <1>4 DEF RecHarm, Larger, Good, Math, Bad, Nan
    <3> QED BY <3>1, <3>2, <3>3, <3>4
  <2>10. Same(NoRows[l], w[l])
    BY <1>4, <1>5 DEF Same
  <2> QED BY <2>1, <2>8, <2>9, <2>10
<1>7. v[0] = Good
  <2>1. 0 \in 0..Depth /\ ~(0 >= trial.layer)
    BY <1>4
  <2> QED BY <2>1
<1>8. \A l \in Layers : w[l] = RecHarm(own, n, l)
  BY <1>4
<1> HIDE DEF v, w
<1>9. Steady(NoRows, call, Depth, v, w)
  BY <1>6, <1>7 DEF Steady
<1>10. \A l \in 1..Depth : Same(After(NoRows, call)[l], w[l])
  BY <1>2, <1>4, <1>5, <1>9, Exactly
<1>11. \A l \in Layers : Appended(NoRows[l], After(NoRows, call)[l], Harms(NoRows, call)[l - 1], call, l)
  BY <1>2, <1>5, PassIs
<1>12. \A l \in Layers : Len(After(NoRows, call)[l]) = n
  <2> SUFFICES ASSUME NEW l \in Layers PROVE Len(After(NoRows, call)[l]) = n
    OBVIOUS
  <2>1. ~Strikes(call, l, "lost")
    BY <1>2, StrikesAre
  <2>2. Len(NoRows[l]) = 0
    BY <1>5
  <2>3. Len(After(NoRows, call)[l]) = Len(NoRows[l]) + call.n - (IF Strikes(call, l, "lost") THEN 1 ELSE 0)
    BY <1>11 DEF Appended
  <2> QED BY <2>1, <2>2, <2>3, <1>1, <1>2
<1>13. Typed(After(NoRows, call))
  BY <1>2, <1>5, PassIs
<1>14. \A l \in Layers : Same(After(NoRows, call)[l], RecHarm(own, n, l))
  BY <1>4, <1>8, <1>10
<1> QED BY <1>1, <1>3, <1>12, <1>13, <1>14 DEF n

\* One step of the subject.
Decoding(cache, call) ==
  DecodeTrial /\ CacheIs(cache, step) /\ call = Call(Fed(step), TRUE, TRUE)

LEMMA DecodingIs ==
  ASSUME NEW cache, NEW call, Decoding(cache, call)
  PROVE  /\ Depth \in Nat \ {0} /\ Layers = 1..Depth /\ trial.layer \in 1..Depth
         /\ trial.prompt \in Nat \ {0} /\ trial.steps \in Nat /\ trial.at \in Nat /\ step \in Nat
         /\ CallOK(call) /\ call.own = TRUE /\ call.live = TRUE
         /\ call.n = (IF step = 0 THEN trial.prompt ELSE 1) /\ call.n \in Nat \ {0}
         /\ Typed(cache) /\ \A l \in Layers : cache[l] \in Seq(Harm)
         /\ \A l \in Layers : Len(cache[l]) = SeenBy(step) - (IF Lost(l, step) THEN 1 ELSE 0)
<1>1. DecodeTrial /\ CacheIs(cache, step) /\ call = Call(Fed(step), TRUE, TRUE)
  BY DEF Decoding
<1>2. Depth \in Nat \ {0} /\ Layers = 1..Depth
  BY TrialAssumption DEF Layers
<1>3. /\ trial.layer \in Layers /\ trial.prompt \in Nat \ {0} /\ trial.steps \in Nat
      /\ trial.at \in Nat /\ step \in Nat
  BY <1>1 DEF DecodeTrial, TrialOK
<1>4. Fed(step) = (IF step = 0 THEN trial.prompt ELSE 1) /\ Fed(step) \in Nat \ {0}
  BY <1>3 DEF Fed
<1>5. CallOK(call) /\ call.own = TRUE /\ call.live = TRUE /\ call.n = Fed(step)
  BY <1>1, <1>4, CallIs
<1>6. /\ Typed(cache)
      /\ \A l \in Layers : Len(cache[l]) = SeenBy(step) - (IF Lost(l, step) THEN 1 ELSE 0)
  BY <1>1 DEF CacheIs
<1>7. \A l \in Layers : cache[l] \in Seq(Harm)
  BY <1>6 DEF Typed
<1> QED BY <1>2, <1>3, <1>4, <1>5, <1>6, <1>7

LEMMA StepLengths ==
  ASSUME NEW cache, NEW call, Decoding(cache, call)
  PROVE  /\ SeenBy(step + 1) = trial.prompt + step /\ SeenBy(step) + call.n = SeenBy(step + 1)
         /\ \A l \in Layers :
              Len(After(cache, call)[l]) = SeenBy(step + 1) - (IF Lost(l, step + 1) THEN 1 ELSE 0)
<1> DEFINE new == After(cache, call)
<1>1. /\ trial.prompt \in Nat \ {0} /\ trial.at \in Nat /\ step \in Nat
      /\ CallOK(call) /\ call.live = TRUE
      /\ call.n = (IF step = 0 THEN trial.prompt ELSE 1) /\ Typed(cache)
      /\ \A l \in Layers : Len(cache[l]) = SeenBy(step) - (IF Lost(l, step) THEN 1 ELSE 0)
  BY DecodingIs
<1>2. SeenBy(step + 1) = trial.prompt + step /\ SeenBy(step) + call.n = SeenBy(step + 1)
  BY <1>1 DEF SeenBy
<1>3. ASSUME NEW l \in Layers
      PROVE  Len(new[l]) = SeenBy(step + 1) - (IF Lost(l, step + 1) THEN 1 ELSE 0)
  <2>1. Strikes(call, l, "lost") <=> trial.defect = "lost" /\ trial.layer = l /\ trial.at = step
    BY <1>1, StrikesAre
  <2>2. Len(new[l]) = Len(cache[l]) + call.n - (IF Strikes(call, l, "lost") THEN 1 ELSE 0)
    BY <1>1, PassIs DEF Appended
  <2>3. Lost(l, step) <=> trial.defect = "lost" /\ trial.layer = l /\ trial.at < step
    BY DEF Lost
  <2>4. Lost(l, step + 1) <=> trial.defect = "lost" /\ trial.layer = l /\ trial.at < step + 1
    BY DEF Lost
  <2>5. Len(cache[l]) = SeenBy(step) - (IF Lost(l, step) THEN 1 ELSE 0)
    BY <1>1
  <2>6. SeenBy(step) \in Nat /\ call.n \in Nat
    BY <1>1 DEF SeenBy
  <2> HIDE DEF new
  <2>7. CASE trial.defect = "lost" /\ trial.layer = l
    <3>1. CASE trial.at < step
      BY <3>1, <2>7, <2>1, <2>2, <2>3, <2>4, <2>5, <2>6, <1>1, <1>2
    <3>2. CASE trial.at = step
      BY <3>2, <2>7, <2>1, <2>2, <2>3, <2>4, <2>5, <2>6, <1>1, <1>2
    <3>3. CASE trial.at > step
      BY <3>3, <2>7, <2>1, <2>2, <2>3, <2>4, <2>5, <2>6, <1>1, <1>2
    <3> QED BY <3>1, <3>2, <3>3, <1>1
  <2>8. CASE ~(trial.defect = "lost" /\ trial.layer = l)
    BY <2>8, <2>1, <2>2, <2>3, <2>4, <2>5, <2>6, <1>2
  <2> QED BY <2>7, <2>8
<1> QED BY <1>2, <1>3

\* A row stays where it is.
LEMMA OldRow ==
  ASSUME NEW cache, NEW call, Decoding(cache, call), NEW l \in Layers, trial.defect # "lost",
         NEW p \in 1..Len(cache[l])
  PROVE  p \in 1..Len(After(cache, call)[l]) /\ After(cache, call)[l][p] = cache[l][p]
<1>1. Appended(cache[l], After(cache, call)[l], Harms(cache, call)[l - 1], call, l)
  BY DecodingIs, PassIs
<1>2. ~Strikes(call, l, "lost")
  BY StrikesAre
<1>3. call.n \in Nat \ {0}
  BY DecodingIs
<1>4. Len(cache[l]) \in Nat /\ Len(After(cache, call)[l]) = Len(cache[l]) + call.n
  BY <1>1, <1>2, <1>3 DEF Appended
<1>5. p \in 1..Len(After(cache, call)[l])
  BY <1>3, <1>4
<1> QED BY <1>1, <1>5 DEF Appended

\* The first new row is its token or the harm done to it.
LEMMA NewRow ==
  ASSUME NEW cache, NEW call, Decoding(cache, call), NEW l \in Layers, trial.defect # "lost"
  PROVE  /\ Len(cache[l]) + 1 \in 1..Len(After(cache, call)[l]) /\ 1 \in 1..call.n
         /\ After(cache, call)[l][Len(cache[l]) + 1] = Larger(Harms(cache, call)[l - 1][1], RowHarm(call, l))
<1>1. Appended(cache[l], After(cache, call)[l], Harms(cache, call)[l - 1], call, l)
  BY DecodingIs, PassIs
<1>2. ~Strikes(call, l, "lost")
  BY StrikesAre
<1>3. call.n \in Nat \ {0}
  BY DecodingIs
<1> DEFINE k == Len(cache[l])
           p == k + 1
<1>4. k \in Nat /\ Len(After(cache, call)[l]) = k + call.n
  BY <1>1, <1>2, <1>3 DEF Appended
<1>5. p \in 1..Len(After(cache, call)[l]) /\ ~(p <= k) /\ p - k = 1
  BY <1>3, <1>4
<1> HIDE DEF p
<1>6. After(cache, call)[l][p] = IF Harms(cache, call)[l - 1][1] < RowHarm(call, l) THEN RowHarm(call, l)
                                 ELSE Harms(cache, call)[l - 1][1]
  BY <1>1, <1>5 DEF Appended
<1> QED BY <1>3, <1>5, <1>6 DEF p, Larger

\* Below the defect's layer nothing is harmed.
LEMMA BelowIsGood ==
  ASSUME NEW cache, NEW call, Decoding(cache, call)
  PROVE  /\ \A l \in Layers : l < trial.layer => AllGood(After(cache, call)[l])
         /\ Harms(cache, call)[trial.layer - 1][1] = Good
<1>1. /\ Depth \in Nat \ {0} /\ Layers = 1..Depth /\ trial.layer \in 1..Depth
      /\ CallOK(call) /\ Typed(cache) /\ call.n \in Nat \ {0}
  BY DecodingIs
<1> DEFINE k == trial.layer - 1
           v == [l \in 0..k |-> Good]
<1>2. k \in 0..Depth
  BY <1>1
<1>3. ASSUME NEW l \in 1..k
      PROVE  /\ v[l - 1] \in Harm /\ ~Strikes(call, l, "lost")
             /\ v[l] = Larger(v[l - 1], RowHarm(call, l)) /\ v[l] = Larger(v[l], OutHarm(call, l))
             /\ Same(cache[l], v[l])
  <2>1. l \in Layers /\ l < trial.layer /\ trial.layer # l /\ l - 1 \in 0..k /\ l \in 0..k
    BY <1>1
  <2>2. v[l] = Good /\ v[l - 1] = Good
    BY <2>1
  <2> HIDE DEF v
  <2>3. RowHarm(call, l) = Good /\ OutHarm(call, l) = Good
    BY <2>1, RowHarmWhere, OutHarmWhere
  <2>4. ~Strikes(call, l, "lost")
    BY <2>1, StrikesAre
  <2>5. AllGood(cache[l])
    BY <2>1 DEF Decoding, CacheIs
  <2>6. Same(cache[l], v[l])
    BY <2>2, <2>5 DEF Same, AllGood
  <2>7. Good \in Harm
    BY DEF Harm, Good, Nan
  <2> QED BY <2>2, <2>3, <2>4, <2>6, <2>7 DEF Larger
<1>4. v[0] = Good /\ v[k] = Good /\ \A l \in 1..k : v[l] = Good
  BY <1>1, <1>2
<1> HIDE DEF v
<1>5. Steady(cache, call, k, v, v)
  BY <1>3, <1>4 DEF Steady
<1>6. /\ \A l \in 0..k : Tokens(Harms(cache, call)[l], call, v[l])
      /\ \A l \in 1..k : Same(After(cache, call)[l], v[l])
  <2> HIDE DEF k
  <2> QED BY <1>1, <1>2, <1>5, Exactly
<1>7. Harms(cache, call)[k][1] = Good
  <2>1. Tokens(Harms(cache, call)[k], call, Good)
    BY <1>2, <1>4, <1>6
  <2>2. 1 \in 1..call.n
    BY <1>1
  <2> QED BY <2>1, <2>2 DEF Tokens
<1>8. ASSUME NEW l \in Layers, l < trial.layer PROVE AllGood(After(cache, call)[l])
  <2>1. l \in 1..k
    BY <1>1, <1>8
  <2>2. Same(After(cache, call)[l], Good)
    BY <2>1, <1>4, <1>6
  <2> QED BY <2>2 DEF Same, AllGood
<1> QED BY <1>7, <1>8

\* A step without harm leaves none: what the last layer's tokens take is in no row.
LEMMA StaysGood ==
  ASSUME NEW cache, NEW call, Decoding(cache, call), Harmless(step + 1)
  PROVE  \A l \in Layers : AllGood(After(cache, call)[l])
<1>1. /\ Depth \in Nat \ {0} /\ Layers = 1..Depth /\ trial.layer \in 1..Depth
      /\ trial.prompt \in Nat \ {0} /\ trial.at \in Nat /\ step \in Nat
      /\ CallOK(call) /\ Typed(cache) /\ call.n \in Nat \ {0}
      /\ call.n = (IF step = 0 THEN trial.prompt ELSE 1)
  BY DecodingIs
<1>2. \/ trial.defect \in {"none", "head"}
      \/ trial.defect \in OnceKinds /\ trial.at > step
      \/ trial.defect \in {"read", "math"} /\ trial.layer = Depth
      \/ trial.defect \in {"batch", "batchnan"} /\ ~(call.n > 1)
  BY <1>1 DEF Harmless, OnceKinds
<1>3. ASSUME NEW l \in Layers
      PROVE  /\ RowHarm(call, l) = Good /\ (l # Depth => OutHarm(call, l) = Good)
             /\ ~Strikes(call, l, "lost")
  <2>1. RowHarm(call, l) = Good
    BY <1>1, <1>2, RowHarmWhere DEF OnceKinds
  <2>2. l # Depth => OutHarm(call, l) = Good
    BY <1>1, <1>2, OutHarmWhere DEF OnceKinds
  <2>3. ~Strikes(call, l, "lost")
    BY <1>1, <1>2, StrikesAre DEF OnceKinds
  <2> QED BY <2>1, <2>2, <2>3
<1>4. \A l \in Layers : AllGood(cache[l])
  <2>1. Harmless(step)
    BY <1>1, <1>2 DEF Harmless, OnceKinds
  <2> QED BY <2>1 DEF Decoding, CacheIs
<1> DEFINE v == [l \in 0..Depth |-> IF l = Depth THEN OutHarm(call, Depth) ELSE Good]
           w == [l \in 0..Depth |-> Good]
<1>5. ASSUME NEW l \in 1..Depth
      PROVE  /\ v[l - 1] \in Harm /\ ~Strikes(call, l, "lost")
             /\ w[l] = Larger(v[l - 1], RowHarm(call, l)) /\ v[l] = Larger(w[l], OutHarm(call, l))
             /\ Same(cache[l], w[l])
  <2>1. l \in 0..Depth /\ l - 1 \in 0..Depth /\ l - 1 # Depth
    BY <1>1
  <2>2. v[l - 1] = Good /\ w[l] = Good /\ v[l] = IF l = Depth THEN OutHarm(call, Depth) ELSE Good
    BY <2>1
  <2> HIDE DEF v, w
  <2>3. /\ RowHarm(call, l) = Good /\ (l # Depth => OutHarm(call, l) = Good)
        /\ ~Strikes(call, l, "lost")
    BY <1>1, <1>3
  <2>4. OutHarm(call, l) \in {0, 1, 2, 3} /\ Good = 0 /\ Good \in Harm
    BY HarmType DEF Harm, Good, Nan
  <2>5. v[l] = OutHarm(call, l)
    BY <2>2, <2>3
  <2>6. Same(cache[l], w[l])
    BY <1>1, <1>4, <2>2 DEF Same, AllGood
  <2> QED BY <2>2, <2>3, <2>4, <2>5, <2>6 DEF Larger
<1>6. v[0] = Good /\ \A l \in 1..Depth : w[l] = Good
  BY <1>1
<1> HIDE DEF v, w
<1>7. Steady(cache, call, Depth, v, w)
  BY <1>5, <1>6 DEF Steady
<1>8. \A l \in 1..Depth : Same(After(cache, call)[l], w[l])
  BY <1>1, <1>7, Exactly
<1> QED BY <1>1, <1>6, <1>8 DEF Same, AllGood

\* NaNs come of their own two defects.
LEMMA StaysClear ==
  ASSUME NEW cache, NEW call, Decoding(cache, call), trial.defect \notin {"nan", "batchnan"}
  PROVE  /\ \A l \in Layers : Clear(After(cache, call)[l])
         /\ \A i \in 1..call.n : Harms(cache, call)[Depth][i] # Nan
<1>1. \A l \in Layers : RowHarm(call, l) # Nan
  BY RowHarmWhere DEF Nan, Bad, Good
<1>2. \A l \in Layers : Clear(cache[l])
  BY DEF Decoding, CacheIs
<1>3. Typed(cache) /\ CallOK(call)
  BY DecodingIs
<1> QED BY <1>1, <1>2, <1>3, NoNan

\* A defect that strikes once leaves a row that stays.
LEMMA StaysMarked ==
  ASSUME NEW cache, NEW call, Decoding(cache, call)
  PROVE  Marked(After(cache, call), step + 1)
<1> DEFINE new == After(cache, call)
           L == trial.layer
<1>1. /\ Depth \in Nat \ {0} /\ Layers = 1..Depth /\ L \in Layers
      /\ trial.prompt \in Nat \ {0} /\ trial.at \in Nat /\ step \in Nat
      /\ CallOK(call) /\ Typed(cache) /\ call.n \in Nat \ {0} /\ call.own = TRUE /\ call.live = TRUE
      /\ call.n = (IF step = 0 THEN trial.prompt ELSE 1)
  BY DecodingIs
<1>2. Marked(cache, step)
  BY DEF Decoding, CacheIs
<1>3. trial.at < step + 1 <=> trial.at < step \/ trial.at = step
  BY <1>1
<1>4. Harms(cache, call)[L - 1][1] = Good
  BY BelowIsGood
<1> HIDE DEF new, L
<1>5. ASSUME NEW x, \E p \in 1..Len(cache[L]) : cache[L][p] = x, trial.defect # "lost"
      PROVE  \E p \in 1..Len(new[L]) : new[L][p] = x
  <2>1. PICK p \in 1..Len(cache[L]) : cache[L][p] = x
    BY <1>5
  <2>2. p \in 1..Len(new[L]) /\ new[L][p] = x
    BY <1>1, <1>5, <2>1, OldRow DEF new
  <2> QED BY <2>2
<1>6. ASSUME trial.defect # "lost", RowHarm(call, L) # Good
      PROVE  \E p \in 1..Len(new[L]) : new[L][p] = RowHarm(call, L)
  <2>1. /\ Len(cache[L]) + 1 \in 1..Len(new[L])
        /\ new[L][Len(cache[L]) + 1] = Larger(Good, RowHarm(call, L))
    BY <1>1, <1>4, <1>6, NewRow DEF new
  <2>2. Larger(Good, RowHarm(call, L)) = RowHarm(call, L)
    BY HarmType DEF Larger, Harm, Good, Nan
  <2> QED BY <2>1, <2>2
<1>7. ASSUME trial.defect = "store", trial.at < step + 1
      PROVE  \E p \in 1..Len(new[L]) : new[L][p] = Bad
  <2>1. CASE trial.at < step
    BY <1>2, <1>5, <1>7, <2>1 DEF Marked, L
  <2>2. CASE trial.at = step
    <3>1. RowHarm(call, L) = Bad /\ Bad # Good
      BY <1>1, <1>7, <2>2, RowHarmWhere DEF L, Bad, Good
    <3> QED BY <3>1, <1>6, <1>7
  <2> QED BY <1>3, <1>7, <2>1, <2>2
<1>8. ASSUME trial.defect = "nan", trial.at < step + 1
      PROVE  \E p \in 1..Len(new[L]) : new[L][p] = Nan
  <2>1. CASE trial.at < step
    BY <1>2, <1>5, <1>8, <2>1 DEF Marked, L
  <2>2. CASE trial.at = step
    <3>1. RowHarm(call, L) = Nan /\ Nan # Good
      BY <1>1, <1>8, <2>2, RowHarmWhere DEF L, Nan, Good
    <3> QED BY <3>1, <1>6, <1>8
  <2> QED BY <1>3, <1>8, <2>1, <2>2
<1>9. ASSUME trial.defect = "batchnan", trial.prompt > 1
      PROVE  \E p \in 1..Len(new[L]) : new[L][p] = Nan
  <2>1. CASE step > 0
    BY <1>2, <1>5, <1>9, <2>1 DEF Marked, L
  <2>2. CASE step = 0
    <3>1. RowHarm(call, L) = Nan /\ Nan # Good
      BY <1>1, <1>9, <2>2, RowHarmWhere DEF L, Nan, Good
    <3> QED BY <3>1, <1>6, <1>9
  <2> QED BY <1>1, <2>1, <2>2
<1>10. ASSUME trial.defect = "read", trial.at < step + 1, L < Depth
       PROVE  \E p \in 1..Len(new[L + 1]) : new[L + 1][p] # Good
  <2>1. L + 1 \in Layers /\ (L + 1) - 1 = L
    BY <1>1, <1>10
  <2>2. CASE trial.at < step
    <3>1. PICK p \in 1..Len(cache[L + 1]) : cache[L + 1][p] # Good
      BY <1>2, <1>10, <2>2 DEF Marked, L
    <3>2. p \in 1..Len(new[L + 1]) /\ new[L + 1][p] = cache[L + 1][p]
      BY <1>10, <2>1, <3>1, OldRow DEF new
    <3> QED BY <3>1, <3>2
  <2>3. CASE trial.at = step
    <3>1. OutHarm(call, L) = Bad
      BY <1>1, <1>10, <2>3, OutHarmWhere DEF L
    <3>2. 1 \in 1..call.n
      BY <1>1
    <3>3. Became(cache[L], new[L], Harms(cache, call)[L - 1], Harms(cache, call)[L], call, L)
      BY <1>1, PassIs DEF new
    <3>4. Harms(cache, call)[L][1] \in Harm /\ Bad <= Harms(cache, call)[L][1]
      BY <3>1, <3>2, <3>3 DEF Became, BecameAt
    <3>5. /\ Len(cache[L + 1]) + 1 \in 1..Len(new[L + 1])
          /\ new[L + 1][Len(cache[L + 1]) + 1] = Larger(Harms(cache, call)[L][1], RowHarm(call, L + 1))
      BY <1>10, <2>1, NewRow DEF new
    <3>6. Larger(Harms(cache, call)[L][1], RowHarm(call, L + 1)) # Good
      BY <3>4, HarmType DEF Larger, Harm, Good, Nan, Bad
    <3> QED BY <3>5, <3>6
  <2> QED BY <1>3, <1>10, <2>2, <2>3
<1> QED BY <1>7, <1>8, <1>9, <1>10 DEF Marked, new, L

LEMMA NotLost ==
  ASSUME NEW cache, NEW call, Decoding(cache, call), trial.defect # "lost", NEW l \in Layers
  PROVE  /\ Len(cache[l]) = SeenBy(step) /\ Len(After(cache, call)[l]) = trial.prompt + step
         /\ SeenBy(step) \in Nat /\ SeenBy(step) = IF step = 0 THEN 0 ELSE trial.prompt + step - 1
<1>1. ~Lost(l, step) /\ ~Lost(l, step + 1)
  BY DEF Lost
<1>2. Len(cache[l]) = SeenBy(step) - (IF Lost(l, step) THEN 1 ELSE 0)
  BY DecodingIs
<1>3. /\ SeenBy(step + 1) = trial.prompt + step
      /\ Len(After(cache, call)[l]) = SeenBy(step + 1) - (IF Lost(l, step + 1) THEN 1 ELSE 0)
  BY StepLengths
<1>4. trial.prompt \in Nat \ {0} /\ step \in Nat
  BY DecodingIs
<1>5. SeenBy(step) \in Nat /\ SeenBy(step) = IF step = 0 THEN 0 ELSE trial.prompt + step - 1
  BY <1>4 DEF SeenBy
<1>6. Len(cache[l]) = SeenBy(step) - 0 /\ Len(After(cache, call)[l]) = (trial.prompt + step) - 0
  BY <1>1, <1>2, <1>3
<1> QED BY <1>4, <1>5, <1>6

\* A defect that is always at work harms all tokens of a layer alike.
LEMMA MathRows ==
  ASSUME NEW cache, NEW call, Decoding(cache, call), trial.defect = "math"
  PROVE  \A l \in Layers : Same(After(cache, call)[l], IF l > trial.layer THEN Math ELSE Good)
<1>1. /\ Depth \in Nat \ {0} /\ Layers = 1..Depth /\ trial.layer \in 1..Depth
      /\ CallOK(call) /\ Typed(cache) /\ call.own = TRUE
  BY DecodingIs
<1> DEFINE v == [l \in 0..Depth |-> IF l >= trial.layer THEN Math ELSE Good]
           w == [l \in 0..Depth |-> IF l > trial.layer THEN Math ELSE Good]
<1>2. ASSUME NEW l \in 1..Depth
      PROVE  /\ v[l - 1] \in Harm /\ ~Strikes(call, l, "lost")
             /\ w[l] = Larger(v[l - 1], RowHarm(call, l)) /\ v[l] = Larger(w[l], OutHarm(call, l))
             /\ Same(cache[l], w[l])
  <2>1. l \in 0..Depth /\ l - 1 \in 0..Depth
    BY <1>1
  <2>2. /\ v[l - 1] = (IF l - 1 >= trial.layer THEN Math ELSE Good)
        /\ v[l] = (IF l >= trial.layer THEN Math ELSE Good)
        /\ w[l] = (IF l > trial.layer THEN Math ELSE Good)
    BY <2>1
  <2> HIDE DEF v, w
  <2>3. RowHarm(call, l) = Good /\ OutHarm(call, l) = (IF trial.layer = l THEN Math ELSE Good)
    BY <1>1, RowHarmWhere, OutHarmWhere
  <2>4. ~Strikes(call, l, "lost")
    BY StrikesAre
  <2>5. Same(cache[l], w[l])
    BY <1>1, <2>2 DEF Decoding, CacheIs, MarkedAlways
  <2>6. v[l - 1] \in Harm
    BY <2>2 DEF Harm, Good, Nan, Math
  <2>7. w[l] = Larger(v[l - 1], RowHarm(call, l)) /\ v[l] = Larger(w[l], OutHarm(call, l))
    BY <1>1, <2>2, <2>3 DEF Larger, Good, Math
  <2> QED BY <2>4, <2>5, <2>6, <2>7
<1>3. v[0] = Good /\ \A l \in 1..Depth : w[l] = IF l > trial.layer THEN Math ELSE Good
  BY <1>1
<1> HIDE DEF v, w
<1>4. Steady(cache, call, Depth, v, w)
  BY <1>2, <1>3 DEF Steady
<1>5. \A l \in 1..Depth : Same(After(cache, call)[l], w[l])
  BY <1>1, <1>4, Exactly
<1> QED BY <1>1, <1>3, <1>5

LEMMA BatchRows ==
  ASSUME NEW cache, NEW call, Decoding(cache, call), trial.defect = "batch", trial.prompt > 1, step = 0
  PROVE  \A l \in Layers : Same(After(cache, call)[l], IF l >= trial.layer THEN Bad ELSE Good)
<1>1. /\ Depth \in Nat \ {0} /\ Layers = 1..Depth /\ trial.layer \in 1..Depth
      /\ CallOK(call) /\ Typed(cache) /\ call.own = TRUE /\ call.n > 1
  BY DecodingIs
<1>2. \A l \in Layers : Len(cache[l]) = 0
  BY NotLost
<1> DEFINE v == [l \in 0..Depth |-> IF l >= trial.layer THEN Bad ELSE Good]
<1>3. ASSUME NEW l \in 1..Depth
      PROVE  /\ v[l - 1] \in Harm /\ ~Strikes(call, l, "lost")
             /\ v[l] = Larger(v[l - 1], RowHarm(call, l)) /\ v[l] = Larger(v[l], OutHarm(call, l))
             /\ Same(cache[l], v[l])
  <2>1. l \in 0..Depth /\ l - 1 \in 0..Depth
    BY <1>1
  <2>2. /\ v[l - 1] = (IF l - 1 >= trial.layer THEN Bad ELSE Good)
        /\ v[l] = (IF l >= trial.layer THEN Bad ELSE Good)
    BY <2>1
  <2> HIDE DEF v
  <2>3. RowHarm(call, l) = (IF trial.layer = l THEN Bad ELSE Good) /\ OutHarm(call, l) = Good
    BY <1>1, RowHarmWhere, OutHarmWhere
  <2>4. ~Strikes(call, l, "lost")
    BY StrikesAre
  <2>5. Same(cache[l], v[l])
    BY <1>1, <1>2 DEF Same
  <2>6. v[l - 1] \in Harm
    BY <2>2 DEF Harm, Good, Nan, Bad
  <2>7. v[l] = Larger(v[l - 1], RowHarm(call, l)) /\ v[l] = Larger(v[l], OutHarm(call, l))
    BY <1>1, <2>2, <2>3 DEF Larger, Good, Bad
  <2> QED BY <2>4, <2>5, <2>6, <2>7
<1>4. v[0] = Good /\ \A l \in 1..Depth : v[l] = IF l >= trial.layer THEN Bad ELSE Good
  BY <1>1
<1> HIDE DEF v
<1>5. Steady(cache, call, Depth, v, v)
  BY <1>3, <1>4 DEF Steady
<1>6. \A l \in 1..Depth : Same(After(cache, call)[l], v[l])
  BY <1>1, <1>5, Exactly
<1> QED BY <1>1, <1>4, <1>6

LEMMA StaysMarkedAlways ==
  ASSUME NEW cache, NEW call, Decoding(cache, call)
  PROVE  MarkedAlways(After(cache, call), step + 1)
<1> DEFINE new == After(cache, call)[trial.layer]
<1>1. /\ Depth \in Nat \ {0} /\ Layers = 1..Depth /\ trial.layer \in Layers
      /\ trial.prompt \in Nat \ {0} /\ step \in Nat
      /\ CallOK(call) /\ Typed(cache) /\ call.n \in Nat \ {0}
      /\ call.n = (IF step = 0 THEN trial.prompt ELSE 1)
  BY DecodingIs
<1>2. ASSUME trial.defect = "batch", trial.prompt > 1, step + 1 = 1
      PROVE  \A l \in Layers : Same(After(cache, call)[l], IF l >= trial.layer THEN Bad ELSE Good)
  <2>1. step = 0
    BY <1>1, <1>2
  <2> QED BY <1>2, <2>1, BatchRows
<1>3. ASSUME trial.defect = "batch", trial.prompt > 1, NEW p \in 1..Len(new)
      PROVE  new[p] = IF p <= trial.prompt THEN Bad ELSE Good
  <2>1. Len(new) = trial.prompt + step
    BY <1>1, <1>3, NotLost
  <2>2. CASE step = 0
    <3>1. Same(new, Bad)
      BY <1>1, <1>3, <2>2, BatchRows
    <3> HIDE DEF new
    <3> QED BY <1>1, <2>1, <2>2, <3>1 DEF Same
  <2>3. CASE step > 0
    <3>1. Len(cache[trial.layer]) = trial.prompt + step - 1 /\ call.n = 1
      BY <1>1, <1>3, <2>3, NotLost
    <3>2. CASE p <= Len(cache[trial.layer])
      <4>1. p \in 1..Len(cache[trial.layer])
        BY <3>1, <3>2, <1>1
      <4>2. new[p] = cache[trial.layer][p]
        BY <1>1, <1>3, <4>1, OldRow
      <4>3. cache[trial.layer][p] = IF p <= trial.prompt THEN Bad ELSE Good
        BY <1>3, <4>1 DEF Decoding, CacheIs, MarkedAlways
      <4> QED BY <4>2, <4>3
    <3>3. CASE p > Len(cache[trial.layer])
      <4>1. p = Len(cache[trial.layer]) + 1 /\ ~(p <= trial.prompt)
        <5> HIDE DEF new
        <5> QED BY <3>1, <3>3, <2>1, <2>3, <1>1
      <4>2. Harms(cache, call)[trial.layer - 1][1] = Good
        BY BelowIsGood
      <4>3. RowHarm(call, trial.layer) = Good
        BY <1>3, <3>1, RowHarmWhere
      <4>4. new[p] = Larger(Good, Good)
        BY <1>1, <1>3, <4>1, <4>2, <4>3, NewRow
      <4> QED BY <4>1, <4>4 DEF Larger
    <3> QED BY <3>1, <3>2, <3>3, <1>1, <2>1
  <2> QED BY <1>1, <2>2, <2>3
<1>4. trial.defect = "math" =>
        \A l \in Layers : Same(After(cache, call)[l], IF l > trial.layer THEN Math ELSE Good)
  BY MathRows
<1> QED BY <1>2, <1>3, <1>4 DEF MarkedAlways

LEMMA CacheStep ==
  ASSUME NEW cache, NEW call, Decoding(cache, call)
  PROVE  CacheIs(After(cache, call), step + 1)
<1>1. Typed(After(cache, call))
  BY DecodingIs, PassIs
<1>2. \A l \in Layers :
        Len(After(cache, call)[l]) = SeenBy(step + 1) - (IF Lost(l, step + 1) THEN 1 ELSE 0)
  BY StepLengths
<1>3. \A l \in Layers : l < trial.layer => AllGood(After(cache, call)[l])
  BY BelowIsGood
<1>4. Harmless(step + 1) => \A l \in Layers : AllGood(After(cache, call)[l])
  BY StaysGood
<1>5. trial.defect \notin {"nan", "batchnan"} => \A l \in Layers : Clear(After(cache, call)[l])
  BY StaysClear
<1>6. Marked(After(cache, call), step + 1) /\ MarkedAlways(After(cache, call), step + 1)
  BY StaysMarked, StaysMarkedAlways
<1> QED BY <1>1, <1>2, <1>3, <1>4, <1>5, <1>6 DEF CacheIs

-----------------------------------------------------------------------------
(* What a comparison of two caches says.                                   *)

LEMMA RowsEqual ==
  ASSUME NEW r \in Seq(Harm), NEW q \in Seq(Harm), Len(r) = Len(q),
         \A p \in 1..Len(r) : r[p] = q[p]
  PROVE  r = q
<1>1. /\ r = [p \in 1..Len(r) |-> r[p]] /\ q = [p \in 1..Len(q) |-> q[p]]
  OBVIOUS
<1> QED BY <1>1

LEMMA NanSet ==
  ASSUME NEW r \in Seq(Harm), NEW q \in Seq(Harm)
  PROVE  Nan \in ToSet(r \o q) <=> ~Clear(r) \/ ~Clear(q)
<1>1. /\ Len(r) \in Nat /\ Len(q) \in Nat /\ DOMAIN (r \o q) = 1..(Len(r) + Len(q))
      /\ \A p \in 1..Len(r) : (r \o q)[p] = r[p]
      /\ \A p \in 1..Len(q) : (r \o q)[Len(r) + p] = q[p]
  OBVIOUS
<1>2. ASSUME Nan \in ToSet(r \o q) PROVE ~Clear(r) \/ ~Clear(q)
  <2>1. PICK p \in 1..(Len(r) + Len(q)) : (r \o q)[p] = Nan
    BY <1>1, <1>2 DEF ToSet
  <2>2. CASE p <= Len(r)
    <3>1. p \in 1..Len(r) /\ r[p] = Nan
      BY <1>1, <2>1, <2>2
    <3> QED BY <3>1 DEF Clear
  <2>3. CASE p > Len(r)
    <3> DEFINE i == p - Len(r)
    <3>1. i \in 1..Len(q) /\ p = Len(r) + i
      BY <1>1, <2>3
    <3> HIDE DEF i
    <3>2. q[i] = Nan
      BY <1>1, <2>1, <3>1
    <3> QED BY <3>1, <3>2 DEF Clear
  <2> QED BY <1>1, <2>2, <2>3
<1>3. ASSUME NEW p \in 1..Len(r), r[p] = Nan PROVE Nan \in ToSet(r \o q)
  <2>1. p \in DOMAIN (r \o q) /\ (r \o q)[p] = Nan
    BY <1>1, <1>3
  <2> QED BY <2>1 DEF ToSet
<1>4. ASSUME NEW p \in 1..Len(q), q[p] = Nan PROVE Nan \in ToSet(r \o q)
  <2>1. Len(r) + p \in DOMAIN (r \o q) /\ (r \o q)[Len(r) + p] = Nan
    BY <1>1, <1>4
  <2> QED BY <2>1 DEF ToSet
<1> QED BY <1>2, <1>3, <1>4 DEF Clear

LEMMA HasNanIs ==
  ASSUME NEW c
  PROVE  HasNan(c) <=> \E l \in Layers : Nan \in ToSet(c[l])
  BY DEF HasNan

LEMMA NanHere ==
  ASSUME NEW r \in Seq(Harm)
  PROVE  Nan \in ToSet(r) <=> ~Clear(r)
  BY DEF ToSet, Clear

\* Rows that are alike, or are NaN in one of the two, do not differ.
LEMMA KvOk ==
  ASSUME NEW a, NEW b, Typed(a), Typed(b),
         \A l \in Layers : /\ Len(a[l]) = Len(b[l])
                           /\ \/ \A p \in 1..Len(a[l]) : a[l][p] = b[l][p]
                              \/ ~Clear(b[l])
  PROVE  KvCompare(a, b) = "ok"
<1>1. ASSUME NEW l \in Layers PROVE a[l] = b[l] \/ Nan \in ToSet(a[l] \o b[l])
  <2>1. a[l] \in Seq(Harm) /\ b[l] \in Seq(Harm)
    BY DEF Typed
  <2>2. CASE \A p \in 1..Len(a[l]) : a[l][p] = b[l][p]
    BY <2>1, <2>2, RowsEqual
  <2>3. CASE ~Clear(b[l])
    BY <2>1, <2>3, NanSet
  <2> QED BY <2>2, <2>3
<1> QED BY <1>1 DEF KvCompare

\* Equal lengths: no shape.
LEMMA KvSameShape ==
  ASSUME NEW a, NEW b, \A l \in Layers : Len(a[l]) = Len(b[l])
  PROVE  KvCompare(a, b) # "shape"
  BY DEF KvCompare

\* One row that differs, and no NaN.
LEMMA KvDiffers ==
  ASSUME NEW a, NEW b, Typed(a), Typed(b), NEW l \in Layers, Clear(a[l]), Clear(b[l]),
         Len(a[l]) # Len(b[l]) \/ \E p \in 1..Len(a[l]) : a[l][p] # b[l][p]
  PROVE  KvCompare(a, b) # "ok"
<1>1. a[l] \in Seq(Harm) /\ b[l] \in Seq(Harm)
  BY DEF Typed
<1>2. Nan \notin ToSet(a[l] \o b[l])
  BY <1>1, NanSet
<1>3. a[l] # b[l] \/ Len(a[l]) # Len(b[l])
  OBVIOUS
<1> QED BY <1>2, <1>3 DEF KvCompare

LEMMA LogitsAre ==
  ASSUME NEW cache, Typed(cache), NEW call, CallOK(call),
         \A i \in 1..call.n : Harms(cache, call)[Depth][i] # Nan
  PROVE  ForwardPass(cache, call).logits # Nan
<1> DEFINE x == Harms(cache, call)[Depth][call.n]
           y == IF trial.defect = "head" /\ call.own THEN Bad ELSE Good
<1>1. ForwardPass(cache, call).logits = Max({x, y})
  BY DEF ForwardPass
<1>2. Depth \in Layers /\ call.n \in 1..call.n
  BY TrialAssumption DEF Layers, CallOK
<1>3. x \in Harm /\ x # Nan
  BY <1>2, PassIs
<1>4. y \in Harm /\ y # Nan
  BY DEF Harm, Good, Bad, Nan
<1> HIDE DEF x, y
<1>5. Max({x, y}) \in {x, y}
  BY <1>3, <1>4, MaxIs
<1> QED BY <1>1, <1>3, <1>4, <1>5

LEMMA PassParts ==
  ASSUME NEW cache, NEW call
  PROVE  ForwardPass(cache, call).cache = After(cache, call)
  BY DEF After

\* Caches without harm are what is recomputed, whether by the host or the subject.
LEMMA GoodIsRecomputed ==
  ASSUME DecodeTrial, NEW own \in BOOLEAN, NEW c, Typed(c),
         \A l \in Layers : Len(c[l]) = trial.prompt + step,
         \A l \in Layers : AllGood(c[l]),
         \/ own = FALSE \/ trial.defect \notin {"math", "batch", "batchnan"}
         \/ trial.defect = "math" /\ trial.layer = Depth
         \/ trial.defect = "batch" /\ trial.prompt = 1 /\ step = 0
         \/ trial.defect = "batchnan" /\ trial.prompt = 1
  PROVE  KvCompare(c, Recomputed(own)) = "ok"
<1>1. /\ Consumed(step) = trial.prompt + step /\ Consumed(step) \in Nat \ {0}
      /\ Typed(Recomputed(own))
      /\ \A l \in Layers : /\ Len(Recomputed(own)[l]) = trial.prompt + step
                           /\ Same(Recomputed(own)[l], RecHarm(own, Consumed(step), l))
  BY RecomputedIs DEF Consumed
<1>2. Depth \in Nat /\ Layers = 1..Depth
  BY TrialAssumption DEF Layers
<1>3. \A l \in Layers : RecHarm(own, Consumed(step), l) \in {Good, Nan}
  BY <1>1, <1>2 DEF RecHarm
<1>4. ASSUME NEW l \in Layers
      PROVE  /\ Len(c[l]) = Len(Recomputed(own)[l])
             /\ \/ \A p \in 1..Len(c[l]) : c[l][p] = Recomputed(own)[l][p]
                \/ ~Clear(Recomputed(own)[l])
  <2>1. Len(c[l]) = Len(Recomputed(own)[l])
    BY <1>1
  <2>2. CASE RecHarm(own, Consumed(step), l) = Good
    <3>1. \A p \in 1..Len(c[l]) : c[l][p] = Recomputed(own)[l][p]
      BY <1>1, <2>1, <2>2 DEF Same, AllGood
    <3> QED BY <2>1, <3>1
  <2>3. CASE RecHarm(own, Consumed(step), l) = Nan
    <3>1. 1 \in 1..Len(Recomputed(own)[l])
      BY <1>1
    <3>2. ~Clear(Recomputed(own)[l])
      BY <1>1, <2>3, <3>1 DEF Same, Clear
    <3> QED BY <2>1, <3>2
  <2> QED BY <1>3, <2>2, <2>3
<1> QED BY <1>1, <1>4, KvOk

\* ... and such a step does not fail.
LEMMA HarmlessPasses ==
  ASSUME NEW cache, NEW call, Decoding(cache, call), Harmless(step + 1),
         \/ trial.defect \notin {"math", "batch", "batchnan"}
         \/ trial.defect = "math" /\ trial.layer = Depth
         \/ trial.defect = "batch" /\ trial.prompt = 1 /\ step = 0
         \/ trial.defect = "batchnan" /\ trial.prompt = 1
  PROVE  ~Fails(ForwardPass(cache, call))
<1> DEFINE f == ForwardPass(cache, call)
           c == After(cache, call)
<1>1. CacheIs(c, step + 1)
  BY CacheStep
<1>2. /\ DecodeTrial /\ trial.prompt \in Nat \ {0} /\ step \in Nat /\ trial.at \in Nat
      /\ CallOK(call) /\ Typed(cache) /\ call.n = (IF step = 0 THEN trial.prompt ELSE 1)
  BY DecodingIs DEF Decoding
<1>3. f.cache = c
  BY PassParts
<1>4. Typed(c) /\ \A l \in Layers : AllGood(c[l])
  BY <1>1 DEF CacheIs
<1>5. ~Strikes(call, trial.layer, "lost")
  BY <1>2, StrikesAre DEF Harmless, OnceKinds
<1>6. \A l \in Layers : Len(c[l]) = trial.prompt + step
  <2>1. \A l \in Layers : ~Lost(l, step + 1)
    BY <1>2 DEF Lost, Harmless, OnceKinds
  <2>2. SeenBy(step + 1) = trial.prompt + step
    BY StepLengths
  <2>3. \A l \in Layers : Len(c[l]) = SeenBy(step + 1) - (IF Lost(l, step + 1) THEN 1 ELSE 0)
    BY StepLengths
  <2>4. \A l \in Layers : Len(c[l]) = (trial.prompt + step) - 0
    BY <2>1, <2>2, <2>3
  <2> QED BY <2>4, <1>2
<1>7. \A i \in 1..call.n : Harms(cache, call)[Depth][i] # Nan
  <2>1. \A l \in Layers : RowHarm(call, l) # Nan
    BY <1>2, RowHarmWhere DEF Harmless, OnceKinds, Good, Bad, Nan
  <2>2. Harmless(step)
    BY <1>2 DEF Harmless, OnceKinds
  <2>3. \A l \in Layers : Clear(cache[l])
    BY <2>2 DEF Decoding, CacheIs, AllGood, Clear, Good, Nan
  <2> QED BY <1>2, <2>1, <2>3, NoNan
<1>8. f.logits # Nan
  BY <1>2, <1>7, LogitsAre
<1>9. ~HasNan(c)
  <2>1. \A l \in Layers : c[l] \in Seq(Harm) /\ Clear(c[l])
    BY <1>4 DEF Typed, AllGood, Clear, Good, Nan
  <2>2. \A l \in Layers : Nan \notin ToSet(c[l])
    BY <2>1, NanHere
  <2> QED BY <2>2 DEF HasNan
<1>10. KvCompare(c, Recomputed(TRUE)) = "ok" /\ KvCompare(c, Recomputed(FALSE)) = "ok"
  BY <1>2, <1>4, <1>6, GoodIsRecomputed
<1> HIDE DEF f, c
<1>11. Seen(f) = "ok" /\ SeenToo(f) = "ok"
  BY <1>3, <1>10 DEF Seen, SeenToo
<1> QED BY <1>3, <1>8, <1>9, <1>11 DEF Fails, f

\* A defect at work all the time that is not looked for with exactness.
LEMMA InexactPasses ==
  ASSUME NEW cache, NEW call, Decoding(cache, call), ~(trial.resident /\ trial.exact),
         trial.defect = "math" \/ (trial.defect = "batch" /\ trial.prompt > 1 /\ step = 0)
  PROVE  ~Fails(ForwardPass(cache, call))
<1> DEFINE f == ForwardPass(cache, call)
           c == After(cache, call)
<1>1. CacheIs(c, step + 1)
  BY CacheStep
<1>2. /\ DecodeTrial /\ trial.prompt \in Nat \ {0} /\ step \in Nat
      /\ CallOK(call) /\ Typed(cache) /\ trial.layer \in Layers
  BY DecodingIs DEF Decoding
<1>3. f.cache = c
  BY PassParts
<1>4. Typed(c) /\ \A l \in Layers : Clear(c[l]) /\ Len(c[l]) = trial.prompt + step
  <2>1. \A l \in Layers : Len(c[l]) = trial.prompt + step
    BY NotLost
  <2>2. trial.defect \notin {"nan", "batchnan"}
    OBVIOUS
  <2> QED BY <1>1, <2>1, <2>2 DEF CacheIs
<1>5. f.logits # Nan
  BY <1>2, StaysClear, LogitsAre
<1>6. ~HasNan(c)
  <2>1. \A l \in Layers : c[l] \in Seq(Harm) /\ Clear(c[l])
    BY <1>4 DEF Typed
  <2>2. \A l \in Layers : Nan \notin ToSet(c[l])
    BY <2>1, NanHere
  <2> QED BY <2>2 DEF HasNan
<1>7. \A own \in BOOLEAN : /\ Consumed(step) = trial.prompt + step /\ Typed(Recomputed(own))
                           /\ \A l \in Layers : /\ Len(Recomputed(own)[l]) = trial.prompt + step
                                                /\ Same(Recomputed(own)[l], RecHarm(own, Consumed(step), l))
  BY <1>2, RecomputedIs DEF Consumed
<1>8. \A l \in Layers : Same(c[l], RecHarm(TRUE, Consumed(step), l))
  <2>1. CASE trial.defect = "math"
    <3>1. \A l \in Layers : RecHarm(TRUE, Consumed(step), l) = IF l > trial.layer THEN Math ELSE Good
      BY <2>1 DEF RecHarm
    <3> QED BY <2>1, <3>1, MathRows
  <2>2. CASE trial.defect = "batch" /\ trial.prompt > 1 /\ step = 0
    <3>1. Consumed(step) > 1
      BY <1>2, <2>2 DEF Consumed
    <3>2. \A l \in Layers : RecHarm(TRUE, Consumed(step), l) = IF l >= trial.layer THEN Bad ELSE Good
      BY <2>2, <3>1 DEF RecHarm
    <3> QED BY <2>2, <3>2, BatchRows
  <2> QED BY <2>1, <2>2
<1>9. KvCompare(c, Recomputed(TRUE)) = "ok"
  <2>1. \A l \in Layers : /\ Len(c[l]) = Len(Recomputed(TRUE)[l])
                          /\ \A p \in 1..Len(c[l]) : c[l][p] = Recomputed(TRUE)[l][p]
    BY <1>4, <1>7, <1>8 DEF Same
  <2> QED BY <1>4, <1>7, <2>1, KvOk
<1>10. KvCompare(c, Recomputed(FALSE)) # "shape"
  BY <1>4, <1>7, KvSameShape
<1> HIDE DEF f, c
<1>11. Seen(f) = "ok"
  BY <1>3, <1>9 DEF Seen
<1>12. SeenToo(f) # "ok" => ~trial.exact /\ SeenToo(f) # "shape"
  <2>1. CASE trial.resident
    <3>1. ~trial.exact
      BY <2>1
    <3> QED BY <1>3, <1>10, <1>11, <3>1 DEF SeenToo
  <2>2. CASE ~trial.resident
    BY <1>11, <2>2 DEF SeenToo
  <2> QED BY <2>1, <2>2
<1> QED BY <1>3, <1>5, <1>6, <1>11, <1>12 DEF Fails, f

\* No step of a trial whose defect leaves no trace fails.
LEMMA BlindPasses ==
  ASSUME NEW cache, NEW call, Decoding(cache, call), step < trial.steps, DecodeBlind
  PROVE  ~Fails(ForwardPass(cache, call))
<1>1. /\ trial.prompt \in Nat \ {0} /\ trial.steps \in Nat /\ trial.at \in Nat /\ step \in Nat
  BY DecodingIs
<1>2. CASE trial.defect \in {"none", "head"}
  BY <1>2, HarmlessPasses DEF Harmless
<1>3. CASE trial.defect \in {"store", "read", "lost", "nan"} /\ trial.at >= trial.steps
  <2>1. Harmless(step + 1)
    BY <1>1, <1>3 DEF Harmless, OnceKinds
  <2> QED BY <1>3, <2>1, HarmlessPasses
<1>4. CASE trial.defect = "read" /\ trial.layer = Depth
  BY <1>4, HarmlessPasses DEF Harmless
<1>5. CASE trial.defect = "math" /\ (~trial.resident \/ ~trial.exact \/ trial.layer = Depth)
  <2>1. CASE trial.layer = Depth
    BY <1>5, <2>1, HarmlessPasses DEF Harmless
  <2>2. CASE trial.layer # Depth
    BY <1>5, <2>2, InexactPasses
  <2> QED BY <2>1, <2>2
<1>6. CASE trial.defect = "batch" /\ IF trial.prompt = 1 THEN trial.steps = 1
                                     ELSE trial.steps = 1 /\ ~(trial.resident /\ trial.exact)
  <2>1. step = 0
    BY <1>1, <1>6
  <2>2. CASE trial.prompt = 1
    BY <1>6, <2>1, <2>2, HarmlessPasses DEF Harmless
  <2>3. CASE trial.prompt # 1
    <3>1. trial.prompt > 1
      BY <1>1, <2>3
    <3> QED BY <1>6, <2>1, <2>3, <3>1, InexactPasses
  <2> QED BY <2>2, <2>3
<1>7. CASE trial.defect = "batchnan" /\ trial.prompt = 1
  BY <1>7, HarmlessPasses DEF Harmless
<1>8. trial.steps # 0
  BY <1>1
<1> QED BY <1>2, <1>3, <1>4, <1>5, <1>6, <1>7, <1>8 DEF DecodeBlind

\* The last step of a trial with any other defect fails, whatever the cadence.
LEMMA ShownAtLast ==
  ASSUME NEW cache, NEW call, Decoding(cache, call), trial.steps = step + 1, ~DecodeBlind
  PROVE  Fails(ForwardPass(cache, call))
<1> DEFINE f == ForwardPass(cache, call)
           c == After(cache, call)
           L == trial.layer
<1>1. /\ CacheIs(c, step + 1) /\ Typed(c)
  BY CacheStep DEF CacheIs
<1>2. /\ DecodeTrial /\ Depth \in Nat \ {0} /\ Layers = 1..Depth /\ L \in 1..Depth
      /\ trial.prompt \in Nat \ {0} /\ step \in Nat /\ trial.at \in Nat /\ trial.steps = step + 1
  BY DecodingIs DEF Decoding
<1>3. f.cache = c
  BY PassParts
<1>4. Compared(step)
  BY <1>2 DEF Compared
<1>5. \A own \in BOOLEAN : /\ Consumed(step) = trial.prompt + step /\ Typed(Recomputed(own))
                           /\ \A l \in Layers : /\ Len(Recomputed(own)[l]) = trial.prompt + step
                                                /\ Same(Recomputed(own)[l], RecHarm(own, Consumed(step), l))
  BY <1>2, RecomputedIs DEF Consumed
<1>6. trial.defect # "lost" => \A l \in Layers : Len(c[l]) = trial.prompt + step
  BY NotLost
<1>7. trial.defect \notin {"nan", "batchnan"} => \A l \in Layers : Clear(c[l])
  BY <1>1 DEF CacheIs
<1> SUFFICES Fails(f)
  OBVIOUS
<1> HIDE DEF f, c, L
<1>8. KvCompare(c, Recomputed(TRUE)) # "ok" => Fails(f)
  BY <1>3, <1>4 DEF Fails, Seen
<1>9. trial.resident /\ trial.exact /\ KvCompare(c, Recomputed(FALSE)) # "ok" => Fails(f)
  BY <1>3, <1>4 DEF Fails, SeenToo
<1>10. ASSUME NEW l \in Layers, NEW p \in 1..Len(c[l]), c[l][p] = Nan PROVE Fails(f)
  <2>1. c[l] \in Seq(Harm) /\ ~Clear(c[l])
    BY <1>1, <1>10 DEF Typed, Clear
  <2>2. Nan \in ToSet(c[l])
    BY <2>1, NanHere
  <2> QED BY <1>3, <2>2 DEF Fails, HasNan
\* A row that is not what is recomputed shows.
<1>11. ASSUME NEW own \in BOOLEAN, NEW l \in Layers, trial.defect \notin {"nan", "batchnan"},
              \/ Len(c[l]) # trial.prompt + step
              \/ \E p \in 1..Len(c[l]) : /\ p \in 1..(trial.prompt + step)
                                         /\ c[l][p] # RecHarm(own, Consumed(step), l)
       PROVE  KvCompare(c, Recomputed(own)) # "ok"
  <2>1. RecHarm(own, Consumed(step), l) # Nan
    BY <1>11 DEF RecHarm, Math, Bad, Good, Nan
  <2>2. Clear(Recomputed(own)[l])
    BY <1>5, <2>1 DEF Same, Clear
  <2>3. Len(c[l]) # Len(Recomputed(own)[l]) \/ \E p \in 1..Len(c[l]) : c[l][p] # Recomputed(own)[l][p]
    <3>1. CASE Len(c[l]) # trial.prompt + step
      BY <1>5, <3>1
    <3>2. CASE \E p \in 1..Len(c[l]) : /\ p \in 1..(trial.prompt + step)
                                       /\ c[l][p] # RecHarm(own, Consumed(step), l)
      BY <1>5, <3>2 DEF Same
    <3> QED BY <1>11, <3>1, <3>2
  <2>4. Clear(c[l])
    BY <1>7, <1>11
  <2> QED BY <1>1, <1>5, <2>2, <2>3, <2>4, KvDiffers
<1>12. CASE trial.defect = "store" /\ trial.at < step + 1
  <2>1. PICK p \in 1..Len(c[L]) : c[L][p] = Bad
    BY <1>1, <1>12 DEF CacheIs, Marked, L
  <2>2. L \in Layers /\ p \in 1..(trial.prompt + step)
    BY <1>2, <1>6, <1>12
  <2>3. RecHarm(TRUE, Consumed(step), L) = Good /\ Bad # Good
    BY <1>12 DEF RecHarm, Bad, Good
  <2>4. KvCompare(c, Recomputed(TRUE)) # "ok"
    BY <1>11, <1>12, <2>1, <2>2, <2>3
  <2> QED BY <1>8, <2>4
<1>13. CASE trial.defect = "read" /\ trial.at < step + 1 /\ L < Depth
  <2>1. PICK p \in 1..Len(c[L + 1]) : c[L + 1][p] # Good
    BY <1>1, <1>13 DEF CacheIs, Marked, L
  <2>2. L + 1 \in Layers
    BY <1>2, <1>13
  <2>3. p \in 1..(trial.prompt + step)
    BY <1>6, <1>13, <2>2
  <2>4. RecHarm(TRUE, Consumed(step), L + 1) = Good
    BY <1>13 DEF RecHarm
  <2>5. KvCompare(c, Recomputed(TRUE)) # "ok"
    BY <1>11, <1>13, <2>1, <2>2, <2>3, <2>4
  <2> QED BY <1>8, <2>5
<1>14. CASE trial.defect = "lost" /\ trial.at < step + 1
  <2>1. Lost(L, step + 1)
    BY <1>14 DEF Lost, L
  <2>2. /\ SeenBy(step + 1) = trial.prompt + step
        /\ Len(c[L]) = SeenBy(step + 1) - (IF Lost(L, step + 1) THEN 1 ELSE 0)
    BY <1>2, StepLengths DEF c
  <2>3. Len(c[L]) = (trial.prompt + step) - 1
    BY <2>1, <2>2
  <2>4. Len(c[L]) # trial.prompt + step /\ L \in Layers
    BY <1>2, <2>3
  <2>5. KvCompare(c, Recomputed(TRUE)) # "ok"
    BY <1>11, <1>14, <2>4
  <2> QED BY <1>8, <2>5
<1>15. CASE trial.defect = "nan" /\ trial.at < step + 1
  <2>1. PICK p \in 1..Len(c[L]) : c[L][p] = Nan
    BY <1>1, <1>15 DEF CacheIs, Marked, L
  <2> QED BY <1>2, <1>10, <2>1
<1>16. CASE trial.defect = "batchnan" /\ trial.prompt > 1
  <2>1. step + 1 > 0
    BY <1>2
  <2>2. PICK p \in 1..Len(c[L]) : c[L][p] = Nan
    BY <1>1, <1>16, <2>1 DEF CacheIs, Marked, L
  <2> QED BY <1>2, <1>10, <2>2
<1>17. CASE trial.defect = "batch" /\ step > 0
  <2>1. Len(c[L]) = trial.prompt + step /\ L \in Layers
    BY <1>2, <1>6, <1>17
  <2>2. RecHarm(TRUE, Consumed(step), L) = Bad
    <3>1. Consumed(step) > 1 /\ L >= L
      BY <1>2, <1>17 DEF Consumed
    <3> QED BY <1>17, <3>1 DEF RecHarm, L
  <2> DEFINE q == trial.prompt + 1
  <2>3. q \in 1..Len(c[L]) /\ q \in 1..(trial.prompt + step) /\ ~(q <= trial.prompt)
    BY <1>2, <1>17, <2>1
  <2> HIDE DEF q
  <2>4. c[L][q] = Good
    <3>1. CASE trial.prompt = 1
      <4>1. Harmless(step + 1)
        BY <1>17, <3>1 DEF Harmless
      <4>2. AllGood(c[L])
        BY <1>1, <2>1, <4>1 DEF CacheIs
      <4> QED BY <2>3, <4>2 DEF AllGood
    <3>2. CASE trial.prompt > 1
      BY <1>1, <1>17, <2>3, <3>2 DEF CacheIs, MarkedAlways, L
    <3> QED BY <1>2, <3>1, <3>2
  <2>5. c[L][q] # RecHarm(TRUE, Consumed(step), L)
    <3>1. Good # Bad
      BY DEF Good, Bad
    <3> QED BY <2>2, <2>4, <3>1
  <2>6. KvCompare(c, Recomputed(TRUE)) # "ok"
    BY <1>11, <1>17, <2>1, <2>3, <2>5
  <2> QED BY <1>8, <2>6
<1>18. CASE trial.defect = "batch" /\ step = 0 /\ trial.prompt > 1 /\ trial.resident /\ trial.exact
  <2>1. Len(c[L]) = trial.prompt + step /\ L \in Layers
    BY <1>2, <1>6, <1>18
  <2>2. 1 \in 1..Len(c[L]) /\ 1 \in 1..(trial.prompt + step) /\ 1 <= trial.prompt
    BY <1>2, <2>1
  <2>3. c[L][1] = Bad
    BY <1>1, <1>18, <2>2 DEF CacheIs, MarkedAlways, L
  <2>4. RecHarm(FALSE, Consumed(step), L) = Good /\ Bad # Good
    BY DEF RecHarm, Bad, Good
  <2>5. KvCompare(c, Recomputed(FALSE)) # "ok"
    BY <1>11, <1>18, <2>1, <2>2, <2>3, <2>4
  <2> QED BY <1>9, <1>18, <2>5
<1>19. CASE trial.defect = "math" /\ trial.resident /\ trial.exact /\ L < Depth
  <2>1. L + 1 \in Layers /\ L + 1 > L
    BY <1>2, <1>19
  <2>2. Len(c[L + 1]) = trial.prompt + step
    BY <1>6, <1>19, <2>1
  <2>3. 1 \in 1..Len(c[L + 1]) /\ 1 \in 1..(trial.prompt + step)
    BY <1>2, <2>2
  <2>4. Same(c[L + 1], Math)
    BY <1>1, <1>19, <2>1 DEF CacheIs, MarkedAlways, L
  <2>5. c[L + 1][1] = Math
    BY <2>3, <2>4 DEF Same
  <2>6. RecHarm(FALSE, Consumed(step), L + 1) = Good /\ Math # Good
    BY DEF RecHarm, Math, Good
  <2>7. KvCompare(c, Recomputed(FALSE)) # "ok"
    BY <1>11, <1>19, <2>1, <2>3, <2>5, <2>6
  <2> QED BY <1>9, <1>19, <2>7
<1>20. trial.defect \in OnceKinds \cup {"none", "head", "batch", "batchnan", "math"}
  BY <1>2 DEF DecodeTrial, DecodeKinds
<1>21. /\ trial.defect \notin {"none", "head"}
       /\ trial.defect \in OnceKinds => trial.at < step + 1
       /\ trial.defect = "read" => L # Depth
       /\ trial.defect = "math" => trial.resident /\ trial.exact /\ L # Depth
       /\ trial.defect = "batch" => \/ step > 0
                                    \/ step = 0 /\ trial.prompt # 1 /\ trial.resident /\ trial.exact
       /\ trial.defect = "batchnan" => trial.prompt # 1
  BY <1>2 DEF DecodeBlind, OnceKinds, L
<1>22. L < Depth <=> L # Depth
  BY <1>2
<1>23. trial.prompt > 1 <=> trial.prompt # 1
  BY <1>2
<1> QED
  BY <1>12, <1>13, <1>14, <1>15, <1>16, <1>17, <1>18, <1>19, <1>20, <1>21, <1>22, <1>23 DEF OnceKinds

-----------------------------------------------------------------------------
(* gr_referee: what a replay leaves, and when it shows.                    *)

LEMMA MaxTop ==
  ASSUME NEW S \in SUBSET Int, NEW m \in S, \A y \in S : y <= m
  PROVE  Max(S) = m
<1>1. \A y \in S : m >= y
  OBVIOUS
<1>2. \A x \in S : (\A y \in S : x >= y) => x = m
  OBVIOUS
<1> QED BY <1>1, <1>2 DEF Max

GraphKinds == {"none", "slot", "len", "input", "leak", "stray"}
GraphTrial == /\ TrialOK /\ trial.defect \in GraphKinds /\ trial.steps >= 2 /\ trial.at >= 1
              /\ step \in Nat

\* Rows of the eager arm and of the graph arm after s replays that did not show.
EagerRows(rows, n) == rows \in Seq(Harm) /\ Len(rows) = n /\ AllGood(rows)
WasStruck(l, s) == trial.defect = "stray" /\ trial.layer = l /\ trial.at = s
GraphRows(rows, n, l, s) ==
  /\ rows \in Seq(Harm) /\ Len(rows) = n
  /\ \A p \in 1..Len(rows) : rows[p] = IF p = 1 /\ WasStruck(l, s) THEN Bad ELSE Good
GraphClean(o, w, d, s) ==
  /\ trial.defect \in {"slot", "input"} => s <= 2
  /\ trial.defect \in {"len", "leak"} => s <= 1
  /\ trial.defect = "stray" => s <= trial.at + 1
  /\ d = trial.prompt + s - 1
  /\ \A l \in Layers : EagerRows(o[l], d) /\ GraphRows(w[l], d, l, s - 1)

\* A replay, and what it is checked for.
NextOne == [l \in Layers |-> Append(one[l], Good)]
NextTwo == [l \in Layers |-> Struck(Replayed(l), l)]
NextLen == IF trial.defect = "len" THEN dlen ELSE dlen + 1
GraphOk ==
  /\ Max({Replayed(l)[p] : l \in Layers, p \in 1..(dlen + 1)}) = Good
  /\ NextLen = trial.prompt + step
  /\ \A l \in Layers : NextOne[l][trial.prompt + step] = NextTwo[l][NextLen]
  /\ HostFrozen(trial.prompt + 1 + (IF trial.defect = "leak" THEN step ELSE 0))

\* The replays that show a defect.
Shows ==
  \/ trial.defect \in {"len", "leak"}
  \/ trial.defect \in {"slot", "input"} /\ step > 1
  \/ trial.defect = "stray" /\ step = trial.at + 1

Replaying == GraphTrial /\ step > 0 /\ GraphClean(one, two, dlen, step)

LEMMA ReplayingIs ==
  ASSUME Replaying
  PROVE  /\ Depth \in Nat \ {0} /\ Layers = 1..Depth /\ trial.layer \in Layers
         /\ trial.prompt \in Nat /\ trial.prompt > 0 /\ trial.at \in Nat /\ trial.at >= 1
         /\ step \in Nat /\ step > 0 /\ dlen \in Nat /\ dlen + 1 = trial.prompt + step /\ dlen >= 1
         /\ trial.defect \in GraphKinds
         /\ \A l \in Layers : EagerRows(one[l], dlen) /\ GraphRows(two[l], dlen, l, step - 1)
<1>1. Depth \in Nat \ {0} /\ Layers = 1..Depth
  BY TrialAssumption DEF Layers
<1>2. /\ trial.layer \in Layers /\ trial.prompt \in Nat \ {0} /\ trial.at \in Nat /\ trial.at >= 1
      /\ step \in Nat /\ step > 0 /\ trial.defect \in GraphKinds
  BY DEF Replaying, GraphTrial, TrialOK
<1>3. /\ dlen = trial.prompt + step - 1
      /\ \A l \in Layers : EagerRows(one[l], dlen) /\ GraphRows(two[l], dlen, l, step - 1)
  BY DEF Replaying, GraphClean
<1>4. dlen \in Nat /\ dlen + 1 = trial.prompt + step /\ dlen >= 1
  BY <1>2, <1>3
<1> QED BY <1>1, <1>2, <1>3, <1>4

\* What a replay wrote: its row holds what it should, or the defect.
LEMMA ReplayedIs ==
  ASSUME Replaying, NEW l \in Layers
  PROVE  LET slot == IF Captured("slot", l) THEN trial.prompt + 1 ELSE dlen + 1
         IN Replayed(l) = [p \in 1..(dlen + 1) |->
                            IF p = slot THEN IF Captured("input", l) /\ step > 1 THEN Bad ELSE Good
                            ELSE IF p <= dlen THEN two[l][p] ELSE Bad]
<1> DEFINE slot == IF Captured("slot", l) THEN trial.prompt + 1 ELSE dlen + 1
           S == {slot, dlen + 1, Len(two[l])}
<1>1. /\ trial.prompt \in Nat /\ step \in Nat /\ step > 0 /\ dlen \in Nat
      /\ dlen + 1 = trial.prompt + step /\ Len(two[l]) = dlen
  BY ReplayingIs DEF GraphRows
<1>2. slot \in Nat /\ slot <= dlen + 1
  BY <1>1
<1>3. Replayed(l) = [p \in 1..Max(S) |->
                      IF p = slot THEN IF Captured("input", l) /\ step > 1 THEN Bad ELSE Good
                      ELSE IF p <= Len(two[l]) THEN two[l][p] ELSE Bad]
  BY DEF Replayed
<1> HIDE DEF slot
<1>4. Max(S) = dlen + 1
  <2>1. S \in SUBSET Int /\ dlen + 1 \in S /\ \A y \in S : y <= dlen + 1
    BY <1>1, <1>2
  <2> QED BY <2>1, MaxTop
<1> QED BY <1>1, <1>3, <1>4 DEF slot

LEMMA ReplayedTyped ==
  ASSUME Replaying, NEW l \in Layers
  PROVE  /\ Replayed(l) \in [1..(dlen + 1) -> Harm]
         /\ ~Shows => \A p \in 1..(dlen + 1) : Replayed(l)[p] = Good
<1> DEFINE slot == IF Captured("slot", l) THEN trial.prompt + 1 ELSE dlen + 1
           r == Replayed(l)
<1>1. /\ trial.prompt \in Nat /\ step \in Nat /\ step > 0 /\ dlen \in Nat /\ trial.at \in Nat
      /\ dlen + 1 = trial.prompt + step /\ GraphRows(two[l], dlen, l, step - 1)
  BY ReplayingIs
<1>2. r = [p \in 1..(dlen + 1) |->
             IF p = slot THEN IF Captured("input", l) /\ step > 1 THEN Bad ELSE Good
             ELSE IF p <= dlen THEN two[l][p] ELSE Bad]
  BY ReplayedIs
<1>3. \A p \in 1..(dlen + 1) : p <= dlen => p \in 1..Len(two[l]) /\ two[l][p] \in {Good, Bad}
  BY <1>1 DEF GraphRows
<1> HIDE DEF slot, r
<1>4. \A p \in 1..(dlen + 1) :
        r[p] = IF p = slot THEN IF Captured("input", l) /\ step > 1 THEN Bad ELSE Good
               ELSE IF p <= dlen THEN two[l][p] ELSE Bad
  BY <1>2
<1>5. Good \in Harm /\ Bad \in Harm
  BY DEF Harm, Good, Bad, Nan
<1>6. \A p \in 1..(dlen + 1) : r[p] \in Harm
  BY <1>3, <1>4, <1>5
<1>7. r \in [1..(dlen + 1) -> Harm]
  BY <1>2, <1>6
<1>8. ASSUME ~Shows, NEW p \in 1..(dlen + 1) PROVE r[p] = Good
  <2>1. Captured("slot", l) => step = 1
    BY <1>1, <1>8 DEF Shows, Captured
  <2>2. slot = dlen + 1
    BY <1>1, <2>1 DEF slot
  <2>3. ~(Captured("input", l) /\ step > 1)
    BY <1>8 DEF Shows, Captured
  <2>4. ~WasStruck(l, step - 1)
    BY <1>1, <1>8 DEF Shows, WasStruck
  <2>5. p <= dlen => two[l][p] = Good
    BY <1>1, <1>3, <2>4 DEF GraphRows
  <2>6. p # slot => p <= dlen
    BY <1>1, <2>2
  <2> QED BY <1>4, <2>3, <2>5, <2>6
<1> QED BY <1>7, <1>8 DEF r

LEMMA ShownRow ==
  ASSUME Replaying, Shows, trial.defect \notin {"len", "leak"}
  PROVE  \E p \in 1..(dlen + 1) : Replayed(trial.layer)[p] = Bad
<1> DEFINE L == trial.layer
           r == Replayed(L)
           slot == IF Captured("slot", L) THEN trial.prompt + 1 ELSE dlen + 1
<1>1. /\ L \in Layers /\ trial.prompt \in Nat /\ step \in Nat /\ step > 0 /\ dlen \in Nat
      /\ trial.at \in Nat /\ dlen >= 1 /\ dlen + 1 = trial.prompt + step
      /\ GraphRows(two[L], dlen, L, step - 1)
  BY ReplayingIs
<1>2. \A p \in 1..(dlen + 1) :
        r[p] = IF p = slot THEN IF Captured("input", L) /\ step > 1 THEN Bad ELSE Good
               ELSE IF p <= dlen THEN two[L][p] ELSE Bad
  <2>1. r = [p \in 1..(dlen + 1) |->
              IF p = slot THEN IF Captured("input", L) /\ step > 1 THEN Bad ELSE Good
              ELSE IF p <= dlen THEN two[L][p] ELSE Bad]
    BY <1>1, ReplayedIs
  <2> HIDE DEF r, slot
  <2> QED BY <2>1
<1>3. trial.defect \in {"slot", "input"} => step <= 2
  BY DEF Replaying, GraphClean
<1>4. 1 \in 1..(dlen + 1) /\ dlen + 1 \in 1..(dlen + 1)
  BY <1>1
<1> HIDE DEF r
<1>5. CASE trial.defect = "slot" /\ step > 1
  <2>1. slot = trial.prompt + 1 /\ step = 2
    BY <1>1, <1>3, <1>5 DEF Captured
  <2>2. dlen + 1 # slot /\ ~(dlen + 1 <= dlen)
    BY <1>1, <2>1
  <2> HIDE DEF slot
  <2>3. r[dlen + 1] = Bad
    BY <1>2, <1>4, <2>2
  <2> QED BY <1>4, <2>3 DEF r
<1>6. CASE trial.defect = "input" /\ step > 1
  <2>1. slot = dlen + 1 /\ Captured("input", L)
    BY <1>6 DEF Captured
  <2> HIDE DEF slot
  <2>2. r[dlen + 1] = Bad
    BY <1>2, <1>4, <1>6, <2>1
  <2> QED BY <1>4, <2>2 DEF r
<1>7. CASE trial.defect = "stray" /\ step = trial.at + 1
  <2>1. slot = dlen + 1 /\ ~Captured("input", L) /\ WasStruck(L, step - 1)
    BY <1>1, <1>7 DEF Captured, WasStruck
  <2>2. two[L][1] = Bad
    BY <1>1, <2>1 DEF GraphRows
  <2>3. 1 # slot /\ 1 <= dlen
    BY <1>1, <2>1
  <2> HIDE DEF slot
  <2>4. r[1] = Bad
    BY <1>2, <1>4, <2>2, <2>3
  <2> QED BY <1>4, <2>4 DEF r
<1> QED BY <1>5, <1>6, <1>7 DEF Shows

\* The logits are right if and only if all rows were.
LEMMA LogitsTell ==
  ASSUME Replaying
  PROVE  Max({Replayed(l)[p] : l \in Layers, p \in 1..(dlen + 1)}) = Good
           <=> \A l \in Layers : \A p \in 1..(dlen + 1) : Replayed(l)[p] = Good
<1> DEFINE S == {Replayed(l)[p] : l \in Layers, p \in 1..(dlen + 1)}
<1>1. \A l \in Layers : \A p \in 1..(dlen + 1) : Replayed(l)[p] \in Harm
  BY ReplayedTyped
<1>2. \A l \in Layers : \A p \in 1..(dlen + 1) : Replayed(l)[p] \in S
  OBVIOUS
<1>3. \A x \in S : \E l \in Layers : \E p \in 1..(dlen + 1) : x = Replayed(l)[p]
  OBVIOUS
<1>4. trial.layer \in Layers /\ 1 \in 1..(dlen + 1)
  BY ReplayingIs
<1> HIDE DEF S
<1>5. S \subseteq Harm /\ S # {}
  BY <1>1, <1>2, <1>3, <1>4
<1>6. Max(S) \in S /\ \A x \in S : x <= Max(S)
  BY <1>5, MaxIs
<1>7. \A x \in Harm : x <= Good => x = Good
  BY DEF Harm, Good, Nan
<1>8. Max(S) = Good => \A x \in S : x = Good
  BY <1>5, <1>6, <1>7
<1>9. (\A x \in S : x = Good) => Max(S) = Good
  BY <1>6
<1>10. (\A x \in S : x = Good) <=> \A l \in Layers : \A p \in 1..(dlen + 1) : Replayed(l)[p] = Good
  BY <1>2, <1>3
<1> QED BY <1>8, <1>9, <1>10 DEF S

\* The rows after a replay: nothing moves but what a stray write hits.
LEMMA StruckIs ==
  ASSUME Replaying, NEW l \in Layers
  PROVE  /\ NextTwo[l] \in Seq(Harm) /\ Len(NextTwo[l]) = dlen + 1
         /\ \A p \in 1..(dlen + 1) : NextTwo[l][p] = IF p = 1 /\ WasStruck(l, step) THEN Bad ELSE Replayed(l)[p]
<1> DEFINE r == Replayed(l)
           n == dlen + 1
<1>1. r \in [1..n -> Harm] /\ n \in Nat /\ 1 \in 1..n
  BY ReplayedTyped, ReplayingIs
<1>2. NextTwo[l] = IF WasStruck(l, step) THEN [r EXCEPT ![1] = Bad] ELSE r
  BY DEF NextTwo, Struck, WasStruck, Captured
<1>3. Bad \in Harm
  BY DEF Harm, Good, Bad, Nan
<1> HIDE DEF r, n
<1>4. NextTwo[l] \in [1..n -> Harm]
  BY <1>1, <1>2, <1>3
<1>5. \A p \in 1..n : NextTwo[l][p] = IF p = 1 /\ WasStruck(l, step) THEN Bad ELSE r[p]
  BY <1>1, <1>2
<1>6. NextTwo[l] \in Seq(Harm) /\ Len(NextTwo[l]) = n
  BY <1>1, <1>4
<1> QED BY <1>5, <1>6 DEF r, n

LEMMA EagerIs ==
  ASSUME Replaying, NEW l \in Layers
  PROVE  EagerRows(NextOne[l], dlen + 1)
<1>1. one[l] \in Seq(Harm) /\ Len(one[l]) = dlen /\ AllGood(one[l]) /\ dlen \in Nat
  BY ReplayingIs DEF EagerRows
<1>2. NextOne[l] = Append(one[l], Good)
  BY DEF NextOne
<1>3. Good \in Harm
  BY DEF Harm, Good, Nan
<1>4. /\ NextOne[l] \in Seq(Harm) /\ Len(NextOne[l]) = dlen + 1
      /\ \A p \in 1..dlen : NextOne[l][p] = one[l][p]
      /\ NextOne[l][dlen + 1] = Good
  BY <1>1, <1>2, <1>3
<1>5. AllGood(NextOne[l])
  <2> SUFFICES ASSUME NEW p \in 1..Len(NextOne[l]) PROVE NextOne[l][p] = Good
    BY DEF AllGood
  <2>1. CASE p \in 1..dlen
    BY <1>1, <1>4, <2>1 DEF AllGood
  <2>2. CASE p = dlen + 1
    BY <1>4, <2>2
  <2> QED BY <1>1, <1>4, <2>1, <2>2
<1> QED BY <1>4, <1>5 DEF EagerRows

LEMMA OkIffNotShown ==
  ASSUME Replaying
  PROVE  GraphOk <=> ~Shows
<1>1. /\ trial.prompt \in Nat /\ trial.prompt > 0 /\ step \in Nat /\ step > 0 /\ dlen \in Nat
      /\ dlen >= 1 /\ dlen + 1 = trial.prompt + step /\ trial.layer \in Layers
      /\ trial.defect \in GraphKinds
  BY ReplayingIs
<1>2. ASSUME ~Shows PROVE GraphOk
  <2>1. \A l \in Layers : \A p \in 1..(dlen + 1) : Replayed(l)[p] = Good
    BY <1>2, ReplayedTyped
  <2>2. Max({Replayed(l)[p] : l \in Layers, p \in 1..(dlen + 1)}) = Good
    BY <2>1, LogitsTell
  <2>3. trial.defect \notin {"len", "leak"}
    BY <1>2 DEF Shows
  <2>4. NextLen = trial.prompt + step /\ NextLen = dlen + 1
    BY <1>1, <2>3 DEF NextLen
  <2>5. ASSUME NEW l \in Layers PROVE NextOne[l][trial.prompt + step] = NextTwo[l][NextLen]
    <3> DEFINE n == dlen + 1
    <3>1. n \in 1..n /\ n # 1
      BY <1>1
    <3>2. NextTwo[l][n] = Good
      BY <2>1, <3>1, StruckIs
    <3>3. NextOne[l][n] = Good
      <4>1. Len(NextOne[l]) = n /\ AllGood(NextOne[l])
        BY EagerIs DEF EagerRows
      <4> HIDE DEF n
      <4> QED BY <3>1, <4>1 DEF AllGood
    <3> QED BY <1>1, <2>4, <3>2, <3>3
  <2>6. HostFrozen(trial.prompt + 1 + (IF trial.defect = "leak" THEN step ELSE 0))
    <3>1. (IF trial.defect = "leak" THEN step ELSE 0) = 0
      BY <2>3
    <3> QED BY <1>1, <3>1 DEF HostFrozen
  <2> QED BY <2>2, <2>4, <2>5, <2>6 DEF GraphOk
<1>3. ASSUME Shows PROVE ~GraphOk
  <2>1. CASE trial.defect = "len"
    <3>1. NextLen # trial.prompt + step
      BY <1>1, <2>1 DEF NextLen
    <3> QED BY <3>1 DEF GraphOk
  <2>2. CASE trial.defect = "leak"
    <3>1. ~HostFrozen(trial.prompt + 1 + (IF trial.defect = "leak" THEN step ELSE 0))
      BY <1>1, <2>2 DEF HostFrozen
    <3> QED BY <3>1 DEF GraphOk
  <2>3. CASE trial.defect \notin {"len", "leak"}
    <3>1. PICK p \in 1..(dlen + 1) : Replayed(trial.layer)[p] = Bad
      BY <1>3, <2>3, ShownRow
    <3>2. Bad # Good
      BY DEF Bad, Good
    <3>3. Max({Replayed(l)[q] : l \in Layers, q \in 1..(dlen + 1)}) # Good
      BY <1>1, <3>1, <3>2, LogitsTell
    <3> QED BY <3>3 DEF GraphOk
  <2> QED BY <2>1, <2>2, <2>3
<1> QED BY <1>2, <1>3

LEMMA CleanStep ==
  ASSUME Replaying, ~Shows
  PROVE  GraphClean(NextOne, NextTwo, NextLen, step + 1)
<1>1. /\ trial.prompt \in Nat /\ step \in Nat /\ step > 0 /\ dlen \in Nat /\ trial.at \in Nat
      /\ dlen + 1 = trial.prompt + step /\ trial.defect \in GraphKinds
  BY ReplayingIs
<1>2. /\ trial.defect \in {"slot", "input"} => step + 1 <= 2
      /\ trial.defect \notin {"len", "leak"}
  BY <1>1 DEF Shows
<1>3. trial.defect = "stray" => step + 1 <= trial.at + 1
  <2>1. trial.defect = "stray" => step <= trial.at + 1 /\ step # trial.at + 1
    BY DEF Replaying, GraphClean, Shows
  <2> QED BY <1>1, <2>1
<1>4. NextLen = dlen + 1 /\ NextLen = trial.prompt + (step + 1) - 1 /\ (step + 1) - 1 = step
  BY <1>1, <1>2 DEF NextLen
<1>5. ASSUME NEW l \in Layers
      PROVE  EagerRows(NextOne[l], NextLen) /\ GraphRows(NextTwo[l], NextLen, l, (step + 1) - 1)
  <2>1. EagerRows(NextOne[l], dlen + 1)
    BY EagerIs
  <2>2. \A p \in 1..(dlen + 1) : Replayed(l)[p] = Good
    BY ReplayedTyped
  <2>3. GraphRows(NextTwo[l], dlen + 1, l, step)
    BY <2>2, StruckIs DEF GraphRows
  <2> QED BY <1>4, <2>1, <2>3
<1> QED BY <1>2, <1>3, <1>4, <1>5 DEF GraphClean

-----------------------------------------------------------------------------
(* The verdicts.                                                           *)

TallyOK == tally \in [hard : BOOLEAN, same : BOOLEAN, base : BOOLEAN, warned : BOOLEAN,
                      margin : Nat, drift : Nat, near : BOOLEAN]
DecodeRuns == CacheIs(one, step) /\ (tally.hard => ~DecodeBlind)
GraphRuns ==
  \/ step = 0 /\ ~tally.hard
  \/ step > 0 /\ tally.hard /\ ~GraphBlind
  \/ step > 0 /\ ~tally.hard /\ GraphClean(one, two, dlen, step)
LongRuns ==
  /\ tally.hard <=> ~tally.base
  /\ tally.base => tally.same
  /\ tally.near => tally.margin < 5 * tally.drift
Runs ==
  /\ step < trial.steps
  /\ trial.who = "decode" => DecodeRuns
  /\ trial.who = "graph" => GraphRuns
  /\ trial.who = "long" => LongRuns
RefereeInv ==
  trial \in Trials /\ step \in Nat /\ TallyOK /\ VerdictIsEarned /\ (exit = "running" => Runs)

LEMMA TrialKinds ==
  ASSUME RefereeInv
  PROVE  /\ trial.who \in {"decode", "graph", "long"}
         /\ trial.who = "decode" => DecodeTrial
         /\ trial.who = "graph" => GraphTrial
  BY TrialAssumption, TrialIs DEF RefereeInv, DecodeTrial, DecodeKinds, OnceKinds, GraphTrial, GraphKinds

LEMMA BlindSame ==
  ASSUME trial' = trial
  PROVE  (DecodeBlind' <=> DecodeBlind) /\ (GraphBlind' <=> GraphBlind)
  BY DEF DecodeBlind, GraphBlind

LEMMA RefereeStarts == RefereeInit => RefereeInv
<1> SUFFICES ASSUME RefereeInit PROVE RefereeInv
  OBVIOUS
<1>1. /\ trial \in Trials /\ one = NoRows /\ step = 0 /\ tally = FreshTally
      /\ exit = IF trial.steps = 0 THEN "verified" ELSE "running"
  BY DEF RefereeInit
<1>2. TrialOK /\ trial.who \in {"decode", "graph", "long"} /\ (trial.who = "graph" => trial.steps >= 2)
  BY <1>1, TrialAssumption, TrialIs
<1>3. Max(Margins) \in Nat
  <2>1. PICK m \in Margins : \A k \in Margins : k <= m
    BY TrialAssumption
  <2>2. m \in Nat /\ Margins \in SUBSET Int
    BY TrialAssumption
  <2> QED BY <2>1, <2>2, MaxTop
<1>4. TallyOK /\ tally.hard = FALSE /\ tally.same = TRUE /\ tally.base = TRUE /\ tally.near = FALSE
  BY <1>1, <1>3 DEF TallyOK, FreshTally
<1>5. VerdictIsEarned
  <2>1. CASE trial.steps = 0
    <3>1. exit = "verified" /\ trial.who # "graph"
      BY <1>1, <1>2, <2>1
    <3>2. DecodeBlind
      BY <2>1 DEF DecodeBlind
    <3> QED BY <1>2, <1>4, <3>1, <3>2 DEF VerdictIsEarned
  <2>2. CASE trial.steps # 0
    BY <1>1, <2>2 DEF VerdictIsEarned
  <2> QED BY <2>1, <2>2
<1>6. CacheIs(NoRows, 0)
  <2>1. Typed(NoRows) /\ \A l \in Layers : NoRows[l] = << >>
    BY DEF Typed, NoRows
  <2>2. SeenBy(0) = 0 /\ \A l \in Layers : ~Lost(l, 0)
    BY <1>2 DEF SeenBy, Lost, TrialOK
  <2>3. \A l \in Layers : Len(NoRows[l]) = 0
    BY <2>1
  <2>4. \A l \in Layers : Len(NoRows[l]) = SeenBy(0) - (IF Lost(l, 0) THEN 1 ELSE 0)
    BY <2>2, <2>3
  <2>5. \A l \in Layers : AllGood(NoRows[l]) /\ Clear(NoRows[l]) /\ \A x : Same(NoRows[l], x)
    BY <2>3 DEF AllGood, Clear, Same
  <2>6. Marked(NoRows, 0)
    BY <1>2 DEF Marked, TrialOK
  <2>7. MarkedAlways(NoRows, 0)
    <3>1. \A p \in 1..Len(NoRows[trial.layer]) : FALSE
      BY <1>2, <2>3 DEF TrialOK
    <3> QED BY <2>5, <3>1 DEF MarkedAlways
  <2> QED BY <2>1, <2>4, <2>5, <2>6, <2>7 DEF CacheIs
<1>7. ASSUME exit = "running" PROVE Runs
  <2>1. step < trial.steps
    BY <1>1, <1>2, <1>7 DEF TrialOK
  <2>2. DecodeRuns
    BY <1>1, <1>4, <1>6 DEF DecodeRuns
  <2>3. GraphRuns /\ LongRuns
    BY <1>1, <1>4 DEF GraphRuns, LongRuns
  <2> QED BY <2>1, <2>2, <2>3 DEF Runs
<1> QED BY <1>1, <1>4, <1>5, <1>7 DEF RefereeInv

LEMMA DecodeStepKeeps == RefereeInv /\ DecodeStep => RefereeInv'
<1> SUFFICES ASSUME RefereeInv, DecodeStep PROVE RefereeInv'
  OBVIOUS
<1> DEFINE call == Call(Fed(step), TRUE, TRUE)
           f == ForwardPass(one, call)
<1>1. trial.who = "decode" /\ exit = "running" /\ trial' = trial /\ step' = step + 1
  BY DEF DecodeStep
<1>2. /\ trial \in Trials /\ step \in Nat /\ TallyOK /\ step < trial.steps /\ CacheIs(one, step)
      /\ tally.hard => ~DecodeBlind
  BY <1>1 DEF RefereeInv, Runs, DecodeRuns
<1>3. Decoding(one, call) /\ trial.steps \in Nat
  BY <1>1, <1>2, TrialKinds DEF Decoding, DecodeTrial, TrialOK
<1> HIDE DEF call
<1>4. /\ one' = f.cache /\ TallyOK' /\ (tally'.hard <=> tally.hard \/ Fails(f))
      /\ exit' = IF step + 1 < trial.steps THEN "running"
                 ELSE IF tally.hard \/ Fails(f) THEN "failed" ELSE "verified"
  <2>1. PICK flip, baseFlip, wide \in BOOLEAN :
          LET far   == wide \/ ~tally.same
              warns == /\ ~Fails(f) /\ SeenToo(f) = "ok"
                       /\ IF flip THEN tally.same /\ wide ELSE tally.base /\ baseFlip /\ far
          IN /\ one' = f.cache
             /\ tally' = [tally EXCEPT !.hard = @ \/ Fails(f), !.warned = @ \/ warns,
                                       !.same = @ /\ ~flip, !.base = @ /\ ~baseFlip]
    BY DEF DecodeStep, call
  <2>2. one' = f.cache
    BY <2>1
  <2>3. Ends
    BY DEF DecodeStep
  <2> HIDE DEF f
  <2>4. TallyOK' /\ (tally'.hard <=> tally.hard \/ Fails(f))
    <3> DEFINE fails == Fails(f)
               far   == wide \/ ~tally.same
               warns == /\ ~fails /\ SeenToo(f) = "ok"
                        /\ IF flip THEN tally.same /\ wide ELSE tally.base /\ baseFlip /\ far
    <3>1. fails \in BOOLEAN /\ warns \in BOOLEAN
      BY DEF Fails
    <3>2. tally' = [tally EXCEPT !.hard = tally.hard \/ fails, !.warned = tally.warned \/ warns,
                                 !.same = tally.same /\ ~flip, !.base = tally.base /\ ~baseFlip]
      BY <2>1
    <3> HIDE DEF fails, warns
    <3>3. TallyOK' /\ (tally'.hard <=> tally.hard \/ fails)
      BY <1>2, <3>1, <3>2 DEF TallyOK
    <3> QED BY <3>3 DEF fails
  <2> QED BY <2>2, <2>3, <2>4 DEF Ends
<1>5. one' = After(one, call)
  BY <1>4, PassParts
<1> HIDE DEF f
<1>6. DecodeBlind => ~Fails(f)
  BY <1>2, <1>3, BlindPasses DEF f
<1>7. step + 1 = trial.steps /\ ~DecodeBlind => Fails(f)
  BY <1>3, ShownAtLast DEF f
<1>8. VerdictIsEarned'
  <2>1. CASE step + 1 < trial.steps
    BY <1>4, <2>1 DEF VerdictIsEarned
  <2>2. CASE ~(step + 1 < trial.steps)
    <3>1. step + 1 = trial.steps
      BY <1>2, <1>3, <2>2
    <3>2. exit' = IF tally.hard \/ Fails(f) THEN "failed" ELSE "verified"
      BY <1>4, <2>2
    <3>3. exit' = "verified" <=> DecodeBlind
      BY <1>2, <1>6, <1>7, <3>1, <3>2
    <3>4. exit' = "verified" <=> DecodeBlind'
      BY <1>1, <3>3, BlindSame
    <3>5. trial'.who = "decode"
      BY <1>1
    <3> QED BY <3>4, <3>5 DEF VerdictIsEarned
  <2> QED BY <2>1, <2>2
<1>9. CacheIs(one', step + 1)
  BY <1>3, <1>5, CacheStep
<1>10. CacheIs(one, step)'
  BY <1>1, <1>9 DEF CacheIs, SeenBy, Lost, Harmless, OnceKinds, Marked, MarkedAlways, Typed, AllGood,
                    Clear, Same, Layers
<1>11. exit' = "running" => Runs'
  <2> SUFFICES ASSUME exit' = "running" PROVE Runs'
    OBVIOUS
  <2>1. step' < trial'.steps /\ trial'.who = "decode"
    BY <1>1, <1>4
  <2>2. tally'.hard => ~DecodeBlind'
    BY <1>1, <1>2, <1>4, <1>6, BlindSame
  <2>3. DecodeRuns'
    BY <1>10, <2>2 DEF DecodeRuns
  <2> QED BY <2>1, <2>3 DEF Runs
<1>12. trial' \in Trials /\ step' \in Nat
  BY <1>1, <1>2
<1> QED BY <1>4, <1>8, <1>11, <1>12 DEF RefereeInv

LEMMA GraphSeedKeeps == RefereeInv /\ GraphSeed => RefereeInv'
<1> SUFFICES ASSUME RefereeInv, GraphSeed PROVE RefereeInv'
  OBVIOUS
<1>1. /\ trial.who = "graph" /\ exit = "running" /\ step = 0
      /\ one' = [l \in Layers |-> [p \in 1..trial.prompt |-> Good]]
      /\ two' = one' /\ dlen' = trial.prompt /\ step' = 1
      /\ trial' = trial /\ tally' = tally /\ exit' = exit
  BY DEF GraphSeed
<1>2. trial \in Trials /\ TallyOK /\ GraphRuns /\ step < trial.steps
  BY <1>1 DEF RefereeInv, Runs
<1>3. GraphTrial
  BY <1>1, TrialKinds
<1>4. /\ trial.prompt \in Nat \ {0} /\ trial.at \in Nat /\ trial.at >= 1
      /\ trial.steps \in Nat /\ trial.steps >= 2
  BY <1>3 DEF GraphTrial, TrialOK
<1>5. ~tally.hard
  BY <1>1, <1>2 DEF GraphRuns
<1>6. ASSUME NEW l \in Layers
      PROVE  EagerRows(one'[l], trial.prompt) /\ GraphRows(two'[l], trial.prompt, l, 0)
  <2> DEFINE r == [p \in 1..trial.prompt |-> Good]
  <2>1. one'[l] = r /\ two'[l] = r
    BY <1>1
  <2>2. Good \in Harm
    BY DEF Harm, Good, Nan
  <2>3. r \in [1..trial.prompt -> Harm] /\ \A p \in 1..trial.prompt : r[p] = Good
    BY <2>2
  <2> HIDE DEF r
  <2>4. r \in Seq(Harm) /\ Len(r) = trial.prompt /\ \A p \in 1..Len(r) : r[p] = Good
    BY <1>4, <2>3
  <2>5. ~WasStruck(l, 0)
    BY <1>4 DEF WasStruck
  <2> QED BY <2>1, <2>4, <2>5 DEF EagerRows, GraphRows, AllGood
<1>7. GraphClean(one', two', dlen', 1)
  <2>1. dlen' = trial.prompt + 1 - 1 /\ 1 - 1 = 0
    BY <1>1, <1>4
  <2>2. 1 <= trial.at + 1
    BY <1>4
  <2>3. \A l \in Layers : EagerRows(one'[l], dlen') /\ GraphRows(two'[l], dlen', l, 0)
    BY <1>1, <1>6
  <2> QED BY <2>1, <2>2, <2>3 DEF GraphClean
<1>8. GraphClean(one, two, dlen, step)'
  BY <1>1, <1>7 DEF GraphClean, EagerRows, GraphRows, WasStruck, AllGood, Layers
<1>9. Runs'
  <2>1. step' < trial'.steps /\ trial'.who = "graph"
    BY <1>1, <1>4
  <2>2. GraphRuns'
    BY <1>1, <1>5, <1>8 DEF GraphRuns
  <2> QED BY <2>1, <2>2 DEF Runs
<1>10. VerdictIsEarned'
  BY <1>1 DEF VerdictIsEarned
<1> QED BY <1>1, <1>2, <1>9, <1>10 DEF RefereeInv, TallyOK

LEMMA GraphStepIs ==
  ASSUME RefereeInv, GraphStep
  PROVE  /\ trial.who = "graph" /\ exit = "running" /\ step > 0
         /\ one' = NextOne /\ two' = NextTwo /\ dlen' = NextLen /\ step' = step + 1
         /\ trial' = trial /\ TallyOK' /\ (tally'.hard <=> tally.hard \/ ~GraphOk) /\ Ends
<1>1. /\ trial.who = "graph" /\ exit = "running" /\ step > 0 /\ Ends
      /\ one' = NextOne /\ two' = NextTwo /\ dlen' = NextLen /\ step' = step + 1
      /\ trial' = trial
  BY DEF GraphStep, NextOne, NextTwo, NextLen
<1>2. TallyOK
  BY DEF RefereeInv
<1> DEFINE logits == Max({Replayed(l)[p] : l \in Layers, p \in 1..(dlen + 1)})
           ok == /\ logits = Good
                 /\ dlen' = trial.prompt + step
                 /\ \A l \in Layers : one'[l][trial.prompt + step] = two'[l][dlen']
                 /\ HostFrozen(trial.prompt + 1 + (IF trial.defect = "leak" THEN step ELSE 0))
<1>3. tally' = [tally EXCEPT !.hard = tally.hard \/ ~ok]
  BY DEF GraphStep, GraphRow
<1>4. ok <=> GraphOk
  <2> HIDE DEF logits
  <2>1. logits = Max({Replayed(l)[p] : l \in Layers, p \in 1..(dlen + 1)})
    BY DEF logits
  <2> QED BY <1>1, <2>1 DEF GraphOk
<1>5. ok \in BOOLEAN
  OBVIOUS
<1> HIDE DEF ok
<1>6. TallyOK' /\ (tally'.hard <=> tally.hard \/ ~ok)
  BY <1>2, <1>3, <1>5 DEF TallyOK
<1> QED BY <1>1, <1>4, <1>6

LEMMA GraphStepKeeps == RefereeInv /\ GraphStep => RefereeInv'
<1> SUFFICES ASSUME RefereeInv, GraphStep PROVE RefereeInv'
  OBVIOUS
<1>1. /\ trial.who = "graph" /\ exit = "running" /\ step > 0
      /\ one' = NextOne /\ two' = NextTwo /\ dlen' = NextLen /\ step' = step + 1
      /\ trial' = trial /\ TallyOK' /\ (tally'.hard <=> tally.hard \/ ~GraphOk) /\ Ends
  BY GraphStepIs
<1>2. trial \in Trials /\ step \in Nat /\ GraphRuns /\ step < trial.steps
  BY <1>1 DEF RefereeInv, Runs
<1>3. GraphTrial
  BY <1>1, TrialKinds
<1>4. trial.steps \in Nat /\ trial.steps >= 2 /\ trial.at \in Nat /\ trial.defect \in GraphKinds
  BY <1>3 DEF GraphTrial, TrialOK
\* What failed had a defect that shows; what did not is clean so far.
<1>5. /\ tally'.hard => ~GraphBlind
      /\ ~tally'.hard => ~Shows /\ GraphClean(NextOne, NextTwo, NextLen, step + 1)
  <2>1. CASE tally.hard
    BY <1>1, <1>2, <2>1 DEF GraphRuns
  <2>2. CASE ~tally.hard
    <3>1. Replaying
      BY <1>1, <1>2, <1>3, <2>2 DEF GraphRuns, Replaying
    <3>2. GraphOk <=> ~Shows
      BY <3>1, OkIffNotShown
    <3>3. trial.defect = "stray" => step <= trial.at + 1
      BY <3>1 DEF Replaying, GraphClean
    <3>4. Shows => ~GraphBlind
      BY <1>2, <1>4, <3>3 DEF Shows, GraphBlind
    <3> QED BY <1>1, <2>2, <3>1, <3>2, <3>4, CleanStep
  <2> QED BY <2>1, <2>2
<1>6. ~tally'.hard /\ step + 1 = trial.steps => GraphBlind
  <2> SUFFICES ASSUME ~tally'.hard, step + 1 = trial.steps PROVE GraphBlind
    OBVIOUS
  <2>1. ~tally.hard
    BY <1>1
  <2>2. ~Shows
    BY <1>5
  <2>3. trial.defect = "stray" => step <= trial.at + 1
    BY <1>1, <1>2, <2>1 DEF GraphRuns, GraphClean
  <2>4. trial.defect \notin {"len", "leak"}
    BY <2>2 DEF Shows
  <2>5. trial.defect \in {"slot", "input"} => trial.steps = 2
    BY <1>1, <1>2, <1>4, <2>2 DEF Shows
  <2>6. trial.defect = "stray" => trial.at >= trial.steps - 1
    BY <1>2, <1>4, <2>2, <2>3 DEF Shows
  <2> QED BY <1>4, <2>4, <2>5, <2>6 DEF GraphBlind, GraphKinds
<1>7. VerdictIsEarned'
  <2>1. CASE step + 1 < trial.steps
    BY <1>1, <2>1 DEF VerdictIsEarned, Ends
  <2>2. CASE ~(step + 1 < trial.steps)
    <3>1. step + 1 = trial.steps
      BY <1>2, <1>4, <2>2
    <3>2. exit' = IF tally'.hard THEN "failed" ELSE "verified"
      BY <1>1, <2>2 DEF Ends
    <3>3. exit' = "verified" <=> GraphBlind
      BY <1>5, <1>6, <3>1, <3>2
    <3>4. exit' = "verified" <=> GraphBlind'
      BY <1>1, <3>3, BlindSame
    <3>5. trial'.who = "graph"
      BY <1>1
    <3> QED BY <3>4, <3>5 DEF VerdictIsEarned
  <2> QED BY <2>1, <2>2
<1>8. ~tally'.hard => GraphClean(one, two, dlen, step)'
  <2>1. ~tally'.hard => GraphClean(one', two', dlen', step')
    BY <1>1, <1>5
  <2> QED BY <1>1, <2>1 DEF GraphClean, EagerRows, GraphRows, WasStruck, AllGood, Layers
<1>9. exit' = "running" => Runs'
  <2> SUFFICES ASSUME exit' = "running" PROVE Runs'
    OBVIOUS
  <2>1. step' < trial'.steps /\ trial'.who = "graph" /\ step' > 0
    BY <1>1, <1>2 DEF Ends
  <2>2. tally'.hard => ~GraphBlind'
    BY <1>1, <1>5, BlindSame
  <2>3. GraphRuns'
    BY <1>8, <2>1, <2>2 DEF GraphRuns
  <2> QED BY <2>1, <2>3 DEF Runs
<1>10. trial' \in Trials /\ step' \in Nat
  BY <1>1, <1>2
<1> QED BY <1>1, <1>7, <1>9, <1>10 DEF RefereeInv

LEMMA LongStepKeeps == RefereeInv /\ LongStep => RefereeInv'
<1> SUFFICES ASSUME RefereeInv, LongStep PROVE RefereeInv'
  OBVIOUS
<1>1. PICK m \in Margins, d \in Drifts, differ \in BOOLEAN :
        tally' = Census(m, d, differ)
  BY DEF LongStep
<1>2. trial.who = "long" /\ exit = "running" /\ Ends /\ step' = step + 1 /\ trial' = trial
  BY DEF LongStep
<1>3. trial \in Trials /\ step \in Nat /\ TallyOK /\ LongRuns /\ step < trial.steps
  BY <1>2 DEF RefereeInv, Runs
<1>4. trial.steps \in Nat
  BY <1>3, TrialIs DEF TrialOK
<1>5. m \in Nat /\ d \in Nat
  BY TrialAssumption
<1> DEFINE same == AgreedBefore /\ ~differ
           margin == Min({tally.margin, m})
           drift  == Max({tally.drift, d})
           close  == same /\ d > 0 /\ m < 5 * d
<1>6. tally.margin \in Nat /\ tally.drift \in Nat
  BY <1>3 DEF TallyOK
<1>7. /\ margin \in Nat /\ margin <= m /\ margin <= tally.margin
      /\ drift \in Nat /\ d <= drift /\ tally.drift <= drift
  BY <1>5, <1>6, MinPair, MaxPair
<1>8. /\ same \in BOOLEAN /\ close \in BOOLEAN /\ (close => same /\ m < 5 * d)
      /\ (same => ~differ) /\ (~same => differ \/ ~tally.same)
      /\ (tally.same => (same <=> ~differ))
  BY DEF AgreedBefore
<1>9. tally' = [tally EXCEPT !.same = same, !.hard = tally.hard \/ ~same, !.base = tally.base /\ ~differ,
                             !.margin = margin, !.drift = IF same THEN drift ELSE tally.drift,
                             !.near   = tally.near \/ close]
  BY <1>1 DEF Census
<1> HIDE DEF same, margin, drift, close
<1>10. /\ TallyOK' /\ tally'.same = same /\ (tally'.hard <=> tally.hard \/ ~same)
       /\ (tally'.base <=> tally.base /\ ~differ)
       /\ tally'.margin = margin /\ tally'.drift = (IF same THEN drift ELSE tally.drift)
       /\ (tally'.near <=> tally.near \/ close)
  BY <1>3, <1>7, <1>8, <1>9 DEF TallyOK
<1>11. tally'.hard <=> ~tally'.base
  BY <1>3, <1>8, <1>10 DEF LongRuns
<1>12. tally'.base => tally'.same
  BY <1>3, <1>8, <1>10 DEF LongRuns
<1>13. tally'.near => tally'.margin < 5 * tally'.drift
  <2>1. CASE tally.near
    <3>1. tally.margin < 5 * tally.drift
      BY <1>3, <2>1 DEF LongRuns
    <3>2. margin < 5 * tally.drift /\ margin < 5 * drift
      BY <1>6, <1>7, <3>1
    <3> QED BY <1>10, <3>2
  <2>2. CASE close
    <3>1. margin < 5 * drift
      BY <1>5, <1>7, <1>8, <2>2
    <3> QED BY <1>8, <1>10, <2>2, <3>1
  <2> QED BY <1>10, <2>1, <2>2
<1>14. LongRuns'
  BY <1>11, <1>12, <1>13 DEF LongRuns
<1>15. VerdictIsEarned'
  <2>1. CASE step + 1 < trial.steps
    BY <1>2, <2>1 DEF VerdictIsEarned, Ends
  <2>2. CASE ~(step + 1 < trial.steps)
    <3>1. exit' = IF tally'.hard THEN "failed" ELSE "verified"
      BY <1>2, <2>2 DEF Ends
    <3>2. exit' = "verified" <=> tally'.base
      BY <1>11, <3>1
    <3>3. tally'.base \in BOOLEAN /\ tally'.margin \in Nat /\ tally'.drift \in Nat
      BY <1>10 DEF TallyOK
    <3>4. tally'.margin >= 5 * tally'.drift => ~tally'.near
      BY <1>13, <3>3
    <3>5. trial'.who = "long"
      BY <1>2
    <3> QED BY <3>2, <3>3, <3>4, <3>5 DEF VerdictIsEarned
  <2> QED BY <2>1, <2>2
<1>16. exit' = "running" => Runs'
  <2> SUFFICES ASSUME exit' = "running" PROVE Runs'
    OBVIOUS
  <2>1. step' < trial'.steps /\ trial'.who = "long"
    BY <1>2, <1>3 DEF Ends
  <2> QED BY <1>14, <2>1 DEF Runs
<1>17. trial' \in Trials /\ step' \in Nat
  BY <1>2, <1>3
<1> QED BY <1>10, <1>15, <1>16, <1>17 DEF RefereeInv

LEMMA RefuseKeeps == RefereeInv /\ Refuse => RefereeInv'
<1> SUFFICES ASSUME RefereeInv, Refuse PROVE RefereeInv'
  OBVIOUS
<1>1. exit' = "untested" /\ trial' = trial /\ step' = step /\ tally' = tally
  BY DEF Refuse
<1>2. VerdictIsEarned'
  BY <1>1 DEF VerdictIsEarned
<1> QED BY <1>1, <1>2 DEF RefereeInv, TallyOK

LEMMA RefereeStutters == RefereeInv /\ UNCHANGED refereeVars => RefereeInv'
<1> SUFFICES ASSUME RefereeInv, UNCHANGED refereeVars PROVE RefereeInv'
  OBVIOUS
<1>1. /\ trial' = trial /\ one' = one /\ two' = two /\ dlen' = dlen /\ step' = step
      /\ tally' = tally /\ exit' = exit
  BY DEF refereeVars
<1>2. VerdictIsEarned'
  BY <1>1 DEF RefereeInv, VerdictIsEarned, DecodeBlind, GraphBlind
<1>3. CacheIs(one, step) => CacheIs(one, step)'
  BY <1>1 DEF CacheIs, SeenBy, Lost, Harmless, OnceKinds, Marked, MarkedAlways, Typed, AllGood,
              Clear, Same, Layers
<1>4. GraphClean(one, two, dlen, step) => GraphClean(one, two, dlen, step)'
  BY <1>1 DEF GraphClean, EagerRows, GraphRows, WasStruck, AllGood, Layers
<1>5. DecodeRuns => DecodeRuns'
  BY <1>1, <1>3, BlindSame DEF DecodeRuns
<1>6. GraphRuns => GraphRuns'
  BY <1>1, <1>4, BlindSame DEF GraphRuns
<1>7. LongRuns => LongRuns'
  BY <1>1 DEF LongRuns
<1>8. Runs => Runs'
  BY <1>1, <1>5, <1>6, <1>7 DEF Runs
<1> QED BY <1>1, <1>2, <1>8 DEF RefereeInv, TallyOK

\* Whatever the depth of the model, the cadence of the checks and the length of the
\* trial, a verdict of decode_referee, gr_referee or long_run_referee is the one that
\* the defect earns (decode_referee.py main, gr_referee.py main, long_run_referee.py main).
THEOREM VerdictsAreEarned == RefereeSpec => []VerdictIsEarned
<1>1. RefereeInit => RefereeInv
  BY RefereeStarts
<1>2. RefereeInv /\ [RefereeNext]_refereeVars => RefereeInv'
  BY DecodeStepKeeps, GraphSeedKeeps, GraphStepKeeps, LongStepKeeps, RefuseKeeps, RefereeStutters
     DEF RefereeNext
<1>3. RefereeInv => VerdictIsEarned
  BY DEF RefereeInv
<1> QED BY <1>1, <1>2, <1>3, PTL DEF RefereeSpec
=============================================================================
