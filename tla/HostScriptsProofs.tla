-------------------------- MODULE HostScriptsProofs --------------------------
(***************************************************************************)
(* The continuous integration.  For every number of pushes and of faults   *)
(* and every set of machines: a pipeline that nothing disturbs and no      *)
(* other joins works only with what its own commit went into (BuiltSoFar). *)
(* It is not inductive alone: a pipeline could be spoilt by one it does    *)
(* not know of (Alone: there is none), by what its running tool has read   *)
(* (OwnInput), or by starting in the middle (Fresh).                       *)
(*                                                                         *)
(* The autotuner.  For any number of processes, tunings, candidates and    *)
(* sizes, whatever launches fail and whichever processes die: as long as   *)
(* no two processes run at once, a tuning returns what it should           *)
(* (TunedIsBest) and the file keeps what was tuned (NothingForgotten).     *)
(*                                                                         *)
(* The walk of a model.  For every list of modules: the two arrays that    *)
(* are compared at a module went through the same modules before it, so    *)
(* the number by a module speaks of that module (NumbersTell).             *)
(*                                                                         *)
(* The scripts that compare bit for bit.  The list of cases is the code's  *)
(* own; for any grades of the kernels and any failing calls, what the      *)
(* device's memory holds is the result of an earlier case (MemoryOf), so   *)
(* a status speaks of its own kernel or of the equal one before it.        *)
(***************************************************************************)
EXTENDS CIPipeline, GemmTuner, ModuleWalk, BitIdentity, WellFoundedInduction, SequenceTheorems, TLAPS

Commits == 0..MaxPushes
Content == SUBSET (Commits \cup {Torn, Untested})
Stages  == {Steps[i] : i \in 1..Len(Steps)}

\* Beyond CITypeOK: what the tools hold, and that a tool belongs to a step.
ToolsOK ==
  /\ pc \in [Pushes -> Stages]
  /\ src \in [Pushes -> Content]
  /\ upset \in SUBSET Pushes
  /\ \A p \in Pushes : job[p] # "none" => pc[p] # "end"
  /\ \A p \in Pushes : job[p] # "none" /\ pc[p] \in Pulls => \E c \in Commits : src[p] = {c}

\* A push that has not come has no thread, and only then; it begins with the
\* first step.
Fresh ==
  \A p \in Pushes : /\ thread[p] = "none" <=> p > remote
                    /\ thread[p] = "none" => pc[p] = "pull_rt" /\ job[p] = "none"

Quiet(p) == p \notin upset /\ thread[p] = "running"

\* Nothing else runs beside an undisturbed pipeline, and it is the last push's.
Alone ==
  \A p \in Pushes : Quiet(p) => p = remote /\ \A q \in Pushes : Active(q) => q = p

\* Its tool has read nothing but its own commit.
OwnInput ==
  \A p \in Pushes : Quiet(p) /\ job[p] # "none" => src[p] = {p}

CIInv == CITypeOK /\ ToolsOK /\ Fresh /\ Alone /\ OwnInput /\ BuiltSoFar

-----------------------------------------------------------------------------
(* The order of the steps.                                                 *)

\* There are eleven steps, all different.
LEMMA StepNames ==
  /\ Len(Steps) = 11
  /\ Steps[1] = "pull_rt" /\ Steps[2] = "pull_bpd" /\ Steps[3] = "cpu" /\ Steps[4] = "plugin"
  /\ Steps[5] = "emit" /\ Steps[6] = "fix" /\ Steps[7] = "assemble" /\ Steps[8] = "link"
  /\ Steps[9] = "test" /\ Steps[10] = "dashboard" /\ Steps[11] = "end"
BY DEF Steps

LEMMA StepsDiffer ==
  \A i, j \in 1..11 : Steps[i] = Steps[j] => i = j
<1> TAKE i, j \in 1..11
<1>1. /\ i \in {1, 2, 3, 4, 5, 6, 7, 8, 9, 10, 11}
      /\ j \in {1, 2, 3, 4, 5, 6, 7, 8, 9, 10, 11}
  OBVIOUS
<1> QED BY <1>1, StepNames

\* A step is found at its place.
LEMMA PlaceOf ==
  ASSUME NEW i \in 1..11
  PROVE  Place(Steps[i]) = i
BY StepsDiffer, StepNames DEF Place

\* The stages are the steps, one by one.
LEMMA StageAt ==
  ASSUME NEW s \in Stages
  PROVE  /\ Place(s) \in 1..11 /\ Steps[Place(s)] = s
         /\ s # "end" => Place(s) \in 1..10
<1>1. PICK i \in 1..11 : s = Steps[i]
  BY StepNames DEF Stages
<1>2. Place(s) = i
  BY <1>1, PlaceOf
<1> QED BY <1>1, <1>2, StepNames

\* What comes after a step is a step.
LEMMA AfterIsStage ==
  ASSUME NEW s \in Stages, s # "end", NEW ok
  PROVE  After(s, ok) \in Stages
<1>1. Place(s) + 1 \in 1..11
  BY StageAt
<1>2. Steps[Place(s) + 1] \in Stages /\ "test" \in Stages
  BY <1>1, StepNames DEF Stages
<1> QED BY <1>2 DEF After

\* A tool that is no pull writes one of the files.
LEMMA TargetIsFile ==
  ASSUME NEW s \in Stages, s # "end", s \notin Pulls
  PROVE  Target(s) \in Files
<1>1. s \in {"cpu", "plugin", "emit", "fix", "assemble", "link", "test", "dashboard"}
  <2>1. PICK i \in 1..11 : s = Steps[i]
    BY StepNames DEF Stages
  <2>2. i \in {1, 2, 3, 4, 5, 6, 7, 8, 9, 10, 11}
    OBVIOUS
  <2> QED BY <2>1, <2>2, StepNames DEF Pulls
<1> QED BY <1>1 DEF Target, Files

\* Files hold commits, and marks that no commit is.
LEMMA MachineFields ==
  ASSUME CITypeOK
  PROVE  /\ machine.pushes \in 0..MaxPushes /\ machine.outdir \in 0..1
         /\ MaxPushes \in Nat \ {0}
BY PipelineAssumption DEF CITypeOK, Machine

-----------------------------------------------------------------------------
(* The types.                                                              *)

TypeInv == CITypeOK /\ ToolsOK

\* What a tool reads when it starts are commits or marks; a pull reads one.
LEMMA InputsType ==
  ASSUME TypeInv, NEW s \in Stages, s # "end"
  PROVE  /\ Inputs(s) \in Content
         /\ s \in Pulls => \E c \in Commits : Inputs(s) = {c}
<1>1. /\ remote \in Commits /\ tree["bpd"] \in Commits /\ tree["rt"] \in Commits
      /\ \A f \in Files : file[f] \in Content
  BY DEF TypeInv, CITypeOK, Repos, Commits, Content
<1>2. /\ file["plugin"] \in Content /\ file["ll"] \in Content /\ file["obj"] \in Content
      /\ file["fix"] \in Content /\ file["facts"] \in Content
  BY <1>1 DEF Files
<1>3. s \in {"pull_rt", "pull_bpd", "cpu", "plugin", "emit", "fix", "assemble", "link",
             "test", "dashboard"}
  <2>1. PICK i \in 1..11 : s = Steps[i]
    BY StepNames DEF Stages
  <2>2. i \in {1, 2, 3, 4, 5, 6, 7, 8, 9, 10, 11}
    OBVIOUS
  <2> QED BY <2>1, <2>2, StepNames
<1>4. CASE s \in Pulls
  BY <1>1, <1>4 DEF Inputs, Content, Pulls
<1>5. CASE s \notin Pulls
  <2>1. Inputs(s) = {tree["bpd"]} \/ Inputs(s) = file["plugin"] \/ Inputs(s) = file["ll"]
          \/ Inputs(s) = file["obj"] \cup file["fix"] \/ Inputs(s) = {tree["rt"]}
          \/ Inputs(s) = {tree["rt"]} \cup file["facts"]
    BY <1>3, <1>5 DEF Inputs, Pulls
  <2> QED BY <1>1, <1>2, <1>5, <2>1 DEF Content
<1> QED BY <1>4, <1>5

\* The end of a tool keeps the types, and a pipeline's step is a step again.
LEMMA ToolGoneType ==
  ASSUME TypeInv, NEW p \in Pushes, job[p] # "none", NEW ok, ToolGone(p, ok),
         tree' \in [Repos -> Commits], file' \in [Files -> Content], upset' \in SUBSET Pushes
  PROVE  TypeInv'
<1>1. pc[p] \in Stages /\ pc[p] # "end"
  BY DEF TypeInv, ToolsOK
<1>2. After(pc[p], ok) \in Stages
  BY <1>1, AfterIsStage
<1>3. pc' \in [Pushes -> Stages] /\ \A q \in Pushes \ {p} : pc'[q] = pc[q]
  BY <1>2 DEF ToolGone, TypeInv, ToolsOK
<1>4. job' \in [Pushes -> {"none", "run", "hung"}] /\ job'[p] = "none"
      /\ \A q \in Pushes \ {p} : job'[q] = job[q] /\ src'[q] = src[q]
  BY DEF ToolGone, TypeInv, CITypeOK, ToolsOK
<1>5. src' \in [Pushes -> Content] /\ row' \in [Pushes -> 0..Len(Tests)]
  <2>1. {} \in Content /\ 0 \in 0..Len(Tests)
    BY DEF Content, Tests
  <2> QED BY <2>1 DEF ToolGone, TypeInv, CITypeOK, ToolsOK
<1>6. \A q \in Pushes : job'[q] # "none" => q # p
  BY <1>4
<1>7. ToolsOK'
  BY <1>3, <1>4, <1>5, <1>6 DEF ToolsOK, TypeInv
<1>8. CITypeOK'
  BY <1>4, <1>5 DEF CITypeOK, TypeInv, ToolGone, Commits, Content
<1> QED BY <1>7, <1>8 DEF TypeInv

LEMMA TypeStep ==
  ASSUME TypeInv, [CINext]_ciVars
  PROVE  TypeInv'
<1>m. machine.pushes \in 0..MaxPushes /\ MaxPushes \in Nat \ {0}
  BY MachineFields DEF TypeInv
<1>f. file \in [Files -> Content] /\ tree \in [Repos -> Commits]
  BY DEF TypeInv, CITypeOK, Content, Commits
<1>t. Len(Tests) \in Nat
  BY DEF Tests
<1>1. CASE Push
  <2>1. remote' \in Pushes /\ remote' \in 0..MaxPushes
    BY <1>1, <1>m DEF Push, Pushes, TypeInv, CITypeOK
  <2>2. upset' \subseteq Pushes
    BY <1>1, <2>1 DEF Push, TypeInv, ToolsOK
  <2> QED BY <1>1, <2>1, <2>2 DEF Push, TypeInv, CITypeOK, ToolsOK
<1>2. ASSUME NEW p \in Pushes, Launch(p) PROVE TypeInv'
  <2>1. pc[p] \in Stages /\ pc[p] # "end"
    BY <1>2 DEF Launch, TypeInv, ToolsOK
  <2>2. /\ Inputs(pc[p]) \in Content
        /\ pc[p] \in Pulls => \E c \in Commits : Inputs(pc[p]) = {c}
    BY <2>1, InputsType
  <2>3. /\ src' = [src EXCEPT ![p] = Inputs(pc[p])] /\ job' = [job EXCEPT ![p] = "run"]
        /\ src \in [Pushes -> Content] /\ job \in [Pushes -> {"none", "run", "hung"}]
        /\ pc' = pc /\ upset' = upset
    BY <1>2 DEF Launch, TypeInv, ToolsOK, CITypeOK
  <2>4. ToolsOK'
    <3>1. \A q \in Pushes : job'[q] # "none" => pc[q] # "end"
      BY <2>1, <2>3 DEF TypeInv, ToolsOK
    <3>2. \A q \in Pushes : job'[q] # "none" /\ pc[q] \in Pulls => \E c \in Commits : src'[q] = {c}
      BY <2>2, <2>3 DEF TypeInv, ToolsOK
    <3>3. src' \in [Pushes -> Content]
      BY <2>2, <2>3
    <3> QED BY <2>3, <3>1, <3>2, <3>3 DEF TypeInv, ToolsOK
  <2>5. CITypeOK'
    BY <1>2, <2>3 DEF Launch, TypeInv, CITypeOK
  <2> QED BY <2>4, <2>5 DEF TypeInv
<1>3. ASSUME NEW p \in Pushes, RunTest(p) \/ SkipTest(p) PROVE TypeInv'
  <2>1. PICK new \in Content :
          /\ src' = [src EXCEPT ![p] = @ \cup new]
          /\ row' = [row EXCEPT ![p] = @ + 1] /\ row[p] < Len(Tests) /\ pc[p] = "test"
          /\ upset' \in {upset, upset \cup {p}}
          /\ UNCHANGED <<machine, remote, tree, file, outdir, thread, pc, job>>
    <3>1. CASE RunTest(p)
      <4>1. row[p] + 1 \in 1..3 /\ row'[p] = row[p] + 1 /\ Len(Tests) = 3
        BY <1>3, <3>1 DEF RunTest, TypeInv, CITypeOK, Tests
      <4>2. Tests[row'[p]] \in Files
        <5>1. row'[p] \in {1, 2, 3}
          BY <4>1
        <5> QED BY <5>1 DEF Tests, Files
      <4>3. file[Tests[row'[p]]] \in Content /\ {Untested} \in Content
        BY <1>f, <4>2 DEF Content
      <4> DEFINE lib == file[Tests[row'[p]]]
                 what == IF lib = {} \/ Torn \in lib THEN {Untested} ELSE lib
      <4>4. what \in Content /\ src' = [src EXCEPT ![p] = @ \cup what]
        BY <3>1, <4>3 DEF RunTest
      <4> QED BY <3>1, <4>4 DEF RunTest
    <3>2. CASE SkipTest(p)
      <4>1. {Untested} \in Content
        BY DEF Content
      <4> QED BY <3>2, <4>1 DEF SkipTest
    <3> QED BY <1>3, <3>1, <3>2
  <2>2. src' \in [Pushes -> Content]
    BY <2>1 DEF TypeInv, ToolsOK, Content
  <2>3. row' \in [Pushes -> 0..Len(Tests)]
    BY <2>1, <1>t DEF TypeInv, CITypeOK
  <2>4. ToolsOK'
    <3>1. \A q \in Pushes : pc[q] \in Pulls => src'[q] = src[q]
      BY <2>1 DEF Pulls, TypeInv, ToolsOK
    <3>2. upset' \in SUBSET Pushes
      BY <2>1 DEF TypeInv, ToolsOK
    <3> QED BY <2>1, <2>2, <3>1, <3>2 DEF TypeInv, ToolsOK
  <2>5. CITypeOK'
    BY <2>1, <2>3, <2>4 DEF TypeInv, CITypeOK, ToolsOK
  <2> QED BY <2>4, <2>5 DEF TypeInv
<1>4. ASSUME NEW p \in Pushes, Finish(p) PROVE TypeInv'
  <2>1. job[p] # "none" /\ pc[p] \in Stages /\ pc[p] # "end" /\ src[p] \in Content
    BY <1>4 DEF Finish, TypeInv, ToolsOK
  <2>2. tree' \in [Repos -> Commits] /\ file' \in [Files -> Content]
    <3>1. CASE pc[p] \in Pulls
      <4>1. PICK c \in Commits : src[p] = {c}
        BY <2>1, <3>1 DEF TypeInv, ToolsOK
      <4>2. (CHOOSE d \in src[p] : TRUE) \in Commits
        BY <4>1
      <4> QED BY <1>4, <1>f, <3>1, <4>2 DEF Finish
    <3>2. CASE pc[p] \notin Pulls
      <4>1. Target(pc[p]) \in Files
        BY <2>1, <3>2, TargetIsFile
      <4> QED BY <1>4, <1>f, <2>1, <3>2, <4>1 DEF Finish
    <3> QED BY <3>1, <3>2
  <2>3. ToolGone(p, TRUE) /\ upset' \in SUBSET Pushes
    BY <1>4 DEF Finish, TypeInv, ToolsOK
  <2> QED BY <2>1, <2>2, <2>3, ToolGoneType
<1>5. ASSUME NEW p \in Pushes, Fail(p) PROVE TypeInv'
  <2>1. job[p] # "none" /\ ToolGone(p, FALSE) /\ tree' = tree /\ upset' \in SUBSET Pushes
    BY <1>5 DEF Fail, TypeInv, ToolsOK
  <2>2. file' \in [Files -> Content]
    <3>1. {} \in Content
      BY DEF Content
    <3>2. file' = file \/ file' = [file EXCEPT ![Target(pc[p])] = {}]
      BY <1>5 DEF Fail
    <3> QED BY <1>f, <3>1, <3>2
  <2> QED BY <1>f, <2>1, <2>2, ToolGoneType
<1>6. ASSUME NEW p \in Pushes, Timeout(p) PROVE TypeInv'
  <2>1. job[p] # "none" /\ ToolGone(p, FALSE) /\ tree' = tree /\ upset' \in SUBSET Pushes
    BY <1>6 DEF Timeout, Expired, TypeInv, ToolsOK
  <2>2. file' \in [Files -> Content]
    <3>1. {Torn} \in Content
      BY DEF Content
    <3>2. file' = file \/ file' = [file EXCEPT ![Target(pc[p])] = {Torn}]
      BY <1>6 DEF Timeout
    <3> QED BY <1>f, <3>1, <3>2
  <2> QED BY <1>f, <2>1, <2>2, ToolGoneType
<1>7. ASSUME NEW p \in Pushes, Hang(p) PROVE TypeInv'
  <2>1. \A q \in Pushes : job'[q] # "none" => job[q] # "none"
    BY <1>7 DEF Hang, TypeInv, CITypeOK
  <2> QED BY <1>7, <2>1 DEF Hang, TypeInv, CITypeOK, ToolsOK
<1>8. ASSUME NEW p \in Pushes, Kill(p) PROVE TypeInv'
  BY <1>8 DEF Kill, TypeInv, CITypeOK, ToolsOK
<1>9. ASSUME NEW p \in Pushes, End(p) PROVE TypeInv'
  BY <1>9 DEF End, TypeInv, CITypeOK, ToolsOK
<1>10. CASE UNCHANGED ciVars
  BY <1>10 DEF ciVars, TypeInv, CITypeOK, ToolsOK
<1> QED
  BY <1>1, <1>2, <1>3, <1>4, <1>5, <1>6, <1>7, <1>8, <1>9, <1>10 DEF CINext, Owed

-----------------------------------------------------------------------------
(* Who runs beside whom.                                                   *)

\* A step of push p's processes: only one with a pipeline or a tool takes it, it
\* starts no pipeline, wakes nobody and forgets no disturbance.
Moves(p) == Owed(p) \/ Hang(p) \/ Kill(p)

LEMMA MoverIsActive ==
  ASSUME TypeInv, NEW p \in Pushes, Moves(p)
  PROVE  /\ Active(p)
         /\ remote' = remote /\ machine' = machine /\ upset \subseteq upset'
         /\ \A q \in Pushes : /\ thread'[q] = "running" => thread[q] = "running"
                              /\ thread'[q] = "none" <=> thread[q] = "none"
                              /\ Active(q)' => Active(q)
         /\ \A q \in Pushes \ {p} : thread'[q] = thread[q] /\ job'[q] = job[q]
                                    /\ pc'[q] = pc[q] /\ src'[q] = src[q]
<1> USE DEF Active, TypeInv, CITypeOK, ToolsOK
<1>1. CASE Launch(p)
  BY <1>1 DEF Launch
<1>2. CASE RunTest(p)
  BY <1>2 DEF RunTest
<1>3. CASE SkipTest(p)
  BY <1>3 DEF SkipTest
<1>4. CASE Finish(p)
  BY <1>4 DEF Finish, ToolGone
<1>5. CASE Fail(p)
  BY <1>5 DEF Fail, ToolGone
<1>6. CASE Timeout(p)
  BY <1>6 DEF Timeout, ToolGone
<1>7. CASE End(p)
  BY <1>7 DEF End
<1>8. CASE Hang(p)
  BY <1>8 DEF Hang
<1>9. CASE Kill(p)
  BY <1>9 DEF Kill
<1> QED BY <1>1, <1>2, <1>3, <1>4, <1>5, <1>6, <1>7, <1>8, <1>9 DEF Moves, Owed

\* After a push an undisturbed pipeline is the new one, and nothing else runs.
LEMMA PushComesAlone ==
  ASSUME TypeInv, Fresh, Push
  PROVE  \A p \in Pushes : Quiet(p)' =>
           p = remote' /\ \A q \in Pushes : Active(q)' => q = p
<1> DEFINE others == {p \in Pushes : Active(p)}
<1>1. /\ thread' = [thread EXCEPT ![remote'] = "running"] /\ job' = job
      /\ upset' = upset \cup others \cup (IF others = {} THEN {} ELSE {remote'})
  BY DEF Push
<1>2. ASSUME NEW p \in Pushes, Quiet(p)' PROVE p = remote'
  <2>1. p \notin others /\ thread'[p] = "running"
    BY <1>1, <1>2 DEF Quiet
  <2>2. thread[p] # "running"
    BY <2>1 DEF Active
  <2> QED BY <1>1, <2>1, <2>2 DEF TypeInv, CITypeOK
<1>3. ASSUME NEW p \in Pushes, Quiet(p)', NEW q \in Pushes, Active(q)' PROVE q = p
  <2>1. p = remote'
    BY <1>2, <1>3
  <2>2. others = {}
    BY <1>1, <1>3, <2>1 DEF Quiet
  <2>3. ~Active(q)
    BY <2>2
  <2> QED BY <1>1, <1>3, <2>1, <2>3 DEF Active, TypeInv, CITypeOK
<1> QED BY <1>2, <1>3

LEMMA AloneStep ==
  ASSUME TypeInv, Fresh, Alone, [CINext]_ciVars
  PROVE  Fresh' /\ Alone'
<1>1. CASE Push
  <2>1. Alone'
    BY <1>1, PushComesAlone DEF Alone
  <2>2. remote' = remote + 1 /\ remote \in Nat /\ remote' \in Pushes
        /\ thread' = [thread EXCEPT ![remote'] = "running"] /\ pc' = pc /\ job' = job
    BY <1>1, MachineFields DEF Push, TypeInv, CITypeOK, Pushes
  <2>3. ASSUME NEW q \in Pushes
        PROVE  /\ thread'[q] = "none" <=> q > remote'
               /\ thread'[q] = "none" => pc'[q] = "pull_rt" /\ job'[q] = "none"
    <3>1. q \in Nat /\ thread'[q] = IF q = remote' THEN "running" ELSE thread[q]
      BY <2>2 DEF TypeInv, CITypeOK, Pushes
    <3>2. CASE q = remote'
      BY <2>2, <3>1, <3>2
    <3>3. CASE q # remote'
      BY <2>2, <3>1, <3>3 DEF Fresh
    <3> QED BY <3>2, <3>3
  <2> QED BY <2>1, <2>3 DEF Fresh
<1>2. ASSUME NEW p \in Pushes, Moves(p) PROVE Fresh' /\ Alone'
  <2>1. thread[p] # "none"
    BY <1>2, MoverIsActive DEF Active, Fresh
  <2>2. Fresh'
    BY <1>2, <2>1, MoverIsActive DEF Fresh
  <2>3. Alone'
    BY <1>2, MoverIsActive DEF Alone, Quiet
  <2> QED BY <2>2, <2>3
<1>3. CASE UNCHANGED ciVars
  BY <1>3 DEF ciVars, Fresh, Alone, Quiet, Active
<1> QED BY <1>1, <1>2, <1>3 DEF CINext, Moves

-----------------------------------------------------------------------------
(* What an undisturbed pipeline makes.                                     *)

\* Its step i has been done, of its own commit p alone.
MadeOwn(p, i) ==
  IF Steps[i] \in Pulls THEN tree[Repo(Steps[i])] = p ELSE file[Target(Steps[i])] = {p}

\* The names of what the first steps of a pipeline have made, at its step k.
LEMMA MadeBy ==
  ASSUME BuiltSoFar, NEW p \in Pushes, Quiet(p), NEW k \in 1..11, pc[p] = Steps[k]
  PROVE  /\ k > 1 => tree["rt"] = p
         /\ k > 2 => tree["bpd"] = p
         /\ k > 3 => file["cpu"] = {p}
         /\ k > 4 => file["plugin"] = {p}
         /\ k > 5 => file["ll"] = {p}
         /\ k > 6 => file["fix"] = {p}
         /\ k > 7 => file["obj"] = {p}
         /\ k > 8 => file["llvm"] = {p}
         /\ k > 9 => file["facts"] = {p}
<1>1. \A i \in 1..11 : k > i => MadeOwn(p, i)
  BY StepNames, PlaceOf DEF BuiltSoFar, MadeOwn, Quiet
<1>2. /\ k > 1 => MadeOwn(p, 1)
      /\ k > 2 => MadeOwn(p, 2)
      /\ k > 3 => MadeOwn(p, 3)
      /\ k > 4 => MadeOwn(p, 4)
      /\ k > 5 => MadeOwn(p, 5)
      /\ k > 6 => MadeOwn(p, 6)
      /\ k > 7 => MadeOwn(p, 7)
      /\ k > 8 => MadeOwn(p, 8)
      /\ k > 9 => MadeOwn(p, 9)
  BY <1>1
<1>3. /\ MadeOwn(p, 1) <=> tree["rt"] = p
      /\ MadeOwn(p, 2) <=> tree["bpd"] = p
      /\ MadeOwn(p, 3) <=> file["cpu"] = {p}
      /\ MadeOwn(p, 4) <=> file["plugin"] = {p}
      /\ MadeOwn(p, 5) <=> file["ll"] = {p}
      /\ MadeOwn(p, 6) <=> file["fix"] = {p}
      /\ MadeOwn(p, 7) <=> file["obj"] = {p}
      /\ MadeOwn(p, 8) <=> file["llvm"] = {p}
      /\ MadeOwn(p, 9) <=> file["facts"] = {p}
  BY StepNames DEF MadeOwn, Pulls, Repo, Target
<1> QED BY <1>2, <1>3

\* What each step reads.
LEMMA InputsOf ==
  /\ Inputs("pull_rt") = {remote} /\ Inputs("pull_bpd") = {remote}
  /\ Inputs("cpu") = {tree["bpd"]} /\ Inputs("plugin") = {tree["bpd"]}
  /\ Inputs("fix") = {tree["bpd"]}
  /\ Inputs("emit") = file["plugin"] /\ Inputs("assemble") = file["ll"]
  /\ Inputs("link") = file["obj"] \cup file["fix"]
  /\ Inputs("test") = {tree["rt"]}
  /\ Inputs("dashboard") = {tree["rt"]} \cup file["facts"]
BY DEF Inputs, Pulls

\* No step reads what only a later one makes.
LEMMA ReadsOwn ==
  ASSUME BuiltSoFar, NEW p \in Pushes, Quiet(p), pc[p] \in Stages, pc[p] # "end", p = remote
  PROVE  Inputs(pc[p]) = {p}
<1>1. PICK k \in 1..11 : pc[p] = Steps[k]
  BY StepNames DEF Stages
<1>2. k \in {1, 2, 3, 4, 5, 6, 7, 8, 9, 10}
  BY <1>1, StepNames
<1>3. /\ k > 1 => tree["rt"] = p
      /\ k > 2 => tree["bpd"] = p
      /\ k > 4 => file["plugin"] = {p}
      /\ k > 5 => file["ll"] = {p}
      /\ k > 6 => file["fix"] = {p}
      /\ k > 7 => file["obj"] = {p}
      /\ k > 9 => file["facts"] = {p}
  BY <1>1, MadeBy
<1>4. CASE k \in {1, 2}
  BY <1>1, <1>4, StepNames, InputsOf
<1>5. CASE k \in {3, 4, 6}
  BY <1>1, <1>3, <1>5, StepNames, InputsOf
<1>6. CASE k \in {5, 7, 8}
  BY <1>1, <1>3, <1>6, StepNames, InputsOf
<1>7. CASE k \in {9, 10}
  BY <1>1, <1>3, <1>7, StepNames, InputsOf
<1> QED BY <1>2, <1>4, <1>5, <1>6, <1>7

\* A step of another push's processes, or a push: the pipeline is new.
LEMMA NewOrOwn ==
  ASSUME CIInv, CINext, NEW p \in Pushes, Quiet(p)'
  PROVE  \/ pc'[p] = "pull_rt" /\ job'[p] = "none"
         \/ Quiet(p) /\ Moves(p)
<1>1. CASE Push
  <2>1. p = remote'
    BY <1>1, PushComesAlone DEF CIInv, TypeInv
  <2>2. thread[p] = "none"
    BY <1>1, <2>1 DEF Push, CIInv, Fresh, CITypeOK, Pushes
  <2> QED BY <1>1, <2>2 DEF Push, CIInv, Fresh
<1>2. ASSUME NEW q \in Pushes, Moves(q) PROVE Quiet(p) /\ Moves(p)
  <2>1. Quiet(p) /\ Active(q)
    BY <1>2, MoverIsActive DEF Quiet, CIInv, TypeInv
  <2>2. q = p
    BY <2>1 DEF CIInv, Alone
  <2> QED BY <1>2, <2>1, <2>2
<1> QED BY <1>1, <1>2 DEF CINext, Moves

\* What a tool of an undisturbed pipeline has read stays its own commit: the
\* harness reads libraries of this pipeline, none of them missing or torn.
LEMMA OwnInputStep ==
  ASSUME CIInv, CINext, NEW p \in Pushes, Quiet(p)', job'[p] # "none"
  PROVE  src'[p] = {p}
<1>1. Quiet(p) /\ Moves(p)
  BY NewOrOwn
<1>t. /\ job \in [Pushes -> {"none", "run", "hung"}] /\ src \in [Pushes -> Content]
      /\ row \in [Pushes -> 0..Len(Tests)] /\ pc[p] \in Stages /\ p = remote
      /\ BuiltSoFar /\ OwnInput /\ upset \in SUBSET Pushes
  BY <1>1 DEF CIInv, CITypeOK, ToolsOK, Alone
<1>2. CASE Launch(p)
  <2>1. Inputs(pc[p]) = {p}
    BY <1>1, <1>2, <1>t, ReadsOwn DEF Launch
  <2> QED BY <1>2, <1>t, <2>1 DEF Launch
<1>3. CASE RunTest(p)
  <2>1. src[p] = {p} /\ pc[p] = Steps[9] /\ row'[p] \in {1, 2, 3}
    BY <1>1, <1>3, <1>t, StepNames DEF RunTest, OwnInput, Tests
  <2>2. file["llvm"] = {p} /\ file["cpu"] = {p}
    <3>1. 9 \in 1..11 /\ 9 > 8 /\ 9 > 3
      OBVIOUS
    <3> QED BY <1>1, <1>t, <2>1, <3>1, MadeBy
  <2>3. file[Tests[row'[p]]] = {p}
    BY <2>1, <2>2 DEF Tests
  <2>4. p # Torn /\ {p} # {}
    BY DEF Pushes, Torn
  <2>5. src'[p] = src[p] \cup {p}
    BY <1>3, <1>t, <2>3, <2>4 DEF RunTest
  <2> QED BY <2>1, <2>5
<1>4. CASE Hang(p)
  BY <1>1, <1>4, <1>t DEF Hang, OwnInput
<1>5. ~SkipTest(p) /\ ~Timeout(p) /\ ~Kill(p) /\ ~End(p)
  <2>1. Quiet(p)' => p \notin upset'
    BY DEF Quiet
  <2>2. thread'[p] = "running" /\ thread \in [Pushes -> {"none", "running", "done", "killed"}]
    BY DEF Quiet, CIInv, CITypeOK
  <2> QED BY <2>1, <2>2 DEF SkipTest, Timeout, Kill, End
<1>6. ~Finish(p) /\ ~Fail(p)
  BY <1>t DEF Finish, Fail, ToolGone
<1> QED BY <1>1, <1>2, <1>3, <1>4, <1>5, <1>6 DEF Moves, Owed

\* What an undisturbed pipeline has made stays its own, and each tool that ends
\* adds what the next step expects.
LEMMA BuiltStep ==
  ASSUME CIInv, CINext, NEW p \in Pushes, Quiet(p)', NEW i \in 1..11, Place(pc'[p]) > i
  PROVE  MadeOwn(p, i)'
<1>1. pc'[p] # "pull_rt"
  <2>1. Place("pull_rt") = 1
    BY PlaceOf, StepNames
  <2> QED BY <2>1
<1>2. Quiet(p) /\ Moves(p)
  BY <1>1, NewOrOwn
<1>t. /\ pc \in [Pushes -> Stages] /\ job \in [Pushes -> {"none", "run", "hung"}]
      /\ file \in [Files -> Content] /\ tree \in [Repos -> Commits]
      /\ thread \in [Pushes -> {"none", "running", "done", "killed"}]
      /\ OwnInput /\ BuiltSoFar
  BY DEF CIInv, CITypeOK, ToolsOK, Content, Commits
<1>q. p \notin upset' /\ thread'[p] = "running" /\ thread[p] = "running"
  BY <1>2 DEF Quiet
<1>s. \A k \in 1..11 : Place(pc[p]) > k => MadeOwn(p, k)
  BY <1>2, <1>t, StepNames DEF BuiltSoFar, MadeOwn, Quiet
<1>3. CASE pc' = pc /\ tree' = tree /\ file' = file
  BY <1>3, <1>s DEF MadeOwn
<1>4. CASE Finish(p)
  <2> DEFINE k == Place(pc[p])
  <2>1. pc[p] # "end" /\ k \in 1..10 /\ Steps[k] = pc[p]
    BY <1>4, <1>t, StageAt DEF Finish, CIInv, ToolsOK
  <2>2. Place(pc'[p]) = k + 1
    <3>1. pc'[p] = After(pc[p], TRUE)
      BY <1>4, <1>q, <1>t DEF Finish, ToolGone
    <3>2. pc'[p] = Steps[k + 1]
      BY <3>1 DEF After
    <3> QED BY <2>1, <3>2, PlaceOf
  <2>3. src[p] = {p} /\ (CHOOSE c \in src[p] : TRUE) = p
    BY <1>2, <1>4, <1>t DEF Finish, OwnInput
  <2>4. CASE i = k
    <3>1. CASE pc[p] \in Pulls
      <4>1. Repo(pc[p]) \in Repos
        BY DEF Repo, Repos
      <4> QED BY <1>4, <1>t, <2>1, <2>3, <2>4, <3>1, <4>1 DEF Finish, MadeOwn
    <3>2. CASE pc[p] \notin Pulls
      <4>1. Target(pc[p]) \in Files
        BY <1>t, <2>1, <3>2, TargetIsFile
      <4> QED BY <1>4, <1>t, <2>1, <2>3, <2>4, <3>2, <4>1 DEF Finish, MadeOwn
    <3> QED BY <3>1, <3>2
  <2>5. CASE i < k
    <3>1. MadeOwn(p, i)
      BY <1>s, <2>5
    <3>2. /\ \A r \in Repos : tree'[r] = tree[r] \/ tree'[r] = p
          /\ \A f \in Files : file'[f] = file[f] \/ file'[f] = {p}
      BY <1>4, <1>t, <2>3 DEF Finish
    <3>3. CASE Steps[i] \in Pulls
      <4>1. Repo(Steps[i]) \in Repos
        BY DEF Repo, Repos
      <4> QED BY <3>1, <3>2, <3>3, <4>1 DEF MadeOwn
    <3>4. CASE Steps[i] \notin Pulls
      <4>1. Steps[i] \in Stages /\ Steps[i] # "end"
        BY <2>1, <2>5, StepNames, StepsDiffer DEF Stages
      <4>2. Target(Steps[i]) \in Files
        BY <3>4, <4>1, TargetIsFile
      <4> QED BY <3>1, <3>2, <3>4, <4>2 DEF MadeOwn
    <3> QED BY <3>3, <3>4
  <2> QED BY <2>1, <2>2, <2>4, <2>5
<1>5. ~Fail(p)
  <2>1. Fail(p) => Torn \notin src[p]
    BY <1>2, <1>t DEF Fail, OwnInput, Pushes, Torn
  <2> QED BY <1>q, <2>1 DEF Fail
<1>6. ~SkipTest(p) /\ ~Timeout(p) /\ ~Kill(p) /\ ~End(p)
  BY <1>q, <1>t DEF SkipTest, Timeout, Kill, End
<1>7. Launch(p) \/ RunTest(p) \/ Hang(p) => pc' = pc /\ tree' = tree /\ file' = file
  BY DEF Launch, RunTest, Hang
<1> QED BY <1>2, <1>3, <1>4, <1>5, <1>6, <1>7 DEF Moves, Owed

-----------------------------------------------------------------------------
LEMMA CIInvInit == CIInit => CIInv
<1> SUFFICES ASSUME CIInit PROVE CIInv
  OBVIOUS
<1>1. MaxPushes \in Nat \ {0} /\ machine.outdir \in 0..1
  BY PipelineAssumption DEF CIInit, Machine
<1>2. CITypeOK
  BY <1>1 DEF CIInit, CITypeOK, Repos, Files, Tests
<1>3. ToolsOK
  BY StepNames DEF CIInit, ToolsOK, Stages, Content
<1>4. Fresh /\ Alone /\ OwnInput /\ BuiltSoFar
  BY DEF CIInit, Fresh, Alone, OwnInput, BuiltSoFar, Quiet, Active, Pushes
<1> QED BY <1>2, <1>3, <1>4 DEF CIInv

LEMMA CIInvStep == CIInv /\ [CINext]_ciVars => CIInv'
<1> SUFFICES ASSUME CIInv, [CINext]_ciVars PROVE CIInv'
  OBVIOUS
<1>1. CITypeOK' /\ ToolsOK' /\ Fresh' /\ Alone'
  BY TypeStep, AloneStep DEF CIInv, TypeInv
<1>2. CASE CINext
  <2>1. OwnInput'
    BY <1>2, OwnInputStep DEF OwnInput
  <2>2. BuiltSoFar'
    BY <1>2, BuiltStep, StepNames DEF BuiltSoFar, MadeOwn, Quiet
  <2> QED BY <1>1, <2>1, <2>2 DEF CIInv
<1>3. CASE UNCHANGED ciVars
  BY <1>1, <1>3 DEF CIInv, ciVars, OwnInput, BuiltSoFar, Quiet
<1> QED BY <1>2, <1>3

(* Every reachable state of every webhook is well typed: a file holds       *)
(* commits or a mark, a checkout one commit, a harness row is in its table. *)
THEOREM CIIsTyped == CISpec => []CITypeOK
<1>1. CIInv => CITypeOK
  BY DEF CIInv
<1> QED BY <1>1, CIInvInit, CIInvStep, PTL DEF CISpec

(* However many pushes come, whichever tools fail, hang, are killed or are  *)
(* left behind in other pipelines: while a pipeline runs undisturbed and    *)
(* unjoined, all it has built is of its own commit (_run_pipeline's thread  *)
(* and ci_build_test_dashboard.py's fixed order of steps).                  *)
THEOREM BuildsAreOwn == CISpec => []BuiltSoFar
<1>1. CIInv => BuiltSoFar
  BY DEF CIInv
<1> QED BY <1>1, CIInvInit, CIInvStep, PTL DEF CISpec

-----------------------------------------------------------------------------
(* The autotuner: the invariant.                                           *)

Points   == {"idle", "load", "compile", "clear", "launch", "compare", "measure", "remove",
             "open", "dump", "done", "dead"}
Checking == {"clear", "launch", "compare", "measure", "remove"}
Sweeping == {"compile"} \cup Checking
Saving   == {"open", "dump"}
Pair     == Sizes \X Cands

TunerTyped ==
  /\ tuning \in Tuning
  /\ at \in [Tuners -> Points]
  /\ cand \in [Tuners -> Cands]
  /\ best \in [Tuners -> Cands \cup {Nothing}]
  /\ known \in [Tuners -> SUBSET Pair]
  /\ result \in [Tuners -> Cands \cup {Nothing}]
  /\ cache = {Cut} \/ cache \subseteq Pair
  /\ cubin \subseteq Cands
  /\ tuned \subseteq Pair

\* Only a tuning saves, and only a winner.
Saves == \A p \in Tuners : at[p] \in Saving => Kind(p) = "tune" /\ best[p] # Nothing

\* No launch of tcheck_v2 fails.
Lossless == "launch" \notin tuning.mishaps

\* At most one process runs.
Solo == \A p, q \in Tuners : Running(p) /\ Running(q) => p = q

\* What an entry of the file promises.
Earned(e) ==
  /\ Passes("tune", Quality[e[2]])
  /\ Lossless => IsFastest(e[2], e[1], Len(Quality))

\* The files every later process finds.
TunedFiles ==
  /\ cache = {Cut} \/ (tuned \subseteq cache /\ \A e \in cache : Earned(e))
  /\ \A c \in cubin : Quality[c] # "broken"

\* The candidates p is through with.
Tried(p) == IF at[p] \in Saving THEN Len(Quality)
            ELSE IF at[p] = "remove" THEN cand[p] ELSE cand[p] - 1

\* The winner among them.
Wins(c, n, upTo) ==
  /\ c # Nothing => Passes("tune", Quality[c])
  /\ Lossless => \/ c = Nothing /\ \A d \in 1..upTo : ~Passes("tune", Quality[d])
                 \/ c # Nothing /\ IsFastest(c, n, upTo)

BestSoFar(p) ==
  Kind(p) = "tune" /\ at[p] \in Sweeping \cup Saving => Wins(best[p], N(p), Tried(p))

\* What p has read of the file is what the file still says, and its own size
\* was not in it.
HasRead(p) ==
  /\ Kind(p) = "tune" /\ at[p] \in Sweeping \cup Saving =>
       \A e \in known[p] : e[1] # N(p) /\ Earned(e)
  /\ Kind(p) = "tune" /\ at[p] \in Sweeping \cup {"open"} => known[p] = cache
  /\ at[p] = "dump" => cache = {Cut} /\ tuned \subseteq known[p]

\* The other files are of p's candidate at p's size.
Own(p) ==
  /\ at[p] \in Sweeping => input = VerifySize(p)
  /\ at[p] \in Checking => cand[p] \in cubin
  /\ at[p] = "launch" => csw = {}
  /\ at[p] = "compare" =>
       \/ csw = {<<VerifySize(p), Quality[cand[p]]>>}
       \/ csw = {} /\ ~Lossless
  /\ at[p] = "measure" => Passes(Kind(p), Quality[cand[p]])

Returned(p) ==
  at[p] = "done" /\ Kind(p) = "tune" => result[p] # Nothing /\ Earned(<<N(p), result[p]>>)

\* A sweep that has not begun begins with the first candidate and no winner.
Unstarted(p) == at[p] \in {"idle", "load"} => cand[p] = 1 /\ best[p] = Nothing

Part(p) == Unstarted(p) /\ BestSoFar(p) /\ HasRead(p) /\ Own(p) /\ Returned(p)

TunerInv ==
  /\ TunerTyped /\ Saves
  /\ met = {} => Solo /\ TunedFiles /\ \A p \in Tuners : Part(p)

-----------------------------------------------------------------------------
(* Types.                                                                  *)

LEMMA Constants ==
  /\ Len(Quality) \in Nat \ {0} /\ Cands # {} /\ 1 \in Cands /\ Cands \subseteq Nat \ {0}
  /\ Sizes \subseteq Nat \ {0}
  /\ \A n \in Sizes, c \in Cands : Speed[n][c] \in Int
<1>1. Len(Quality) \in Nat /\ Len(Speed) \in Nat
  BY TunerAssumption
<1>2. Len(Quality) # 0
  BY TunerAssumption
<1>3. \A n \in Sizes : Speed[n] \in [Cands -> Int]
  BY TunerAssumption, <1>1 DEF Sizes
<1> QED BY <1>1, <1>2, <1>3 DEF Cands, Sizes

LEMMA TaskType ==
  ASSUME TunerTyped, NEW p \in Tuners
  PROVE  N(p) \in Sizes /\ Kind(p) \in {"none", "tune", "sweep"}
<1>1. tuning.task \in [Tuners -> {"none", "tune", "sweep"} \X Sizes]
  BY DEF TunerTyped, Tuning
<1>2. tuning.task[p] \in {"none", "tune", "sweep"} \X Sizes
  BY <1>1
<1> QED BY <1>2 DEF N, Kind

LEMMA TypedInit == TunerInit => TunerTyped
<1> SUFFICES ASSUME TunerInit PROVE TunerTyped
  OBVIOUS
<1>1. tuning \in Tuning
  BY TunerAssumption DEF TunerInit
<1> QED BY <1>1, Constants DEF TunerInit, TunerTyped, Points

\* An entry that is added is a pair of a size and a candidate.
LEMMA WrittenType ==
  ASSUME NEW old \in SUBSET Pair, NEW new \in Pair
  PROVE  Written(old, new) \in SUBSET Pair
  BY DEF Written

LEMMA NextCandType ==
  ASSUME TunerTyped, NEW p \in Tuners, NextCand(p)
  PROVE  cand' \in [Tuners -> Cands] /\ at' \in [Tuners -> Points]
<1>1. (IF cand[p] = Len(Quality) THEN 1 ELSE cand[p] + 1) \in Cands
  BY Constants DEF TunerTyped, Cands
<1>2. cand' \in [Tuners -> Cands]
  BY <1>1 DEF NextCand, TunerTyped
<1>3. at' \in [Tuners -> Points]
  BY DEF NextCand, TunerTyped, Points
<1> QED BY <1>2, <1>3

LEMMA TypedStep ==
  ASSUME TunerTyped, Saves, NEW p \in Tuners, TunerStep(p)
  PROVE  TunerTyped'
<1> USE DEF TunerTyped, Points
<1>1. CASE TunerStart(p)
  BY <1>1 DEF TunerStart
<1>2. CASE LoadCut(p)
  BY <1>2 DEF LoadCut
<1>3. CASE CacheHit(p)
  <2>1. PICK e \in cache \ {Cut} : e[1] = N(p) /\ result' = [result EXCEPT ![p] = e[2]]
    BY <1>3 DEF CacheHit
  <2>2. e \in Pair
    BY <2>1
  <2>3. e[2] \in Cands
    BY <2>2 DEF Pair
  <2> QED BY <1>3, <2>1, <2>3 DEF CacheHit
<1>4. CASE WriteInputs(p)
  <2>1. (IF Kind(p) = "tune" THEN cache ELSE {}) \in SUBSET Pair
    BY <1>4 DEF WriteInputs
  <2> QED BY <1>4, <2>1 DEF WriteInputs
<1>5. CASE Compile(p)
  <2>1. cubin' \subseteq Cands
    BY <1>5 DEF Compile
  <2>2. cand' \in [Tuners -> Cands] /\ at' \in [Tuners -> Points]
    BY <1>5, NextCandType DEF Compile
  <2> QED BY <1>5, <2>1, <2>2 DEF Compile
<1>6. CASE Clear(p)
  BY <1>6 DEF Clear
<1>7. CASE LaunchCheck(p)
  BY <1>7 DEF LaunchCheck
<1>8. CASE Compare(p)
  <2>1. at' \in [Tuners -> Points]
    BY <1>8 DEF Compare
  <2> QED BY <1>8, <2>1 DEF Compare
<1>9. CASE Measure(p)
  <2>1. Better(p, best[p]) \in Cands \cup {Nothing}
    BY DEF Better
  <2> QED BY <1>9, <2>1 DEF Measure
<1>10. CASE RemoveCubin(p)
  <2>1. cubin' \subseteq Cands
    BY <1>10 DEF RemoveCubin
  <2>2. cand' \in [Tuners -> Cands] /\ at' \in [Tuners -> Points]
    BY <1>10, NextCandType DEF RemoveCubin
  <2> QED BY <1>10, <2>1, <2>2 DEF RemoveCubin
<1>11. CASE Truncate(p)
  BY <1>11 DEF Truncate
<1>12. CASE Dump(p)
  <2>1. <<N(p), best[p]>> \in Pair
    BY <1>12, TaskType DEF Dump, Pair, Saves, Saving
  <2>2. Written(known[p], <<N(p), best[p]>>) \in SUBSET Pair
    BY <2>1, WrittenType
  <2> QED BY <1>12, <2>1, <2>2 DEF Dump
<1>13. CASE Die(p)
  BY <1>13 DEF Die, Mishap
<1> QED BY <1>1, <1>2, <1>3, <1>4, <1>5, <1>6, <1>7, <1>8, <1>9, <1>10, <1>11, <1>12, <1>13
     DEF TunerStep

\* The step of a process leaves the others where they are.
LEMMA SavesStep ==
  ASSUME TunerTyped, Saves, NEW p \in Tuners, TunerStep(p)
  PROVE  Saves'
<1> SUFFICES ASSUME NEW q \in Tuners, at'[q] \in Saving
             PROVE  Kind(q)' = "tune" /\ best'[q] # Nothing
  BY DEF Saves
<1> USE DEF TunerTyped, Saving, Kind
<1>1. CASE TunerStart(p)
  BY <1>1 DEF TunerStart, Saves
<1>2. CASE LoadCut(p)
  BY <1>2 DEF LoadCut, Saves
<1>3. CASE CacheHit(p)
  BY <1>3 DEF CacheHit, Saves
<1>4. CASE WriteInputs(p)
  BY <1>4 DEF WriteInputs, Saves
<1>5. CASE Compile(p)
  <2>1. CASE at' = [at EXCEPT ![p] = "clear"]
    BY <1>5, <2>1 DEF Compile, Saves
  <2>2. CASE NextCand(p)
    BY <1>5, <2>2 DEF Compile, NextCand, Saves
  <2> QED BY <1>5, <2>1, <2>2 DEF Compile
<1>6. CASE Clear(p)
  BY <1>6 DEF Clear, Saves
<1>7. CASE LaunchCheck(p)
  BY <1>7 DEF LaunchCheck, Saves
<1>8. CASE Compare(p)
  <2>1. at'[p] \in {"dead", "measure", "remove"} /\ \A r \in Tuners \ {p} : at'[r] = at[r]
    BY <1>8 DEF Compare
  <2> QED BY <1>8, <2>1 DEF Compare, Saves
<1>9. CASE Measure(p)
  BY <1>9 DEF Measure, Saves
<1>10. CASE RemoveCubin(p)
  <2>1. CASE at' = [at EXCEPT ![p] = "dead"]
    BY <1>10, <2>1 DEF RemoveCubin, Saves
  <2>2. CASE NextCand(p)
    BY <1>10, <2>2 DEF RemoveCubin, NextCand, Saves
  <2> QED BY <1>10, <2>1, <2>2 DEF RemoveCubin
<1>11. CASE Truncate(p)
  BY <1>11 DEF Truncate, Saves
<1>12. CASE Dump(p)
  BY <1>12 DEF Dump, Saves
<1>13. CASE Die(p)
  BY <1>13 DEF Die, Mishap, Saves
<1> QED BY <1>1, <1>2, <1>3, <1>4, <1>5, <1>6, <1>7, <1>8, <1>9, <1>10, <1>11, <1>12, <1>13
     DEF TunerStep

-----------------------------------------------------------------------------
(* One process at a time.                                                  *)

\* Where nobody else runs, a step of p concerns p only.
TunerMoves(p) ==
  /\ tuning' = tuning
  /\ \A q \in Tuners \ {p} : /\ at'[q] = at[q] /\ cand'[q] = cand[q]
                             /\ best'[q] = best[q] /\ result'[q] = result[q]

LEMMA OthersRest ==
  ASSUME TunerTyped, Solo, \A q \in Tuners : Part(q), NEW p \in Tuners, TunerMoves(p),
         Running(p) \/ \A q \in Tuners : ~Running(q)
  PROVE  Solo' /\ \A q \in Tuners \ {p} : Part(q)'
<1>1. \A q \in Tuners \ {p} : ~Running(q)
  BY DEF Solo
<1>2. \A q \in Tuners \ {p} : ~Running(q)'
  BY <1>1 DEF Running, TunerMoves
<1>3. Solo'
  BY <1>2 DEF Solo
<1>4. ASSUME NEW q \in Tuners \ {p} PROVE Part(q)'
  <2>1. at'[q] \notin Sweeping /\ at'[q] \notin Checking /\ at'[q] \notin Saving
    BY <1>2 DEF Running, Sweeping, Checking, Saving
  <2>2. BestSoFar(q)'
    BY <2>1 DEF BestSoFar
  <2>3. HasRead(q)'
    BY <2>1 DEF HasRead, Sweeping, Saving
  <2>4. Own(q)'
    BY <2>1 DEF Own, Checking
  <2>5. Returned(q)'
    <3>1. Returned(q)
      BY DEF Part
    <3>2. Kind(q)' = Kind(q) /\ N(q)' = N(q) /\ (Lossless' <=> Lossless)
      BY DEF TunerMoves, Kind, N, Lossless
    <3>3. Earned(<<N(q), result[q]>>) => Earned(<<N(q), result[q]>>)'
      BY <3>2 DEF Earned, TunerMoves
    <3> QED BY <3>1, <3>2, <3>3 DEF Returned, TunerMoves
  <2>6. Unstarted(q)'
    BY DEF Part, Unstarted, TunerMoves
  <2> QED BY <2>2, <2>3, <2>4, <2>5, <2>6 DEF Part
<1> QED BY <1>3, <1>4

-----------------------------------------------------------------------------
(* What a candidate's turn adds to the winner.                             *)

\* Of the candidates so far and the one just measured the better one wins.
LEMMA MeasuredWins ==
  ASSUME NEW n \in Sizes, NEW c \in Cands, NEW b \in Cands \cup {Nothing},
         Wins(b, n, c - 1), Passes("tune", Quality[c])
  PROVE  Wins(IF b = Nothing \/ Speed[n][c] > Speed[n][b] THEN c ELSE b, n, c)
<1> DEFINE w == IF b = Nothing \/ Speed[n][c] > Speed[n][b] THEN c ELSE b
<1>1. c \in Nat \ {0} /\ Nothing = 0 /\ \A d \in Cands : d \in Nat \ {0} /\ Speed[n][d] \in Int
  BY Constants DEF Nothing
<1>2. Passes("tune", Quality[w]) /\ w # Nothing
  BY <1>1 DEF Wins
<1>3. ASSUME Lossless PROVE IsFastest(w, n, c)
  <2>1. 1..c \subseteq Cands /\ 1..c = 1..(c - 1) \cup {c}
    BY <1>1, Constants DEF Cands
  <2>2. CASE b = Nothing
    <3>1. \A d \in 1..(c - 1) : ~Passes("tune", Quality[d])
      BY <1>3, <2>2 DEF Wins, IsFastest
    <3>2. w = c
      BY <2>2
    <3> HIDE DEF w
    <3> QED BY <1>1, <1>2, <2>1, <3>1, <3>2 DEF IsFastest
  <2>3. CASE b # Nothing
    <3>1. /\ b \in 1..(c - 1)
          /\ \A d \in 1..(c - 1) : Passes("tune", Quality[d]) =>
               Speed[n][d] < Speed[n][b] \/ (Speed[n][d] = Speed[n][b] /\ b =< d)
      BY <1>3, <2>3 DEF Wins, IsFastest
    <3>2. b \in Cands /\ b < c /\ b \in Nat
      BY <1>1, <3>1
    <3>3. Speed[n][b] \in Int /\ Speed[n][c] \in Int
      BY <1>1, <3>2
    <3>4. CASE Speed[n][c] > Speed[n][b]
      <4>1. w = c
        BY <3>4
      <4>2. \A d \in 1..(c - 1) : Passes("tune", Quality[d]) => Speed[n][d] < Speed[n][c]
        BY <1>1, <2>1, <3>1, <3>3, <3>4
      <4> HIDE DEF w
      <4> QED BY <1>1, <1>2, <2>1, <4>1, <4>2 DEF IsFastest
    <3>5. CASE ~ (Speed[n][c] > Speed[n][b])
      <4>1. w = b
        BY <2>3, <3>5
      <4>2. Speed[n][c] < Speed[n][b] \/ (Speed[n][c] = Speed[n][b] /\ b =< c)
        BY <1>1, <3>2, <3>3, <3>5
      <4> HIDE DEF w
      <4> QED BY <1>2, <2>1, <3>1, <3>2, <4>1, <4>2 DEF IsFastest
    <3> QED BY <3>4, <3>5
  <2> QED BY <2>2, <2>3
<1> HIDE DEF w
<1>4. Wins(w, n, c)
  BY <1>2, <1>3 DEF Wins
<1> QED BY <1>4 DEF w

\* One that does not pass changes nothing; when a launch has failed only what
\* passed is claimed.
LEMMA PassedOverWins ==
  ASSUME NEW n \in Sizes, NEW c \in Cands, NEW b \in Cands \cup {Nothing},
         Wins(b, n, c - 1), Lossless => ~Passes("tune", Quality[c])
  PROVE  Wins(b, n, c)
<1>1. c \in Nat \ {0} /\ 1..c = 1..(c - 1) \cup {c}
  BY Constants
<1>2. ASSUME Lossless, b = Nothing PROVE \A d \in 1..c : ~Passes("tune", Quality[d])
  BY <1>1, <1>2 DEF Wins
<1>3. ASSUME Lossless, b # Nothing PROVE IsFastest(b, n, c)
  BY <1>1, <1>3 DEF Wins, IsFastest
<1> QED BY <1>2, <1>3 DEF Wins

-----------------------------------------------------------------------------
(* The steps of a process that is alone.                                   *)

LEMMA SameSetting ==
  ASSUME tuning' = tuning
  PROVE  /\ \A p : /\ N(p)' = N(p) /\ Kind(p)' = Kind(p) /\ VerifySize(p)' = VerifySize(p)
         /\ Lossless' <=> Lossless
         /\ \A e : Earned(e)' <=> Earned(e)
         /\ \A c, n, upTo : Wins(c, n, upTo)' <=> Wins(c, n, upTo)
  BY DEF N, Kind, VerifySize, Lossless, Earned, Wins

LEMMA FilesSame ==
  ASSUME TunedFiles, tuning' = tuning, UNCHANGED <<cache, tuned>>, \A c \in cubin' : Quality[c] # "broken"
  PROVE  TunedFiles'
  BY SameSetting DEF TunedFiles

\* A step of p that ends neither a sweep nor a tuning keeps what p knows.
LEMMA WithinSweep ==
  ASSUME NEW p \in Tuners, Part(p), at[p] \in Sweeping, at'[p] \in Sweeping,
         UNCHANGED <<tuning, known, cache>>,
         Kind(p) = "tune" => Wins(best'[p], N(p), Tried(p)'),
         Own(p)'
  PROVE  Part(p)'
<1> USE SameSetting
<1>1. at'[p] \notin {"idle", "load", "done", "dump", "open"}
  BY DEF Sweeping, Checking
<1>2. Unstarted(p)'
  BY <1>1 DEF Unstarted
<1>3. BestSoFar(p)'
  BY DEF BestSoFar
<1>4. HasRead(p)'
  BY <1>1 DEF Part, HasRead
<1>5. Returned(p)'
  BY <1>1 DEF Returned
<1> QED BY <1>2, <1>3, <1>4, <1>5 DEF Part

\* The candidate is done with.
LEMMA NextPart ==
  ASSUME TunerTyped, NEW p \in Tuners, Part(p), at[p] \in Sweeping, NextCand(p),
         UNCHANGED <<tuning, known, cache, best, input>>,
         Kind(p) = "tune" => Wins(best[p], N(p), cand[p])
  PROVE  Part(p)'
<1> USE SameSetting
<1>0. cand[p] \in Cands /\ cand[p] \in Nat /\ cand[p] =< Len(Quality) /\ Len(Quality) \in Nat \ {0}
  BY Constants DEF TunerTyped, Cands
<1>1. CASE cand[p] < Len(Quality)
  <2>1. at'[p] = "compile" /\ cand'[p] = cand[p] + 1
    BY <1>0, <1>1 DEF NextCand, TunerTyped
  <2>2. Tried(p)' = cand[p]
    BY <1>0, <2>1 DEF Tried, Saving
  <2>3. Own(p)'
    BY <2>1 DEF Part, Own, Checking, Sweeping
  <2>4. at'[p] \in Sweeping
    BY <2>1 DEF Sweeping
  <2> QED BY <2>2, <2>3, <2>4, WithinSweep
<1>2. CASE cand[p] = Len(Quality) /\ Kind(p) = "tune" /\ best[p] # Nothing
  <2>1. at'[p] = "open"
    BY <1>0, <1>2 DEF NextCand, TunerTyped
  <2>2. Tried(p)' = cand[p]
    BY <1>2, <2>1 DEF Tried, Saving
  <2>3. BestSoFar(p)'
    BY <1>2, <2>2 DEF BestSoFar
  <2>4. HasRead(p)'
    BY <1>2, <2>1 DEF Part, HasRead
  <2> QED BY <2>1, <2>3, <2>4 DEF Part, Unstarted, Own, Returned, Sweeping, Checking
<1>3. CASE cand[p] = Len(Quality) /\ ~ (Kind(p) = "tune" /\ best[p] # Nothing)
  <2>1. at'[p] \in {"dead", "done"} /\ (at'[p] = "done" => Kind(p) # "tune")
    BY <1>0, <1>3 DEF NextCand, TunerTyped
  <2> QED BY <2>1 DEF Part, Unstarted, BestSoFar, HasRead, Own, Returned, Sweeping, Checking, Saving
<1> QED BY <1>0, <1>1, <1>2, <1>3

\* A step to an end that returns nothing.
LEMMA DeadPart ==
  ASSUME NEW p \in Tuners, at'[p] = "dead"
  PROVE  Part(p)'
  BY DEF Part, Unstarted, BestSoFar, HasRead, Own, Returned, Sweeping, Checking, Saving

\* Every step of p, when p is the only one to run before and after it.
LEMMA StepAlone ==
  ASSUME TunerTyped, Saves, TunedFiles, NEW p \in Tuners, Part(p), TunerStep(p)
  PROVE  TunerMoves(p) /\ TunedFiles' /\ Part(p)'
<1>0. N(p) \in Sizes /\ cand[p] \in Cands /\ best[p] \in Cands \cup {Nothing}
  BY TaskType DEF TunerTyped
<1> USE SameSetting DEF Saving
<1>1. CASE TunerStart(p)
  <2>1. at'[p] = "load"
    BY <1>1 DEF TunerStart, TunerTyped
  <2>2. TunerMoves(p)
    BY <1>1 DEF TunerStart, TunerTyped, TunerMoves
  <2>3. TunedFiles'
    BY <1>1, FilesSame DEF TunerStart, TunedFiles
  <2>4. Part(p)'
    BY <1>1, <2>1 DEF TunerStart, Part, Unstarted, BestSoFar, HasRead, Own, Returned, Sweeping, Checking
  <2> QED BY <2>2, <2>3, <2>4
<1>2. CASE LoadCut(p)
  <2>1. at'[p] = "dead"
    BY <1>2 DEF LoadCut, TunerTyped
  <2>2. TunerMoves(p)
    BY <1>2 DEF LoadCut, TunerTyped, TunerMoves
  <2>3. TunedFiles'
    BY <1>2, FilesSame DEF LoadCut, TunedFiles
  <2> QED BY <2>1, <2>2, <2>3, DeadPart
<1>3. CASE CacheHit(p)
  <2>1. PICK e \in cache \ {Cut} : e[1] = N(p) /\ result' = [result EXCEPT ![p] = e[2]]
    BY <1>3 DEF CacheHit
  <2>2. at'[p] = "done"
    BY <1>3 DEF CacheHit, TunerTyped
  <2>3. TunerMoves(p)
    BY <1>3, <2>1 DEF CacheHit, TunerTyped, TunerMoves
  <2>4. TunedFiles'
    BY <1>3, FilesSame DEF CacheHit, TunedFiles
  <2>5. e \in Pair /\ Earned(e)
    BY <2>1 DEF TunedFiles, TunerTyped
  <2>6. e[2] # Nothing /\ <<N(p), e[2]>> = e
    BY <2>1, <2>5, Constants DEF Pair, Nothing
  <2>7. result'[p] = e[2]
    BY <2>1 DEF TunerTyped
  <2>8. tuning' = tuning
    BY <1>3 DEF CacheHit
  <2>9. Returned(p)'
    BY <2>5, <2>6, <2>7, <2>8 DEF Returned
  <2> QED BY <2>2, <2>3, <2>4, <2>9 DEF Part, Unstarted, BestSoFar, HasRead, Own, Sweeping, Checking
<1>4. CASE WriteInputs(p)
  <2>1. at'[p] = "compile" /\ cand'[p] = 1 /\ best'[p] = Nothing /\ tuning' = tuning
    BY <1>4 DEF WriteInputs, TunerTyped, Part, Unstarted
  <2>2. TunerMoves(p)
    BY <1>4 DEF WriteInputs, TunerTyped, TunerMoves
  <2>3. TunedFiles'
    BY <1>4, FilesSame DEF WriteInputs, TunedFiles
  <2>4. Tried(p)' = 0 /\ Wins(Nothing, N(p), 0)
    BY <2>1 DEF Tried, Wins
  <2>5. BestSoFar(p)'
    BY <2>1, <2>4 DEF BestSoFar
  <2>6. Kind(p) = "tune" => known'[p] = cache /\ \A e \in cache : e[1] # N(p) /\ Earned(e)
    BY <1>4 DEF WriteInputs, TunerTyped, TunedFiles
  <2>7. HasRead(p)'
    <3>1. cache' = cache
      BY <1>4 DEF WriteInputs
    <3> QED BY <2>1, <2>6, <3>1 DEF HasRead
  <2>8. Own(p)'
    BY <1>4, <2>1 DEF WriteInputs, Own, Checking
  <2> QED BY <2>1, <2>2, <2>3, <2>5, <2>7, <2>8 DEF Part, Unstarted, Returned
<1>5. CASE Compile(p)
  <2>1. at[p] = "compile" /\ at[p] \in Sweeping /\ UNCHANGED <<tuning, best, known, result, cache, input, csw, tuned>>
    BY <1>5 DEF Compile, Sweeping
  <2>2. \A c \in cubin' : Quality[c] # "broken"
    BY <1>5 DEF Compile, TunedFiles
  <2>3. TunedFiles'
    BY <2>1, <2>2, FilesSame
  <2>4. Kind(p) = "tune" => Wins(best[p], N(p), cand[p] - 1)
    BY <2>1 DEF Part, BestSoFar, Tried
  <2>5. CASE at' = [at EXCEPT ![p] = "clear"] /\ UNCHANGED cand /\ cand[p] \in cubin'
    <3>1. at'[p] = "clear"
      BY <2>5 DEF TunerTyped
    <3>2. TunerMoves(p)
      BY <2>1, <2>5 DEF TunerTyped, TunerMoves
    <3>3. Tried(p)' = cand[p] - 1 /\ at'[p] \in Sweeping
      BY <2>5, <3>1 DEF Tried, Sweeping, Checking
    <3>4. Own(p)'
      BY <2>1, <2>5, <3>1 DEF Own, Part
    <3>5. Part(p)'
      BY <2>1, <2>4, <3>3, <3>4, WithinSweep
    <3> QED BY <2>3, <3>2, <3>5
  <2>6. CASE NextCand(p) /\ cand[p] \notin cubin'
    <3>1. Quality[cand[p]] = "broken"
      BY <1>5, <2>6 DEF Compile
    <3>2. ~Passes("tune", Quality[cand[p]])
      BY <3>1 DEF Passes
    <3>3. Kind(p) = "tune" => Wins(best[p], N(p), cand[p])
      BY <1>0, <2>4, <3>2, PassedOverWins
    <3>4. Part(p)'
      BY <2>1, <2>6, <3>3, NextPart
    <3>5. TunerMoves(p)
      BY <2>1, <2>6 DEF NextCand, TunerTyped, TunerMoves
    <3> QED BY <2>3, <3>4, <3>5
  <2> QED BY <1>5, <2>5, <2>6 DEF Compile
<1>6. CASE Clear(p)
  <2>1. /\ at[p] = "clear" /\ at[p] \in Sweeping /\ at'[p] = "launch" /\ at'[p] \in Sweeping
        /\ UNCHANGED <<tuning, cand, best, known, result, cache, cubin, input, tuned>>
    BY <1>6 DEF Clear, TunerTyped, Sweeping, Checking
  <2>2. TunerMoves(p)
    BY <1>6 DEF Clear, TunerTyped, TunerMoves
  <2>3. TunedFiles'
    BY <2>1, FilesSame DEF TunedFiles
  <2>4. csw' = {}
    BY <1>6 DEF Clear, Cleared
  <2>5. Own(p)'
    BY <2>1, <2>4 DEF Part, Own, Checking
  <2>6. Kind(p) = "tune" => Wins(best'[p], N(p), Tried(p)')
    BY <2>1 DEF Part, BestSoFar, Tried
  <2> QED BY <2>1, <2>2, <2>3, <2>5, <2>6, WithinSweep
<1>7. CASE LaunchCheck(p)
  <2>1. /\ at[p] = "launch" /\ at[p] \in Sweeping /\ at'[p] = "compare" /\ at'[p] \in Sweeping
        /\ UNCHANGED <<tuning, cand, best, known, result, cache, cubin, input, tuned>>
    BY <1>7 DEF LaunchCheck, TunerTyped, Sweeping, Checking
  <2>2. TunerMoves(p)
    BY <1>7 DEF LaunchCheck, TunerTyped, TunerMoves
  <2>3. TunedFiles'
    BY <2>1, FilesSame DEF TunedFiles
  <2>4. cand[p] \in cubin /\ csw = {} /\ input = VerifySize(p)
    BY <2>1 DEF Part, Own, Checking
  <2>5. \/ csw' = {<<VerifySize(p), Quality[cand[p]]>>}
        \/ csw' = {} /\ ~Lossless
    BY <1>7, <2>4 DEF LaunchCheck, Output, Mishap, Lossless
  <2>6. Own(p)'
    BY <2>1, <2>4, <2>5 DEF Own, Checking
  <2>7. Kind(p) = "tune" => Wins(best'[p], N(p), Tried(p)')
    BY <2>1 DEF Part, BestSoFar, Tried
  <2> QED BY <2>1, <2>2, <2>3, <2>6, <2>7, WithinSweep
<1>8. CASE Compare(p)
  <2>1. /\ at[p] = "compare" /\ at[p] \in Sweeping
        /\ UNCHANGED <<tuning, cand, best, known, result, cache, cubin, input, csw, tuned>>
    BY <1>8 DEF Compare, Sweeping, Checking
  <2>2. TunerMoves(p)
    BY <1>8 DEF Compare, TunerTyped, TunerMoves
  <2>3. TunedFiles'
    BY <2>1, FilesSame DEF TunedFiles
  <2>4. Kind(p) = "tune" => Wins(best[p], N(p), cand[p] - 1)
    BY <2>1 DEF Part, BestSoFar, Tried
  <2>5. cand[p] \in cubin /\ input = VerifySize(p)
    BY <2>1 DEF Part, Own, Checking
  <2>6. CASE csw = {<<VerifySize(p), Quality[cand[p]]>>} /\ Passes(Kind(p), Quality[cand[p]])
    <3>1. at'[p] = "measure"
      BY <1>8, <2>6 DEF Compare, TunerTyped
    <3>2. Own(p)'
      BY <2>1, <2>5, <2>6, <3>1 DEF Own
    <3>3. Tried(p)' = cand[p] - 1 /\ at'[p] \in Sweeping
      BY <2>1, <3>1 DEF Tried, Sweeping, Checking
    <3> QED BY <2>1, <2>2, <2>3, <2>4, <3>2, <3>3, WithinSweep
  <2>7. CASE /\ csw = {} \/ csw = {<<VerifySize(p), Quality[cand[p]]>>}
             /\ Lossless => ~Passes(Kind(p), Quality[cand[p]])
             /\ csw # {} => ~Passes(Kind(p), Quality[cand[p]])
    <3>1. at'[p] = "remove"
      BY <1>8, <2>7 DEF Compare, TunerTyped
    <3>2. Own(p)'
      BY <2>1, <2>5, <3>1 DEF Own
    <3>3. Tried(p)' = cand[p] /\ at'[p] \in Sweeping
      BY <2>1, <3>1 DEF Tried, Sweeping, Checking
    <3>4. Kind(p) = "tune" => Wins(best[p], N(p), cand[p])
      BY <1>0, <2>4, <2>7, PassedOverWins
    <3> QED BY <2>1, <2>2, <2>3, <3>2, <3>3, <3>4, WithinSweep
  <2>8. csw = {<<VerifySize(p), Quality[cand[p]]>>} \/ (csw = {} /\ ~Lossless)
    BY <2>1 DEF Part, Own
  <2> QED BY <2>6, <2>7, <2>8
<1>9. CASE Measure(p)
  <2>1. /\ at[p] = "measure" /\ at[p] \in Sweeping /\ at'[p] = "remove" /\ at'[p] \in Sweeping
        /\ UNCHANGED <<tuning, cand, known, result, cache, cubin, input, csw, tuned>>
    BY <1>9 DEF Measure, TunerTyped, Sweeping, Checking
  <2>2. TunerMoves(p)
    BY <1>9 DEF Measure, TunerTyped, TunerMoves
  <2>3. TunedFiles'
    BY <2>1, FilesSame DEF TunedFiles
  <2>4. cand[p] \in cubin /\ input = VerifySize(p) /\ Passes(Kind(p), Quality[cand[p]])
    BY <2>1 DEF Part, Own, Checking
  <2>5. best'[p] = Better(p, best[p])
    BY <1>9, <2>4 DEF Measure, TunerTyped
  <2>6. Own(p)'
    BY <2>1, <2>4 DEF Own
  <2>7. ASSUME Kind(p) = "tune" PROVE Wins(best'[p], N(p), Tried(p)')
    <3>1. Wins(best[p], N(p), cand[p] - 1)
      BY <2>1, <2>7 DEF Part, BestSoFar, Tried
    <3>2. Tried(p)' = cand[p]
      BY <2>1 DEF Tried
    <3>3. Wins(Better(p, best[p]), N(p), cand[p])
      BY <1>0, <2>4, <2>7, <3>1, MeasuredWins DEF Better
    <3> QED BY <2>5, <3>2, <3>3
  <2> QED BY <2>1, <2>2, <2>3, <2>6, <2>7, WithinSweep
<1>10. CASE RemoveCubin(p)
  <2>1. /\ at[p] = "remove" /\ at[p] \in Sweeping
        /\ UNCHANGED <<tuning, best, known, result, cache, input, csw, tuned>>
    BY <1>10 DEF RemoveCubin, Sweeping, Checking
  <2>2. cand[p] \in cubin
    BY <2>1 DEF Part, Own, Checking
  <2>3. cubin' = cubin \ {cand[p]} /\ NextCand(p)
    BY <1>10, <2>2 DEF RemoveCubin
  <2>4. TunedFiles'
    BY <2>1, <2>3, FilesSame DEF TunedFiles
  <2>5. TunerMoves(p)
    BY <2>1, <2>3 DEF NextCand, TunerTyped, TunerMoves
  <2>6. Kind(p) = "tune" => Wins(best[p], N(p), cand[p])
    BY <2>1 DEF Part, BestSoFar, Tried
  <2>7. Part(p)'
    BY <2>1, <2>3, <2>6, NextPart
  <2> QED BY <2>4, <2>5, <2>7
<1>11. CASE Truncate(p)
  <2>1. /\ at[p] = "open" /\ at'[p] = "dump" /\ cache' = {Cut}
        /\ UNCHANGED <<tuning, cand, best, known, result, cubin, input, csw, tuned>>
    BY <1>11 DEF Truncate, TunerTyped
  <2>2. TunerMoves(p)
    BY <1>11 DEF Truncate, TunerTyped, TunerMoves
  <2>3. TunedFiles'
    BY <2>1 DEF TunedFiles
  <2>4. Kind(p) = "tune" /\ known[p] = cache /\ \A e \in known[p] : e[1] # N(p) /\ Earned(e)
    BY <2>1 DEF Saves, Part, HasRead
  <2>5. cache # {Cut}
    <3>1. Cut \notin Pair
      BY Constants DEF Cut, Pair, Nothing
    <3>2. known[p] \subseteq Pair
      BY DEF TunerTyped
    <3> QED BY <2>4, <3>1, <3>2
  <2>6. tuned \subseteq known[p]
    BY <2>4, <2>5 DEF TunedFiles
  <2>7. HasRead(p)'
    BY <2>1, <2>4, <2>6 DEF HasRead, Sweeping, Checking
  <2>8. BestSoFar(p)'
    BY <2>1, <2>4 DEF Part, BestSoFar, Tried
  <2> QED BY <2>1, <2>2, <2>3, <2>7, <2>8 DEF Part, Unstarted, Own, Returned, Sweeping, Checking
<1>12. CASE Dump(p)
  <2> DEFINE new == <<N(p), best[p]>>
  <2>1. /\ at[p] = "dump" /\ at'[p] = "done" /\ result'[p] = best[p] /\ tuned' = tuned \cup {new}
        /\ UNCHANGED <<tuning, cand, best, known, cubin, input, csw>>
    BY <1>12 DEF Dump, TunerTyped
  <2>2. TunerMoves(p)
    BY <1>12 DEF Dump, TunerTyped, TunerMoves
  <2>3. /\ Kind(p) = "tune" /\ best[p] # Nothing
        /\ cache = {Cut} /\ tuned \subseteq known[p]
        /\ \A e \in known[p] : e[1] # N(p) /\ Earned(e)
        /\ Wins(best[p], N(p), Len(Quality))
    BY <2>1 DEF Saves, Part, HasRead, BestSoFar, Tried
  <2>4. cache' = Written(known[p], new)
    BY <1>12, <2>3 DEF Dump
  <2>5. Earned(new)
    BY <2>3 DEF Earned, Wins
  <2>6. Written(known[p], new) = known[p] \cup {new}
    BY <2>3 DEF Written
  <2> HIDE DEF new
  <2>7. TunedFiles'
    <3>1. tuned' \subseteq cache' /\ \A e \in cache' : Earned(e)
      BY <2>1, <2>3, <2>4, <2>5, <2>6
    <3> QED BY <2>1, <3>1 DEF TunedFiles
  <2>8. Returned(p)'
    BY <2>1, <2>3, <2>5 DEF Returned, new
  <2> QED BY <2>1, <2>2, <2>7, <2>8 DEF Part, Unstarted, BestSoFar, HasRead, Own, Sweeping, Checking
<1>13. CASE Die(p)
  <2>1. at'[p] = "dead"
    BY <1>13 DEF Die, Mishap, TunerTyped
  <2>2. TunerMoves(p)
    BY <1>13 DEF Die, Mishap, TunerTyped, TunerMoves
  <2>3. TunedFiles'
    BY <1>13, FilesSame DEF Die, Mishap, TunedFiles
  <2> QED BY <2>1, <2>2, <2>3, DeadPart
<1> QED BY <1>1, <1>2, <1>3, <1>4, <1>5, <1>6, <1>7, <1>8, <1>9, <1>10, <1>11, <1>12, <1>13
     DEF TunerStep

-----------------------------------------------------------------------------
LEMMA TunerInvInit == TunerInit => TunerInv
<1> SUFFICES ASSUME TunerInit PROVE TunerInv
  OBVIOUS
<1>1. \A p \in Tuners : at[p] = "idle"
  BY DEF TunerInit
<1>2. Saves /\ Solo
  BY <1>1 DEF Saves, Saving, Solo, Running
<1>3. TunedFiles
  BY DEF TunerInit, TunedFiles
<1>4. \A p \in Tuners : Part(p)
  BY <1>1 DEF TunerInit, Part, Unstarted, BestSoFar, HasRead, Own, Returned, Sweeping, Checking, Saving
<1> QED BY <1>2, <1>3, <1>4, TypedInit DEF TunerInv

\* A process that starts beside another has met it.
LEMMA RunsAlone ==
  ASSUME NEW p \in Tuners, TunerStep(p), met' = {}
  PROVE  met = {} /\ (Running(p) \/ \A q \in Tuners : ~Running(q))
<1>1. CASE TunerStart(p)
  BY <1>1 DEF TunerStart
<1>2. CASE ~TunerStart(p)
  <2>1. at[p] \notin {"idle", "done", "dead"}
    BY <1>2 DEF TunerStep, LoadCut, CacheHit, WriteInputs, Compile, Clear, LaunchCheck, Compare,
                Measure, RemoveCubin, Truncate, Dump, Die, Running
  <2>2. met' = met
    BY <1>2 DEF TunerStep, LoadCut, CacheHit, WriteInputs, Compile, Clear, LaunchCheck, Compare,
                Measure, RemoveCubin, Truncate, Dump, Die
  <2> QED BY <2>1, <2>2 DEF Running
<1> QED BY <1>1, <1>2

LEMMA TunerInvStep == TunerInv /\ [\E p \in Tuners : TunerStep(p)]_tunerVars => TunerInv'
<1> SUFFICES ASSUME TunerInv, [\E p \in Tuners : TunerStep(p)]_tunerVars PROVE TunerInv'
  OBVIOUS
<1>1. CASE UNCHANGED tunerVars
  <2>1. /\ TunerTyped' <=> TunerTyped
        /\ Saves' <=> Saves
    BY <1>1 DEF tunerVars, TunerTyped, Saves, Kind
  <2>2. Solo' <=> Solo
    BY <1>1 DEF tunerVars, Solo, Running
  <2>3. TunedFiles' <=> TunedFiles
    BY <1>1, SameSetting DEF tunerVars, TunedFiles
  <2>4. \A p \in Tuners : Part(p)' <=> Part(p)
    BY <1>1, SameSetting DEF tunerVars, Part, Unstarted, BestSoFar, HasRead, Own, Returned, Tried
  <2> QED BY <1>1, <2>1, <2>2, <2>3, <2>4 DEF TunerInv, tunerVars
<1>2. ASSUME NEW p \in Tuners, TunerStep(p) PROVE TunerInv'
  <2>1. TunerTyped' /\ Saves'
    BY <1>2, TypedStep, SavesStep DEF TunerInv
  <2>2. ASSUME met' = {} PROVE Solo' /\ TunedFiles' /\ \A q \in Tuners : Part(q)'
    <3>1. met = {} /\ (Running(p) \/ \A q \in Tuners : ~Running(q))
      BY <1>2, <2>2, RunsAlone
    <3>2. TunerTyped /\ Saves /\ Solo /\ TunedFiles /\ \A q \in Tuners : Part(q)
      BY <3>1 DEF TunerInv
    <3>3. TunerMoves(p) /\ TunedFiles' /\ Part(p)'
      BY <1>2, <3>2, StepAlone
    <3>4. Solo' /\ \A q \in Tuners \ {p} : Part(q)'
      BY <1>2, <3>1, <3>2, <3>3, OthersRest
    <3> QED BY <3>3, <3>4
  <2> QED BY <2>1, <2>2 DEF TunerInv
<1> QED BY <1>1, <1>2

\* Every reachable state satisfies the invariant.
LEMMA TunerInvHolds == TunerSpec => []TunerInv
  BY TunerInvInit, TunerInvStep, PTL DEF TunerSpec

\* TunedIsBest: as long as no two processes run at once, what a tuning returns,
\* from a sweep or from the file, has passed the gate, and if no launch fails
\* it is the fastest candidate that passes; whichever processes died before.
THEOREM TuningIsBest == TunerSpec => []TunedIsBest
<1>1. TunerInv => TunedIsBest
  BY DEF TunerInv, Part, Returned, Earned, Lossless, TunedIsBest
<1> QED BY <1>1, TunerInvHolds, PTL

\* NothingForgotten: as long as no two processes run at once and the file was
\* not cut off, every size ever tuned is in it with its winner.
THEOREM FileKeepsAll == TunerSpec => []NothingForgotten
<1>1. TunerInv => NothingForgotten
  BY DEF TunerInv, TunedFiles, NothingForgotten
<1> QED BY <1>1, TunerInvHolds, PTL

---------------------------------------------------------------------------
(* The walk of a model of KernelBench level 2. *)

\* Induction on the naturals, for a set of them.
LEMMA AllNumbers ==
  ASSUME NEW T \in SUBSET Nat, 0 \in T, \A n \in T : n + 1 \in T
  PROVE  \A n \in Nat : n \in T
<1> DEFINE R == OpToRel(<, Nat)
           U == Nat \ T
<1>1. \A k, n \in Nat : <<k, n>> \in R <=> k < n
  BY DEF OpToRel
<1>2. IsWellFoundedOn(R, Nat)
  BY NatLessThanWellFounded
<1> SUFFICES ASSUME U # {} PROVE FALSE
  OBVIOUS
<1>3. U \subseteq Nat
  OBVIOUS
<1> HIDE DEF R, U
<1>4. PICK m \in U : \A k \in U : ~ (<<k, m>> \in R)
  BY <1>2, <1>3, WFMin
<1>5. m \in Nat /\ m # 0
  BY <1>3 DEF U
<1>6. m - 1 \in Nat /\ m - 1 < m
  BY <1>5
<1>7. m - 1 \notin U
  BY <1>1, <1>4, <1>5, <1>6
<1>8. (m - 1) + 1 \in T
  BY <1>6, <1>7 DEF U
<1>9. m \in T
  BY <1>5, <1>8
<1> QED BY <1>9 DEF U

\* What may stand in a history: the modules and those in the containers.
Pieces == Range(model.modules) \cup UNION {Range(m.parts) : m \in Range(model.modules)}
Marks == {<<m.op, m.size, off>> : m \in Pieces, off \in BOOLEAN}
ArrayTyped(a) == a.made \in Seq(Marks)

WalkTyped ==
  /\ model \in Models
  /\ walked \in 0..Len(model.modules)
  /\ ArrayTyped(array)
  /\ subOps \in Seq([at : 1..Len(model.modules), ulp : {-1, 0, 5}])

\* What a number says of the module it stands by.
NumberTells(m, ulp) ==
  LET own == m.op \in Kernels /\ KernelOf(m.op) \in build.wrong
      asks == ~m.plain \/ m.op \in {"Softmax", "LayerNorm", "GroupNorm"}
  IN /\ ulp > 0 => own \/ (m.op \in Kernels /\ asks)
     /\ own => ulp # 0
     /\ m.plain => ulp # -1
NumbersTell == \A n \in DOMAIN subOps : NumberTells(model.modules[subOps[n].at], subOps[n].ulp)
PassTells == rowStatus = "BIT_IDENTICAL" => \A n \in DOMAIN subOps : subOps[n].ulp <= 4
WalkInv == WalkTyped /\ NumbersTell /\ PassTells

\* What ModelsAssumption says of the modules of the run's model.
LEMMA ModulesTyped ==
  ASSUME model \in Models
  PROVE  /\ model.modules \in Seq(Range(model.modules)) /\ Len(model.modules) \in Nat
         /\ \A n \in 1..Len(model.modules) : model.modules[n] \in Range(model.modules)
         /\ \A m \in Range(model.modules) :
              /\ m.plain \in BOOLEAN
              /\ m.parts \in Seq(Range(m.parts))
              /\ m.parts # << >> => m.op \notin Kernels \cup ByNumpy \cup ByTorch
              /\ m \in Pieces /\ Range(m.parts) \subseteq Pieces
<1>1. /\ model.modules \in Seq(Range(model.modules))
      /\ \A m \in Range(model.modules) :
           /\ m.plain \in BOOLEAN
           /\ m.parts \in Seq(Range(m.parts))
           /\ m.parts # << >> => m.op \notin Kernels \cup ByNumpy \cup ByTorch
  BY ModelsAssumption
<1>2. Len(model.modules) \in Nat /\ \A n \in 1..Len(model.modules) : model.modules[n] \in Range(model.modules)
  BY <1>1
<1>3. \A m \in Range(model.modules) : m \in Pieces /\ Range(m.parts) \subseteq Pieces
  BY DEF Pieces
<1> QED BY <1>1, <1>2, <1>3

\* One module more in the history.
LEMMA DoneTyped ==
  ASSUME NEW a, ArrayTyped(a), NEW m \in Pieces, NEW off \in BOOLEAN, NEW up
  PROVE  ArrayTyped(Done(a, m, off, up))
<1>1. <<m.op, m.size, off>> \in Marks
  BY DEF Marks
<1>2. Append(a.made, <<m.op, m.size, off>>) \in Seq(Marks)
  BY <1>1, AppendProperties DEF ArrayTyped
<1>3. Done(a, m, off, up).made = Append(a.made, <<m.op, m.size, off>>)
  BY DEF Done
<1> QED BY <1>2, <1>3 DEF ArrayTyped

\* The arrays between the parts of a container.
IsThrough(f, parts, a) == f = [n \in 0..Len(parts) |-> IF n = 0 THEN a ELSE ByTorchOn(parts[n], f[n - 1])]
LEMMA ThroughExists ==
  ASSUME NEW parts, Len(parts) \in Nat, NEW a
  PROVE  \E f : IsThrough(f, parts, a)
<1> DEFINE Is(f, k) == f = [n \in 0..k |-> IF n = 0 THEN a ELSE ByTorchOn(parts[n], f[n - 1])]
           T == {k \in Nat : \E f : Is(f, k)}
<1>1. 0 \in T
  <2> DEFINE f == [n \in 0..0 |-> a]
  <2>1. f = [n \in 0..0 |-> IF n = 0 THEN a ELSE ByTorchOn(parts[n], f[n - 1])]
    OBVIOUS
  <2> QED BY <2>1
<1>2. ASSUME NEW k \in T PROVE k + 1 \in T
  <2>1. k \in Nat
    OBVIOUS
  <2>2. PICK f : Is(f, k)
    OBVIOUS
  <2> DEFINE g == [n \in 0..(k + 1) |-> IF n = k + 1 THEN ByTorchOn(parts[n], f[k]) ELSE f[n]]
  <2>3. \A n \in 0..k : f[n] = IF n = 0 THEN a ELSE ByTorchOn(parts[n], f[n - 1])
    BY <2>2
  <2>4. \A n \in 0..k : g[n] = f[n]
    BY <2>1
  <2>5. ASSUME NEW n \in 0..(k + 1) PROVE g[n] = IF n = 0 THEN a ELSE ByTorchOn(parts[n], g[n - 1])
    <3>1. CASE n = k + 1
      <4>1. g[k] = f[k] /\ n # 0 /\ n - 1 = k
        BY <2>1, <2>4, <3>1
      <4>2. g[n] = ByTorchOn(parts[n], f[k])
        BY <3>1
      <4> HIDE DEF g
      <4> QED BY <4>1, <4>2
    <3>2. CASE n # k + 1
      <4>1. n \in 0..k /\ (n # 0 => n - 1 \in 0..k)
        BY <2>1, <3>2
      <4> HIDE DEF g
      <4> QED BY <2>3, <2>4, <4>1
    <3> QED BY <3>1, <3>2
  <2>6. g = [n \in 0..(k + 1) |-> IF n = 0 THEN a ELSE ByTorchOn(parts[n], g[n - 1])]
    <3>1. DOMAIN g = 0..(k + 1) /\ g = [n \in 0..(k + 1) |-> g[n]]
      OBVIOUS
    <3> HIDE DEF g
    <3> QED BY <2>5, <3>1
  <2>7. \E h : Is(h, k + 1)
    <3> HIDE DEF g
    <3> QED BY <2>6
  <2> HIDE DEF g
  <2>8. k + 1 \in Nat
    BY <2>1
  <2> QED BY <2>7, <2>8
<1>3. T \subseteq Nat
  OBVIOUS
<1> HIDE DEF T
<1>4. Len(parts) \in T
  BY <1>1, <1>2, <1>3, AllNumbers
<1> QED BY <1>4 DEF T, IsThrough

\* A container leaves a history of pieces.
LEMMA ThroughTyped ==
  ASSUME NEW parts, parts \in Seq(Range(parts)), Range(parts) \subseteq Pieces,
         NEW a, ArrayTyped(a), NEW n \in 0..Len(parts)
  PROVE  ArrayTyped(Through(parts, a)[n])
<1> DEFINE f == CHOOSE f : IsThrough(f, parts, a)
<1>1. Len(parts) \in Nat /\ Through(parts, a) = f
  BY DEF Through, IsThrough
<1>2. IsThrough(f, parts, a)
  BY <1>1, ThroughExists, Zenon
<1> HIDE DEF f
<1>3. f[0] = a /\ \A k \in 1..Len(parts) : f[k] = ByTorchOn(parts[k], f[k - 1])
  BY <1>1, <1>2 DEF IsThrough
<1> DEFINE T == {k \in Nat : k <= Len(parts) => ArrayTyped(f[k])}
<1>4. 0 \in T
  BY <1>3
<1>5. ASSUME NEW k \in T PROVE k + 1 \in T
  <2>1. SUFFICES ASSUME k + 1 <= Len(parts) PROVE ArrayTyped(f[k + 1])
    OBVIOUS
  <2>2. ArrayTyped(f[k]) /\ k + 1 \in 1..Len(parts) /\ (k + 1) - 1 = k
    BY <1>1, <2>1
  <2>3. parts[k + 1] \in Pieces
    BY <2>2
  <2>4. ArrayTyped(Done(f[k], parts[k + 1], FALSE, ~parts[k + 1].plain))
    BY <2>2, <2>3, DoneTyped
  <2>5. f[k + 1] = ByTorchOn(parts[k + 1], f[k])
    BY <1>3, <2>2
  <2> QED BY <2>4, <2>5 DEF ByTorchOn
<1>6. T \subseteq Nat /\ n \in Nat
  BY <1>1
<1> HIDE DEF T
<1>7. n \in T
  BY <1>4, <1>5, <1>6, AllNumbers
<1> QED BY <1>1, <1>7 DEF T

\* So does any module run on PyTorch.
LEMMA TorchTyped ==
  ASSUME model \in Models, NEW m \in Range(model.modules), NEW a, ArrayTyped(a)
  PROVE  ArrayTyped(Torch(m, a))
<1>1. CASE m.parts = << >>
  <2>1. ArrayTyped(Done(a, m, FALSE, ~m.plain))
    BY ModulesTyped, DoneTyped
  <2> QED BY <1>1, <2>1 DEF Torch, ByTorchOn
<1>2. CASE m.parts # << >>
  <2>1. m.parts \in Seq(Range(m.parts)) /\ Range(m.parts) \subseteq Pieces /\ Len(m.parts) \in 0..Len(m.parts)
    BY ModulesTyped
  <2>2. ArrayTyped(Through(m.parts, a)[Len(m.parts)])
    BY <2>1, ThroughTyped
  <2> QED BY <1>2, <2>2 DEF Torch
<1> QED BY <1>1, <1>2

\* The two arrays of a module that has a kernel.
LEMMA NumberIs ==
  ASSUME model \in Models, NEW m \in Range(model.modules), NEW a, ArrayTyped(a), Used(m)
  PROVE  LET u == Ulp(Substrate(m, a), Torch(m, a))
         IN u \in {-1, 0, 5} /\ NumberTells(m, u) /\ ArrayTyped(Substrate(m, a))
<1> DEFINE b == Substrate(m, a)   t == Torch(m, a)   u == Ulp(b, t)
           own == m.op \in Kernels /\ KernelOf(m.op) \in build.wrong
           asks == ~m.plain \/ m.op \in {"Softmax", "LayerNorm", "GroupNorm"}
<1>1. u \in {-1, 0, 5}
  BY DEF Ulp
<1>2. m.op \in ByNumpy \cup ByTorch \cup Kernels /\ m.parts = << >> /\ m.plain \in BOOLEAN /\ m \in Pieces
  BY ModulesTyped DEF Used
<1>3. t = Done(a, m, FALSE, ~m.plain)
  BY <1>2 DEF Torch, ByTorchOn
<1>4. ByTorch \cap Kernels = {}
  BY DEF ByTorch, Kernels, Activations, Convs, Affine
<1>5. CASE m.op \in ByTorch
  <2>1. b = t
    BY <1>5 DEF Substrate
  <2>2. u = 0
    BY <2>1 DEF Ulp
  <2>3. ~own
    BY <1>4, <1>5
  <2>4. ArrayTyped(b)
    BY <2>1, TorchTyped
  <2> QED BY <1>1, <2>2, <2>3, <2>4 DEF NumberTells
<1>6. CASE m.op \notin ByTorch
  <2>1. b = Done(a, m, Off(m, a), FALSE)
    BY <1>6 DEF Substrate
  <2>2. Off(m, a) \in BOOLEAN
    BY DEF Off
  <2>3. ArrayTyped(b)
    BY <1>2, <2>1, <2>2, DoneTyped
  <2>4. b.sh = Extents(m, a.sh, FALSE) /\ t.sh = Extents(m, a.sh, ~m.plain)
    BY <1>3, <2>1 DEF Done
  <2>5. m.plain => u # -1
    <3>1. m.plain => b.sh = t.sh
      BY <1>2, <2>4
    <3>2. m.plain => Length(b) = Length(t)
      BY <3>1 DEF Length
    <3> HIDE DEF b, t
    <3> QED BY <3>2 DEF Ulp
  <2>6. b.made = Append(a.made, <<m.op, m.size, Off(m, a)>>) /\ t.made = Append(a.made, <<m.op, m.size, FALSE>>)
    <3> DEFINE w == Off(m, a)   v == ~m.plain
    <3>1. b = Done(a, m, w, FALSE) /\ t = Done(a, m, FALSE, v)
      BY <1>3, <2>1
    <3> HIDE DEF w, v, b, t
    <3>2. Done(a, m, w, FALSE).made = Append(a.made, <<m.op, m.size, w>>)
      BY DEF Done
    <3>3. Done(a, m, FALSE, v).made = Append(a.made, <<m.op, m.size, FALSE>>)
      BY DEF Done
    <3> QED BY <3>1, <3>2, <3>3 DEF w
  <2>7. Off(m, a) => b.made # t.made
    <3>1. SUFFICES ASSUME Off(m, a), b.made = t.made PROVE FALSE
      OBVIOUS
    <3>2. Off(m, a) = TRUE
      BY <2>2, <3>1
    <3>3. a.made \in Seq(Marks) /\ <<m.op, m.size, TRUE>> \in Marks /\ <<m.op, m.size, FALSE>> \in Marks
      <4>1. \A off \in BOOLEAN : <<m.op, m.size, off>> \in Marks
        BY <1>2 DEF Marks
      <4> QED BY <4>1 DEF ArrayTyped
    <3>4. Append(a.made, <<m.op, m.size, TRUE>>) = Append(a.made, <<m.op, m.size, FALSE>>)
      BY <2>6, <3>1, <3>2
    <3>5. <<m.op, m.size, TRUE>> = <<m.op, m.size, FALSE>>
      <4> DEFINE p == <<m.op, m.size, TRUE>>   q == <<m.op, m.size, FALSE>>
      <4>1. p \in Marks /\ q \in Marks /\ Append(a.made, p) = Append(a.made, q)
        BY <3>3, <3>4
      <4> HIDE DEF p, q
      <4>2. p = q
        BY <3>3, <4>1
      <4> QED BY <4>2 DEF p, q
    <3> QED BY <3>5
  <2>8. ~Off(m, a) => u # 5
    <3>1. SUFFICES ASSUME ~Off(m, a) PROVE u # 5
      OBVIOUS
    <3>2. b.made = t.made
      BY <2>2, <2>6, <3>1
    <3> HIDE DEF b, t
    <3> QED BY <3>2 DEF Ulp
  <2>9. own => u # 0
    <3>1. own => b.made # t.made
      BY <2>7 DEF Off
    <3> HIDE DEF b, t
    <3> QED BY <3>1 DEF Ulp
  <2>10. Off(m, a) => own \/ (m.op \in Kernels /\ asks)
    BY DEF Off, Misread
  <2> HIDE DEF b, t, u
  <2>11. u > 0 => u = 5
    BY <1>1
  <2> QED BY <1>1, <2>3, <2>5, <2>8, <2>9, <2>10, <2>11 DEF NumberTells, b, t, u
<1> QED BY <1>5, <1>6

\* The walk begins with the invariant ...
LEMMA WalkInvInit == WalkInit => WalkInv
<1> SUFFICES ASSUME WalkInit PROVE WalkInv
  OBVIOUS
<1>1. model \in Models /\ walked = 0 /\ array = [sh |-> model.input, made |-> << >>] /\ subOps = << >> /\ rowStatus = "walking"
  BY DEF WalkInit
<1>2. Len(model.modules) \in Nat
  BY <1>1, ModulesTyped
<1>3. ArrayTyped(array)
  BY <1>1 DEF ArrayTyped
<1> QED BY <1>1, <1>2, <1>3 DEF WalkInv, WalkTyped, NumbersTell, PassTells

\* ... keeps it ...
LEMMA WalkInvStep == WalkInv /\ [WalkNext]_walkVars => WalkInv'
<1> SUFFICES ASSUME WalkInv, [WalkNext]_walkVars PROVE WalkInv'
  OBVIOUS
<1> USE DEF WalkInv
<1>1. CASE RunSubstrate
  <2> DEFINE m == Module1   u == Ulp(Substrate(m, array), Torch(m, array))
  <2>1. /\ model' = model /\ build' = build /\ rowStatus' = rowStatus /\ rowStatus = "walking"
        /\ walked' = walked + 1 /\ walked < Len(model.modules) /\ Used(m)
        /\ array' = Substrate(m, array)
        /\ subOps' = Append(subOps, [at |-> walked + 1, ulp |-> u])
    BY <1>1 DEF RunSubstrate, Walking, TorchInput
  <2>2. Len(model.modules) \in Nat /\ walked + 1 \in 1..Len(model.modules) /\ m \in Range(model.modules) /\ m = model.modules[walked + 1]
    BY <2>1, ModulesTyped DEF WalkTyped, Module1
  <2>3. u \in {-1, 0, 5} /\ NumberTells(m, u) /\ ArrayTyped(Substrate(m, array))
    BY <2>1, <2>2, NumberIs DEF WalkTyped
  <2> HIDE DEF u, m
  <2>5. WalkTyped'
    BY <2>1, <2>2, <2>3 DEF WalkTyped, ArrayTyped, Marks, Pieces
  <2>6. NumbersTell'
    <3>1. SUFFICES ASSUME NEW n \in DOMAIN subOps' PROVE NumberTells(model.modules[subOps'[n].at], subOps'[n].ulp)
      BY <2>1 DEF NumbersTell, NumberTells
    <3> DEFINE new == [at |-> walked + 1, ulp |-> u]
    <3>2. /\ n \in DOMAIN subOps \/ n = Len(subOps) + 1
          /\ n \in DOMAIN subOps => subOps'[n] = subOps[n]
          /\ n = Len(subOps) + 1 => subOps'[n] = new
      <4>1. new \in [at : 1..Len(model.modules), ulp : {-1, 0, 5}]
        BY <2>2, <2>3
      <4> HIDE DEF new
      <4> QED BY <2>1, <4>1 DEF WalkTyped, new
    <3>3. CASE n \in DOMAIN subOps
      BY <3>2, <3>3 DEF NumbersTell
    <3>4. CASE n = Len(subOps) + 1
      <4>1. subOps'[n].at = walked + 1 /\ subOps'[n].ulp = u
        BY <3>2, <3>4
      <4> QED BY <2>2, <2>3, <4>1
    <3> QED BY <3>2, <3>3, <3>4
  <2>7. PassTells'
    BY <2>1 DEF PassTells
  <2> QED BY <2>5, <2>6, <2>7
<1>2. CASE FallBack
  <2>1. /\ model' = model /\ build' = build /\ rowStatus' = rowStatus /\ subOps' = subOps
        /\ walked' = walked + 1 /\ walked < Len(model.modules)
        /\ array' = Torch(Module1, array)
    BY <1>2 DEF FallBack, Walking, TorchInput
  <2>2. Len(model.modules) \in Nat /\ walked + 1 \in 1..Len(model.modules) /\ Module1 \in Range(model.modules)
    BY <2>1, ModulesTyped DEF WalkTyped, Module1
  <2>3. ArrayTyped(array')
    BY <2>1, <2>2, TorchTyped DEF WalkTyped
  <2>4. WalkTyped'
    BY <2>1, <2>2, <2>3 DEF WalkTyped, ArrayTyped, Marks, Pieces
  <2> QED BY <2>1, <2>4 DEF NumbersTell, NumberTells, PassTells
<1>3. CASE Leave
  <2>1. /\ model' = model /\ build' = build /\ subOps' = subOps /\ walked' = walked /\ array' = array
        /\ rowStatus' = "BIT_IDENTICAL" => \A n \in DOMAIN subOps' : subOps'[n].ulp <= 4
    BY <1>3 DEF Leave, Report
  <2> QED BY <2>1 DEF WalkTyped, ArrayTyped, Marks, Pieces, NumbersTell, NumberTells, PassTells
<1>4. CASE Raise
  <2>1. /\ model' = model /\ build' = build /\ subOps' = subOps /\ walked' = walked /\ array' = array
        /\ rowStatus' = "ERROR"
    BY <1>4 DEF Raise
  <2> QED BY <2>1 DEF WalkTyped, ArrayTyped, Marks, Pieces, NumbersTell, NumberTells, PassTells
<1>5. CASE UNCHANGED walkVars
  BY <1>5 DEF walkVars, WalkTyped, ArrayTyped, Marks, Pieces, NumbersTell, NumberTells, PassTells
<1> QED BY <1>1, <1>2, <1>3, <1>4, <1>5 DEF WalkNext

\* ... and it says what the row says.
LEMMA WalkInvIsRow == WalkInv => RowIsItsOps
<1> SUFFICES ASSUME WalkInv PROVE RowIsItsOps
  OBVIOUS
<1>1. \A n \in DOMAIN subOps : NumberTells(model.modules[subOps[n].at], subOps[n].ulp) /\ subOps[n].ulp \in {-1, 0, 5}
  <2>1. \A n \in DOMAIN subOps : subOps[n] \in [at : 1..Len(model.modules), ulp : {-1, 0, 5}]
    <3> DEFINE S == [at : 1..Len(model.modules), ulp : {-1, 0, 5}]
    <3>1. subOps \in Seq(S)
      BY DEF WalkInv, WalkTyped
    <3> HIDE DEF S
    <3>2. \A n \in DOMAIN subOps : subOps[n] \in S
      BY <3>1
    <3> QED BY <3>2 DEF S
  <2> QED BY <2>1 DEF WalkInv, NumbersTell
<1>2. rowStatus = "BIT_IDENTICAL" =>
        \A n \in DOMAIN subOps : LET m == model.modules[subOps[n].at]
                                 IN m.plain /\ m.op \in Kernels => KernelOf(m.op) \notin build.wrong
  BY <1>1 DEF WalkInv, PassTells, NumberTells
<1> QED BY <1>1, <1>2 DEF RowIsItsOps, NumberTells

\* RowIsItsOps: in every model, and whatever kernels are wrong, a number above zero
\* stands by a module whose kernel is wrong or that PyTorch computes otherwise, a
\* wrong kernel never has the number zero, and a row that says BIT_IDENTICAL has
\* only such numbers.
THEOREM RowsAreTheirOps == WalkSpec => []RowIsItsOps
<1>1. WalkSpec => []WalkInv
  BY WalkInvInit, WalkInvStep, PTL DEF WalkSpec
<1> QED BY <1>1, WalkInvIsRow, PTL

---------------------------------------------------------------------------
(* The scripts that compare bit for bit. *)

(* What the tables hold. *)

Usual == {"reduction", "conv_2d", "conv", "rows", "affine", "loss"}
Sorts == Usual \cup {"triplet"}
\* A case whose reference no other kind of memory is taken for.
Names ==
  {"reduce_sum_rows", "reduce_mean", "reduce_max", "reduce_min", "reduce_argmax", "reduce_argmin"} \cup
  {"conv_2d_forward", "conv_1d_forward", "conv_3d_forward", "conv_transpose_1d", "conv_transpose_2d", "conv_transpose_3d"} \cup
  {"cumsum", "cumprod"} \cup {"norm_layer_plain", "norm_rms_plain", "norm_l2_plain", "norm_group_plain"} \cup
  {"norm_layer_affine", "norm_rms_affine", "norm_l2_affine"} \cup
  {"loss_mse_mean", "loss_mse_sum", "loss_cross_entropy", "loss_kl_div", "loss_hinge", "loss_huber"} \cup
  {"pool_2d_max", "pool_2d_avg"}
UsualCase == [name : Names, sort : Usual, ref : Names]
Triplet == Case("loss_triplet_margin", "triplet")

\* Fresh memory and the triplet loss have names of their own.
LEMMA NamesDiffer == Names \cap {"zero", "junk", "loss_triplet_margin"} = {}
BY DEF Names

\* A list of cases of one sort.
LEMMA CasesAre ==
  ASSUME NEW S, NEW sort, NEW names, Len(names) \in Nat, DOMAIN names = 1..Len(names),
         \A i \in 1..Len(names) : Case(names[i], sort) \in S
  PROVE  Cases(sort, names) \in Seq(S) /\ Len(Cases(sort, names)) = Len(names)
         /\ \A i \in 1..Len(names) : Cases(sort, names)[i] = Case(names[i], sort)
<1>1. Cases(sort, names) = [i \in 1..Len(names) |-> Case(names[i], sort)]
  BY DEF Cases
<1> QED BY <1>1

\* A usual case.
LEMMA UsualCaseIs ==
  ASSUME NEW name \in Names, NEW sort \in Usual
  PROVE  Case(name, sort) \in UsualCase
BY DEF Case, UsualCase

\* Names of usual cases.
Fit(names, k) == Len(names) = k /\ DOMAIN names = 1..k /\ \A i \in 1..k : names[i] \in Names

\* A list of usual cases of one sort.
LEMMA FitCases ==
  ASSUME NEW sort \in Usual, NEW names, NEW k \in Nat, Fit(names, k)
  PROVE  /\ Cases(sort, names) \in Seq(UsualCase) /\ Len(Cases(sort, names)) = k
         /\ \A i \in 1..k : Cases(sort, names)[i] = Case(names[i], sort)
<1>1. \A i \in 1..Len(names) : Case(names[i], sort) \in UsualCase
  BY UsualCaseIs DEF Fit
<1>2. Len(names) = k /\ Len(names) \in Nat /\ DOMAIN names = 1..Len(names)
  BY DEF Fit
<1>3. /\ Cases(sort, names) \in Seq(UsualCase) /\ Len(Cases(sort, names)) = Len(names)
      /\ \A i \in 1..Len(names) : Cases(sort, names)[i] = Case(names[i], sort)
  <2> DEFINE S == UsualCase
  <2>1. \A i \in 1..Len(names) : Case(names[i], sort) \in S
    BY <1>1
  <2> HIDE DEF S
  <2>2. Cases(sort, names) \in Seq(S) /\ Len(Cases(sort, names)) = Len(names)
         /\ \A i \in 1..Len(names) : Cases(sort, names)[i] = Case(names[i], sort)
    BY <1>2, <2>1, CasesAre
  <2> QED BY <2>2 DEF S
<1> QED BY <1>2, <1>3

\* The reductions: each has a reference of its own.
LEMMA ReductionsAre ==
  /\ Reductions \in Seq(UsualCase)
  /\ \A m, n \in DOMAIN Reductions : m # n => Reductions[m].ref # Reductions[n].ref
  /\ \A n \in DOMAIN Reductions : Reductions[n].sort = "reduction"
<1> DEFINE names == <<"reduce_sum_rows", "reduce_mean", "reduce_max", "reduce_min", "reduce_argmax", "reduce_argmin">>
<1>1. Fit(names, 6)
  BY DEF Fit, Names
<1>2. \A m, n \in 1..6 : m # n => names[m] # names[n]
  OBVIOUS
<1> HIDE DEF names
<1>3. /\ Cases("reduction", names) \in Seq(UsualCase) /\ Len(Cases("reduction", names)) = 6
      /\ \A i \in 1..6 : Cases("reduction", names)[i] = Case(names[i], "reduction")
  BY <1>1, FitCases DEF Usual
<1>4. Reductions = Cases("reduction", names)
  BY DEF Reductions, names
<1>5. DOMAIN Reductions = 1..6 /\ \A i \in 1..6 : Reductions[i].ref = names[i] /\ Reductions[i].sort = "reduction"
  BY <1>3, <1>4 DEF Case
<1> QED BY <1>2, <1>3, <1>4, <1>5

\* The convolutions are usual cases.
LEMMA ConvolutionsAre == Convolutions \in Seq(UsualCase)
<1> DEFINE one == <<"conv_2d_forward">>
           others == <<"conv_1d_forward", "conv_3d_forward", "conv_transpose_1d", "conv_transpose_2d", "conv_transpose_3d">>
<1>1. Fit(one, 1) /\ Fit(others, 5)
  BY DEF Fit, Names
<1> HIDE DEF one, others
<1>2. Cases("conv_2d", one) \in Seq(UsualCase) /\ Cases("conv", others) \in Seq(UsualCase)
  BY <1>1, FitCases DEF Usual
<1>3. Cases("conv_2d", one) \o Cases("conv", others) \in Seq(UsualCase)
  BY <1>2, ConcatProperties
<1> QED BY <1>3 DEF Convolutions, one, others

\* The plain norms are usual cases.
LEMMA PlainAre == Plain \in Seq(UsualCase)
<1> DEFINE names == <<"norm_layer_plain", "norm_rms_plain", "norm_l2_plain">>
           group == [Case("norm_group_plain", "rows") EXCEPT !.ref = "norm_layer_plain"]
<1>1. Fit(names, 3)
  BY DEF Fit, Names
<1>2. group \in UsualCase
  BY DEF Case, UsualCase, Names, Usual
<1> HIDE DEF names, group
<1>3. Cases("rows", names) \in Seq(UsualCase)
  BY <1>1, FitCases DEF Usual
<1>4. <<group>> \in Seq(UsualCase)
  BY <1>2
<1>5. Cases("rows", names) \o <<group>> \in Seq(UsualCase)
  BY <1>3, <1>4, ConcatProperties
<1> QED BY <1>5 DEF Plain, names, group

\* The cases of v3: the triplet loss stands once among usual cases.
LEMMA ExtensionIs ==
  \E a, b \in Seq(UsualCase) : Extension = (a \o <<Triplet>>) \o b
<1> DEFINE cums == <<"cumsum", "cumprod">>
           affs == <<"norm_layer_affine", "norm_rms_affine", "norm_l2_affine">>
           loss == <<"loss_mse_mean", "loss_mse_sum", "loss_cross_entropy", "loss_kl_div", "loss_hinge", "loss_huber">>
           pool == <<"pool_2d_max", "pool_2d_avg">>
           a == ((Cases("rows", cums) \o Plain) \o Cases("affine", affs)) \o Cases("loss", loss)
           b == Cases("rows", pool)
<1>1. Fit(cums, 2) /\ Fit(affs, 3)
  BY DEF Fit, Names
<1>2. Fit(loss, 6) /\ Fit(pool, 2)
  BY DEF Fit, Names
<1> HIDE DEF cums, affs, loss, pool
<1>3. /\ Cases("rows", cums) \in Seq(UsualCase) /\ Cases("affine", affs) \in Seq(UsualCase)
      /\ Cases("loss", loss) \in Seq(UsualCase) /\ Cases("rows", pool) \in Seq(UsualCase)
  BY <1>1, <1>2, FitCases DEF Usual
<1>4. (Cases("rows", cums) \o Plain) \in Seq(UsualCase)
  BY <1>3, PlainAre, ConcatProperties
<1>5. ((Cases("rows", cums) \o Plain) \o Cases("affine", affs)) \in Seq(UsualCase)
  BY <1>3, <1>4, ConcatProperties
<1>6. a \in Seq(UsualCase)
  BY <1>3, <1>5, ConcatProperties
<1>7. Cases("triplet", <<"loss_triplet_margin">>) = <<Triplet>>
  BY DEF Cases, Triplet
<1>8. Extension = (a \o <<Triplet>>) \o b
  BY <1>7 DEF Extension, cums, affs, loss, pool
<1> QED BY <1>3, <1>6, <1>8

\* The cases of a script that uses the device: at most one of them is the triplet loss.
LEMMA TodoIs ==
  ASSUME OnDevice
  PROVE  /\ Len(Todo) \in Nat /\ DOMAIN Todo = 1..Len(Todo)
         /\ \A n \in DOMAIN Todo : Todo[n] \in UsualCase \/ Todo[n] = Triplet
         /\ \A m, n \in DOMAIN Todo : m # n /\ Todo[n] = Triplet => Todo[m] \in UsualCase
         /\ script.name = "v1" => /\ \A n \in DOMAIN Todo : Todo[n].sort = "reduction"
                                  /\ \A m, n \in DOMAIN Todo : m # n => Todo[m].ref # Todo[n].ref
<1> DEFINE Usually(s) == Len(s) \in Nat /\ DOMAIN s = 1..Len(s) /\ \A n \in DOMAIN s : s[n] \in UsualCase
<1>1. \A s \in Seq(UsualCase) : Usually(s)
  OBVIOUS
<1>2. Triplet \notin UsualCase
  BY DEF Triplet, Case, UsualCase, Usual
<1>3. CASE script.name = "v1"
  <2>1. Todo = Reductions
    BY <1>3 DEF Todo
  <2> QED BY <1>1, <1>2, <2>1, ReductionsAre
<1>4. CASE script.name = "v2"
  <2>1. Todo = Reductions \o Convolutions
    BY <1>4 DEF Todo
  <2>2. Todo \in Seq(UsualCase)
    BY <2>1, ReductionsAre, ConvolutionsAre, ConcatProperties
  <2>3. Usually(Todo)
    BY <1>1, <2>2
  <2> QED BY <1>2, <1>4, <2>3
<1>5. CASE script.name = "v3"
  <2>1. Todo = Extension
    BY <1>5 DEF Todo
  <2>2. PICK a, b \in Seq(UsualCase) : Extension = (a \o <<Triplet>>) \o b
    BY ExtensionIs
  <2> DEFINE S == UsualCase \cup {Triplet}   k == Len(a) + 1
  <2>3. a \in Seq(S) /\ b \in Seq(S) /\ <<Triplet>> \in Seq(S)
    OBVIOUS
  <2>4. \A n \in 1..Len(a) : a[n] \in UsualCase
    OBVIOUS
  <2>5. \A n \in 1..Len(b) : b[n] \in UsualCase
    OBVIOUS
  <2>6. /\ (a \o <<Triplet>>) \in Seq(S) /\ Len(a \o <<Triplet>>) = k
        /\ \A n \in 1..k : (a \o <<Triplet>>)[n] = IF n <= Len(a) THEN a[n] ELSE <<Triplet>>[n - Len(a)]
    <3> HIDE DEF S
    <3> QED BY <2>3, ConcatProperties
  <2>7. /\ Todo \in Seq(S) /\ Len(Todo) = k + Len(b)
        /\ \A n \in 1..k + Len(b) : Todo[n] = IF n <= k THEN (a \o <<Triplet>>)[n] ELSE b[n - k]
    <3> HIDE DEF S
    <3> QED BY <2>1, <2>2, <2>3, <2>6, ConcatProperties
  <2>8. Len(Todo) \in Nat /\ DOMAIN Todo = 1..Len(Todo)
    BY <2>7
  <2>9. \A n \in 1..Len(Todo) : n # k => Todo[n] \in UsualCase
    <3> SUFFICES ASSUME NEW n \in 1..Len(Todo), n # k PROVE Todo[n] \in UsualCase
      OBVIOUS
    <3>1. CASE n < k
      BY <2>4, <2>6, <2>7, <3>1
    <3>2. CASE n > k
      <4>1. n - k \in 1..Len(b) /\ n \in 1..k + Len(b) /\ ~(n <= k)
        BY <2>7, <3>2
      <4> HIDE DEF S, k
      <4>2. Todo[n] = b[n - k]
        BY <2>7, <4>1
      <4> QED BY <2>5, <4>1, <4>2
    <3> QED BY <3>1, <3>2
  <2>10. Todo[k] = Triplet
    <3>1. k \in 1..k /\ ~(k <= Len(a)) /\ k - Len(a) = 1 /\ k \in 1..k + Len(b)
      OBVIOUS
    <3> QED BY <2>6, <2>7, <3>1
  <2> HIDE DEF k
  <2> QED BY <1>2, <1>5, <2>8, <2>9, <2>10
<1> QED BY <1>3, <1>4, <1>5 DEF OnDevice

-----------------------------------------------------------------------------
(* What the dispatches call. *)

CallSet == [call : {"malloc", "copy", "clear", "launch", "sync", "back"}, rc : Nat]
Unclearing == {x \in CallSet : x.call # "clear"}
Unlooked == {x \in Unclearing : x.rc = 0}
Has(calls, x) == \E n \in DOMAIN calls : calls[n] = x
CallsEnd == <<Call("launch", 4), Call("sync", 5), Call("back", 0)>>

\* The allocations at the head of a dispatch.
LEMMA MallocsAre ==
  ASSUME NEW S, NEW codes, Len(codes) \in Nat \ {0}, DOMAIN codes = 1..Len(codes),
         \A i \in 1..Len(codes) : Call("malloc", codes[i]) \in S
  PROVE  Mallocs(codes) \in Seq(S) /\ Len(Mallocs(codes)) > 0 /\ Mallocs(codes)[1] = Call("malloc", codes[1])
<1>1. Mallocs(codes) = [i \in 1..Len(codes) |-> Call("malloc", codes[i])]
  BY DEF Mallocs
<1> QED BY <1>1

\* What is joined holds what its parts hold.
LEMMA JoinedHas ==
  ASSUME NEW S, NEW s \in Seq(S), NEW t \in Seq(S)
  PROVE  /\ s \o t \in Seq(S)
         /\ Len(s) > 0 => Len(s \o t) > 0 /\ (s \o t)[1] = s[1]
         /\ \A x : Has(s, x) \/ Has(t, x) => Has(s \o t, x)
<1>1. /\ s \o t \in Seq(S) /\ Len(s \o t) = Len(s) + Len(t)
      /\ \A i \in 1 .. Len(s) + Len(t) : (s \o t)[i] = IF i <= Len(s) THEN s[i] ELSE t[i - Len(s)]
  BY ConcatProperties
<1>2. /\ Len(s) \in Nat /\ Len(t) \in Nat /\ DOMAIN s = 1..Len(s) /\ DOMAIN t = 1..Len(t)
      /\ DOMAIN (s \o t) = 1..Len(s) + Len(t)
  BY <1>1
<1> DEFINE c == s \o t
<1> HIDE DEF c
<1>3. \A x : Has(s, x) => Has(c, x)
  <2> SUFFICES ASSUME NEW x, Has(s, x) PROVE Has(c, x)
    OBVIOUS
  <2>1. PICK m \in 1..Len(s) : s[m] = x
    BY <1>2 DEF Has
  <2>2. m \in DOMAIN c /\ c[m] = x
    BY <1>1, <1>2, <2>1 DEF c
  <2> QED BY <2>2 DEF Has
<1>4. \A x : Has(t, x) => Has(c, x)
  <2> SUFFICES ASSUME NEW x, Has(t, x) PROVE Has(c, x)
    OBVIOUS
  <2>1. PICK m \in 1..Len(t) : t[m] = x
    BY <1>2 DEF Has
  <2>2. Len(s) + m \in 1..Len(s) + Len(t) /\ ~(Len(s) + m <= Len(s)) /\ (Len(s) + m) - Len(s) = m
    BY <1>2, <2>1
  <2>3. Len(s) + m \in DOMAIN c /\ c[Len(s) + m] = x
    BY <1>1, <1>2, <2>1, <2>2 DEF c
  <2> QED BY <2>3 DEF Has
<1>5. Len(s) > 0 => Len(s \o t) > 0 /\ (s \o t)[1] = s[1]
  BY <1>1, <1>2
<1> QED BY <1>1, <1>3, <1>4, <1>5 DEF c

\* A dispatch in its parts.
LEMMA CallsOf ==
  ASSUME NEW S, NEW codes, Len(codes) \in Nat \ {0}, DOMAIN codes = 1..Len(codes),
         \A i \in 1..Len(codes) : Call("malloc", codes[i]) \in S,
         NEW t \in Seq(S)
  PROVE  LET c == Mallocs(codes) \o t
         IN c \in Seq(S) /\ Len(c) > 0 /\ c[1] = Call("malloc", codes[1]) /\ \A x : Has(t, x) => Has(c, x)
<1>1. Mallocs(codes) \in Seq(S) /\ Len(Mallocs(codes)) > 0 /\ Mallocs(codes)[1] = Call("malloc", codes[1])
  BY MallocsAre
<1> HIDE DEF Mallocs
<1> QED BY <1>1, JoinedHas

\* What is said of each.
Dispatched(c, S, looks, clears) ==
  /\ c \in Seq(S)
  /\ Len(c) > 0
  /\ looks => c[1].rc # 0 /\ Has(c, Call("launch", 4))
  /\ clears => Has(c, Call("clear", 0))

\* Which sets the calls are in.
LEMMA CallsIn ==
  /\ \A name \in {"malloc", "copy", "launch", "sync", "back"}, rc \in Nat : Call(name, rc) \in Unclearing /\ Call(name, rc) \in CallSet
  /\ \A name \in {"malloc", "copy", "launch", "sync", "back"} : Call(name, 0) \in Unlooked
  /\ Call("clear", 0) \in CallSet
  /\ \A name, rc : Call(name, rc).rc = rc
BY DEF Call, CallSet, Unclearing, Unlooked

\* The end that most dispatches share.
LEMMA EndIs == CallsEnd \in Seq(Unclearing) /\ CallsEnd \in Seq(CallSet) /\ Has(CallsEnd, Call("launch", 4))
<1>1. CallsEnd \in Seq(Unclearing) /\ CallsEnd \in Seq(CallSet)
  <2> DEFINE a == Call("launch", 4)   b == Call("sync", 5)   d == Call("back", 0)
  <2>1. a \in Unclearing /\ b \in Unclearing /\ d \in Unclearing /\ a \in CallSet /\ b \in CallSet /\ d \in CallSet
    BY CallsIn
  <2> HIDE DEF a, b, d
  <2>2. <<a, b, d>> \in Seq(Unclearing) /\ <<a, b, d>> \in Seq(CallSet)
    BY <2>1
  <2> QED BY <2>2 DEF CallsEnd, a, b, d
<1>2. 1 \in DOMAIN CallsEnd /\ CallsEnd[1] = Call("launch", 4)
  BY DEF CallsEnd
<1> QED BY <1>1, <1>2 DEF Has

Codes(codes, S) ==
  /\ Len(codes) \in Nat \ {0} /\ DOMAIN codes = 1..Len(codes)
  /\ \A i \in 1..Len(codes) : Call("malloc", codes[i]) \in S

\* The codes of the allocations.
LEMMA CodesAre ==
  /\ Codes(<<1, 2>>, Unclearing) /\ Codes(<<1, 2>>, CallSet) /\ Codes(<<1, 2, 3>>, Unclearing)
  /\ Codes(<<1, 2, 21, 22>>, Unclearing) /\ Codes(<<0, 0, 0, 0>>, Unlooked)
<1>1. ASSUME NEW codes, Len(codes) \in Nat \ {0}, DOMAIN codes = 1..Len(codes), \A i \in 1..Len(codes) : codes[i] \in Nat
      PROVE  Codes(codes, Unclearing) /\ Codes(codes, CallSet)
  BY <1>1, CallsIn DEF Codes
<1>2. Codes(<<1, 2>>, Unclearing) /\ Codes(<<1, 2>>, CallSet)
  <2> DEFINE codes == <<1, 2>>
  <2>1. Len(codes) \in Nat \ {0} /\ DOMAIN codes = 1..Len(codes) /\ \A i \in 1..Len(codes) : codes[i] \in Nat
    OBVIOUS
  <2> HIDE DEF codes
  <2>2. Codes(codes, Unclearing) /\ Codes(codes, CallSet)
    BY <1>1, <2>1
  <2> QED BY <2>2 DEF codes
<1>3. Codes(<<1, 2, 3>>, Unclearing)
  <2> DEFINE codes == <<1, 2, 3>>
  <2>1. Len(codes) \in Nat \ {0} /\ DOMAIN codes = 1..Len(codes) /\ \A i \in 1..Len(codes) : codes[i] \in Nat
    OBVIOUS
  <2> HIDE DEF codes
  <2>2. Codes(codes, Unclearing)
    BY <1>1, <2>1
  <2> QED BY <2>2 DEF codes
<1>4. Codes(<<1, 2, 21, 22>>, Unclearing)
  <2> DEFINE codes == <<1, 2, 21, 22>>
  <2>1. Len(codes) \in Nat \ {0} /\ DOMAIN codes = 1..Len(codes) /\ \A i \in 1..Len(codes) : codes[i] \in Nat
    OBVIOUS
  <2> HIDE DEF codes
  <2>2. Codes(codes, Unclearing)
    BY <1>1, <2>1
  <2> QED BY <2>2 DEF codes
<1>5. Codes(<<0, 0, 0, 0>>, Unlooked)
  <2> DEFINE codes == <<0, 0, 0, 0>>
  <2>1. Len(codes) \in Nat \ {0} /\ DOMAIN codes = 1..Len(codes) /\ \A i \in 1..Len(codes) : codes[i] = 0
    OBVIOUS
  <2> HIDE DEF codes
  <2> QED BY <2>1, CallsIn DEF Codes, codes
<1> QED BY <1>2, <1>3, <1>4, <1>5

\* A dispatch returns its first code where it looks.
LEMMA FirstCall ==
  ASSUME NEW S, NEW codes, Codes(codes, S), NEW t \in Seq(S)
  PROVE  LET c == Mallocs(codes) \o t
         IN c \in Seq(S) /\ Len(c) > 0 /\ c[1].rc = codes[1] /\ \A x : Has(t, x) => Has(c, x)
<1> DEFINE c == Mallocs(codes) \o t
<1>1. c \in Seq(S) /\ Len(c) > 0 /\ c[1] = Call("malloc", codes[1]) /\ \A x : Has(t, x) => Has(c, x)
  BY CallsOf DEF Codes
<1> HIDE DEF c
<1>2. c[1].rc = codes[1]
  BY <1>1, CallsIn
<1> QED BY <1>1, <1>2 DEF c

\* A dispatch that looks at its last four calls ...
LEMMA LooksItself ==
  ASSUME NEW S, NEW codes, Codes(codes, S), codes[1] # 0, NEW t \in Seq(S), Has(t, Call("launch", 4)),
         NEW clears \in BOOLEAN, clears => Has(t, Call("clear", 0))
  PROVE  Dispatched(Mallocs(codes) \o t, S, TRUE, clears)
BY FirstCall DEF Dispatched

\* ... and one that ends like most.
LEMMA LooksAtEnd ==
  ASSUME NEW S, NEW codes, Codes(codes, S), codes[1] # 0, NEW t \in Seq(S), CallsEnd \in Seq(S),
         NEW clears \in BOOLEAN, clears => Has(t, Call("clear", 0))
  PROVE  Dispatched((Mallocs(codes) \o t) \o CallsEnd, S, TRUE, clears)
<1> DEFINE c == Mallocs(codes) \o t
<1>1. c \in Seq(S) /\ Len(c) > 0 /\ c[1].rc = codes[1] /\ \A x : Has(t, x) => Has(c, x)
  BY FirstCall
<1> HIDE DEF c
<1>2. /\ c \o CallsEnd \in Seq(S)
      /\ Len(c) > 0 => Len(c \o CallsEnd) > 0 /\ (c \o CallsEnd)[1] = c[1]
      /\ \A x : Has(c, x) \/ Has(CallsEnd, x) => Has(c \o CallsEnd, x)
  BY <1>1, JoinedHas
<1>3. Has(c \o CallsEnd, Call("launch", 4)) /\ (clears => Has(c \o CallsEnd, Call("clear", 0)))
  BY <1>1, <1>2, EndIs
<1>4. Dispatched(c \o CallsEnd, S, TRUE, clears)
  BY <1>1, <1>2, <1>3 DEF Dispatched
<1> QED BY <1>4 DEF c

\* The dispatches, sort by sort.
LEMMA ReductionCalls == Dispatched(Calls("reduction"), Unclearing, TRUE, FALSE)
<1> DEFINE t == <<Call("copy", 3), Call("launch", 4), Call("sync", 5), Call("back", 6)>>   codes == <<1, 2>>
<1>1. t \in Seq(Unclearing)
  <2> DEFINE a == Call("copy", 3)   b == Call("launch", 4)   d == Call("sync", 5)   e == Call("back", 6)
  <2>1. a \in Unclearing /\ b \in Unclearing /\ d \in Unclearing /\ e \in Unclearing
    BY CallsIn
  <2> HIDE DEF a, b, d, e
  <2>2. <<a, b, d, e>> \in Seq(Unclearing)
    BY <2>1
  <2> QED BY <2>2 DEF a, b, d, e
<1>2. Has(t, Call("launch", 4))
  <2>1. 2 \in DOMAIN t /\ t[2] = Call("launch", 4)
    OBVIOUS
  <2> HIDE DEF t
  <2> QED BY <2>1 DEF Has
<1>4. Codes(codes, Unclearing) /\ codes[1] # 0
  BY CodesAre
<1>5. Calls("reduction") = Mallocs(codes) \o t
  BY DEF Calls
<1> HIDE DEF t, codes
<1>6. Dispatched(Mallocs(codes) \o t, Unclearing, TRUE, FALSE)
  BY <1>1, <1>2, <1>4, LooksItself
<1> QED BY <1>5, <1>6

LEMMA Conv2dCalls == Dispatched(Calls("conv_2d"), CallSet, TRUE, TRUE)
<1> DEFINE t == <<Call("clear", 0), Call("copy", 3), Call("launch", 4), Call("sync", 5), Call("back", 6)>>   codes == <<1, 2>>
<1>1. t \in Seq(CallSet)
  <2> DEFINE a == Call("clear", 0)   b == Call("copy", 3)   d == Call("launch", 4)   e == Call("sync", 5)   f == Call("back", 6)
  <2>1. a \in CallSet /\ b \in CallSet /\ d \in CallSet /\ e \in CallSet /\ f \in CallSet
    BY CallsIn
  <2> HIDE DEF a, b, d, e, f
  <2>2. <<a, b, d, e, f>> \in Seq(CallSet)
    BY <2>1
  <2> QED BY <2>2 DEF a, b, d, e, f
<1>2. Has(t, Call("launch", 4))
  <2>1. 3 \in DOMAIN t /\ t[3] = Call("launch", 4)
    OBVIOUS
  <2> HIDE DEF t
  <2> QED BY <2>1 DEF Has
<1>3. Has(t, Call("clear", 0))
  <2>1. 1 \in DOMAIN t /\ t[1] = Call("clear", 0)
    OBVIOUS
  <2> HIDE DEF t
  <2> QED BY <2>1 DEF Has
<1>4. Codes(codes, CallSet) /\ codes[1] # 0
  BY CodesAre
<1>5. Calls("conv_2d") = Mallocs(codes) \o t
  BY DEF Calls
<1> HIDE DEF t, codes
<1>6. Dispatched(Mallocs(codes) \o t, CallSet, TRUE, TRUE)
  BY <1>1, <1>2, <1>3, <1>4, LooksItself
<1> QED BY <1>5, <1>6

LEMMA ConvCalls == Dispatched(Calls("conv"), CallSet, TRUE, TRUE)
<1> DEFINE t == <<Call("clear", 0), Call("copy", 0)>>   codes == <<1, 2>>
<1>1. t \in Seq(CallSet)
  <2> DEFINE a == Call("clear", 0)   b == Call("copy", 0)
  <2>1. a \in CallSet /\ b \in CallSet
    BY CallsIn
  <2> HIDE DEF a, b
  <2>2. <<a, b>> \in Seq(CallSet)
    BY <2>1
  <2> QED BY <2>2 DEF a, b
<1>3. Has(t, Call("clear", 0))
  <2>1. 1 \in DOMAIN t /\ t[1] = Call("clear", 0)
    OBVIOUS
  <2> HIDE DEF t
  <2> QED BY <2>1 DEF Has
<1>4. Codes(codes, CallSet) /\ codes[1] # 0
  BY CodesAre
<1>5. Calls("conv") = (Mallocs(codes) \o t) \o CallsEnd
  BY DEF Calls, CallsEnd
<1> HIDE DEF t, codes
<1>6. Dispatched((Mallocs(codes) \o t) \o CallsEnd, CallSet, TRUE, TRUE)
  BY <1>1, <1>3, <1>4, LooksAtEnd, EndIs
<1> QED BY <1>5, <1>6

LEMMA RowsCalls == Dispatched(Calls("rows"), Unclearing, TRUE, FALSE)
<1> DEFINE t == <<Call("copy", 0)>>   codes == <<1, 2>>
<1>1. t \in Seq(Unclearing)
  <2> DEFINE a == Call("copy", 0)
  <2>1. a \in Unclearing
    BY CallsIn
  <2> HIDE DEF a
  <2>2. <<a>> \in Seq(Unclearing)
    BY <2>1
  <2> QED BY <2>2 DEF a
<1>4. Codes(codes, Unclearing) /\ codes[1] # 0
  BY CodesAre
<1>5. Calls("rows") = (Mallocs(codes) \o t) \o CallsEnd
  BY DEF Calls, CallsEnd
<1> HIDE DEF t, codes
<1>6. Dispatched((Mallocs(codes) \o t) \o CallsEnd, Unclearing, TRUE, FALSE)
  BY <1>1, <1>4, LooksAtEnd, EndIs
<1> QED BY <1>5, <1>6

LEMMA AffineCalls == Dispatched(Calls("affine"), Unclearing, TRUE, FALSE)
<1> DEFINE t == <<Call("copy", 0), Call("copy", 0), Call("copy", 0)>>   codes == <<1, 2, 21, 22>>
<1>1. t \in Seq(Unclearing)
  <2> DEFINE a == Call("copy", 0)   b == Call("copy", 0)   d == Call("copy", 0)
  <2>1. a \in Unclearing /\ b \in Unclearing /\ d \in Unclearing
    BY CallsIn
  <2> HIDE DEF a, b, d
  <2>2. <<a, b, d>> \in Seq(Unclearing)
    BY <2>1
  <2> QED BY <2>2 DEF a, b, d
<1>4. Codes(codes, Unclearing) /\ codes[1] # 0
  BY CodesAre
<1>5. Calls("affine") = (Mallocs(codes) \o t) \o CallsEnd
  BY DEF Calls, CallsEnd
<1> HIDE DEF t, codes
<1>6. Dispatched((Mallocs(codes) \o t) \o CallsEnd, Unclearing, TRUE, FALSE)
  BY <1>1, <1>4, LooksAtEnd, EndIs
<1> QED BY <1>5, <1>6

LEMMA LossCalls == Dispatched(Calls("loss"), Unclearing, TRUE, FALSE)
<1> DEFINE t == <<Call("copy", 0), Call("copy", 0)>>   codes == <<1, 2, 3>>
<1>1. t \in Seq(Unclearing)
  <2> DEFINE a == Call("copy", 0)   b == Call("copy", 0)
  <2>1. a \in Unclearing /\ b \in Unclearing
    BY CallsIn
  <2> HIDE DEF a, b
  <2>2. <<a, b>> \in Seq(Unclearing)
    BY <2>1
  <2> QED BY <2>2 DEF a, b
<1>4. Codes(codes, Unclearing) /\ codes[1] # 0
  BY CodesAre
<1>5. Calls("loss") = (Mallocs(codes) \o t) \o CallsEnd
  BY DEF Calls, CallsEnd
<1> HIDE DEF t, codes
<1>6. Dispatched((Mallocs(codes) \o t) \o CallsEnd, Unclearing, TRUE, FALSE)
  BY <1>1, <1>4, LooksAtEnd, EndIs
<1> QED BY <1>5, <1>6

LEMMA TripletCalls == Dispatched(Calls("triplet"), Unlooked, FALSE, FALSE)
<1> DEFINE t == <<Call("copy", 0), Call("copy", 0), Call("copy", 0), Call("launch", 0), Call("sync", 0), Call("back", 0)>>
           codes == <<0, 0, 0, 0>>
<1>1. t \in Seq(Unlooked)
  <2> DEFINE a == Call("copy", 0)   b == Call("copy", 0)   d == Call("copy", 0)   e == Call("launch", 0)   f == Call("sync", 0)   g == Call("back", 0)
  <2>1. a \in Unlooked /\ b \in Unlooked /\ d \in Unlooked /\ e \in Unlooked /\ f \in Unlooked /\ g \in Unlooked
    BY CallsIn
  <2> HIDE DEF a, b, d, e, f, g
  <2>2. <<a, b, d, e, f, g>> \in Seq(Unlooked)
    BY <2>1
  <2> QED BY <2>2 DEF a, b, d, e, f, g
<1>2. Calls("triplet") = Mallocs(codes) \o t
  BY DEF Calls
<1>3. Codes(codes, Unlooked)
  BY CodesAre
<1> HIDE DEF t, codes
<1>4. Dispatched(Mallocs(codes) \o t, Unlooked, FALSE, FALSE)
  BY <1>1, <1>3, FirstCall DEF Dispatched
<1> QED BY <1>2, <1>4

\* What the outcome of a case rests on.
LEMMA CallsAre ==
  ASSUME NEW c, c.sort \in Sorts
  PROVE  /\ 1 \in DOMAIN Calls(c.sort)
         /\ \A n \in DOMAIN Calls(c.sort) : Calls(c.sort)[n] \in CallSet
         /\ c.sort \in Usual => /\ Calls(c.sort)[1].rc # 0
                                /\ \E n \in DOMAIN Calls(c.sort) : Calls(c.sort)[n].call = "launch" /\ Calls(c.sort)[n].rc # 0
         /\ c.sort = "triplet" => \A n \in DOMAIN Calls(c.sort) : Calls(c.sort)[n].rc = 0
         /\ OutCleared(c) <=> c.sort \in {"conv_2d", "conv"}
<1> DEFINE k == Calls(c.sort)
<1>1. ASSUME NEW S \in {Unclearing, CallSet}, NEW clears \in BOOLEAN, Dispatched(k, S, TRUE, clears), clears <=> S = CallSet, Unclearing # CallSet
      PROVE  /\ 1 \in DOMAIN k /\ k[1].rc # 0
             /\ \A n \in DOMAIN k : k[n] \in CallSet
             /\ \E n \in DOMAIN k : k[n].call = "launch" /\ k[n].rc # 0
             /\ OutCleared(c) <=> clears
  <2> HIDE DEF k
  <2>1. k \in Seq(S) /\ Len(k) > 0 /\ k[1].rc # 0 /\ Has(k, Call("launch", 4)) /\ (clears => Has(k, Call("clear", 0)))
    BY <1>1 DEF Dispatched
  <2>2. 1 \in DOMAIN k /\ \A n \in DOMAIN k : k[n] \in S
    BY <2>1
  <2>3. \E n \in DOMAIN k : k[n].call = "launch" /\ k[n].rc # 0
    BY <2>1 DEF Has, Call
  <2>4. S \subseteq CallSet
    BY DEF Unclearing
  <2>5. clears => OutCleared(c)
    BY <2>1 DEF Has, Call, OutCleared, k
  <2>6. ~clears => ~OutCleared(c)
    BY <1>1, <2>2 DEF Unclearing, OutCleared, k
  <2> QED BY <2>1, <2>2, <2>3, <2>4, <2>5, <2>6
<1>2. Unclearing # CallSet
  BY CallsIn DEF Unclearing, Call
<1>3. c.sort = "reduction" \/ c.sort = "conv_2d" \/ c.sort = "conv" \/ c.sort = "rows" \/ c.sort = "affine" \/ c.sort = "loss" \/ c.sort = "triplet"
  BY DEF Sorts, Usual
<1>4. CASE c.sort \in {"reduction", "rows", "affine", "loss"}
  <2>1. Dispatched(k, Unclearing, TRUE, FALSE)
    BY <1>4, ReductionCalls, RowsCalls, AffineCalls, LossCalls
  <2> HIDE DEF k
  <2>2. /\ 1 \in DOMAIN k /\ k[1].rc # 0
        /\ \A n \in DOMAIN k : k[n] \in CallSet
        /\ \E n \in DOMAIN k : k[n].call = "launch" /\ k[n].rc # 0
        /\ ~OutCleared(c)
    BY <1>1, <1>2, <2>1
  <2> QED BY <1>4, <2>2 DEF k
<1>5. CASE c.sort \in {"conv_2d", "conv"}
  <2>1. Dispatched(k, CallSet, TRUE, TRUE)
    BY <1>5, Conv2dCalls, ConvCalls
  <2> HIDE DEF k
  <2>2. /\ 1 \in DOMAIN k /\ k[1].rc # 0
        /\ \A n \in DOMAIN k : k[n] \in CallSet
        /\ \E n \in DOMAIN k : k[n].call = "launch" /\ k[n].rc # 0
        /\ OutCleared(c)
    BY <1>1, <1>2, <2>1
  <2> QED BY <1>5, <2>2 DEF k
<1>6. CASE c.sort = "triplet"
  <2>1. k \in Seq(Unlooked) /\ Len(k) > 0
    BY <1>6, TripletCalls DEF Dispatched
  <2> HIDE DEF k
  <2>2. 1 \in DOMAIN k /\ \A n \in DOMAIN k : k[n] \in Unlooked
    BY <2>1
  <2>3. \A n \in DOMAIN k : k[n] \in CallSet /\ k[n].rc = 0 /\ k[n].call # "clear"
    BY <2>2 DEF Unlooked, Unclearing
  <2> QED BY <1>6, <2>2, <2>3 DEF k, OutCleared, Usual
<1> QED BY <1>3, <1>4, <1>5, <1>6

-----------------------------------------------------------------------------
(* A case. *)

\* The grade of a kernel: equal bits are no error, and an equal kernel that writes is exact.
LEMMA GradeIs ==
  ASSUME script \in Scripts, NEW c
  PROVE  /\ GradeOf(c) \in [ulp : Nat, err : 0..4, writes : BOOLEAN]
         /\ GradeOf(c).ulp = 0 => GradeOf(c).err = 0
         /\ ~GradeOf(c).writes => GradeOf(c).ulp = 0 /\ OnDevice
         /\ GradeOf(c).ulp = 0 /\ GradeOf(c).writes => GradeOf(c) = Exact
<1>1. /\ GradeOf(c) \in [ulp : Nat, err : 0..4, writes : BOOLEAN]
      /\ GradeOf(c).ulp = 0 => GradeOf(c).err = 0
      /\ ~GradeOf(c).writes => GradeOf(c).ulp = 0 /\ OnDevice
  <2>1. CASE c.name \in DOMAIN script.off
    <3>1. GradeOf(c) = script.off[c.name]
      BY <2>1 DEF GradeOf
    <3> QED BY <2>1, <3>1, ScriptsAssumption DEF OnDevice
  <2>2. CASE c.name \notin DOMAIN script.off
    <3>1. GradeOf(c) = Far \/ GradeOf(c) = Exact
      BY <2>2 DEF GradeOf
    <3> DEFINE Sound(g) == /\ g \in [ulp : Nat, err : 0..4, writes : BOOLEAN]
                           /\ g.ulp = 0 => g.err = 0
                           /\ g.writes
    <3>2. Sound(Far)
      BY DEF Far, Grade
    <3>3. Sound(Exact)
      BY DEF Exact, Grade
    <3>4. Sound(GradeOf(c))
      <4> HIDE DEF Sound
      <4> QED BY <3>1, <3>2, <3>3
    <3> QED BY <3>4
  <2> QED BY <2>1, <2>2
<1>2. GradeOf(c).ulp = 0 /\ GradeOf(c).writes => GradeOf(c) = Exact
  <2> DEFINE g == GradeOf(c)
  <2>1. g \in [ulp : Nat, err : 0..4, writes : BOOLEAN] /\ (g.ulp = 0 => g.err = 0)
    BY <1>1
  <2> HIDE DEF g
  <2>2. g.ulp = 0 /\ g.writes => g = [ulp |-> 0, err |-> 0, writes |-> TRUE]
    BY <2>1
  <2> QED BY <2>2 DEF g, Exact, Grade
<1> QED BY <1>1, <1>2

\* What is found in memory that is not cleared: nothing of note, or the result of a case
\* among the first k.
MemoryOf(v, k) ==
  \/ v \in {Zero, Junk}
  \/ \E m \in 1..k : v.of = Todo[m].ref /\ Todo[m].name \notin script.absent
Shared(c, k) == \E m \in 1..k : Todo[m].ref = c.ref /\ Todo[m].name \notin script.absent

\* How a case on the device may end.
LEMMA EndKinds ==
  ASSUME NEW c, c.sort \in Sorts, NEW e \in Ends(c)
  PROVE  \/ e.hit = "none" /\ e.rc = 0 /\ e.out \in Writes(c)
         \/ e.hit # "none" /\ e.rc # 0
         \/ e.hit # "none" /\ e.rc = 0 /\ e.out = Zero /\ (e.hit = "back" \/ c.sort = "triplet")
         \/ e.hit # "none" /\ e.rc = 0 /\ c.sort = "triplet" /\ e.out \in Found(c) \cup {Junk}
<1> DEFINE k == Calls(c.sort)
<1>1. /\ 1 \in DOMAIN k /\ \A n \in DOMAIN k : k[n] \in CallSet
      /\ c.sort \in Usual => k[1].rc # 0 /\ \E n \in DOMAIN k : k[n].call = "launch" /\ k[n].rc # 0
      /\ c.sort = "triplet" => \A n \in DOMAIN k : k[n].rc = 0
      /\ c.sort \in Usual \/ c.sort = "triplet"
  BY CallsAre DEF Sorts
<1> HIDE DEF k
<1>2. CASE lost
  <2>1. e = Ended(k[1].rc, Zero, TRUE, "lost")
    BY <1>2 DEF Ends, k
  <2>2. e.rc = k[1].rc /\ e.out = Zero /\ e.hit = "lost"
    BY <2>1 DEF Ended
  <2> QED BY <1>1, <2>2
<1>3. CASE ~lost /\ \E o \in Writes(c) : e = Ended(0, o, FALSE, "none")
  BY <1>3 DEF Ended
<1>4. CASE ~lost /\ \E n \in DOMAIN k : e \in Fails(c, n)
  <2>1. PICK n \in DOMAIN k : e \in Fails(c, n)
    BY <1>4
  <2> DEFINE call == k[n]
             looks == \E m \in DOMAIN k : k[m].call = "launch" /\ k[m].rc # 0
  <2>2. call.call # "none"
    BY <1>1 DEF CallSet
  <2>3. Fails(c, n) =
          IF call.rc # 0 THEN {Ended(call.rc, Zero, call.call = "sync", call.call)}
          ELSE IF call.call = "back" THEN {Ended(0, Zero, FALSE, "back")}
          ELSE IF looks THEN {Ended(4, Zero, FALSE, call.call)}
          ELSE IF call.call = "copy" THEN {Ended(0, Junk, FALSE, "copy")}
          ELSE IF call.call = "launch" THEN {Ended(0, o, FALSE, "launch") : o \in Found(c)}
          ELSE {Ended(0, Zero, TRUE, call.call)}
    BY DEF Fails, k
  <2>4. c.sort \in Usual => looks
    BY <1>1
  <2> HIDE DEF call, looks
  <2>5. CASE call.rc # 0
    BY <2>1, <2>2, <2>3, <2>5 DEF Ended
  <2>6. CASE call.rc = 0 /\ call.call = "back"
    BY <2>1, <2>3, <2>6 DEF Ended
  <2>7. CASE call.rc = 0 /\ call.call # "back" /\ looks
    BY <2>1, <2>2, <2>3, <2>7 DEF Ended
  <2>8. CASE call.rc = 0 /\ call.call # "back" /\ ~looks
    <3>1. c.sort = "triplet"
      BY <1>1, <2>4, <2>8
    <3>2. e \in {Ended(0, Junk, FALSE, "copy")} \/ e \in {Ended(0, o, FALSE, "launch") : o \in Found(c)}
            \/ e \in {Ended(0, Zero, TRUE, call.call)}
      BY <2>1, <2>3, <2>8
    <3>3. CASE e = Ended(0, Junk, FALSE, "copy")
      BY <3>1, <3>3 DEF Ended
    <3>4. CASE e \in {Ended(0, o, FALSE, "launch") : o \in Found(c)}
      BY <3>1, <3>4 DEF Ended
    <3>5. CASE e = Ended(0, Zero, TRUE, call.call)
      BY <2>2, <3>1, <3>5 DEF Ended
    <3> QED BY <3>2, <3>3, <3>4, <3>5
  <2> QED BY <2>5, <2>6, <2>7, <2>8
<1>5. lost \/ (~lost /\ \E o \in Writes(c) : e = Ended(0, o, FALSE, "none"))
        \/ (~lost /\ \E n \in DOMAIN k : e \in Fails(c, n))
  BY DEF Ends, k
<1> QED BY <1>2, <1>3, <1>4, <1>5

\* What a status says.
Tells(c, r, shared) ==
  LET g == IF c.sort = "itself" THEN Exact ELSE GradeOf(c)
      tried == c.name \notin script.absent
  IN /\ r.hit = "none" /\ g = Exact /\ tried => r.status = "BIT_IDENTICAL"
     /\ r.hit = "none" /\ ~g.writes /\ c.sort \in {"conv", "conv_2d"} /\ tried => r.status = "STUB_DETECTED"
     /\ r.status = "BIT_IDENTICAL" => (g = Exact \/ (g.ulp = 0 /\ shared))
     /\ r.status = "CUDA_ERROR" => r.hit # "none"
     /\ r.hit \notin {"none", "back"} /\ c.sort # "triplet" => r.status = "CUDA_ERROR"
     /\ r.hit # "none" => r.status \in {"CUDA_ERROR", "STUB_DETECTED", "MISMATCH"}
     /\ Beyond(g) /\ g.writes => ~Passed(r.status)

\* A case on the device, of which no other kind of memory is taken for the result, that
\* ends as it may, with memory of the cases before.
LEMMA EndTells ==
  ASSUME script \in Scripts, NEW c, c.sort \in Sorts, c.ref \notin {"zero", "junk"},
         NEW k \in Nat, \A v \in devmem : MemoryOf(v, k),
         c.sort = "triplet" => ~Shared(c, k),
         NEW e \in Ends(c)
  PROVE  /\ Tells(c, [status |-> Classify(c, e), hit |-> e.hit], Shared(c, k))
         /\ ~GradeOf(c).writes /\ ~Shared(c, k) => ~Passed(Classify(c, e))
<1> DEFINE g == GradeOf(c)   s == Classify(c, e)   r == [status |-> s, hit |-> e.hit]
           ulp == IF e.out.of = c.ref THEN e.out.grade.ulp ELSE Far.ulp
<1>1. /\ g \in [ulp : Nat, err : 0..4, writes : BOOLEAN]
      /\ ~g.writes => g.ulp = 0
      /\ g.ulp = 0 /\ g.writes => g = Exact
  BY GradeIs
<1>2. Far.ulp = 200000 /\ Far.writes /\ Exact.ulp = 0 /\ Exact.writes /\ Zero.of = "zero" /\ Junk.of = "junk"
  BY DEF Far, Exact, Grade, Zero, Junk, Made
<1>3. s = IF e.rc # 0 THEN "CUDA_ERROR"
          ELSE IF e.out = Zero THEN "STUB_DETECTED"
          ELSE IF ulp = 0 THEN "BIT_IDENTICAL"
          ELSE IF ulp <= 4 THEN "PASS_WITHIN_4_ULP"
          ELSE IF ulp <= 64 THEN "PASS_WITHIN_64_ULP"
          ELSE IF ulp <= 1024 THEN "REDUCTION_ORDER_DIVERGENCE" ELSE "MISMATCH"
  BY DEF Classify
<1>4. c.sort # "itself"
  BY DEF Sorts, Usual
<1>5. OutCleared(c) <=> c.sort \in {"conv_2d", "conv"}
  BY CallsAre
<1>6. \A v \in Found(c) : MemoryOf(v, k)
  BY DEF Found, MemoryOf
<1>7. \A v : MemoryOf(v, k) /\ v.of = c.ref => Shared(c, k)
  BY <1>2 DEF MemoryOf, Shared
<1> HIDE DEF s, g, ulp
<1>8. SUFFICES /\ e.hit = "none" /\ g = Exact => s = "BIT_IDENTICAL"
               /\ e.hit = "none" /\ ~g.writes /\ c.sort \in {"conv", "conv_2d"} => s = "STUB_DETECTED"
               /\ s = "BIT_IDENTICAL" => (g = Exact \/ (g.ulp = 0 /\ Shared(c, k)))
               /\ s = "CUDA_ERROR" => e.hit # "none"
               /\ e.hit \notin {"none", "back"} /\ c.sort # "triplet" => s = "CUDA_ERROR"
               /\ e.hit # "none" => s \in {"CUDA_ERROR", "STUB_DETECTED", "MISMATCH"}
               /\ Beyond(g) /\ g.writes => ~Passed(s)
               /\ ~g.writes /\ ~Shared(c, k) => ~Passed(s)
  BY <1>4 DEF Tells, g, s
<1>9. CASE e.hit = "none" /\ e.rc = 0 /\ e.out \in Writes(c)
  <2>1. CASE g.writes
    <3>1. e.out = Made(c.ref, g)
      BY <1>9, <2>1 DEF Writes, g
    <3>2. e.out.of = c.ref /\ e.out.grade = g
      BY <3>1 DEF Made
    <3>3. e.out # Zero /\ ulp = g.ulp
      BY <1>2, <3>2 DEF ulp
    <3> QED BY <1>1, <1>2, <1>3, <1>9, <2>1, <3>3 DEF Beyond, Passed
  <2>2. CASE ~g.writes
    <3>1. e.out \in Found(c)
      BY <1>9, <2>2 DEF Writes, g
    <3>2. c.sort \in {"conv", "conv_2d"} => e.out = Zero
      BY <1>5, <3>1 DEF Found
    <3>3. g.ulp = 0 /\ ~(g = Exact)
      BY <1>1, <1>2, <2>2
    <3>4. ~Shared(c, k) => ulp = 200000
      BY <1>2, <1>6, <1>7, <3>1 DEF ulp
    <3>5. s = "BIT_IDENTICAL" => Shared(c, k)
      BY <1>3, <1>9, <3>4
    <3>6. ~Shared(c, k) => ~Passed(s)
      BY <1>3, <1>9, <3>4 DEF Passed
    <3>7. s # "CUDA_ERROR"
      BY <1>3, <1>9
    <3> QED BY <1>3, <1>9, <2>2, <3>2, <3>3, <3>5, <3>6, <3>7
  <2> QED BY <1>1, <2>1, <2>2
<1>10. CASE e.hit # "none" /\ e.rc # 0
  BY <1>3, <1>10 DEF Passed
<1>11. CASE e.hit # "none" /\ e.rc = 0 /\ e.out = Zero /\ (e.hit = "back" \/ c.sort = "triplet")
  BY <1>3, <1>11 DEF Passed
<1>12. CASE e.hit # "none" /\ e.rc = 0 /\ c.sort = "triplet" /\ e.out \in Found(c) \cup {Junk}
  <2>1. MemoryOf(e.out, k)
    BY <1>6, <1>12 DEF MemoryOf
  <2>2. ulp = 200000
    BY <1>2, <1>7, <1>12, <2>1 DEF ulp
  <2>3. s \in {"STUB_DETECTED", "MISMATCH"}
    BY <1>3, <1>12, <2>2
  <2> QED BY <1>12, <2>3 DEF Passed
<1> QED BY <1>9, <1>10, <1>11, <1>12, EndKinds

Statuses ==
  {"CUDA_ERROR", "STUB_DETECTED", "BIT_IDENTICAL", "PASS_WITHIN_4_ULP", "PASS_WITHIN_64_ULP", "REDUCTION_ORDER_DIVERGENCE",
   "MISMATCH", "HARNESS_ERROR", "PASS_ABS_TOLERANCE", "WITHIN_ERROR_BOUND", "FAIL"}
Hits == {"none", "lost", "malloc", "copy", "clear", "launch", "sync", "back"}
Told == [status : Statuses, hit : Hits]

\* The outcome of a case on the device is one that can be told.
LEMMA EndHits ==
  ASSUME NEW c, c.sort \in Sorts, NEW e \in Ends(c)
  PROVE  e.hit \in Hits /\ Classify(c, e) \in Statuses
<1> DEFINE k == Calls(c.sort)
<1>1. 1 \in DOMAIN k /\ \A n \in DOMAIN k : k[n] \in CallSet
  BY CallsAre
<1> HIDE DEF k
<1>2. SUFFICES e.hit \in Hits
  BY DEF Classify, Statuses
<1>3. CASE lost
  BY <1>3 DEF Ends, Ended, Hits
<1>4. CASE ~lost /\ \E o \in Writes(c) : e = Ended(0, o, FALSE, "none")
  BY <1>4 DEF Ended, Hits
<1>5. CASE ~lost /\ \E n \in DOMAIN k : e \in Fails(c, n)
  <2>1. PICK n \in DOMAIN k : e \in Fails(c, n)
    BY <1>5
  <2>2. k[n].call \in Hits
    BY <1>1 DEF CallSet, Hits
  <2>3. \/ \E rc, gone : e = Ended(rc, Zero, gone, k[n].call)
        \/ \E o, hit : hit \in {"back", "copy", "launch"} /\ e = Ended(0, o, FALSE, hit)
    BY <2>1 DEF Fails, k
  <2>4. CASE \E rc, gone : e = Ended(rc, Zero, gone, k[n].call)
    BY <2>2, <2>4 DEF Ended
  <2>5. CASE \E o, hit : hit \in {"back", "copy", "launch"} /\ e = Ended(0, o, FALSE, hit)
    BY <2>5 DEF Ended, Hits
  <2> QED BY <2>3, <2>4, <2>5
<1>6. lost \/ (~lost /\ \E o \in Writes(c) : e = Ended(0, o, FALSE, "none"))
        \/ (~lost /\ \E n \in DOMAIN k : e \in Fails(c, n))
  BY DEF Ends, k
<1> QED BY <1>2, <1>3, <1>4, <1>5, <1>6

\* The list of the cases of each script.
LEMMA TodoIsList ==
  ASSUME script \in Scripts
  PROVE  /\ Len(Todo) \in Nat /\ DOMAIN Todo = 1..Len(Todo)
         /\ script.name = "universal" => \A n \in DOMAIN Todo : Todo[n].sort = "cpu"
<1>1. CASE OnDevice
  BY <1>1, TodoIs DEF OnDevice
<1>2. CASE script.name = "gpu"
  <2> DEFINE one == <<"sgemm 64", "sgemm 128", "sgemm 256", "sgemm 512", "sgemm 1024", "sgemm 2048", "sgemm 64x1024",
                     "sgemm 128x512", "sgemm 1024x512", "sgemm 2048x1024">>
             two == <<"relu", "sigmoid", "tanh", "silu", "neg", "abs", "exp">>
             three == <<"mm+bias+relu 512", "mm+bias+relu 1024", "mm+bias+relu 2048">>
             a == Cases("product", one)   b == Cases("itself", two)   d == Cases("product", three)
             S == {Case(one[i], "product") : i \in 1..10} \cup {Case(two[i], "itself") : i \in 1..7}
                    \cup {Case(three[i], "product") : i \in 1..3}
  <2>1. Len(one) = 10 /\ DOMAIN one = 1..10 /\ Len(two) = 7 /\ DOMAIN two = 1..7 /\ Len(three) = 3 /\ DOMAIN three = 1..3
    OBVIOUS
  <2>2. Todo = (a \o b) \o d
    BY <1>2 DEF Todo, Gpu
  <2> HIDE DEF one, two, three
  <2>3. /\ \A i \in 1..10 : Case(one[i], "product") \in S
        /\ \A i \in 1..7 : Case(two[i], "itself") \in S
        /\ \A i \in 1..3 : Case(three[i], "product") \in S
    OBVIOUS
  <2> HIDE DEF S
  <2>4. a \in Seq(S) /\ b \in Seq(S) /\ d \in Seq(S)
    <3>1. a \in Seq(S)
      BY <2>1, <2>3, CasesAre
    <3>2. b \in Seq(S)
      BY <2>1, <2>3, CasesAre
    <3>3. d \in Seq(S)
      BY <2>1, <2>3, CasesAre
    <3> QED BY <3>1, <3>2, <3>3
  <2> HIDE DEF a, b, d
  <2>5. (a \o b) \in Seq(S)
    BY <2>4, ConcatProperties
  <2>6. Todo \in Seq(S)
    BY <2>2, <2>4, <2>5, ConcatProperties
  <2> QED BY <1>2, <2>6
<1>3. CASE script.name = "universal"
  <2> DEFINE names == <<"sgemm 64", "sgemm 256", "sgemm 512", "relu", "silu", "mish", "fused_mm_bias_relu", "conv2d", "upsample",
                 "sigmoid", "tanh", "gelu", "neg", "abs", "exp", "reduce_sum", "reduce_mean", "reduce_max", "softmax",
                 "layernorm", "maxpool2d", "linear">>
             c == Cases("cpu", names)
  <2>1. Len(names) = 22 /\ DOMAIN names = 1..22
    OBVIOUS
  <2>2. Todo = c
    BY <1>3 DEF Todo, Universal
  <2> DEFINE S == {Case(names[i], "cpu") : i \in 1..22}
  <2> HIDE DEF names
  <2>3. \A i \in 1..22 : Case(names[i], "cpu") \in S
    OBVIOUS
  <2> HIDE DEF S
  <2>4. Len(names) \in Nat /\ DOMAIN names = 1..Len(names) /\ \A i \in 1..Len(names) : Case(names[i], "cpu") \in S
    BY <2>1, <2>3
  <2>5. /\ Cases("cpu", names) \in Seq(S) /\ Len(Cases("cpu", names)) = Len(names)
        /\ \A i \in 1..Len(names) : Cases("cpu", names)[i] = Case(names[i], "cpu")
    BY <2>4, CasesAre
  <2>6. c \in Seq(S) /\ Len(c) = 22 /\ \A i \in 1..22 : c[i] = Case(names[i], "cpu")
    BY <2>1, <2>5
  <2> HIDE DEF c
  <2>7. \A i \in 1..22 : c[i].sort = "cpu"
    <3> SUFFICES ASSUME NEW i \in 1..22 PROVE c[i].sort = "cpu"
      OBVIOUS
    <3>1. c[i] = Case(names[i], "cpu")
      BY <2>6
    <3>2. Case(names[i], "cpu").sort = "cpu"
      BY DEF Case
    <3> QED BY <3>1, <3>2
  <2>8. Len(c) \in Nat /\ DOMAIN c = 1..22
    BY <2>6
  <2> QED BY <1>3, <2>2, <2>6, <2>7, <2>8
<1> QED BY <1>1, <1>2, <1>3, ScriptsAssumption DEF OnDevice

-----------------------------------------------------------------------------
(* The invariant. *)

\* A kernel that writes nothing passes only on the equal result of an earlier case.
StubTells(n) ==
  OnDevice /\ ~GradeOf(Todo[n]).writes /\ ~Shared(Todo[n], n - 1) => ~Passed(cases[n].status)
BitInv ==
  /\ script \in Scripts
  /\ cases \in Seq(Told) /\ Len(cases) <= Len(Todo)
  /\ OnDevice => \A v \in devmem : MemoryOf(v, Len(cases))
  /\ \A n \in DOMAIN cases : CaseTells(n) /\ StubTells(n)
  /\ ExitTells

\* What rests on the script alone stays with it.
LEMMA SameScript ==
  ASSUME script' = script
  PROVE  /\ Todo' = Todo /\ OnDevice' = OnDevice
         /\ \A c : GradeOf(c)' = GradeOf(c)
         /\ \A c, k : Shared(c, k)' = Shared(c, k)
         /\ \A v, k : MemoryOf(v, k)' = MemoryOf(v, k)
<1>1. Todo' = Todo
  BY DEF Todo
<1>2. OnDevice' = OnDevice
  BY DEF OnDevice
<1>3. \A c : GradeOf(c)' = GradeOf(c)
  BY DEF GradeOf
<1>4. \A c, k : Shared(c, k)' = Shared(c, k)
  BY <1>1 DEF Shared
<1>5. \A v, k : MemoryOf(v, k)' = MemoryOf(v, k)
  BY <1>1 DEF MemoryOf
<1> QED BY <1>1, <1>2, <1>3, <1>4, <1>5

\* CaseTells in the terms of the lemmas.
LEMMA TellsIs == \A n : CaseTells(n) <=> Tells(Todo[n], cases[n], Shared(Todo[n], n - 1))
BY DEF CaseTells, Tells, Shared

\* What is told of a case stays told.
LEMMA TellsStays ==
  ASSUME script' = script, NEW n, cases'[n] = cases[n], CaseTells(n), StubTells(n)
  PROVE  CaseTells(n)' /\ StubTells(n)'
<1>1. /\ Todo' = Todo /\ OnDevice' = OnDevice
      /\ \A c : GradeOf(c)' = GradeOf(c)
      /\ \A c, k : Shared(c, k)' = Shared(c, k)
  BY SameScript
<1>2. CaseTells(n)'
  BY <1>1 DEF CaseTells
<1>3. StubTells(n)'
  BY <1>1 DEF StubTells
<1> QED BY <1>2, <1>3

\* One more case, of which its status tells.
LEMMA OneMore ==
  ASSUME BitInv, MoreCases, script' = script, caseExit' = caseExit,
         NEW r \in Told, cases' = Append(cases, r),
         Tells(Now, r, Shared(Now, Len(cases))),
         OnDevice /\ ~GradeOf(Now).writes /\ ~Shared(Now, Len(cases)) => ~Passed(r.status),
         OnDevice => \A v \in devmem' : MemoryOf(v, Len(cases) + 1)
  PROVE  BitInv'
<1> DEFINE k == Len(cases)
<1>1. /\ Todo' = Todo /\ OnDevice' = OnDevice
      /\ \A c : GradeOf(c)' = GradeOf(c)
      /\ \A c, j : Shared(c, j)' = Shared(c, j)
      /\ \A v, j : MemoryOf(v, j)' = MemoryOf(v, j)
  BY SameScript
<1>2. /\ cases \in Seq(Told) /\ k \in Nat /\ DOMAIN cases = 1..k
      /\ cases' \in Seq(Told) /\ Len(cases') = k + 1 /\ DOMAIN cases' = 1..k + 1
      /\ cases'[k + 1] = r /\ \A n \in 1..k : cases'[n] = cases[n]
  <2>1. cases \in Seq(Told)
    BY DEF BitInv
  <2> QED BY <2>1, AppendProperties
<1>3. Len(Todo) \in Nat /\ k < Len(Todo) /\ Now = Todo[k + 1] /\ caseExit = "none"
  BY TodoIsList DEF BitInv, MoreCases, Now
<1> HIDE DEF k
<1>4. \A n \in DOMAIN cases' : (CaseTells(n) /\ StubTells(n))'
  <2> SUFFICES ASSUME NEW n \in 1..k + 1 PROVE CaseTells(n)' /\ StubTells(n)'
    BY <1>2
  <2>1. CASE n \in 1..k
    <3>1. CaseTells(n) /\ StubTells(n) /\ cases'[n] = cases[n]
      BY <1>2, <2>1 DEF BitInv
    <3> QED BY <3>1, TellsStays
  <2>2. CASE n = k + 1
    <3>1. Tells(Todo[n], r, Shared(Todo[n], n - 1)) /\ n - 1 = k
      BY <1>2, <1>3, <2>2 DEF k
    <3>2. CaseTells(n)'
      BY <1>1, <1>2, <2>2, <3>1 DEF CaseTells, Tells, Shared
    <3>3. StubTells(n)'
      BY <1>1, <1>2, <1>3, <2>2, <3>1 DEF StubTells, k
    <3> QED BY <3>2, <3>3
  <2> QED BY <1>2, <2>1, <2>2
<1>5. ExitTells'
  BY <1>3 DEF ExitTells
<1>6. OnDevice' => \A v \in devmem' : MemoryOf(v, Len(cases))'
  BY <1>1, <1>2 DEF k
<1> QED BY <1>1, <1>2, <1>3, <1>4, <1>5, <1>6 DEF BitInv

\* The next case of a script that uses the device.
LEMMA NowIs ==
  ASSUME BitInv, MoreCases, OnDevice
  PROVE  /\ Now.sort \in Sorts /\ Now.ref \notin {"zero", "junk"} /\ Now = Todo[Len(cases) + 1]
         /\ Now.sort = "triplet" => ~Shared(Now, Len(cases))
         /\ Len(cases) \in Nat
<1> DEFINE k == Len(cases)
<1>1. k \in Nat /\ k < Len(Todo)
  BY DEF BitInv, MoreCases
<1> HIDE DEF k
<1>2. /\ Len(Todo) \in Nat /\ DOMAIN Todo = 1..Len(Todo)
      /\ \A n \in DOMAIN Todo : Todo[n] \in UsualCase \/ Todo[n] = Triplet
      /\ \A m, n \in DOMAIN Todo : m # n /\ Todo[n] = Triplet => Todo[m] \in UsualCase
  BY TodoIs
<1>3. k + 1 \in DOMAIN Todo /\ Now = Todo[k + 1]
  BY <1>1, <1>2 DEF Now, k
<1>4. Triplet.sort = "triplet" /\ Triplet.ref = "loss_triplet_margin"
  BY DEF Triplet, Case
<1>5. \A c \in UsualCase : c.sort \in Usual /\ c.sort # "triplet" /\ c.ref \in Names
  BY DEF UsualCase, Usual
<1>6. CASE Now \in UsualCase
  BY <1>1, <1>3, <1>5, <1>6, NamesDiffer DEF Sorts, k
<1>7. CASE Now = Triplet
  <2>1. \A m \in 1..k : Todo[m] \in UsualCase
    <3> SUFFICES ASSUME NEW m \in 1..k PROVE Todo[m] \in UsualCase
      OBVIOUS
    <3>1. m \in DOMAIN Todo /\ m # k + 1
      BY <1>1, <1>2
    <3> QED BY <1>2, <1>3, <1>7, <3>1
  <2>2. ~Shared(Now, k)
    BY <1>4, <1>5, <1>7, <2>1, NamesDiffer DEF Shared
  <2> QED BY <1>1, <1>3, <1>4, <1>7, <2>2 DEF Sorts, k
<1> QED BY <1>2, <1>3, <1>6, <1>7

\* What an earlier case left is still what an earlier case left.
LEMMA MemoryGrows ==
  ASSUME NEW k \in Nat, NEW v, MemoryOf(v, k)
  PROVE  MemoryOf(v, k + 1)
BY DEF MemoryOf

\* A case whose source is not there.
LEMMA UncompiledKeeps ==
  ASSUME BitInv, Uncompiled
  PROVE  BitInv'
<1> DEFINE r == [status |-> "HARNESS_ERROR", hit |-> "none"]
<1>1. /\ MoreCases /\ OnDevice /\ Now.name \in script.absent
      /\ cases' = Append(cases, r) /\ script' = script /\ devmem' = devmem /\ caseExit' = caseExit
  BY DEF Uncompiled, Result
<1>2. r \in Told
  BY DEF Told, Statuses, Hits
<1>3. Now.sort # "itself" /\ Len(cases) \in Nat
  BY <1>1, NowIs DEF Sorts, Usual
<1>4. ~Passed(r.status)
  BY DEF Passed
<1>5. Tells(Now, r, Shared(Now, Len(cases)))
  BY <1>1, <1>3, <1>4 DEF Tells
<1>6. \A v \in devmem' : MemoryOf(v, Len(cases) + 1)
  BY <1>1, <1>3, MemoryGrows DEF BitInv
<1> HIDE DEF r
<1> QED BY <1>1, <1>2, <1>4, <1>5, <1>6, OneMore

\* A case that is run on the device.
LEMMA RunCaseKeeps ==
  ASSUME BitInv, RunCase
  PROVE  BitInv'
<1> DEFINE k == Len(cases)
<1>1. PICK end \in Ends(Now) :
        /\ Result(Classify(Now, end), end.hit)
        /\ devmem' = IF end.hit \in {"none", "back"} THEN devmem \cup Writes(Now) ELSE devmem
  BY DEF RunCase
<1> DEFINE r == [status |-> Classify(Now, end), hit |-> end.hit]
<1>2. /\ MoreCases /\ OnDevice /\ Now.name \notin script.absent
      /\ cases' = Append(cases, r) /\ script' = script /\ caseExit' = caseExit
  BY <1>1 DEF RunCase, Result
<1>3. /\ Now.sort \in Sorts /\ Now.ref \notin {"zero", "junk"} /\ Now = Todo[k + 1]
      /\ Now.sort = "triplet" => ~Shared(Now, k)
      /\ k \in Nat
  BY <1>2, NowIs
<1>4. \A v \in devmem : MemoryOf(v, k)
  BY <1>2 DEF BitInv
<1>5. /\ Tells(Now, r, Shared(Now, k))
      /\ ~GradeOf(Now).writes /\ ~Shared(Now, k) => ~Passed(r.status)
  <2> HIDE DEF k
  <2>1. script \in Scripts
    BY DEF BitInv
  <2> QED BY <1>3, <1>4, <2>1, EndTells
<1>6. r \in Told
  BY <1>3, EndHits DEF Told
<1>7. \A v \in devmem' : MemoryOf(v, k + 1)
  <2> HIDE DEF k
  <2>1. \A v \in devmem : MemoryOf(v, k + 1)
    BY <1>3, <1>4, MemoryGrows
  <2>2. \A v \in Writes(Now) : MemoryOf(v, k + 1)
    <3>1. \A v \in Found(Now) : MemoryOf(v, k + 1)
      BY <2>1 DEF Found, MemoryOf
    <3>2. MemoryOf(Made(Now.ref, GradeOf(Now)), k + 1)
      <4>1. k + 1 \in 1..k + 1 /\ Made(Now.ref, GradeOf(Now)).of = Todo[k + 1].ref /\ Todo[k + 1].name \notin script.absent
        BY <1>2, <1>3 DEF Made
      <4> QED BY <4>1 DEF MemoryOf
    <3> QED BY <3>1, <3>2 DEF Writes
  <2> QED BY <1>1, <2>1, <2>2
<1> HIDE DEF r
<1> QED BY <1>2, <1>5, <1>6, <1>7, OneMore

\* A case of the comparisons with cuBLAS, with the truth and with PyTorch.
LEMMA ComparedKeeps ==
  ASSUME BitInv, CompareOnGpu \/ CompareOnCpu
  PROVE  BitInv'
<1> DEFINE k == Len(cases)
           g == IF Now.sort = "itself" THEN Exact ELSE GradeOf(Now)
<1>1. script \in Scripts /\ k \in Nat
  BY DEF BitInv
<1>2. ~OnDevice
  BY DEF OnDevice, CompareOnGpu, CompareOnCpu
<1>3. /\ g \in [ulp : Nat, err : 0..4, writes : BOOLEAN]
      /\ g.writes
      /\ g.ulp = 0 => g = Exact
      /\ g = Exact => g.ulp = 0
  <2>1. Exact \in [ulp : Nat, err : 0..4, writes : BOOLEAN] /\ Exact.writes /\ Exact.ulp = 0
    BY DEF Exact, Grade
  <2>2. /\ GradeOf(Now) \in [ulp : Nat, err : 0..4, writes : BOOLEAN]
        /\ GradeOf(Now).writes
        /\ GradeOf(Now).ulp = 0 => GradeOf(Now) = Exact
    BY <1>1, <1>2, GradeIs
  <2> QED BY <2>1, <2>2
<1>4. PICK status \in Statuses :
        /\ MoreCases /\ Result(status, "none")
        /\ script' = script /\ caseExit' = caseExit
        /\ status = "BIT_IDENTICAL" <=> g.ulp = 0
        /\ status # "CUDA_ERROR"
        /\ Beyond(g) => status = "FAIL"
  <2>1. CASE CompareOnGpu
    <3> DEFINE s == IF g.ulp = 0 THEN "BIT_IDENTICAL" ELSE IF g.err <= 2 THEN "PASS_ABS_TOLERANCE"
                    ELSE IF g.err <= 3 THEN "WITHIN_ERROR_BOUND" ELSE "FAIL"
    <3>1. MoreCases /\ Result(s, "none") /\ script' = script /\ caseExit' = caseExit
      BY <2>1 DEF CompareOnGpu
    <3> HIDE DEF g
    <3>2. /\ s \in Statuses /\ (s = "BIT_IDENTICAL" <=> g.ulp = 0) /\ s # "CUDA_ERROR"
          /\ Beyond(g) => s = "FAIL"
      BY <1>3 DEF Statuses, Beyond
    <3> HIDE DEF s
    <3> QED BY <3>1, <3>2
  <2>2. CASE CompareOnCpu
    <3> DEFINE h == GradeOf(Now)
               s == IF h.ulp = 0 THEN "BIT_IDENTICAL"
                    ELSE IF h.err <= 2 /\ h.ulp > 100000 THEN "PASS_ABS_TOLERANCE"
                    ELSE IF h.ulp <= 64 THEN "PASS_WITHIN_64_ULP"
                    ELSE IF h.err <= 1 THEN "PASS_ABS_TOLERANCE" ELSE "FAIL"
    <3>1. MoreCases /\ Result(s, "none") /\ script' = script /\ caseExit' = caseExit /\ script.name = "universal"
      BY <2>2 DEF CompareOnCpu
    <3>2. g = h
      <4>1. Now = Todo[k + 1] /\ k < Len(Todo)
        BY <3>1 DEF MoreCases, Now
      <4>2. Now.sort = "cpu"
        BY <1>1, <3>1, <4>1, TodoIsList
      <4> QED BY <4>2
    <3> HIDE DEF g, h
    <3>3. /\ s \in Statuses /\ (s = "BIT_IDENTICAL" <=> h.ulp = 0) /\ s # "CUDA_ERROR"
          /\ Beyond(h) => s = "FAIL"
      BY <1>3, <3>2 DEF Statuses, Beyond
    <3> HIDE DEF s
    <3> QED BY <3>1, <3>2, <3>3
  <2> QED BY <2>1, <2>2
<1> DEFINE r == [status |-> status, hit |-> "none"]
<1>5. r \in Told /\ cases' = Append(cases, r)
  BY <1>4 DEF Told, Hits, Result
<1>6. Tells(Now, r, Shared(Now, k))
  <2>1. Beyond(g) => ~Passed(status)
    BY <1>4 DEF Passed
  <2> DEFINE sh == Shared(Now, k)
  <2>2. /\ r.hit = "none" /\ g = Exact => r.status = "BIT_IDENTICAL"
        /\ g.writes
        /\ r.status = "BIT_IDENTICAL" => g = Exact
        /\ r.status # "CUDA_ERROR"
        /\ r.hit = "none"
        /\ Beyond(g) => ~Passed(r.status)
    <3> HIDE DEF g
    <3> QED BY <1>3, <1>4, <2>1
  <2> HIDE DEF r, sh
  <2> QED BY <2>2 DEF Tells, sh
<1> HIDE DEF r
<1> QED BY <1>2, <1>4, <1>5, <1>6, OneMore

\* The end of a script with nothing to compare, and of one with every case compared.
LEMMA EndsKeep ==
  ASSUME BitInv, Unloaded \/ Conclude
  PROVE  BitInv'
<1>1. script' = script /\ cases' = cases /\ devmem' = devmem
  BY DEF Unloaded, Conclude
<1>2. /\ Todo' = Todo /\ OnDevice' = OnDevice
      /\ \A c : GradeOf(c)' = GradeOf(c)
      /\ \A v, j : MemoryOf(v, j)' = MemoryOf(v, j)
  BY <1>1, SameScript
<1>3. \A n \in DOMAIN cases' : (CaseTells(n) /\ StubTells(n))'
  BY <1>1, TellsStays DEF BitInv
<1>4. OnDevice' => \A v \in devmem' : MemoryOf(v, Len(cases))'
  BY <1>1, <1>2 DEF BitInv
<1>5. ExitTells'
  <2>1. CASE Unloaded
    <3>1. caseExit' = "0" => script.absent = {"library"} /\ script.name = "universal"
      BY <2>1 DEF Unloaded
    <3> QED BY <1>1, <3>1 DEF ExitTells
  <2>2. CASE Conclude /\ script.name \in {"v2", "v3"}
    BY <1>1, <2>2 DEF ExitTells
  <2>3. CASE Conclude /\ script.name \notin {"v2", "v3"}
    <3>1. Len(cases) = Len(Todo) /\ (caseExit' = "0" => \A n \in DOMAIN cases : Passed(cases[n].status))
      BY <2>3 DEF Conclude
    <3>2. /\ DOMAIN cases = 1..Len(cases) /\ DOMAIN Todo = 1..Len(Todo) /\ script \in Scripts
          /\ \A n \in DOMAIN cases : CaseTells(n) /\ StubTells(n)
      BY TodoIsList DEF BitInv
    <3>3. ASSUME caseExit' = "0", NEW n \in DOMAIN Todo, Todo[n].sort # "itself"
          PROVE  ~Beyond(GradeOf(Todo[n])) /\ (OnDevice => GradeOf(Todo[n]).writes)
      <4> DEFINE g == GradeOf(Todo[n])
      <4>1. CaseTells(n) /\ StubTells(n) /\ Passed(cases[n].status)
        BY <3>1, <3>2, <3>3
      <4>2. g.ulp \in Nat /\ (~g.writes => g.ulp = 0 /\ OnDevice)
        BY <3>2, GradeIs
      <4>3. OnDevice => g.writes
        <5> SUFFICES ASSUME OnDevice PROVE g.writes
          OBVIOUS
        <5>1. script.name = "v1"
          BY <2>3 DEF OnDevice
        <5>2. \A m \in DOMAIN Todo : m # n => Todo[m].ref # Todo[n].ref
          BY <3>3, <5>1, TodoIs
        <5>3. n \in 1..Len(Todo) /\ \A m \in 1..n - 1 : m \in DOMAIN Todo /\ m # n
          BY <1>1, <3>2, <3>3, TodoIsList
        <5>4. ~Shared(Todo[n], n - 1)
          BY <5>2, <5>3 DEF Shared
        <5> QED BY <4>1, <5>4 DEF StubTells
      <4>4. Beyond(g) /\ g.writes => ~Passed(cases[n].status)
        BY <3>3, <4>1 DEF CaseTells
      <4>5. ~g.writes => ~Beyond(g)
        <5> HIDE DEF g
        <5> QED BY <4>2 DEF Beyond
      <4> QED BY <4>1, <4>3, <4>4, <4>5
    <3> QED BY <1>1, <1>2, <3>1, <3>3 DEF ExitTells
  <2> QED BY <2>1, <2>2, <2>3
<1> QED BY <1>1, <1>2, <1>3, <1>4, <1>5 DEF BitInv

\* CasesTell: a status speaks of the kernel it names and the exit code of the statuses,
\* for any grades, any absent sources, any number of calls of CUDA that fail and
\* whatever results of earlier cases the memory still holds.
THEOREM CasesAreTold == BitSpec => []CasesTell
<1>1. BitInit => BitInv
  <2> SUFFICES ASSUME BitInit PROVE BitInv
    OBVIOUS
  <2>1. script \in Scripts /\ cases = << >> /\ devmem = {} /\ caseExit = "none"
    BY DEF BitInit
  <2>2. Len(Todo) \in Nat
    BY <2>1, TodoIsList
  <2>3. cases \in Seq(Told) /\ Len(cases) = 0 /\ DOMAIN cases = {}
    BY <2>1
  <2> QED BY <2>1, <2>2, <2>3 DEF BitInv, ExitTells
<1>2. BitInv /\ [BitNext]_bitVars => BitInv'
  <2> SUFFICES ASSUME BitInv, [BitNext]_bitVars PROVE BitInv'
    OBVIOUS
  <2>1. CASE UNCHANGED bitVars
    <3>1. script' = script /\ cases' = cases /\ devmem' = devmem /\ caseExit' = caseExit
      BY <2>1 DEF bitVars
    <3>2. /\ Todo' = Todo /\ OnDevice' = OnDevice
          /\ \A c : GradeOf(c)' = GradeOf(c)
          /\ \A v, j : MemoryOf(v, j)' = MemoryOf(v, j)
      BY <3>1, SameScript
    <3>3. \A n \in DOMAIN cases' : (CaseTells(n) /\ StubTells(n))'
      BY <3>1, TellsStays DEF BitInv
    <3>4. OnDevice' => \A v \in devmem' : MemoryOf(v, Len(cases))'
      BY <3>1, <3>2 DEF BitInv
    <3>5. ExitTells'
      BY <3>1, <3>2 DEF ExitTells, BitInv
    <3> QED BY <3>1, <3>2, <3>3, <3>4, <3>5 DEF BitInv
  <2> QED BY <2>1, UncompiledKeeps, RunCaseKeeps, ComparedKeeps, EndsKeep DEF BitNext
<1>3. BitInv => CasesTell
  BY DEF BitInv, CasesTell
<1> QED BY <1>1, <1>2, <1>3, PTL DEF BitSpec
=============================================================================
