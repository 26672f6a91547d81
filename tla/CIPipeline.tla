----------------------------- MODULE CIPipeline -----------------------------
(***************************************************************************)
(* Continuous integration: scripts/webhook_runner.py starts a thread per   *)
(* push to main, the thread runs scripts/ci_build_test_dashboard.py and    *)
(* kills it after 300 s.  The pipeline pulls two checkouts, builds in one  *)
(* directory shared by all pipelines, runs tests/verify_llvm_ops_auto.py,  *)
(* which writes the facts, and has Prolog draw the dashboard from them.    *)
(* Every tool has a timeout of its own; what a step returns is ignored.    *)
(*                                                                         *)
(* A file is the set of commits that went into it: nothing for a file that *)
(* is not there, Torn for one whose writer was killed while writing.  A    *)
(* commit changes what files say; none adds or removes files.              *)
(***************************************************************************)
EXTENDS Integers, Sequences, FiniteSets

CONSTANTS
  MaxPushes,  \* bound on the pushes to main
  MaxFaults,  \* bound on the faults below
  Machines    \* the environments considered: records of the fields below

\* What may happen on a machine.
Machine == [pushes : 0..MaxPushes,  \* pushes to main
            alive  : 1..MaxPushes,  \* pipelines that may run at once
            faults : SUBSET {"fail", "hang", "limit"},  \* tools that fail or
                     \* hang, pipelines that exceed the webhook's 300 s
            most   : 0..MaxFaults,      \* such faults in a behaviour
            outdir : {0, 1}]        \* 1: OUTPUT_DIR is there from the start

ASSUME PipelineAssumption ==
  /\ MaxPushes \in Nat \ {0} /\ MaxFaults \in Nat
  /\ Machines \subseteq Machine

VARIABLES
  machine,  \* the machine, for its life
  remote,   \* the newest commit of main: commits are numbered by pushes
  tree,     \* the commit checked out, per repository
  file,     \* what went into each file of BUILD_DIR and OUTPUT_DIR
  outdir,   \* 1 once OUTPUT_DIR exists
  thread,   \* per push: "none", "running", "done" or "killed"
  pc,       \* per push: the pipeline's step
  job,      \* per push: the tool it runs: "none", "run" or "hung"
  src,      \* per push: what the running tool has read
  row,      \* per push: tests its harness has run
  faults,   \* faults so far
  upset     \* pushes whose pipeline was disturbed

ciVars == <<machine, remote, tree, file, outdir, thread, pc, job, src, row, faults, upset>>

Pushes == 1..MaxPushes
Repos  == {"rt", "bpd"}
Files  == {"cpu", "plugin", "ll", "obj", "fix", "llvm", "facts", "svg"}
Torn   == -1
Untested == -2   \* the row of an operator whose test did not run

\* The library each test of the harness loads, in a child process of its own.
Tests == <<"llvm", "cpu", "llvm">>

Active(p) == thread[p] = "running" \/ job[p] # "none"

CIInit ==
  /\ machine \in Machines
  /\ remote = 0
  /\ tree = [r \in Repos |-> 0]
  /\ file = [f \in Files |-> {}]
  /\ outdir = machine.outdir
  /\ thread = [p \in Pushes |-> "none"]
  /\ pc = [p \in Pushes |-> "pull_rt"]
  /\ job = [p \in Pushes |-> "none"]
  /\ src = [p \in Pushes |-> {}]
  /\ row = [p \in Pushes |-> 0]
  /\ faults = 0
  /\ upset = {}

-----------------------------------------------------------------------------
(* The steps of a pipeline.                                                *)

Steps == <<"pull_rt", "pull_bpd", "cpu", "plugin", "emit", "fix", "assemble", "link",
           "test", "dashboard", "end">>
Place(step) == CHOOSE i \in 1..Len(Steps) : Steps[i] = step
Pulls == {"pull_rt", "pull_bpd"}
Repo(step) == IF step = "pull_rt" THEN "rt" ELSE "bpd"
Compiles == {"cpu", "plugin", "fix", "assemble", "link"}

\* The file a step's tool writes; the pulls write a checkout.
Target(step) ==
  CASE step \in {"cpu", "plugin", "fix"} -> step
    [] step = "link" -> "llvm"
    [] step = "emit" -> "ll"
    [] step = "assemble" -> "obj"
    [] step = "test" -> "facts"
    [] step = "dashboard" -> "svg"

\* What a tool reads when it starts.  The libraries and the hand-written IR are
\* compiled from the substrate's checkout, the other IR is emitted by a Prolog
\* that loads the plugin, and all objects that exist are linked.
Inputs(step) ==
  CASE step \in Pulls -> {remote}
    [] step \in {"cpu", "plugin", "fix"} -> {tree["bpd"]}
    [] step = "emit" -> file["plugin"]
    [] step = "assemble" -> file["ll"]
    [] step = "link" -> file["obj"] \cup file["fix"]
    [] step = "test" -> {tree["rt"]}
    [] step = "dashboard" -> {tree["rt"]} \cup file["facts"]

\* The step after one whose tool ended well or not: without the plugin, the IR
\* or its object the rest of that chain is skipped.  (Slips: the substrate is not
\* pulled; the dashboard is drawn before the test.)
SlipOnePull(step, ok) ==
  IF step = "pull_rt" THEN "cpu" ELSE Steps[Place(step) + 1]
SlipDashboardFirst(step, ok) ==
  CASE step = "link" -> "dashboard" [] step = "dashboard" -> "test"
    [] step = "test" -> "end"       [] OTHER -> Steps[Place(step) + 1]
After(step, ok) ==
  IF ~ok /\ (step \in {"emit", "assemble"} \/ (step = "plugin" /\ file'["plugin"] = {}))
  THEN "test" ELSE Steps[Place(step) + 1]

\* A tool cannot end well on a torn input, nor the harness without OUTPUT_DIR,
\* which only the dashboard's step makes.
Hopeless(p) ==
  \/ pc[p] \in {"emit", "assemble", "link"} /\ Torn \in src[p]
  \/ pc[p] = "test" /\ outdir = 0

-----------------------------------------------------------------------------
\* One more fault of the kind k.
Fault(k) == k \in machine.faults /\ faults < machine.most /\ faults' = faults + 1

\* A push: do_POST starts a thread, the thread a process.
Push ==
  /\ remote < machine.pushes
  /\ remote' = remote + 1
  /\ thread' = [thread EXCEPT ![remote'] = "running"]
  /\ LET others == {p \in Pushes : Active(p)}
     IN  /\ Cardinality(others) < machine.alive
         /\ upset' = upset \cup others \cup (IF others = {} THEN {} ELSE {remote'})
  /\ UNCHANGED <<machine, tree, file, outdir, pc, job, src, row, faults>>

\* The next tool of a pipeline starts.
Launch(p) ==
  /\ thread[p] = "running" /\ job[p] = "none" /\ pc[p] # "end"
  /\ job' = [job EXCEPT ![p] = "run"]
  /\ src' = [src EXCEPT ![p] = Inputs(pc[p])]
  /\ outdir' = IF pc[p] = "dashboard" THEN 1 ELSE outdir
  /\ UNCHANGED <<machine, remote, tree, file, thread, pc, row, faults, upset>>

\* The harness runs one test; a library that is missing or torn does not load.
RunTest(p) ==
  /\ job[p] = "run" /\ pc[p] = "test" /\ row[p] < Len(Tests)
  /\ row' = [row EXCEPT ![p] = @ + 1]
  /\ LET lib == file[Tests[row'[p]]]
     IN  src' = [src EXCEPT ![p] = @ \cup IF lib = {} \/ Torn \in lib THEN {Untested} ELSE lib]
  /\ UNCHANGED <<machine, remote, tree, file, outdir, thread, pc, job, faults, upset>>

\* A test crashes or exceeds its 10 s: the harness skips it.
SkipTest(p) ==
  /\ job[p] = "run" /\ pc[p] = "test" /\ row[p] < Len(Tests)
  /\ Fault("fail")
  /\ row' = [row EXCEPT ![p] = @ + 1]
  /\ src' = [src EXCEPT ![p] = @ \cup {Untested}]
  /\ upset' = upset \cup {p}
  /\ UNCHANGED <<machine, remote, tree, file, outdir, thread, pc, job>>

\* The tool of p is gone; a pipeline that is still there goes on.
ToolGone(p, ok) ==
  /\ job' = [job EXCEPT ![p] = "none"]
  /\ pc' = IF thread[p] = "running" THEN [pc EXCEPT ![p] = After(@, ok)] ELSE pc
  /\ src' = [src EXCEPT ![p] = {}]
  /\ row' = [row EXCEPT ![p] = 0]
  /\ UNCHANGED <<machine, remote, outdir, thread>>

\* A tool ends well: it has written its output.
Finish(p) ==
  /\ job[p] = "run" /\ ~Hopeless(p)
  /\ pc[p] = "test" => row[p] = Len(Tests)
  /\ IF pc[p] \in Pulls
     THEN /\ tree' = [tree EXCEPT ![Repo(pc[p])] = CHOOSE c \in src[p] : TRUE]
          /\ UNCHANGED file
     ELSE /\ file' = [file EXCEPT ![Target(pc[p])] = src[p]]
          /\ UNCHANGED tree
  /\ ToolGone(p, TRUE)
  /\ UNCHANGED <<faults, upset>>

\* A tool ends badly.  It leaves its output as it was, a compiler may remove it.
Fail(p) ==
  /\ job[p] = "run"
  /\ \/ Hopeless(p) /\ UNCHANGED faults
     \/ ~Hopeless(p) /\ Fault("fail")
  /\ file' \in {file} \cup (IF pc[p] \in Compiles
                            THEN {[file EXCEPT ![Target(pc[p])] = {}]} ELSE {})
  /\ ToolGone(p, FALSE)
  /\ upset' = IF Torn \in src[p] THEN upset ELSE upset \cup {p}
  /\ UNCHANGED tree

\* A tool stops making progress.
Hang(p) ==
  /\ Fault("hang") /\ job[p] = "run"
  /\ job' = [job EXCEPT ![p] = "hung"]
  /\ UNCHANGED <<machine, remote, tree, file, outdir, thread, pc, src, row, upset>>

\* run() kills a tool that exceeds its timeout, perhaps while it writes.
SlipNoTimeout(p) == FALSE
Expired(p) == job[p] = "hung"
Timeout(p) ==
  /\ thread[p] = "running" /\ Expired(p)
  /\ file' \in {file} \cup (IF pc[p] \in Pulls THEN {}
                            ELSE {[file EXCEPT ![Target(pc[p])] = {Torn}]})
  /\ ToolGone(p, FALSE)
  /\ upset' = upset \cup {p}
  /\ UNCHANGED <<tree, faults>>

\* The webhook kills a pipeline after 300 s.  Its tool is not killed: it goes
\* on, and nobody waits for it.
Kill(p) ==
  /\ Fault("limit") /\ thread[p] = "running"
  /\ thread' = [thread EXCEPT ![p] = "killed"]
  /\ upset' = upset \cup {p}
  /\ UNCHANGED <<machine, remote, tree, file, outdir, pc, job, src, row>>

End(p) ==
  /\ thread[p] = "running" /\ pc[p] = "end"
  /\ thread' = [thread EXCEPT ![p] = "done"]
  /\ UNCHANGED <<machine, remote, tree, file, outdir, pc, job, src, row, faults, upset>>

\* What the operating system and the timers owe a push's processes: a tool that
\* has not hung goes on, and a timeout is noticed.
Owed(p) == Launch(p) \/ RunTest(p) \/ SkipTest(p) \/ Finish(p) \/ Fail(p) \/ Timeout(p) \/ End(p)

CINext == Push \/ (\E p \in Pushes : Owed(p) \/ Hang(p) \/ Kill(p))

CISpec == CIInit /\ [][CINext]_ciVars /\ \A p \in Pushes : WF_ciVars(Owed(p))

-----------------------------------------------------------------------------
(* Properties.                                                             *)

CITypeOK ==
  /\ machine \in Machines /\ remote \in 0..MaxPushes /\ outdir \in 0..1
  /\ tree \in [Repos -> 0..MaxPushes]
  /\ file \in [Files -> SUBSET (0..MaxPushes \cup {Torn, Untested})]
  /\ thread \in [Pushes -> {"none", "running", "done", "killed"}]
  /\ job \in [Pushes -> {"none", "run", "hung"}]
  /\ row \in [Pushes -> 0..Len(Tests)]
  /\ upset \subseteq Pushes

\* Every thread the webhook starts ends, although tools hang: no pipeline waits
\* for ever for one of its tools.
ThreadEnds ==
  \A p \in Pushes : thread[p] = "running" ~> thread[p] \in {"done", "killed"}

\* While a pipeline that is neither disturbed nor joined by another runs, every
\* file of the steps it has done is made of its own commit alone: no step reads
\* what only a later one makes, whatever earlier pipelines left.
BuiltSoFar ==
  \A p \in Pushes \ upset : thread[p] = "running" =>
    \A i \in 1..Len(Steps) : Place(pc[p]) > i =>
      IF Steps[i] \in Pulls THEN tree[Repo(Steps[i])] = p ELSE file[Target(Steps[i])] = {p}

\* A pipeline that was neither disturbed nor joined by another ends with a
\* dashboard and facts made of its own commit alone, whatever torn, stale or
\* missing files the pipelines before it left: the builds, the tests and the
\* drawing all read what this pipeline made.
PushIsShown ==
  \A p \in Pushes :
    remote = p ~> \/ file["svg"] = {p} /\ file["facts"] = {p}
                  \/ remote > p
                  \/ p \in upset
=============================================================================
