---------------------------- MODULE MCHostScripts ----------------------------
(***************************************************************************)
(* Instances of CIPipeline and GemmTuner for TLC.  A behaviour is of one   *)
(* of the two: the other has no pushes or no processes to start.           *)
(***************************************************************************)
EXTENDS CIPipeline, GemmTuner

Pipeline(pushes, alive, kinds, most, out) ==
  [pushes |-> pushes, alive |-> alive, faults |-> kinds, most |-> most, outdir |-> out]
NoPipeline == Pipeline(0, 1, {}, 0, 0)

\* One pipeline at a time on a fresh machine, with faults; two at a time; and
\* two at a time of which one is killed and leaves its tool behind.
MCMachines ==
  { NoPipeline,
    Pipeline(3, 1, {"fail", "hang", "limit"}, 2, 0),
    Pipeline(3, 2, {}, 0, 1),
    Pipeline(2, 2, {"limit"}, 1, 1) }

MCTuners  == 1..3
MCQuality == <<"nan", "wrong", "broken", "right">>
MCSpeed   == << <<1, 5, 2, 3>>, <<4, 5, 2, 3>>, <<3, 5, 1, 3>> >>

Tasks(a, b, c) == << a, b, c >>
Idle == <<"none", 1>>
Sweeps(tasks, overlap, kinds, most) ==
  [task |-> tasks, overlap |-> overlap, mishaps |-> kinds, most |-> most]
NoSweeps == Sweeps(Tasks(Idle, Idle, Idle), FALSE, {}, 0)

\* Sizes 2 and 3 verify at the same size, 1 at a smaller one.
MCTunings ==
  { NoSweeps,
    Sweeps(Tasks(<<"tune", 1>>, <<"tune", 3>>, <<"tune", 1>>), FALSE, {}, 0),
    Sweeps(Tasks(<<"tune", 1>>, <<"tune", 3>>, <<"tune", 1>>), FALSE, {"launch", "death"}, 2),
    Sweeps(Tasks(<<"tune", 2>>, <<"tune", 3>>, <<"sweep", 1>>), FALSE, {"death"}, 1),
    Sweeps(Tasks(<<"tune", 2>>, <<"tune", 3>>, Idle), TRUE, {}, 0),
    Sweeps(Tasks(<<"tune", 1>>, <<"sweep", 2>>, Idle), TRUE, {}, 0) }

Init == /\ CIInit /\ TunerInit
        /\ machine = NoPipeline \/ tuning = NoSweeps

CIStep ==
  \/ Push /\ UNCHANGED tunerVars
  \/ \E p \in Pushes :
       \/ Launch(p)   /\ UNCHANGED tunerVars
       \/ RunTest(p)  /\ UNCHANGED tunerVars
       \/ SkipTest(p) /\ UNCHANGED tunerVars
       \/ Finish(p)   /\ UNCHANGED tunerVars
       \/ Fail(p)     /\ UNCHANGED tunerVars
       \/ Hang(p)     /\ UNCHANGED tunerVars
       \/ Timeout(p)  /\ UNCHANGED tunerVars
       \/ Kill(p)     /\ UNCHANGED tunerVars
       \/ End(p)      /\ UNCHANGED tunerVars

GemmStep ==
  \E p \in Tuners :
    \/ TunerStart(p)  /\ UNCHANGED ciVars
    \/ LoadCut(p)     /\ UNCHANGED ciVars
    \/ CacheHit(p)    /\ UNCHANGED ciVars
    \/ WriteInputs(p) /\ UNCHANGED ciVars
    \/ Compile(p)     /\ UNCHANGED ciVars
    \/ Clear(p)       /\ UNCHANGED ciVars
    \/ LaunchCheck(p) /\ UNCHANGED ciVars
    \/ Compare(p)     /\ UNCHANGED ciVars
    \/ Measure(p)     /\ UNCHANGED ciVars
    \/ RemoveCubin(p)      /\ UNCHANGED ciVars
    \/ Truncate(p)    /\ UNCHANGED ciVars
    \/ Dump(p)        /\ UNCHANGED ciVars
    \/ Die(p)         /\ UNCHANGED ciVars

Next == CIStep \/ GemmStep

Spec == /\ Init /\ [][Next]_<<ciVars, tunerVars>>
        /\ \A p \in Pushes : WF_ciVars(Owed(p))
=============================================================================
