----------------------------- MODULE GemmTuner ------------------------------
(***************************************************************************)
(* The GEMM autotuner and the sweep it is built on                         *)
(* (kernelgen/referee/autotuner.py, gemm_sweep.py).  A process sweeps the  *)
(* candidates: it compiles one, lets tcheck_v2 multiply the matrices in    *)
(* A.bin and B.bin into Csw.bin, compares, measures, and removes the       *)
(* cubin.  `tune' first looks in a JSON file for an entry of its size and  *)
(* writes the whole file back with its winner.                             *)
(*                                                                         *)
(* All file names are fixed, so processes share every file.  A cubin is    *)
(* there or not (its name tells its candidate), Csw.bin is the verdict a   *)
(* comparison with it would give.  tcheck_v2 and nvcc are external.        *)
(***************************************************************************)
EXTENDS Integers, Sequences

CONSTANTS
  Tuners,     \* processes
  Tunings,    \* the settings considered, see Tuning
  Quality,    \* per candidate: "right", "wrong", "nan" or "broken"
  Speed,      \* per size and candidate: its GFLOPS
  MaxMishaps  \* bound on what Tuning.mishaps allows

Cands   == 1..Len(Quality)
Sizes   == 1..Len(Speed)
Nothing == 0

\* A setting: what each process is started for (nothing, tuning a size, or a
\* sweep), whether it may start while another runs, and what else happens:
\* tcheck_v2 fails for want of memory, a process dies.
Tuning == [task    : [Tuners -> {"none", "tune", "sweep"} \X Sizes],
           overlap : BOOLEAN,
           mishaps : SUBSET {"launch", "death"},
           most    : 0..MaxMishaps]

ASSUME TunerAssumption ==
  /\ Quality \in Seq({"right", "wrong", "nan", "broken"}) \ {<< >>}
  /\ Speed \in Seq([Cands -> Int])
  /\ MaxMishaps \in Nat
  /\ Tunings \subseteq Tuning

VARIABLES
  tuning,   \* the setting
  at,       \* per process: where it is
  cand,     \* per process: the candidate
  best,     \* per process: the winner so far, or Nothing
  known,    \* per process: the cache it has read
  result,   \* per process: what it returned
  cache,    \* autotune_cache.json: <<size, winner>> pairs, or {Cut}
  cubin,    \* the candidates whose cubin exists
  input,    \* the size of A.bin and B.bin
  csw,      \* Csw.bin: {<<size, verdict>>}, or {}
  mishaps,    \* mishaps so far
  met,      \* processes that ran while another did
  tuned     \* pairs that have been returned

tunerVars == <<tuning, at, cand, best, known, result, cache, cubin, input, csw, mishaps, met, tuned>>

Cut == <<Nothing, Nothing>>   \* a file that was truncated and not yet written
Kind(p) == tuning.task[p][1]
N(p)    == tuning.task[p][2]
Running(p) == at[p] \notin {"idle", "done", "dead"}

TunerInit ==
  /\ tuning \in Tunings
  /\ at     = [p \in Tuners |-> "idle"]
  /\ cand   = [p \in Tuners |-> 1]
  /\ best   = [p \in Tuners |-> Nothing]
  /\ known  = [p \in Tuners |-> {}]
  /\ result = [p \in Tuners |-> Nothing]
  /\ cache = {} /\ cubin = {} /\ input = Nothing /\ csw = {}
  /\ mishaps = 0 /\ met = {} /\ tuned = {}

-----------------------------------------------------------------------------
(* What the code computes.                                                 *)

\* Verification runs at 512 when n is larger: here sizes above 2 verify at 2.
\* The sweep verifies at a size of its own, which is the same by default.
VerifySize(p) == IF N(p) > 2 \/ Kind(p) = "sweep" THEN 2 ELSE N(p)

\* The gate.  nanmean and nanmax skip NaN and are NaN of all-NaN results: `tune'
\* rejects what is too large and so lets NaN pass, the sweep accepts what is
\* small enough.
Passes(kind, verdict) == verdict = "right" \/ (verdict = "nan" /\ kind = "tune")

\* What tcheck_v2 leaves in Csw.bin for the cubin of c, at size n.
Output(c, n) == {<<n, IF input = n THEN Quality[c] ELSE "wrong">>}

\* What verify makes of an old Csw.bin.  (Slip: it is not removed.)
SlipKeepOutput(old) == old
Cleared(old) == {}

\* The cache with an entry added.  (Slip: the winner alone is written.)
SlipOwnEntry(old, new) == {new}
Written(old, new) == {e \in old : e[1] # new[1]} \cup {new}

\* The winner so far once p has measured its candidate.
Better(p, old) ==
  IF old = Nothing \/ Speed[N(p)][cand[p]] > Speed[N(p)][old] THEN cand[p] ELSE old

-----------------------------------------------------------------------------
(* The steps of a process.                                                 *)

Mishap(k) == k \in tuning.mishaps /\ mishaps < tuning.most /\ mishaps' = mishaps + 1

TunerStart(p) ==
  LET others == {q \in Tuners : Running(q)}
  IN  /\ at[p] = "idle" /\ Kind(p) # "none"
      /\ tuning.overlap \/ others = {}
      /\ at' = [at EXCEPT ![p] = "load"]
      /\ met' = met \cup others \cup (IF others = {} THEN {} ELSE {p})
      /\ UNCHANGED <<tuning, cand, best, known, result, cache, cubin, input, csw, mishaps, tuned>>

\* load_cache: a file that was cut does not parse.
LoadCut(p) ==
  /\ at[p] = "load" /\ Kind(p) = "tune" /\ cache = {Cut}
  /\ at' = [at EXCEPT ![p] = "dead"]
  /\ UNCHANGED <<tuning, cand, best, known, result, cache, cubin, input, csw, mishaps, met, tuned>>

CacheHit(p) ==
  /\ at[p] = "load" /\ Kind(p) = "tune"
  /\ \E e \in cache \ {Cut} :
       /\ e[1] = N(p)
       /\ result' = [result EXCEPT ![p] = e[2]]
  /\ at' = [at EXCEPT ![p] = "done"]
  /\ UNCHANGED <<tuning, cand, best, known, cache, cubin, input, csw, mishaps, met, tuned>>

\* A miss, or a sweep: the inputs are written.
WriteInputs(p) ==
  /\ at[p] = "load"
  /\ Kind(p) = "tune" => cache # {Cut} /\ \A e \in cache : e[1] # N(p)
  /\ known' = [known EXCEPT ![p] = IF Kind(p) = "tune" THEN cache ELSE {}]
  /\ input' = VerifySize(p)
  /\ at' = [at EXCEPT ![p] = "compile"]
  /\ UNCHANGED <<tuning, cand, best, result, cache, cubin, csw, mishaps, met, tuned>>

\* The candidate is done with: the next one, or the end of the sweep.
NextCand(p) ==
  /\ cand' = [cand EXCEPT ![p] = IF @ = Len(Quality) THEN 1 ELSE @ + 1]
  /\ at' = [at EXCEPT ![p] =
              IF cand[p] < Len(Quality) THEN "compile"
              ELSE IF Kind(p) = "tune" THEN IF best[p] = Nothing THEN "dead" ELSE "open"
              ELSE "done"]

\* gen_compile: what nvcc says is ignored, a cubin that is there counts.
Compile(p) ==
  /\ at[p] = "compile"
  /\ LET there == cubin \cup IF Quality[cand[p]] = "broken" THEN {} ELSE {cand[p]}
     IN  /\ cubin' = there
         /\ IF cand[p] \in there
            THEN at' = [at EXCEPT ![p] = "clear"] /\ UNCHANGED cand
            ELSE NextCand(p)
  /\ UNCHANGED <<tuning, best, known, result, cache, input, csw, mishaps, met, tuned>>

\* verify: Csw.bin is removed, tcheck_v2 writes it, numpy reads it.
Clear(p) ==
  /\ at[p] = "clear"
  /\ csw' = Cleared(csw)
  /\ at' = [at EXCEPT ![p] = "launch"]
  /\ UNCHANGED <<tuning, cand, best, known, result, cache, cubin, input, mishaps, met, tuned>>

LaunchCheck(p) ==
  /\ at[p] = "launch"
  /\ at' = [at EXCEPT ![p] = "compare"]
  /\ \/ cand[p] \in cubin /\ csw' = Output(cand[p], VerifySize(p)) /\ UNCHANGED mishaps
     \/ cand[p] \notin cubin /\ UNCHANGED <<csw, mishaps>>
     \/ Mishap("launch") /\ UNCHANGED csw
  /\ UNCHANGED <<tuning, cand, best, known, result, cache, cubin, input, met, tuned>>

\* A result of another size cannot be subtracted.
Compare(p) ==
  /\ at[p] = "compare"
  /\ at' = [at EXCEPT ![p] =
              CASE \E out \in csw : out[1] # VerifySize(p) -> "dead"
                [] \E out \in csw : out[1] = VerifySize(p) /\ Passes(Kind(p), out[2]) -> "measure"
                [] OTHER -> "remove"]
  /\ UNCHANGED <<tuning, cand, best, known, result, cache, cubin, input, csw, mishaps, met, tuned>>

\* measure: a cubin that is gone gives no GFLOPS.
Measure(p) ==
  /\ at[p] = "measure"
  /\ best' = [best EXCEPT ![p] = IF cand[p] \in cubin THEN Better(p, @) ELSE @]
  /\ at' = [at EXCEPT ![p] = "remove"]
  /\ UNCHANGED <<tuning, cand, known, result, cache, cubin, input, csw, mishaps, met, tuned>>

\* os.remove: raises when another process was quicker.
RemoveCubin(p) ==
  /\ at[p] = "remove"
  /\ IF cand[p] \in cubin
     THEN cubin' = cubin \ {cand[p]} /\ NextCand(p)
     ELSE at' = [at EXCEPT ![p] = "dead"] /\ UNCHANGED <<cubin, cand>>
  /\ UNCHANGED <<tuning, best, known, result, cache, input, csw, mishaps, met, tuned>>

\* save_cache: open truncates the file, dump fills it.  If another dump came
\* between, a shorter text leaves the end of a longer one behind it.
Truncate(p) ==
  /\ at[p] = "open"
  /\ cache' = {Cut}
  /\ at' = [at EXCEPT ![p] = "dump"]
  /\ UNCHANGED <<tuning, cand, best, known, result, cubin, input, csw, mishaps, met, tuned>>

Dump(p) ==
  /\ at[p] = "dump"
  /\ cache' \in {Written(known[p], <<N(p), best[p]>>)} \cup (IF cache = {Cut} THEN {} ELSE {{Cut}})
  /\ result' = [result EXCEPT ![p] = best[p]]
  /\ tuned' = tuned \cup {<<N(p), best[p]>>}
  /\ at' = [at EXCEPT ![p] = "done"]
  /\ UNCHANGED <<tuning, cand, best, known, cubin, input, csw, mishaps, met>>

\* The process dies, or a tool exceeds its timeout, which nobody catches.
Die(p) ==
  /\ Running(p) /\ Mishap("death")
  /\ at' = [at EXCEPT ![p] = "dead"]
  /\ UNCHANGED <<tuning, cand, best, known, result, cache, cubin, input, csw, met, tuned>>

TunerStep(p) ==
  \/ TunerStart(p) \/ LoadCut(p) \/ CacheHit(p) \/ WriteInputs(p) \/ Compile(p) \/ Clear(p)
  \/ LaunchCheck(p) \/ Compare(p) \/ Measure(p) \/ RemoveCubin(p) \/ Truncate(p) \/ Dump(p) \/ Die(p)

TunerSpec == TunerInit /\ [][\E p \in Tuners : TunerStep(p)]_tunerVars

-----------------------------------------------------------------------------
(* Properties.                                                             *)

\* Candidate c passes, and of those up to `upTo' that do none is faster at size
\* n; of two as fast the first wins.
IsFastest(c, n, upTo) ==
  /\ c \in 1..upTo /\ Passes("tune", Quality[c])
  /\ \A d \in 1..upTo :
       Passes("tune", Quality[d]) => Speed[n][d] < Speed[n][c] \/ (Speed[n][d] = Speed[n][c] /\ c =< d)

\* What `tune' returns for a size, from a sweep or from the file, has passed the
\* gate itself, whatever an earlier candidate left in Csw.bin and whichever
\* launches failed; and when no launch failed it is the fastest that passes at
\* this size.  Sweeps that overlap share Csw.bin and are excluded.
TunedIsBest ==
  \A p \in Tuners :
    at[p] = "done" /\ Kind(p) = "tune" /\ met = {} =>
      /\ Passes("tune", Quality[result[p]])
      /\ ("launch" \notin tuning.mishaps => IsFastest(result[p], N(p), Len(Quality)))

\* What was tuned stays in the file for later processes, also when processes die
\* in their sweeps: only an overlap or a death in the middle of a save loses it.
NothingForgotten ==
  met = {} /\ cache # {Cut} => tuned \subseteq cache
=============================================================================
