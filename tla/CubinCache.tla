----------------------------- MODULE CubinCache -----------------------------
(***************************************************************************)
(* The on-disk cache of compiled kernels that every process of a test run  *)
(* or benchmark shares: _build_inline, whose key is a hash of the CUDA     *)
(* source, and fact_dispatch._emit_and_build, whose key is a hash of the   *)
(* Prolog goal.  Both take a cubin that exists as built; neither locks the *)
(* directory nor writes to a temporary name.  _func loads a cubin once per *)
(* process and ignores what the driver answers.                            *)
(*                                                                         *)
(* A text is <<name, options, version>>: the version of the Python module  *)
(* (inline kernels) or of the emitter's facts (emitted ones).  The hashes  *)
(* are taken to be injective.  nvcc and swipl are external: they read or   *)
(* write a file in the order their callers observe.                        *)
(***************************************************************************)
EXTENDS Integers, Sequences, FiniteSets

CONSTANTS
  Procs,      \* processes that share the directory
  Kernels,    \* kernel names (tags)
  Opts,       \* the options a goal may carry
  Setups      \* the settings that the processes are run in

(***************************************************************************)
(* A setup says                                                            *)
(*   inline   - TRUE: _build_inline; FALSE: _emit_and_build                *)
(*   overlap  - whether two processes may build at the same time           *)
(*   warm     - whether the directory starts with every cubin built        *)
(*   edits    - bound on the edits of each source                          *)
(*   failures - which failures of the tools happen, "timeout" or "emit"    *)
(*   times    - bound on them                                              *)
(***************************************************************************)
ASSUME CacheAssumption ==
  Setups \subseteq [inline : BOOLEAN, overlap : BOOLEAN, warm : BOOLEAN, edits : Nat,
                    failures : SUBSET {"timeout", "emit"}, times : Nat]

VARIABLES
  setup,   \* the setup of this behaviour
  ver,     \* the version of each source in the working tree
  mine,    \* the versions each process has imported
  pc,      \* each process's next step
  text,    \* the text each process wants compiled
  read,    \* the source its nvcc has read
  sources, \* the .cu files
  cubins,  \* the .cubin files
  memo,    \* per process: keys in _INLINE_CUBINS
  mods,    \* per process: the modules loaded (_MODFN_CACHE)
  got,     \* per process: the last kernel fetched and what was asked for, if any
  failed   \* failures so far

diskVars == <<setup, ver, mine, pc, text, read, sources, cubins, memo, mods, got, failed>>

Versions == 0..setup.edits
Texts    == Kernels \X Opts \X Versions

\* What a file may hold besides a text: a file opened and not yet written, and
\* a cubin compiled from an empty source, which has no kernel in it.
Missing == <<"missing">>
Partial == <<"partial">>
Blank   == <<"blank">>
Nothing == <<"nothing">>

-----------------------------------------------------------------------------
SlipByTag(t) == <<t[1]>>

\* Inline kernels are addressed by content, emitted ones by tag and goal.
InlineKey(t) == t
EmitKey(t) == <<t[1], t[2]>>
Key(t) == IF setup.inline THEN InlineKey(t) ELSE EmitKey(t)

\* The .cu file: the goal's own path is rewritten to the keyed one.
SourceKey(t) == Key(t)

File(files, k) == IF k \in DOMAIN files THEN files[k] ELSE Missing
Put(files, k, v) == [j \in DOMAIN files \cup {k} |-> IF j = k THEN v ELSE files[j]]
MyKey(p) == Key(text[p])

Fails(kind) == kind \in setup.failures /\ failed < setup.times /\ failed' = failed + 1

Goto(p, l) == pc' = [pc EXCEPT ![p] = l]

\* Steps of a build: another process's may come between any two of them.
Building(p) == pc[p] \notin {"idle", "fetch"}

DiskInit ==
  /\ setup \in Setups
  /\ ver = [n \in Kernels |-> 0]
  /\ mine = [p \in Procs |-> ver]
  /\ pc = [p \in Procs |-> "idle"]
  /\ text = [p \in Procs |-> Nothing]
  /\ read = [p \in Procs |-> Nothing]
  /\ LET built == IF setup.warm THEN {t \in Texts : t[3] = 0} ELSE {}
         files == [k \in {Key(t) : t \in built} |-> CHOOSE t \in built : Key(t) = k]
     IN  sources = files /\ cubins = files
  /\ memo = [p \in Procs |-> {}]
  /\ mods = [p \in Procs |-> << >>]
  /\ got = [p \in Procs |-> << >>]
  /\ failed = 0

-----------------------------------------------------------------------------
\* Someone edits a kernel's source or an emitter's facts.
Edit(n) ==
  /\ ver[n] < setup.edits
  /\ ver' = [ver EXCEPT ![n] = @ + 1]
  /\ UNCHANGED <<setup, mine, pc, text, read, sources, cubins, memo, mods, got, failed>>

\* A process ends and another starts, with the working tree as it is now.
Restart(p) ==
  /\ pc[p] = "idle"
  /\ mine' = [mine EXCEPT ![p] = ver]
  /\ memo' = [memo EXCEPT ![p] = {}]
  /\ mods' = [mods EXCEPT ![p] = << >>]
  /\ got' = [got EXCEPT ![p] = << >>]
  /\ UNCHANGED <<setup, ver, pc, text, read, sources, cubins, failed>>

SlipAlwaysBuild(k) == FALSE
IsBuilt(k) == File(cubins, k) # Missing

(* A kernel is asked for.  _build_inline answers from its dictionary, and  *)
(* looks for the cubin when it has written the source; _emit_and_build     *)
(* looks for it first.                                                     *)
Answered(p, k) == IF setup.inline THEN k \in memo[p] ELSE IsBuilt(k)

Ask(p, n, o) ==
  LET t == <<n, o, IF setup.inline THEN mine[p][n] ELSE ver[n]>>
  IN  /\ pc[p] = "idle"
      /\ setup.overlap \/ \A q \in Procs : ~Building(q)
      /\ text' = [text EXCEPT ![p] = t]
      /\ Goto(p, IF Answered(p, Key(t)) THEN "fetch" ELSE "open_source")
      /\ got' = [got EXCEPT ![p] = << >>]
      /\ UNCHANGED <<setup, ver, mine, read, sources, cubins, memo, mods, failed>>

\* open(.., "w") truncates, by Python or by swipl; the text comes at the close.
OpenSource(p) ==
  /\ pc[p] = "open_source"
  /\ sources' = Put(sources, SourceKey(text[p]), Partial)
  /\ Goto(p, "write_source")
  /\ UNCHANGED <<setup, ver, mine, text, read, cubins, memo, mods, got, failed>>

WriteSource(p) ==
  LET t == IF setup.inline THEN text[p] ELSE <<text[p][1], text[p][2], ver[text[p][1]]>>
  IN  /\ pc[p] = "write_source"
      /\ sources' = Put(sources, SourceKey(text[p]), t)
      /\ Goto(p, IF setup.inline /\ IsBuilt(MyKey(p)) THEN "fetch" ELSE "nvcc")
      /\ UNCHANGED <<setup, ver, mine, text, read, cubins, memo, mods, got, failed>>

\* swipl fails: its status is not looked at, and a source left by an earlier
\* attempt will do.
EmitFails(p) ==
  /\ pc[p] = "open_source" /\ ~setup.inline
  /\ Fails("emit")
  /\ Goto(p, IF File(sources, SourceKey(text[p])) = Missing THEN "idle" ELSE "nvcc")
  /\ UNCHANGED <<setup, ver, mine, text, read, sources, cubins, memo, mods, got>>

(* nvcc reads the source, opens the cubin, and completes it.               *)
Compiled(src) == IF src = Partial THEN Blank ELSE src

NvccReads(p) ==
  /\ pc[p] = "nvcc"
  /\ read' = [read EXCEPT ![p] = File(sources, SourceKey(text[p]))]
  /\ Goto(p, "open_cubin")
  /\ UNCHANGED <<setup, ver, mine, text, sources, cubins, memo, mods, got, failed>>

NvccOpens(p) ==
  /\ pc[p] = "open_cubin"
  /\ cubins' = Put(cubins, MyKey(p), Partial)
  /\ Goto(p, "write_cubin")
  /\ UNCHANGED <<setup, ver, mine, text, read, sources, memo, mods, got, failed>>

NvccWrites(p) ==
  /\ pc[p] = "write_cubin"
  /\ cubins' = Put(cubins, MyKey(p), Compiled(read[p]))
  /\ Goto(p, "fetch")
  /\ UNCHANGED <<setup, ver, mine, text, read, sources, memo, mods, got, failed>>

\* subprocess.run's timeout: TimeoutExpired leaves the files as they are.
TimedOut(p) ==
  /\ \/ pc[p] \in {"nvcc", "open_cubin", "write_cubin"}
     \/ pc[p] = "write_source" /\ ~setup.inline
  /\ Fails("timeout")
  /\ Goto(p, "idle")
  /\ UNCHANGED <<setup, ver, mine, text, read, sources, cubins, memo, mods, got>>

\* The path goes into the dictionary, and _func loads the module, once.
Fetch(p) ==
  LET k == MyKey(p)
      m == IF k \in DOMAIN mods[p] THEN mods[p] ELSE Put(mods[p], k, File(cubins, k))
  IN  /\ pc[p] = "fetch"
      /\ memo' = [memo EXCEPT ![p] = IF setup.inline THEN @ \cup {k} ELSE @]
      /\ mods' = [mods EXCEPT ![p] = m]
      /\ got' = [got EXCEPT ![p] = <<[asked |-> text[p], loaded |-> m[k]]>>]
      /\ Goto(p, "idle")
      /\ UNCHANGED <<setup, ver, mine, text, read, sources, cubins, failed>>

DiskNext ==
  \/ \E n \in Kernels : Edit(n)
  \/ \E p \in Procs :
       \/ Restart(p)
       \/ \E n \in Kernels, o \in Opts : Ask(p, n, o)
       \/ OpenSource(p) \/ WriteSource(p) \/ EmitFails(p)
       \/ NvccReads(p) \/ NvccOpens(p) \/ NvccWrites(p) \/ TimedOut(p)
       \/ Fetch(p)

DiskSpec == DiskInit /\ [][DiskNext]_diskVars

-----------------------------------------------------------------------------
(* Properties.                                                             *)

Fetched == UNION {{got[p][i] : i \in DOMAIN got[p]} : p \in Procs}

\* The directory starts with every cubin that can be asked for.
Complete == setup.warm /\ (setup.inline => setup.edits = 0)

\* A setup whose builds do not meet one another and are not cut off: they come
\* one at a time and no tool hangs, or there is nothing left to build.
Sheltered == Complete \/ (~setup.overlap /\ "timeout" \notin setup.failures)

\* Builds come one at a time; tools may hang, and swipl may fail, but not both:
\* a source that swipl left empty when it hung would do for the emit that fails.
OneAtATime ==
  ~setup.overlap /\ (setup.inline \/ ~({"timeout", "emit"} \subseteq setup.failures))

\* Two texts of one goal: the name and the options are the same.
SameGoal(t, u) == t[1] = u[1] /\ t[2] = u[2]

\* A kernel that a process runs was compiled from the text it asked for: an
\* inline kernel from its own version of the source, however often that was
\* edited; an emitted one from its own goal ("the same tag with different emit
\* options" never yields a stale cubin), also when emits fail and facts change.
KernelIsAsked ==
  Sheltered => \A g \in Fetched :
    /\ g.loaded \in Texts /\ SameGoal(g.loaded, g.asked)
    /\ setup.inline => g.loaded = g.asked

\* When nobody builds, every cubin is whole and stands under its own key, and
\* a process remembers only kernels that are there.
QuietFiles ==
  Sheltered /\ (\A p \in Procs : ~Building(p)) =>
    /\ \A k \in DOMAIN cubins : cubins[k] \in Texts /\ Key(cubins[k]) = k
    /\ \A p \in Procs : memo[p] \subseteq DOMAIN cubins

\* A timeout costs at most the one cubin it left half written: every process
\* gets a kernel of the goal it asked for or that half cubin, no other goal's.
DamageIsContained ==
  OneAtATime =>
    /\ \A g \in Fetched : g.loaded = Partial \/ (g.loaded \in Texts /\ SameGoal(g.loaded, g.asked))
    /\ (\A p \in Procs : ~Building(p)) =>
         Cardinality({k \in DOMAIN cubins : cubins[k] = Partial}) <= failed

FilesAreWhole == QuietFiles /\ DamageIsContained

\* A directory that was complete stays so: processes that come and go, tools
\* that hang, and any number of readers at once never rewrite a cubin, although
\* each of them rewrites the sources.
WarmKept == Complete => cubins' = cubins
WarmIsReadOnly == [][WarmKept]_diskVars

\* No process ever runs a cubin without its kernels ("a stale cubin can never
\* silently no-op a new kernel").
NeverNoOp == \A g \in Fetched : g.loaded \notin {Missing, Partial, Blank}
=============================================================================
