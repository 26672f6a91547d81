------------------------------- MODULE MCCaches -------------------------------
(***************************************************************************)
(* The caches in memory and on disk, for TLC.  A behaviour is of one of    *)
(* the two: the other's processes have come to their end.                  *)
(***************************************************************************)
EXTENDS MCWeightCaches, CubinCache

InTurn == [inline |-> TRUE, overlap |-> FALSE, warm |-> FALSE, edits |-> 2,
           failures |-> {}, times |-> 0]

\* Inline kernels edited twice; emitted ones whose emits fail and whose facts
\* are edited; tools that hang; a complete directory, whose readers overlap.
Quiet == {
  InTurn,
  [InTurn EXCEPT !.inline = FALSE, !.edits = 1, !.failures = {"emit"}, !.times = 2],
  [InTurn EXCEPT !.inline = FALSE, !.edits = 0, !.failures = {"timeout"}, !.times = 2],
  [InTurn EXCEPT !.overlap = TRUE, !.warm = TRUE, !.edits = 0,
                 !.failures = {"timeout"}, !.times = 1],
  [InTurn EXCEPT !.inline = FALSE, !.overlap = TRUE, !.warm = TRUE, !.edits = 1] }

Ended == [p \in Procs |-> "ended"]
DiskOver ==
  /\ setup = [InTurn EXCEPT !.edits = 0] /\ ver = [k \in Kernels |-> 0]
  /\ pc = Ended /\ mine = Ended /\ text = Ended /\ read = Ended
  /\ memo = [p \in Procs |-> {}] /\ mods = [p \in Procs |-> << >>] /\ got = mods
  /\ sources = << >> /\ cubins = << >> /\ failed = 0

MemoryOver ==
  /\ process = [models |-> {a}, settings |-> {"split"}] /\ setting = "split"
  /\ fused = [g \in Groups |-> None] /\ cache = [p \in Ptrs |-> None]
  /\ mode = "ended" /\ who = a /\ left = {} /\ used = {} /\ served = {}
  /\ snap = [m \in Models |-> {}] /\ seeded = {} /\ baked = snap

MCInit == \/ Init /\ DiskOver
          \/ MemoryOver /\ DiskInit

MCNext ==
  \/ Flip /\ UNCHANGED diskVars
  \/ \E m \in Models, how \in {"eager", "seed", "capture"} : Begin(m, how) /\ UNCHANGED diskVars
  \/ \E x \in Names : Use(x) /\ UNCHANGED diskVars
  \/ EndEager   /\ UNCHANGED diskVars
  \/ EndSeed    /\ UNCHANGED diskVars
  \/ EndCapture /\ UNCHANGED diskVars
  \/ DiskNext   /\ UNCHANGED vars

MCSpec == MCInit /\ [][MCNext]_<<vars, diskVars>>
=============================================================================
