------------------------------ MODULE L2Chain ------------------------------
(***************************************************************************)
(* The verification of KernelBench's chains of operations (l2_chain_lift   *)
(* and l2_chain_verify): the lines of a forward() are lifted to steps, the *)
(* steps are run one by one and compared with the model, and then again    *)
(* with each run of composable steps emitted by Prolog as one function in  *)
(* a file and loaded from there.  Problems are verified one after another  *)
(* or by a pool of processes, which all use one file.                      *)
(*                                                                         *)
(* A line is [to, form, op, par, keep]: the variable it assigns, how it is *)
(* written, what Python computes by it and with which parameter.  A value  *)
(* is the sequence of what was done to the input, each with the value it   *)
(* was combined with; nothing done is x, the input.  An operation that     *)
(* cannot be computed and one that gives another value are both a DIFF.    *)
(***************************************************************************)
EXTENDS Integers, Sequences, FiniteSets, SequencesExt

CONSTANTS
  Batches,  \* pairs of forward bodies, for the two problems to verify
  MaxSecond \* bound: seconds in which a file may be written

VARIABLES
  serial, \* are problems verified one after the other
  work,   \* per problem its lines, progress, value, saved tensors and verdicts
  tail,   \* fused_tail.py: its operations and the second it was written in
  code,   \* the interpreter's cached bytecode of it, or with no second
  hasty   \* has an emission failed, or a file been written twice in a second

chainVars == <<serial, work, tail, code, hasty>>

Problems == 1..2

---------------------------------------------------------------------------
(* What Python computes                                                    *)

Done(op, par, keep, with) == [op |-> op, par |-> par, keep |-> keep, with |-> with]
Also(v, op, par, keep, with) == Append(v, Done(op, par, keep, with))
Zero == Also(<< >>, "0", "", TRUE, << >>)

\* x is the value the line works on, e the variables by name; "y" is an input.
PyValue(l, x, e) ==
  CASE l.form = "with"   -> Also(x, "+", "", TRUE, e[l.par])
    [] l.op = "identity" -> x
    [] OTHER             -> Also(x, l.op, l.par, l.keep, << >>)

Inputs  == [x |-> << >>, y |-> Also(<< >>, "y", "", TRUE, << >>), r |-> << >>]
Forward(lines) ==
  LET After(e, l) == [e EXCEPT ![l.to] = PyValue(l, e["x"], e)]
  IN FoldLeft(After, Inputs, lines)["x"]

---------------------------------------------------------------------------
(* Lifting                                                                 *)

Reduces   == {"mean", "amax", "amin"}
Softmaxes == {"softmax", "log_softmax"}
Acts      == {"tanh", "gelu"}                   \* with a term of their own
Kinds     == {"conv", "tanh", "leaky_relu", "softmax", "log_softmax", "identity"}

\* What the patterns leave out: returns, and lines none of them matches.
Kept(l) == l.form \notin {"return", "alias", "other"}

\* dim=(\d+) does not match a negative one.
DimRead(l) == IF l.par \in {"1", "2"} THEN l.par ELSE "1"

\* A step as run_step will read it: a module's slope is its own and a function's
\* is never read, and only a function's dim is.
Classified(l) ==
  LET step(op, par) == [op |-> op, par |-> par, keep |-> l.keep]
  IN CASE l.form = "clone"  -> step("_save", l.to)
       [] l.form = "with"   -> step("tensor_add", l.par)
       [] l.form = "module" -> IF l.op \in Kinds THEN step(l.op, IF l.op \in Softmaxes THEN "1" ELSE l.par)
                                                 ELSE step("_unknown", "")
       [] l.form = "call" /\ l.op \in Reduces   -> step(l.op, DimRead(l))
       [] l.form = "call" /\ l.op \in Softmaxes -> step("softmax", DimRead(l))
       [] l.form = "call" /\ l.op = "leaky_relu" -> step(l.op, "0.01")
       [] OTHER -> step(l.op, l.par)

Lifted(lines) == [i \in DOMAIN SelectSeq(lines, Kept) |-> Classified(SelectSeq(lines, Kept)[i])]

---------------------------------------------------------------------------
(* run_step                                                                *)

SlipLatest(kept, name) == kept["residual"]
Operand(kept, name) == IF kept[name] # << >> THEN kept[name] ELSE kept["residual"]

NothingKept == [y |-> << >>, r |-> << >>, residual |-> Zero]
RunKept(s, x, kept) ==
  IF s.op = "_save" THEN [kept EXCEPT ![s.par] = x, !["residual"] = x] ELSE kept
RunStep(s, x, kept) ==
  CASE s.op \in {"_save", "identity"} -> x
    [] s.op = "tensor_add" -> Also(x, "+", "", TRUE, Operand(kept, s.par))
    [] OTHER -> Also(x, s.op, s.par, s.keep, << >>)

SlipAnyDim(s)     == s.op \in Acts \cup Reduces \cup Softmaxes
PureComposable(s) == s.op \in Acts \/ (s.op \in Reduces \cup Softmaxes /\ s.par = "1")

\* lower_torch: dim is 1, sum and mean keep it, max and min drop it.
BakedKeep(op) == op \notin {"amax", "amin"}
Composed(ops, x) ==
  FoldLeft(LAMBDA v, s : IF s.op \in Reduces \cup Softmaxes THEN Also(v, s.op, "1", BakedKeep(s.op), << >>)
                                                            ELSE Also(v, s.op, s.par, TRUE, << >>), x, ops)

---------------------------------------------------------------------------
(* Verdicts: outputs are compared element by element as flat arrays, which *)
(* a dimension that was kept does not change unless a later step sees it.  *)

PerElement == Acts \cup {"leaky_relu", "scaling"}
SameFlat(v, u) ==
  /\ Len(v) = Len(u)
  /\ \A i \in DOMAIN v :
       /\ v[i].op = u[i].op /\ v[i].par = u[i].par /\ v[i].with = u[i].with
       /\ v[i].keep = u[i].keep \/ \A j \in (i + 1)..Len(v) : v[j].op \in PerElement

---------------------------------------------------------------------------
(* A problem                                                               *)

Start(lines) == [lines |-> lines, phase |-> "lift", at |-> 1, x |-> << >>,
                 kept |-> NothingKept, run |-> << >>, status |-> "", fused |-> ""]
NoTail == [ops |-> << >>, second |-> 0]

ChainInit ==
  /\ serial \in BOOLEAN
  /\ \E b \in Batches : work = [p \in Problems |-> Start(b[p])]
  /\ tail = NoTail /\ code = NoTail /\ hasty = FALSE

\* A pool takes problems as it likes, a serial run in their order.
Turn(p) == serial => \A q \in Problems : q < p => work[q].phase = "done"
Put(p, w) == work' = [work EXCEPT ![p] = w]

Steps(p) == Lifted(work[p].lines)
Meant(p) == Forward(work[p].lines)

Lift(p) ==
  /\ Turn(p) /\ work[p].phase = "lift"
  /\ LET w == work[p]
         unresolved == \E i \in DOMAIN Steps(p) : Steps(p)[i].op = "_unknown"
     IN IF unresolved THEN Put(p, [w EXCEPT !.phase = "done", !.status = "unresolved_step"])
        \* inputs of forward() behind x are bound by their names
        ELSE Put(p, [w EXCEPT !.phase = "oracle", !.kept["y"] = Inputs["y"]])
  /\ UNCHANGED <<serial, tail, code, hasty>>

OracleStep(p) ==
  /\ work[p].phase = "oracle" /\ work[p].at <= Len(Steps(p))
  /\ LET w == work[p]  s == Steps(p)[w.at]
     IN Put(p, [w EXCEPT !.at = w.at + 1, !.x = RunStep(s, w.x, w.kept), !.kept = RunKept(s, w.x, w.kept)])
  /\ UNCHANGED <<serial, tail, code, hasty>>

\* verify_chain's first comparison; the fused form starts with nothing saved.
JudgeOracle(p) ==
  /\ work[p].phase = "oracle" /\ work[p].at > Len(Steps(p))
  /\ LET w == work[p]
     IN IF SameFlat(w.x, Meant(p))
        THEN Put(p, [w EXCEPT !.status = "verified", !.phase = "fused",
                              !.at = 1, !.x = << >>, !.kept = NothingKept])
        ELSE Put(p, [w EXCEPT !.status = "DIFF", !.phase = "done"])
  /\ UNCHANGED <<serial, tail, code, hasty>>

\* run_fused_chain's loop: composable steps pend, any other flushes them first.
Pend(p) ==
  /\ work[p].phase = "fused" /\ work[p].at <= Len(Steps(p)) /\ PureComposable(Steps(p)[work[p].at])
  /\ LET w == work[p]
     IN Put(p, [w EXCEPT !.at = w.at + 1, !.run = Append(w.run, Steps(p)[w.at])])
  /\ UNCHANGED <<serial, tail, code, hasty>>

\* At a step that does not compose, or behind the last one.
AtBoundary(p) ==
  /\ work[p].phase = "fused"
  /\ work[p].at <= Len(Steps(p)) => ~PureComposable(Steps(p)[work[p].at])

FusedStep(p) ==
  /\ AtBoundary(p) /\ work[p].run = << >> /\ work[p].at <= Len(Steps(p))
  /\ LET w == work[p]  s == Steps(p)[w.at]
     IN Put(p, [w EXCEPT !.at = w.at + 1, !.x = RunStep(s, w.x, w.kept), !.kept = RunKept(s, w.x, w.kept)])
  /\ UNCHANGED <<serial, tail, code, hasty>>

\* flush_run: swipl opens the file for writing, which empties it ...
Open(p) ==
  /\ AtBoundary(p) /\ work[p].run # << >>
  /\ \E second \in {tail.second, tail.second + 1} \ {0} :
       /\ second <= MaxSecond
       /\ tail' = [ops |-> << >>, second |-> second]
       /\ hasty' = (hasty \/ second = tail.second)
  /\ Put(p, [work[p] EXCEPT !.phase = "write"])
  /\ UNCHANGED <<serial, code>>

\* ... and closes it when the function is written.
Close(p) ==
  /\ work[p].phase = "write"
  /\ tail' = [tail EXCEPT !.ops = work[p].run]
  /\ Put(p, [work[p] EXCEPT !.phase = "load"])
  /\ UNCHANGED <<serial, code, hasty>>

\* The status of swipl is not looked at: the file stays as it was.  At most once.
EmitFails(p) ==
  /\ AtBoundary(p) /\ work[p].run # << >> /\ ~hasty
  /\ hasty' = TRUE
  /\ Put(p, [work[p] EXCEPT !.phase = "load"])
  /\ UNCHANGED <<serial, tail, code>>

\* The size of the text that lower_torch gives: max and min have names of a length.
TextSize(ops) == {<<op, Cardinality({i \in DOMAIN ops : ops[i].op \in op})>> :
                    op \in {{"tanh"}, {"gelu"}, {"mean"}, {"softmax"}, {"log_softmax"}, {"amax", "amin"}}}

\* exec_module takes the bytecode if the file's second and size are those it was made from.
Executed ==
  IF code.second = tail.second /\ TextSize(code.ops) = TextSize(tail.ops) THEN code.ops ELSE tail.ops

Load(p) ==
  /\ work[p].phase = "load"
  /\ code' = [ops |-> Executed, second |-> tail.second]
  /\ LET w == work[p]
     IN IF Executed = << >>  \* a file without a function, or no file
        THEN Put(p, [w EXCEPT !.phase = "done", !.fused = "fused-error"])
        ELSE Put(p, [w EXCEPT !.phase = "fused", !.x = Composed(Executed, w.x), !.run = << >>])
  /\ UNCHANGED <<serial, tail, hasty>>

JudgeFused(p) ==
  /\ AtBoundary(p) /\ work[p].run = << >> /\ work[p].at > Len(Steps(p))
  /\ Put(p, [work[p] EXCEPT !.phase = "done",
               !.fused = IF SameFlat(work[p].x, Meant(p)) THEN "fused-ok" ELSE "fused-DIFF"])
  /\ UNCHANGED <<serial, tail, code, hasty>>

ChainNext == \E p \in Problems :
  \/ Lift(p) \/ OracleStep(p) \/ JudgeOracle(p) \/ Pend(p) \/ FusedStep(p)
  \/ Open(p) \/ Close(p) \/ EmitFails(p) \/ Load(p) \/ JudgeFused(p)

---------------------------------------------------------------------------

\* What the lifter reads as it is meant: one variable, whose value is saved only
\* by clone(), nothing computed in the return, dims that are written out and not
\* negative, and the parameters that are not read left at their defaults.
Understood(lines) ==
  /\ \A i \in DOMAIN lines :
       LET l == lines[i] IN
       /\ l.form \notin {"alias", "other"}
       /\ l.to # "x" => l.form = "clone"
       /\ l.form = "return" => l.op = "identity"
       /\ l.form = "module" /\ l.op \in Softmaxes => l.par = "1"
       /\ l.form = "call" /\ l.op = "leaky_relu" => l.par = "0.01"
       /\ l.form = "call" /\ l.op \in Reduces \cup Softmaxes => l.par \in {"1", "2"}
       /\ l.form = "call" => l.op # "log_softmax"

\* No step sees whether a composed reduction kept its dimension, unless the term
\* keeps it as the line does.
KeptAlike(lines) == \A i \in DOMAIN lines :
  lines[i].op \in Reduces /\ lines[i].keep # BakedKeep(lines[i].op) =>
    \A j \in (i + 1)..Len(lines) : lines[j].op \in PerElement \cup {"identity"}

OwnInputs(lines) == \A i \in DOMAIN lines : lines[i].form = "with" => lines[i].par # "y"

(* A chain of lines that the lifter understands and modules it knows is
   verified: its steps compute what forward() does, saved and passed tensors
   included. *)
OracleIsForward == \A p \in Problems :
  (work[p].status \notin {"", "verified"} /\ Understood(work[p].lines)) =>
    work[p].status = "unresolved_step" /\ \E i \in DOMAIN work[p].lines : work[p].lines[i].op \notin
                                              Kinds \cup Reduces \cup {"gelu", "scaling", "+"}

(* Wherever the boundaries fall, the fused form of a verified chain agrees with
   the model too, if its inputs are its own, it sees no dimension it lost, and
   files are written by one process, without failure and a second apart. *)
FusedIsOracle == \A p \in Problems :
  ( /\ work[p].fused \in {"fused-DIFF", "fused-error"}
    /\ OwnInputs(work[p].lines) /\ KeptAlike(work[p].lines) ) => ~serial \/ hasty
=============================================================================
