------------------------------ MODULE Referees ------------------------------
(***************************************************************************)
(* Three referees of the decode path: decode_referee recomputes the caches *)
(* of an incremental decode from all tokens at once, gr_referee compares a *)
(* replayed graph with the eager forward, long_run_referee compares what   *)
(* two configurations generate.  A trial is a referee, its options and one *)
(* defect of what it judges.  The question is which defects its verdict    *)
(* can be trusted to rule out.                                             *)
(*                                                                         *)
(* Numbers are how far they are from right: a value is as far off as the   *)
(* worst it was computed from, and two that differ do so by more than the  *)
(* tolerance, unless one of them is a NaN.                                 *)
(***************************************************************************)
EXTENDS Integers, Sequences, FiniteSets, FiniteSetsExt, SequencesExt

CONSTANTS Depth,  \* layers of the model
          Trials, \* what is judged, see below
          Margins, \* margins between the two best tokens
          Drifts  \* differences between two arms' logits

\* A trial goes on for some tokens from a prompt that is not empty; gr_referee seeds
\* and replays at least once.
ASSUME TrialAssumption ==
  /\ Depth \in Nat \ {0}
  /\ Drifts \subseteq Nat /\ Margins \subseteq Nat /\ \E m \in Margins : \A k \in Margins : k <= m
  /\ \A t \in Trials :
       /\ t.steps \in Nat /\ t.prompt \in Nat \ {0}
       /\ t.at \in Nat /\ t.layer \in 1..Depth
       /\ t.resident \in BOOLEAN /\ t.exact \in BOOLEAN
       /\ \/ t.who = "decode" /\ t.defect \in {"none", "head", "store", "read", "lost", "nan",
                                              "batch", "batchnan", "math"}
          \/ /\ t.who = "graph" /\ t.defect \in {"none", "slot", "len", "input", "leak", "stray"}
             /\ t.steps >= 2 /\ t.at >= 1
          \/ t.who = "long"

VARIABLES trial, \* referee, options and defect
          one,   \* per layer, the rows of the subject's or the eager arm's cache
          two,   \* per layer, the rows of the graph arm's cache
          dlen,  \* the graph arm's device length
          step,
          tally, \* what the referee keeps from step to step
          exit   \* its exit status: running, verified, failed or untested

refereeVars == <<trial, one, two, dlen, step, tally, exit>>

(***************************************************************************)
(* [who, steps, prompt, defect, at, layer] and for decode_referee also     *)
(* resident, exact (--claims bitexact) and cadence.  A defect strikes at   *)
(* one step and layer, except for those of the code for several tokens     *)
(* (batch...), of the arithmetic (math) and of the captured graph (slot,   *)
(* len, input, leak).  prompt is the prompt's length, for long_run_referee *)
(* the number of tokens each of its prompts is continued by.               *)
(***************************************************************************)
Good == 0
Math == 1
Bad  == 2
Nan  == 3
Layers == 1..Depth
NoRows == [l \in Layers |-> << >>]

---------------------------------------------------------------------------
(* A forward, with the defect                                              *)

\* New tokens in one forward; own says whose code runs, the subject's or the
\* host's, and live that this is the decode the defect may strike in.
Call(n, own, live) == [n |-> n, own |-> own, live |-> live]

Strikes(call, l, kind) ==
  /\ trial.defect = kind /\ trial.layer = l
  /\ CASE kind \in {"batch", "batchnan"} -> call.own /\ call.n > 1
       [] kind = "math"                  -> call.own
       [] OTHER                          -> call.live /\ trial.at = step

Taint(call, l, kinds, harm) == IF \E kind \in kinds : Strikes(call, l, kind) THEN harm ELSE Good
RowHarm(call, l) == Max({Taint(call, l, {"store", "batch"}, Bad), Taint(call, l, {"nan", "batchnan"}, Nan)})
OutHarm(call, l) == Max({Taint(call, l, {"read"}, Bad), Taint(call, l, {"math"}, Math)})

\* K and V of the new tokens are appended, then each token attends to the rows
\* up to its own.
AppendRows(rows, h, call, l) ==
  LET all == rows \o [i \in 1..call.n |-> Max({h[i], RowHarm(call, l)})]
  IN IF Strikes(call, l, "lost") THEN Front(all) ELSE all
Attended(rows, had, h, call, l) ==
  [i \in 1..call.n |-> Max({h[i], OutHarm(call, l)} \cup {rows[j] : j \in 1..Min({had + i, Len(rows)})})]

\* The new tokens after each layer.
Harms(cache, call) ==
  LET h[l \in 0..Depth] ==
        IF l = 0 THEN [i \in 1..call.n |-> Good]
        ELSE LET below == h[l - 1]
             IN Attended(AppendRows(cache[l], below, call, l), Len(cache[l]), below, call, l)
  IN h
ForwardPass(cache, call) ==
  LET h == Harms(cache, call)
  IN [cache  |-> [l \in Layers |-> AppendRows(cache[l], h[l - 1], call, l)],
      logits |-> Max({h[Depth][call.n], IF trial.defect = "head" /\ call.own THEN Bad ELSE Good})]

---------------------------------------------------------------------------
(* decode_referee                                                          *)

HasNan(cache) == \E l \in Layers : Nan \in ToSet(cache[l])

\* A layer with a NaN in it differs by a NaN, which is not above the worst so far.
KvCompare(a, b) ==
  IF \E l \in Layers : Len(a[l]) # Len(b[l]) THEN "shape"
  ELSE IF \E l \in Layers : a[l] # b[l] /\ Nan \notin ToSet(a[l] \o b[l]) THEN "differs" ELSE "ok"

SlipNoLastGate(s) == s % trial.cadence = 0
Compared(s) == s % trial.cadence = 0 \/ s = trial.steps - 1

Fed(s)    == IF s = 0 THEN trial.prompt ELSE 1       \* step_tensors
Consumed(s) == trial.prompt + s                        \* gen8[:-1]
Recomputed(own) == ForwardPass(NoRows, Call(Consumed(step), own, FALSE)).cache

FreshTally == [hard |-> FALSE, same |-> TRUE, base |-> TRUE, warned |-> FALSE,
               margin |-> Max(Margins), drift |-> 0, near |-> FALSE]

\* A loop's end: exit 1 if and only if a step failed hard.
Ends == exit' = IF step + 1 < trial.steps THEN "running" ELSE IF tally'.hard THEN "failed" ELSE "verified"

\* What a step's forward f is compared with: the caches that the subject's code for
\* several tokens makes of all tokens (A1), and the host's if it is resident (A2).
Seen(f)    == IF Compared(step) THEN KvCompare(f.cache, Recomputed(TRUE)) ELSE "ok"
SeenToo(f) == IF Compared(step) /\ trial.resident THEN KvCompare(f.cache, Recomputed(FALSE)) ELSE Seen(f)
Fails(f) ==
  \/ f.logits = Nan \/ HasNan(f.cache)
  \/ Seen(f) # "ok"
  \/ SeenToo(f) # "ok" /\ (trial.exact \/ SeenToo(f) = "shape")

(***************************************************************************)
(* flip and baseFlip are whether the token differs from the fp32           *)
(* reference's and from the baseline's, wide whether the margin is wide    *)
(* for the drift; it is infinite once the sequences differ.                *)
(***************************************************************************)
DecodeStep == \E flip, baseFlip, wide \in BOOLEAN :
  /\ trial.who = "decode" /\ exit = "running"
  /\ LET f     == ForwardPass(one, Call(Fed(step), TRUE, TRUE))
         far   == wide \/ ~tally.same
         warns == /\ ~Fails(f) /\ SeenToo(f) = "ok"
                  /\ IF flip THEN tally.same /\ wide ELSE tally.base /\ baseFlip /\ far
     IN /\ one' = f.cache
        /\ tally' = [tally EXCEPT !.hard = @ \/ Fails(f), !.warned = @ \/ warns,
                                  !.same = @ /\ ~flip, !.base = @ /\ ~baseFlip]
  /\ Ends
  /\ step' = step + 1
  /\ UNCHANGED <<trial, two, dlen>>

---------------------------------------------------------------------------
(* gr_referee: the arms run one after the other, here step by step         *)

\* A replay of the captured step: it appends at the device's length, attends
\* and increments.  A slot or an input that was baked in is right in the first.
Captured(kind, l) == trial.defect = kind /\ trial.layer = l
Replayed(l) ==
  LET slot == IF Captured("slot", l) THEN trial.prompt + 1 ELSE dlen + 1
      rows == [p \in 1..Max({slot, dlen + 1, Len(two[l])}) |->
                IF p = slot THEN IF Captured("input", l) /\ step > 1 THEN Bad ELSE Good
                ELSE IF p <= Len(two[l]) THEN two[l][p] ELSE Bad]
  IN rows
\* After it has attended, a stray write may hit the first row.
Struck(rows, l) == IF Captured("stray", l) /\ trial.at = step THEN [rows EXCEPT ![1] = Bad] ELSE rows

GraphRow(l, len) == two'[l][len]
HostFrozen(mirror) == mirror = trial.prompt + 1

GraphSeed ==
  /\ trial.who = "graph" /\ exit = "running" /\ step = 0
  /\ one' = [l \in Layers |-> [p \in 1..trial.prompt |-> Good]]
  /\ two' = one' /\ dlen' = trial.prompt
  /\ step' = 1 /\ UNCHANGED <<trial, tally, exit>>

GraphStep ==
  /\ trial.who = "graph" /\ exit = "running" /\ step > 0
  /\ one' = [l \in Layers |-> Append(one[l], Good)]
  /\ two' = [l \in Layers |-> Struck(Replayed(l), l)]
  /\ dlen' = IF trial.defect = "len" THEN dlen ELSE dlen + 1
  /\ LET logits == Max({Replayed(l)[p] : l \in Layers, p \in 1..(dlen + 1)})
         mirror == trial.prompt + 1 + (IF trial.defect = "leak" THEN step ELSE 0)
         ok == /\ logits = Good                        \* GR and TOK
               /\ dlen' = trial.prompt + step          \* V2: the eager arm's length
               /\ \A l \in Layers : one'[l][trial.prompt + step] = GraphRow(l, dlen')
               /\ HostFrozen(mirror)
     IN tally' = [tally EXCEPT !.hard = @ \/ ~ok]
  /\ Ends
  /\ step' = step + 1
  /\ UNCHANGED trial

---------------------------------------------------------------------------
(* long_run_referee                                                        *)

\* Tokens begin to differ only where twice the drift reaches the margin; drift is
\* not measured from there to the end of the prompt.
AgreedBefore == step % trial.prompt = 0 \/ tally.same
Census(m, d, differ) ==
  LET same == AgreedBefore /\ ~differ
  IN [tally EXCEPT !.same = same, !.hard = @ \/ ~same, !.base = @ /\ ~differ,
                   !.margin = Min({@, m}), !.drift = IF same THEN Max({@, d}) ELSE @,
                   !.near   = @ \/ (same /\ d > 0 /\ m < 5 * d)]
LongStep == \E m \in Margins, d \in Drifts, differ \in BOOLEAN :
  /\ trial.who = "long" /\ exit = "running"
  /\ differ /\ AgreedBefore => m <= 2 * d
  /\ tally' = Census(m, d, differ)
  /\ Ends
  /\ step' = step + 1
  /\ UNCHANGED <<trial, one, two, dlen>>

\* An arm that dies, or two that took different paths.
Refuse ==
  /\ trial.who \in {"graph", "long"} /\ exit = "running" /\ step = 0
  /\ exit' = "untested"
  /\ UNCHANGED <<trial, one, two, dlen, step, tally>>

RefereeInit ==
  /\ trial \in Trials /\ one = NoRows /\ two = NoRows /\ dlen = 0 /\ step = 0
  /\ tally = FreshTally
  /\ exit = IF trial.steps = 0 THEN "verified" ELSE "running"

RefereeNext == DecodeStep \/ GraphSeed \/ GraphStep \/ LongStep \/ Refuse
RefereeSpec == RefereeInit /\ [][RefereeNext]_refereeVars

---------------------------------------------------------------------------
(* What a verdict is worth                                                 *)

\* Defects that leave no trace in what decode_referee compares.
DecodeBlind ==
  \/ trial.steps = 0 \/ trial.defect \in {"none", "head"}
  \/ trial.defect \in {"store", "read", "lost", "nan"} /\ trial.at >= trial.steps
  \/ trial.defect = "read" /\ trial.layer = Depth        \* no K or V comes after it
  \/ trial.defect = "math" /\ (~trial.resident \/ ~trial.exact \/ trial.layer = Depth)
  \/ trial.defect = "batch" /\ IF trial.prompt = 1 THEN trial.steps = 1
                                ELSE trial.steps = 1 /\ ~(trial.resident /\ trial.exact)
  \/ trial.defect = "batchnan" /\ trial.prompt = 1       \* NaN in the recomputed caches only

\* ... and gr_referee: what a last replay, or a first one, does not show.
GraphBlind ==
  \/ trial.defect = "none"
  \/ trial.defect \in {"slot", "input"} /\ trial.steps = 2
  \/ trial.defect = "stray" /\ trial.at >= trial.steps - 1

(***************************************************************************)
(* A referee fails exactly the trials whose defect it can see: whatever    *)
(* the cadence, a defect of the decode or of the captured graph shows by   *)
(* the last step unless it is one of those named above, and nothing fails  *)
(* without one.  A long run is verified if and only if all tokens agree,   *)
(* and a safety factor of five means that its census is empty              *)
(* (decode_referee.py main, gr_referee.py main, long_run_referee.py main). *)
(***************************************************************************)
VerdictIsEarned ==
  exit \in {"verified", "failed"} =>
    CASE trial.who = "decode" -> (exit = "verified") = DecodeBlind
      [] trial.who = "graph"  -> (exit = "verified") = GraphBlind
      [] OTHER -> /\ (exit = "verified") = tally.base
                  /\ tally.margin >= 5 * tally.drift => ~tally.near
=============================================================================
