---------------------------- MODULE GraphDecode ----------------------------
(***************************************************************************)
(* The device-resident decode of lib/dev_residency.py: one DeviceKVCache   *)
(* per layer, the eager single-token forward (forward_pass_resident), and  *)
(* GraphRunner, which captures one forward into a CUDA graph and replays   *)
(* it.  Every cache keeps its length twice: on the host (cache.length) and *)
(* on the device (the int at cache.len_ptr).  Which of the two is current  *)
(* depends on how the last token was decoded; that is what goes wrong.     *)
(*                                                                         *)
(* Kernels and copies run in program order on one stream, and the host     *)
(* waits for a replay before it reads anything, so the device is not an    *)
(* actor of its own.  A row stands for its K and its V, the residual for   *)
(* the token whose embedding entered it.                                   *)
(***************************************************************************)
EXTENDS Integers, Sequences

CONSTANTS
  Tokens,             \* the vocabulary
  Garbage,            \* the contents of memory nobody wrote
  NLayers,            \* transformer layers
  MaxSeq,             \* rows of a cache (BPD_KV_MAX_SEQ)
  PathsUsed,          \* the attention paths that processes' toggles select
  FusedIncr,          \* append and increment in one launch (width <= 128)
  EagerAfterCapture,  \* may the caller run an eager forward after a capture
  MaxCaptures,        \* bound on captures
  MaxAborts           \* bound on forwards that raise half way

Paths == {"graph_prep", "masked", "host_len"}

ASSUME ConstantsAssumption ==
  /\ NLayers \in Nat \ {0}
  /\ MaxSeq \in Nat
  /\ Garbage \notin Tokens \cup [tok : Tokens, pos : Nat]
  /\ PathsUsed \subseteq Paths
  /\ FusedIncr \in BOOLEAN
  /\ EagerAfterCapture \in BOOLEAN
  /\ MaxCaptures \in Nat
  /\ MaxAborts \in Nat

VARIABLES
  path,       \* the attention path of this process, for its life
  length,     \* per layer: cache.length, the host's count
  dlen,       \* per layer: the int at len_ptr, or NoPtr before it exists
  rows,       \* per layer: the rows of the K/V buffers
  overrun,    \* the layers that wrote a row past the end of their buffers
  resid,      \* the token whose embedding the residual was filled from
  ctx,        \* per layer: the rows the token in flight has attended to
  logits,     \* what the last logits rest on, per layer
  gen,        \* the caller's list of tokens decoded so far
  mode,       \* what the host is doing
  cur,        \* the layer an eager forward is in
  runner,     \* the GraphRunner: "new", "seeded" or "captured"
  captures,   \* captures made so far
  replays,    \* replays made so far
  aborts      \* forwards that raised so far

cacheVars  == <<length, dlen, rows, overrun>>
runVars    == <<runner, captures, replays>>
vars == <<path, length, dlen, rows, overrun, resid, ctx, logits, gen, mode, cur,
          runner, captures, replays, aborts>>

Layers == 1..NLayers
Slots  == 0..(MaxSeq - 1)
Row    == [tok : Tokens, pos : Nat]
NoPtr  == -1

\* The first n rows of a buffer, as attention reads them.
Prefix(buf, n) ==
  [i \in 1..n |-> IF i - 1 \in Slots THEN buf[i - 1] ELSE Garbage]

Init ==
  /\ path \in PathsUsed
  /\ length = [l \in Layers |-> 0]
  /\ dlen = [l \in Layers |-> NoPtr]
  /\ rows = [l \in Layers |-> [s \in Slots |-> Garbage]]
  /\ overrun = {}
  /\ resid = Garbage
  /\ ctx = [l \in Layers |-> << >>]
  /\ logits = [l \in Layers |-> << >>]
  /\ gen = << >>
  /\ mode = "idle"
  /\ cur = 1
  /\ runner = "new"
  /\ captures = 0
  /\ replays = 0
  /\ aborts = 0

-----------------------------------------------------------------------------
(* DeviceKVCache: where a row goes, and what an append leaves behind.      *)

\* Write row r into slot s: no code checks s against max_seq.
WriteRow(buf, s, r) == IF s \in Slots THEN [buf EXCEPT ![s] = r] ELSE buf
Overrun(l, s) == IF s \in Slots THEN {} ELSE {l}

\* An eager append goes to the host's length: append() computes its offset
\* from it, and append_at_len reads a device length that _ensure_len_ptr has
\* just overwritten with it.  (Two slips beside it: the last row again, and
\* one row skipped.)
LastRowSlot(l) == length[l] - 1
SkippingSlot(l) == length[l] + 1
EagerSlot(l) == length[l]

\* The position rope applies: the device length, seeded from the host, in the
\* capture-ready path; the caller's positions (step_tensors) in the others.
\* (Slips: the caller's position in every path, and a count from one.)
CallerPos(l) == Len(gen)
LastRowPos(l) == length[l] - 1
EagerPos(l) == IF path = "graph_prep" THEN length[l] ELSE Len(gen)

\* *len_ptr after an eager layer: incremented on the device, or seeded from
\* the host after the append, or left alone where nothing reads it.  (The
\* slip: no increment, or a seed taken before the append.)
LenBeforeIncr(l) == IF path = "host_len" THEN dlen[l] ELSE length[l]
EagerLen(l) == IF path = "host_len" THEN dlen[l] ELSE length[l] + 1

\* The rows an eager layer's attention sees: all up to the one just written.
EagerVisible(l) == IF path = "host_len" THEN length[l] + 1 ELSE EagerLen(l)

\* A captured append reads its slot from *len_ptr whenever it runs.  (Reading
\* the host's length would bake the slot of the captured token in the graph.)
HostBakedSlot(l) == length[l] - 1
ReplaySlot(l) == dlen[l]

\* The rows layer l holds, by the count that path decodes by.
Valid(l) == IF path = "graph_prep"
            THEN IF dlen[l] = NoPtr THEN 0 ELSE dlen[l]
            ELSE length[l]

-----------------------------------------------------------------------------
(* forward_pass_resident, eager (_STREAM is None), one token.              *)

MayDecode == mode = "idle" /\ Len(gen) + aborts < MaxSeq

\* The embedding enters the residual.  GraphRunner.seed() is the same forward
\* behind assertions that need the capture-ready path.
Begin(t) ==
  /\ MayDecode
  /\ captures = 0 \/ EagerAfterCapture
  /\ resid' = t
  /\ mode' = "eager"
  /\ cur' = 1
  /\ runner' \in {runner} \cup
       (IF path = "graph_prep" /\ runner = "new" THEN {"seeding"} ELSE {})
  /\ UNCHANGED <<path, cacheVars, ctx, logits, gen, captures, replays, aborts>>

\* One layer's rope, append and increment.
AppendRow(l) ==
  /\ rows' = [rows EXCEPT ![l] =
       WriteRow(@, EagerSlot(l), [tok |-> resid, pos |-> EagerPos(l)])]
  /\ overrun' = overrun \cup Overrun(l, EagerSlot(l))
  /\ dlen' = [dlen EXCEPT ![l] = EagerLen(l)]
  /\ length' = [length EXCEPT ![l] = @ + 1]
  /\ UNCHANGED path

Attend(l) == ctx' = [ctx EXCEPT ![l] = Prefix(rows'[l], EagerVisible(l))]

EagerLayer ==
  /\ mode = "eager"
  /\ cur < NLayers
  /\ AppendRow(cur)
  /\ Attend(cur)
  /\ cur' = cur + 1
  /\ UNCHANGED <<resid, logits, gen, mode, runner, captures, replays, aborts>>

\* The last layer, then the logits; the caller appends the token to its list.
LastLayer ==
  /\ mode = "eager"
  /\ cur = NLayers
  /\ AppendRow(cur)
  /\ Attend(cur)
  /\ logits' = ctx'
  /\ gen' = Append(gen, resid)
  /\ mode' = "idle"
  /\ cur' = 1
  /\ runner' = IF runner = "seeding" THEN "seeded" ELSE runner
  /\ UNCHANGED <<resid, captures, replays, aborts>>

-----------------------------------------------------------------------------
(* A forward that raises: a kernel that fails to build, a slab overflow, a *)
(* missing weight.  Nothing is undone; the caller may decode on.           *)

Raise ==
  /\ mode = "eager"
  /\ aborts < MaxAborts
  /\ aborts' = aborts + 1
  /\ mode' = "idle"
  /\ cur' = 1
  /\ runner' = IF runner = "seeding" THEN "new" ELSE runner
  /\ UNCHANGED <<path, resid, logits, gen, captures, replays>>

\* Before the append, and before or after the device length is seeded.
RaiseBeforeAppend ==
  /\ Raise
  /\ dlen' \in {dlen} \cup (IF path = "graph_prep"
                            THEN {[dlen EXCEPT ![cur] = length[cur]]} ELSE {})
  /\ UNCHANGED <<length, rows, overrun, ctx>>

\* Between append_at_len and incr_len_dev, which the fused launch excludes.
RaiseBeforeIncr ==
  /\ Raise
  /\ path = "graph_prep" /\ ~FusedIncr
  /\ rows' = [rows EXCEPT ![cur] =
       WriteRow(@, EagerSlot(cur), [tok |-> resid, pos |-> EagerPos(cur)])]
  /\ overrun' = overrun \cup Overrun(cur, EagerSlot(cur))
  /\ dlen' = [dlen EXCEPT ![cur] = length[cur]]
  /\ UNCHANGED <<length, ctx>>

\* In the output projection, the FFN or, after the last layer, the logits.
RaiseAfterAppend ==
  /\ Raise
  /\ AppendRow(cur)
  /\ Attend(cur)

-----------------------------------------------------------------------------
(* GraphRunner.                                                            *)

CaptureReady ==
  /\ mode = "idle"
  /\ runner \in {"seeded", "captured"}
  /\ captures < MaxCaptures

\* capture(): the forward's Python runs once, so cache.length advances in every
\* layer; its kernels are recorded, so nothing changes on the device.
Capture ==
  /\ CaptureReady
  /\ length' = [l \in Layers |-> length[l] + 1]
  /\ captures' = captures + 1
  /\ runner' = "captured"
  /\ UNCHANGED <<path, dlen, rows, overrun, resid, ctx, logits, gen, mode, cur,
                 replays, aborts>>

\* The forward raises after n layers have counted the token: _STREAM is reset
\* but the stream is never taken out of capture, and nothing more can run.
CaptureRaises(n) ==
  /\ CaptureReady
  /\ aborts < MaxAborts
  /\ length' = [l \in Layers |-> IF l <= n THEN length[l] + 1 ELSE length[l]]
  /\ aborts' = aborts + 1
  /\ mode' = "wedged"
  /\ UNCHANGED <<path, dlen, rows, overrun, resid, ctx, logits, gen, cur, runVars>>

\* replay_logits() / replay_token(): upload the embedding, launch the graph,
\* wait.  Every layer ropes, appends, increments and attends by its *len_ptr.
Replay(t) ==
  /\ MayDecode
  /\ runner = "captured"
  /\ resid' = t
  /\ rows' = [l \in Layers |->
       WriteRow(rows[l], ReplaySlot(l), [tok |-> resid', pos |-> dlen[l]])]
  /\ overrun' = overrun \cup {l \in Layers : ReplaySlot(l) \notin Slots}
  /\ dlen' = [l \in Layers |-> dlen[l] + 1]
  /\ ctx' = [l \in Layers |-> Prefix(rows'[l], dlen'[l])]
  /\ logits' = ctx'
  /\ gen' = Append(gen, t)
  /\ replays' = replays + 1
  /\ UNCHANGED <<path, length, mode, cur, runner, captures, aborts>>

-----------------------------------------------------------------------------
Next ==
  \/ \E t \in Tokens : Begin(t) \/ Replay(t)
  \/ EagerLayer
  \/ LastLayer
  \/ RaiseBeforeAppend
  \/ RaiseBeforeIncr
  \/ RaiseAfterAppend
  \/ Capture
  \/ \E n \in 0..NLayers : CaptureRaises(n)

Spec == Init /\ [][Next]_vars

-----------------------------------------------------------------------------
(* Properties.                                                             *)

TypeOK ==
  /\ path \in Paths
  /\ length \in [Layers -> Nat]
  /\ dlen \in [Layers -> Nat \cup {NoPtr}]
  /\ rows \in [Layers -> [Slots -> Row \cup {Garbage}]]
  /\ overrun \in SUBSET Layers
  /\ resid \in Tokens \cup {Garbage}
  /\ ctx \in [Layers -> Seq(Row \cup {Garbage})]
  /\ logits \in [Layers -> Seq(Row \cup {Garbage})]
  /\ gen \in Seq(Tokens)
  /\ mode \in {"idle", "eager", "wedged"}
  /\ cur \in Layers
  /\ runner \in {"new", "seeding", "seeded", "captured"}
  /\ captures \in Nat
  /\ replays \in Nat
  /\ aborts \in Nat

\* A history with its positions, as in KVDecode.
Positioned(h) == [i \in 1..Len(h) |-> [tok |-> h[i], pos |-> i - 1]]

(* The logits of every token, eager or replayed, rest in every layer on     *)
(* exactly the tokens decoded so far, in order, roped at their positions:   *)
(* no row lost, rewritten, repeated or read before it is written.  This is  *)
(* the equivalence gr_referee.py tests on one seed.                         *)
ContextExact ==
  aborts = 0 => \A l \in Layers : logits[l] = Positioned(gen)

(* The host's length and the device's drift apart by one per capture (the   *)
(* host counts a token no kernel wrote) and one per replay (the device      *)
(* counts a token the host never sees), and by nothing else.                *)
MirrorDrift ==
  path = "graph_prep" /\ mode # "wedged" =>
    \A l \in Layers : length[l] + replays = Valid(l) + captures

(* A caller that starts at most max_seq forwards never writes past the end  *)
(* of a cache, however many captures advance the host's length and          *)
(* whatever forwards raise; nothing in DeviceKVCache checks it.             *)
InBounds == overrun = {}

(* A row that a layer counts is never written again.                        *)
RowsAppendOnly ==
  [][\A l \in Layers : \A s \in 0..(Valid(l) - 1) :
       s \in Slots => rows'[l][s] = rows[l][s]]_vars

(* In the capture-ready path a counted row is roped at the slot it is in,   *)
(* even after forwards that raised: rope and append read the same length.   *)
PositionIsSlot ==
  path = "graph_prep" =>
    \A l \in Layers : \A s \in Slots : s < Valid(l) =>
      rows[l][s] # Garbage /\ rows[l][s].pos = s

(* Forwards that raise leave the layers of the cache out of step, but an    *)
(* earlier layer never counts fewer rows than a later one, nor more than    *)
(* one extra row for each forward that raised.                              *)
InFlight(l) == IF mode = "eager" /\ l < cur THEN 1 ELSE 0
LayerSkew ==
  \A l \in 1..(NLayers - 1) :
    /\ length[l] - InFlight(l) >= length[l + 1] - InFlight(l + 1)
    /\ length[l] - InFlight(l) <= length[l + 1] - InFlight(l + 1) + aborts

(* In the masked path the device length equals the host's after every       *)
(* append (masked_attn_referee.py, check C), for a layer that has run.      *)
SeededMirror ==
  path = "masked" => \A l \in Layers : dlen[l] \in {NoPtr, length[l]}

(* What stays true of the caches after forwards that raised, on every path. *)
CachesInStep == PositionIsSlot /\ LayerSkew /\ SeededMirror

-----------------------------------------------------------------------------
(* The caches of the last layer, as a KV-cached decode with no cache.      *)
CachedTokens ==
  LET held == Prefix(rows[NLayers], Valid(NLayers))
  IN  [i \in 1..Valid(NLayers) |->
         IF held[i] \in Row THEN held[i].tok ELSE Garbage]

Abstract == INSTANCE KVDecode WITH
  hist <- CachedTokens, status <- IF aborts = 0 THEN "sound" ELSE "failed"

(* Eager forwards and replays, in any protocol order, implement KVDecode:   *)
(* until a forward raises, each completed token appends itself to the       *)
(* history and its logits rest on all of it; captures and the layers in     *)
(* between change nothing visible.                                          *)
ImplementsKVDecode == Abstract!Spec
=============================================================================
