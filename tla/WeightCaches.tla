---------------------------- MODULE WeightCaches ----------------------------
(***************************************************************************)
(* The caches between a model's weights and the device, and the captured   *)
(* graph that bakes their pointers.  They are globals of the process, and  *)
(* a process may hold several models.  A quantized weight is found by its  *)
(* shape and four sampled elements (fd._Q8_WEIGHT_CACHE; its device copy,  *)
(* _DEV_WEIGHT_CACHE, by the address of the host arrays that the first     *)
(* cache keeps alive, so the two stand or fall together), a norm or bias   *)
(* by its length and three elements (_DEV_CONST), and a fused weight by    *)
(* its layer and group (_FUSED_W_CACHE).  Nothing is ever evicted.         *)
(*                                                                         *)
(* A weight is <<model, name>>; the fused weight of a group is <<model,    *)
(* group>>.                                                                *)
(***************************************************************************)
EXTENDS Naturals

CONSTANTS
  Models,    \* models that a process may load
  Linears,   \* names of the weights of linear layers
  Groups,    \* groups of linears that fuse (qkv, gate and up of each layer)
  Norms,     \* names of norm weights and biases
  Samples,   \* the keys' sampled elements and shapes
  Sample,    \* the key of each weight
  Processes, \* what a process loads, and the settings of its fusion flags
  None

Names   == Linears \cup Groups \cup Norms
Weights == Models \X Names
Kinds   == {"q8", "const"}
Ptrs    == Kinds \X Samples

\* "shape+n+4-sample distinguishes all real model weights".
ASSUME WeightAssumption ==
  /\ Processes \subseteq [models : SUBSET Models, settings : SUBSET {"fused", "split"}]
  /\ Linears \cap Groups = {} /\ Norms \cap (Linears \cup Groups) = {}
  /\ None \notin Weights /\ None \notin Models
  /\ Sample \in [Weights -> Samples]
  /\ \A v, w \in Weights : Sample[v] = Sample[w] => v = w

VARIABLES
  process, \* the process: the models it loads, the settings its scripts use
  setting, \* the fusion flags, module globals that scripts flip
  fused,   \* _FUSED_W_CACHE: the model whose weights a group's entry holds
  cache,   \* the weight behind each device pointer
  mode,    \* "idle", or the forward that is running: "eager", "seed", "capture"
  who,     \* its model
  left,    \* the weights it has still to use
  used,    \* name and pointer of those it has used
  served,  \* for the last weight used: what was wanted and what was served
  snap,    \* each runner's _weight_cache_frozen
  seeded,  \* runners that have one
  baked    \* name and pointer of the weights of each runner's graph

vars == <<process, setting, fused, cache, mode, who, left, used, served, snap, seeded,
          baked>>

Present == {p \in Ptrs : cache[p] # None}
Needed  == Norms \cup (IF setting = "fused" THEN Groups ELSE Linears)

-----------------------------------------------------------------------------
Init ==
  /\ process \in Processes
  /\ setting \in process.settings
  /\ fused = [g \in Groups |-> None]
  /\ cache = [p \in Ptrs |-> None]
  /\ mode = "idle" /\ who \in process.models /\ left = {} /\ used = {} /\ served = {}
  /\ snap = [m \in Models |-> {}]
  /\ seeded = {}
  /\ baked = [m \in Models |-> {}]

Flip ==
  /\ mode = "idle"
  /\ setting' \in process.settings
  /\ UNCHANGED <<process, fused, cache, mode, who, left, used, served, snap, seeded, baked>>

\* _assert_weight_cache_frozen: no weight was built since seed().
SlipNotChecked(m) == TRUE
Frozen(m) == Present \subseteq snap[m]

Begin(m, how) ==
  /\ mode = "idle" /\ m \in process.models
  /\ how = "capture" => m \in seeded /\ Frozen(m)
  /\ mode' = how /\ who' = m
  /\ left' = Needed /\ used' = {} /\ served' = {}
  /\ UNCHANGED <<process, setting, fused, cache, snap, seeded, baked>>

\* _fused_qkv_weight and _fused_gateup_weight: the entry of the group, built
\* from the model at hand if there is none.
Source(x) ==
  IF x \in Groups /\ fused[x] # None THEN <<fused[x], x>> ELSE <<who, x>>

Kind(x) == IF x \in Norms THEN "const" ELSE "q8"

SlipShapeOnly(w) == Sample[<<w[1], CHOOSE x \in Names : TRUE>>]
SlipByName(w) == Sample[<<CHOOSE m \in Models : TRUE, w[2]>>]
SampleOf(w) == Sample[w]

Pointer(x) == <<Kind(x), SampleOf(Source(x))>>

\* One weight of the forward: looked up, quantized and uploaded if it is new,
\* and given to its kernel.
Use(x) ==
  /\ mode # "idle" /\ x \in left
  /\ fused' = IF x \in Groups /\ fused[x] = None
                THEN [fused EXCEPT ![x] = who] ELSE fused
  /\ cache' = IF cache[Pointer(x)] = None
                THEN [cache EXCEPT ![Pointer(x)] = Source(x)] ELSE cache
  /\ served' = {[want |-> <<who, x>>, got |-> cache'[Pointer(x)]]}
  /\ used' = used \cup {<<x, Pointer(x)>>}
  /\ left' = left \ {x}
  /\ UNCHANGED <<process, setting, mode, who, snap, seeded, baked>>

\* The end of a forward: seed() takes its snapshot, capture() checks against it
\* once more and keeps the graph, or raises.
EndEager ==
  /\ mode = "eager" /\ left = {}
  /\ mode' = "idle"
  /\ UNCHANGED <<process, setting, fused, cache, who, left, used, served, snap, seeded, baked>>

EndSeed ==
  /\ mode = "seed" /\ left = {}
  /\ mode' = "idle"
  /\ snap' = [snap EXCEPT ![who] = Present]
  /\ seeded' = seeded \cup {who}
  /\ UNCHANGED <<process, setting, fused, cache, who, left, used, served, baked>>

EndCapture ==
  /\ mode = "capture" /\ left = {}
  /\ mode' = "idle"
  /\ baked' = IF Frozen(who) THEN [baked EXCEPT ![who] = used] ELSE baked
  /\ UNCHANGED <<process, setting, fused, cache, who, left, used, served, snap, seeded>>

Next ==
  \/ Flip
  \/ \E m \in Models, how \in {"eager", "seed", "capture"} : Begin(m, how)
  \/ \E x \in Names : Use(x)
  \/ EndEager \/ EndSeed \/ EndCapture

Spec == Init /\ [][Next]_vars

-----------------------------------------------------------------------------
(* Properties.                                                             *)

\* Fused weights are found by layer and group alone, so they are safe in a
\* process that never fuses or has one model.
GroupsUnshared ==
  process.settings = {"split"} \/ \A m, n \in process.models : m = n

\* Every kernel works on the weight of the model and the layer it was launched
\* for, whatever other models and layers filled the caches first.
ServesOwn == GroupsUnshared => \A s \in served : s.got = s.want

\* A captured graph replays its own model's weights for as long as it lives:
\* the forwards of other models and new settings do not change what it reads.
BakedOwn ==
  GroupsUnshared => \A m \in Models : \A b \in baked[m] : cache[b[2]] = <<m, b[1]>>

\* "All weights must be warmed in seed(), frozen before capture": a graph bakes
\* no pointer that was not there when its runner's seed() ended.
BakedWarm == \A m \in Models : \A b \in baked[m] : b[2] \in snap[m]

\* The fused weights are their model's own ("key (id(w), layer, kind)").
FusedIsOwn == \A s \in served : s.got = s.want
=============================================================================
