----------------------------- MODULE CachesProofs -----------------------------
(***************************************************************************)
(* Proofs about what is kept, in memory and on disk.                       *)
(*                                                                         *)
(* Weights: each kernel, eager or captured, works on its own model's       *)
(* weight, in a process that never fuses or has one model; and a graph     *)
(* bakes no weight that was not warm.  For any number of models, layers    *)
(* and keys that tell the weights apart.                                   *)
(*                                                                         *)
(* Cubins, for any number of processes, kernels, options, edits and        *)
(* failures: each process runs the kernel it asked for, a timeout damages  *)
(* one cubin at most, and a complete directory is only read.               *)
(***************************************************************************)
EXTENDS WeightCaches, CubinCache, FiniteSetTheorems, TLAPS

-----------------------------------------------------------------------------
(* The caches of weights.                                                  *)

\* What a key finds is the weight it was computed from, and a group's entry
\* holds the weights of a model.
KeysTell ==
  /\ cache \in [Ptrs -> Weights \cup {None}]
  /\ \A p \in Ptrs : cache[p] # None => p[2] = Sample[cache[p]]

GroupsBuilt ==
  /\ process \in Processes
  /\ fused \in [Groups -> process.models \cup {None}]
  /\ setting \in process.settings /\ who \in process.models

\* Only weights the setting needs are used.
LeftNeeded ==
  /\ left \subseteq Needed /\ left \subseteq Names
  /\ mode = "idle" => left = {}

\* The pointers used so far lead to the running model's weights.
UsedOwn ==
  /\ used \subseteq Names \X Ptrs
  /\ \A u \in used : cache[u[2]] = <<who, u[1]>>

BakedThere ==
  /\ baked \in [Models -> SUBSET (Names \X Ptrs)]
  /\ BakedOwn

Owned == KeysTell /\ GroupsBuilt /\ LeftNeeded /\ UsedOwn /\ BakedThere /\ ServesOwn

WeightInv == GroupsUnshared => Owned

LEMMA WhoIsModel ==
  ASSUME GroupsBuilt
  PROVE  who \in Models /\ process.models \subseteq Models
<1>1. process \in [models : SUBSET Models, settings : SUBSET {"fused", "split"}]
  BY WeightAssumption DEF GroupsBuilt
<1>2. QED BY <1>1 DEF GroupsBuilt

-----------------------------------------------------------------------------
\* The source of a weight is the running model's own.
LEMMA SourceIsOwn ==
  ASSUME GroupsUnshared, GroupsBuilt, LeftNeeded, NEW x \in left
  PROVE  /\ Source(x) = <<who, x>> /\ Source(x) \in Weights
         /\ Pointer(x) \in Ptrs /\ Pointer(x)[2] = Sample[<<who, x>>]
<1>1. x \in Names /\ x \in Needed
  BY DEF LeftNeeded
<1>2. <<who, x>> \in Weights
  BY <1>1, WhoIsModel DEF Weights
<1>3. Source(x) = <<who, x>>
  <2>1. CASE process.settings = {"split"}
    <3>1. x \notin Groups
      BY <1>1, <2>1, WeightAssumption DEF Needed, GroupsBuilt
    <3>2. QED BY <3>1 DEF Source
  <2>2. CASE \A m, n \in process.models : m = n
    <3>1. CASE x \in Groups /\ fused[x] # None
      <4>1. fused[x] \in process.models
        BY <3>1 DEF GroupsBuilt
      <4>2. fused[x] = who
        BY <4>1, <2>2 DEF GroupsBuilt
      <4>3. QED BY <3>1, <4>2 DEF Source
    <3>2. CASE ~(x \in Groups /\ fused[x] # None)
      BY <3>2 DEF Source
    <3>3. QED BY <3>1, <3>2
  <2>3. QED BY <2>1, <2>2 DEF GroupsUnshared
<1>4. Kind(x) \in Kinds
  BY DEF Kind, Kinds
<1>5. Sample[<<who, x>>] \in Samples
  BY <1>2, WeightAssumption
<1>6. Pointer(x) = <<Kind(x), Sample[<<who, x>>]>>
  BY <1>3 DEF Pointer, SampleOf
<1>7. QED BY <1>2, <1>3, <1>4, <1>5, <1>6 DEF Ptrs

\* What a use of a weight does to the cache: the pointer leads to the weight,
\* and whatever was there stays.
LEMMA UseFinds ==
  ASSUME GroupsUnshared, KeysTell, GroupsBuilt, LeftNeeded, NEW x \in left, Use(x)
  PROVE  /\ KeysTell'
         /\ cache'[Pointer(x)] = <<who, x>>
         /\ \A p \in Ptrs : cache[p] # None => cache'[p] = cache[p]
<1> DEFINE p0 == Pointer(x)
           w0 == <<who, x>>
<1>1. /\ Source(x) = w0 /\ w0 \in Weights
      /\ p0 \in Ptrs /\ p0[2] = Sample[w0]
  BY SourceIsOwn
<1>2. w0 # None
  BY <1>1, WeightAssumption
<1> HIDE DEF p0, w0
<1>3. CASE cache[p0] = None
  <2>1. cache' = [cache EXCEPT ![p0] = w0]
    BY <1>1, <1>3 DEF Use, p0
  <2>2. QED BY <2>1, <1>1, <1>2, <1>3 DEF KeysTell, p0, w0
<1>4. CASE cache[p0] # None
  <2>1. cache' = cache
    BY <1>4 DEF Use, p0
  <2>2. cache[p0] \in Weights /\ Sample[cache[p0]] = Sample[w0]
    BY <1>1, <1>4 DEF KeysTell
  <2>3. cache[p0] = w0
    BY <2>2, <1>1, WeightAssumption
  <2>4. QED BY <2>1, <2>3 DEF KeysTell, p0, w0
<1>5. QED BY <1>3, <1>4

-----------------------------------------------------------------------------
LEMMA InitOwned == Init => Owned
<1> SUFFICES ASSUME Init PROVE Owned
  OBVIOUS
<1>1. KeysTell
  BY DEF Init, KeysTell
<1>2. GroupsBuilt
  BY DEF Init, GroupsBuilt
<1>3. LeftNeeded /\ UsedOwn /\ ServesOwn
  BY DEF Init, LeftNeeded, UsedOwn, ServesOwn
<1>4. BakedThere
  BY DEF Init, BakedThere, BakedOwn
<1>5. QED BY <1>1, <1>2, <1>3, <1>4 DEF Owned

LEMMA UseKeepsOwned ==
  ASSUME GroupsUnshared, Owned, NEW x \in Names, Use(x)
  PROVE  Owned'
<1>1. x \in left /\ KeysTell /\ GroupsBuilt /\ LeftNeeded
  BY DEF Use, Owned
<1>2. /\ KeysTell'
      /\ cache'[Pointer(x)] = <<who, x>>
      /\ \A p \in Ptrs : cache[p] # None => cache'[p] = cache[p]
  BY <1>1, UseFinds
<1>3. Pointer(x) \in Ptrs
  BY <1>1, SourceIsOwn
<1>4. GroupsBuilt'
  BY <1>1 DEF Use, GroupsBuilt
<1>5. LeftNeeded'
  BY <1>1 DEF Use, LeftNeeded, Needed
<1>6. UsedOwn'
  <2> SUFFICES ASSUME NEW u \in used'
               PROVE  u \in Names \X Ptrs /\ cache'[u[2]] = <<who, u[1]>>
    BY DEF UsedOwn, Use
  <2>1. used' = used \cup {<<x, Pointer(x)>>}
    BY DEF Use
  <2>2. CASE u \in used
    <3>1. u \in Names \X Ptrs /\ u[2] \in Ptrs /\ u[1] \in Names
          /\ cache[u[2]] = <<who, u[1]>>
      BY <2>2 DEF Owned, UsedOwn
    <3>2. <<who, u[1]>> # None
      BY <3>1, <1>1, WhoIsModel, WeightAssumption DEF Weights
    <3>3. QED BY <3>1, <3>2, <1>2
  <2>3. CASE u = <<x, Pointer(x)>>
    BY <2>3, <1>2, <1>3
  <2>4. QED BY <2>1, <2>2, <2>3
<1>7. BakedThere'
  <2>1. baked' = baked /\ baked \in [Models -> SUBSET (Names \X Ptrs)]
    BY DEF Use, Owned, BakedThere
  <2>2. ASSUME NEW m \in Models, NEW b \in baked[m]
        PROVE  cache'[b[2]] = <<m, b[1]>>
    <3>1. b[1] \in Names /\ b[2] \in Ptrs /\ cache[b[2]] = <<m, b[1]>>
      BY <2>1 DEF Owned, BakedThere, BakedOwn
    <3>2. <<m, b[1]>> # None
      BY <3>1, WeightAssumption DEF Weights
    <3>3. QED BY <3>1, <3>2, <1>2
  <2>3. QED BY <2>1, <2>2 DEF BakedThere, BakedOwn
<1>8. ServesOwn'
  <2>1. served' = {[want |-> <<who, x>>, got |-> cache'[Pointer(x)]]}
    BY DEF Use
  <2>2. QED BY <2>1, <1>2 DEF ServesOwn
<1>9. QED BY <1>2, <1>4, <1>5, <1>6, <1>7, <1>8 DEF Owned

\* The end of a capture bakes the pointers used, which lead to the model's own.
LEMMA CaptureKeepsBaked ==
  ASSUME GroupsUnshared, Owned, EndCapture
  PROVE  BakedThere'
<1>1. baked \in [Models -> SUBSET (Names \X Ptrs)] /\ who \in Models /\ cache' = cache
  BY WhoIsModel DEF Owned, BakedThere, EndCapture
<1>2. CASE baked' = baked
  BY <1>1, <1>2 DEF Owned, BakedThere, BakedOwn
<1>3. CASE baked' = [baked EXCEPT ![who] = used]
  <2>0. \A u \in used : u \in Names \X Ptrs /\ cache[u[2]] = <<who, u[1]>>
    BY DEF Owned, UsedOwn
  <2>1. QED BY <2>0, <1>1, <1>3 DEF Owned, BakedThere, BakedOwn
<1>4. QED BY <1>2, <1>3 DEF EndCapture


LEMMA NextKeepsOwned ==
  ASSUME GroupsUnshared, Owned, [Next]_vars
  PROVE  Owned'
<1>1. CASE Flip
  <2>1. LeftNeeded'
    BY <1>1 DEF Flip, Owned, LeftNeeded
  <2>2. (KeysTell /\ GroupsBuilt /\ UsedOwn /\ BakedThere /\ ServesOwn)'
    BY <1>1 DEF Flip, Owned, KeysTell, GroupsBuilt, UsedOwn, BakedThere, BakedOwn, ServesOwn
  <2>3. QED BY <2>1, <2>2 DEF Owned
<1>2. ASSUME NEW m \in Models, NEW how \in {"eager", "seed", "capture"}, Begin(m, how)
      PROVE  Owned'
  <2>1. (KeysTell /\ GroupsBuilt /\ BakedThere)'
    BY <1>2 DEF Begin, Owned, KeysTell, GroupsBuilt, BakedThere, BakedOwn
  <2>2. (LeftNeeded /\ UsedOwn /\ ServesOwn)'
    BY <1>2 DEF Begin, LeftNeeded, Needed, Names, UsedOwn, ServesOwn
  <2>3. QED BY <2>1, <2>2 DEF Owned
<1>3. ASSUME NEW x \in Names, Use(x)
      PROVE  Owned'
  BY <1>3, UseKeepsOwned
<1>4. CASE EndEager
  BY <1>4 DEF EndEager, Owned, KeysTell, GroupsBuilt, LeftNeeded, Needed, UsedOwn,
              BakedThere, BakedOwn, ServesOwn
<1>5. CASE EndSeed
  BY <1>5 DEF EndSeed, Owned, KeysTell, GroupsBuilt, LeftNeeded, Needed, UsedOwn,
              BakedThere, BakedOwn, ServesOwn
<1>6. CASE EndCapture
  <2>1. (KeysTell /\ GroupsBuilt /\ LeftNeeded /\ UsedOwn /\ ServesOwn)'
    BY <1>6 DEF EndCapture, Owned, KeysTell, GroupsBuilt, LeftNeeded, Needed, UsedOwn, ServesOwn
  <2>2. QED BY <2>1, <1>6, CaptureKeepsBaked DEF Owned
<1>7. CASE UNCHANGED vars
  BY <1>7 DEF vars, Owned, KeysTell, GroupsBuilt, LeftNeeded, Needed, UsedOwn,
              BakedThere, BakedOwn, ServesOwn
<1>8. QED BY <1>1, <1>2, <1>3, <1>4, <1>5, <1>6, <1>7 DEF Next

LEMMA OwnershipHolds == Spec => [](ServesOwn /\ BakedOwn)
<1>1. Init => WeightInv
  BY InitOwned DEF WeightInv
<1>2. WeightInv /\ [Next]_vars => WeightInv'
  <2> SUFFICES ASSUME WeightInv, [Next]_vars, GroupsUnshared'
               PROVE  Owned'
    BY DEF WeightInv
  <2>1. process' = process
    BY DEF Next, vars, Flip, Begin, Use, EndEager, EndSeed, EndCapture
  <2>2. GroupsUnshared
    BY <2>1 DEF GroupsUnshared
  <2>3. QED BY <2>2, NextKeepsOwned DEF WeightInv
<1>3. WeightInv => ServesOwn /\ BakedOwn
  BY DEF WeightInv, Owned, BakedThere, ServesOwn, BakedOwn
<1>4. QED BY <1>1, <1>2, <1>3, PTL DEF Spec

(***************************************************************************)
(* However many models share the process, each kernel works on its own     *)
(* model's weight, as long as fusion is off or the model is alone: the     *)
(* caches of _quantize_weight_q8_0, _dev_weight and _dev_const never mix   *)
(* two weights up.                                                         *)
(***************************************************************************)
THEOREM WeightsAreOwn == Spec => []ServesOwn
<1>1. ServesOwn /\ BakedOwn => ServesOwn
  OBVIOUS
<1>2. QED BY <1>1, OwnershipHolds, PTL

(***************************************************************************)
(* And so does each captured graph, for as long as it lives.               *)
(***************************************************************************)
THEOREM BakedAreOwn == Spec => []BakedOwn
<1>1. ServesOwn /\ BakedOwn => BakedOwn
  OBVIOUS
<1>2. QED BY <1>1, OwnershipHolds, PTL

-----------------------------------------------------------------------------
(* What a graph bakes was warm.  This does not depend on whether the fused *)
(* entries are shared: it is about the pointers, not about what they hold. *)

\* What the caches hold are weights, and a running forward uses what is there.
CachesTyped ==
  /\ cache \in [Ptrs -> Weights \cup {None}]
  /\ GroupsBuilt
  /\ left \subseteq Names

UsedThere ==
  /\ used \subseteq Names \X Ptrs
  /\ \A u \in used : u[2] \in Present

\* Nothing is evicted: what a snapshot saw is still there.
SnapThere ==
  /\ snap \in [Models -> SUBSET Ptrs]
  /\ \A m \in Models : snap[m] \subseteq Present

Warmed ==
  /\ CachesTyped /\ UsedThere /\ SnapThere
  /\ baked \in [Models -> SUBSET (Names \X Ptrs)]
  /\ BakedWarm

\* The pointer of a weight is a key of the cache, shared or not.
LEMMA PointerTyped ==
  ASSUME CachesTyped, NEW x \in left
  PROVE  Source(x) \in Weights /\ Pointer(x) \in Ptrs
<1>1. GroupsBuilt /\ x \in Names
  BY DEF CachesTyped
<1>2. who \in Models /\ process.models \subseteq Models
  BY <1>1, WhoIsModel
<1>3. x \in Groups /\ fused[x] # None => fused[x] \in Models
  BY <1>1, <1>2 DEF GroupsBuilt
<1>4. Source(x) \in Weights
  BY <1>1, <1>2, <1>3 DEF Source, Weights
<1>5. Sample[Source(x)] \in Samples
  BY <1>4, WeightAssumption
<1>6. Kind(x) \in Kinds
  BY DEF Kind, Kinds
<1>7. QED BY <1>4, <1>5, <1>6 DEF Pointer, SampleOf, Ptrs

\* A use only adds to the cache, and what it used is there afterwards.
LEMMA UseAdds ==
  ASSUME CachesTyped, NEW x \in left, Use(x)
  PROVE  /\ cache' \in [Ptrs -> Weights \cup {None}]
         /\ Present \subseteq Present'
         /\ Pointer(x) \in Present'
<1> DEFINE p0 == Pointer(x)
           w0 == Source(x)
<1>1. w0 \in Weights /\ p0 \in Ptrs /\ w0 # None
  BY PointerTyped, WeightAssumption
<1>2. cache' = IF cache[p0] = None THEN [cache EXCEPT ![p0] = w0] ELSE cache
  BY DEF Use
<1> HIDE DEF p0, w0
<1>3. CASE cache[p0] = None
  <2>1. cache' = [cache EXCEPT ![p0] = w0]
    BY <1>2, <1>3
  <2>2. QED BY <2>1, <1>1 DEF CachesTyped, Present, p0
<1>4. CASE cache[p0] # None
  <2>1. cache' = cache
    BY <1>2, <1>4
  <2>2. QED BY <2>1, <1>1, <1>4 DEF CachesTyped, Present, p0
<1>5. QED BY <1>3, <1>4

LEMMA NextKeepsWarmed ==
  ASSUME Warmed, [Next]_vars
  PROVE  Warmed'
<1> USE DEF Warmed
<1>1. CASE Flip
  BY <1>1 DEF Flip, CachesTyped, GroupsBuilt, UsedThere, SnapThere, Present, BakedWarm
<1>2. ASSUME NEW m \in Models, NEW how \in {"eager", "seed", "capture"}, Begin(m, how)
      PROVE  Warmed'
  <2>1. CachesTyped'
    BY <1>2 DEF Begin, CachesTyped, GroupsBuilt, Needed, Names
  <2>2. QED
    BY <1>2, <2>1 DEF Begin, UsedThere, SnapThere, Present, BakedWarm
<1>3. ASSUME NEW x \in Names, Use(x)
      PROVE  Warmed'
  <2>1. x \in left
    BY <1>3 DEF Use
  <2>2. /\ cache' \in [Ptrs -> Weights \cup {None}]
        /\ Present \subseteq Present' /\ Pointer(x) \in Present'
    BY <1>3, <2>1, UseAdds
  <2>3. GroupsBuilt'
    BY <1>3 DEF Use, CachesTyped, GroupsBuilt
  <2>4. CachesTyped'
    BY <1>3, <2>2, <2>3 DEF Use, CachesTyped
  <2>5. UsedThere'
    <3>1. used' = used \cup {<<x, Pointer(x)>>}
      BY <1>3 DEF Use
    <3>2. Pointer(x) \in Ptrs
      BY <2>1, PointerTyped
    <3>3. QED BY <3>1, <3>2, <2>2 DEF UsedThere
  <2>6. SnapThere'
    BY <1>3, <2>2 DEF Use, SnapThere
  <2>7. QED BY <1>3, <2>4, <2>5, <2>6 DEF Use, BakedWarm
<1>4. CASE EndEager
  BY <1>4 DEF EndEager, CachesTyped, GroupsBuilt, UsedThere, SnapThere, Present, BakedWarm
<1>5. CASE EndSeed
  <2>1. Present' = Present /\ Present \subseteq Ptrs /\ who \in Models
    BY <1>5, WhoIsModel DEF EndSeed, Present, CachesTyped
  <2>2. snap' = [snap EXCEPT ![who] = Present]
    BY <1>5 DEF EndSeed
  <2>3. SnapThere' /\ \A m \in Models : snap[m] \subseteq snap'[m]
    BY <2>1, <2>2 DEF SnapThere
  <2>4. (CachesTyped /\ UsedThere)'
    BY <1>5, <2>1 DEF EndSeed, CachesTyped, GroupsBuilt, UsedThere
  <2>5. QED BY <1>5, <2>3, <2>4 DEF EndSeed, BakedWarm
<1>6. CASE EndCapture
  <2>1. who \in Models /\ (CachesTyped /\ UsedThere /\ SnapThere)'
    BY <1>6, WhoIsModel DEF EndCapture, CachesTyped, GroupsBuilt, UsedThere, SnapThere, Present
  <2>2. CASE Frozen(who)
    <3>1. \A u \in used : u[2] \in snap[who]
      BY <2>2 DEF UsedThere, Frozen
    <3>2. baked' = [baked EXCEPT ![who] = used] /\ snap' = snap
      BY <1>6, <2>2 DEF EndCapture
    <3>3. QED BY <2>1, <3>1, <3>2 DEF UsedThere, BakedWarm
  <2>3. CASE ~Frozen(who)
    BY <1>6, <2>1, <2>3 DEF EndCapture, BakedWarm
  <2>4. QED BY <2>2, <2>3
<1>7. CASE UNCHANGED vars
  BY <1>7 DEF vars, CachesTyped, GroupsBuilt, UsedThere, SnapThere, Present, BakedWarm
<1>8. QED BY <1>1, <1>2, <1>3, <1>4, <1>5, <1>6, <1>7 DEF Next

(***************************************************************************)
(* A captured graph bakes no pointer that its runner's seed() had not      *)
(* warmed: the check of _assert_weight_cache_frozen at the end of capture  *)
(* is enough, whatever other models' forwards ran in between, with fused   *)
(* weights or without, and a seed() repeated later only adds to what its   *)
(* snapshot holds.                                                         *)
(***************************************************************************)
THEOREM BakedAreWarm == Spec => []BakedWarm
<1>1. Init => Warmed
  <2> SUFFICES ASSUME Init PROVE Warmed
    OBVIOUS
  <2>1. CachesTyped
    BY DEF Init, CachesTyped, GroupsBuilt
  <2>2. UsedThere /\ SnapThere
    BY DEF Init, UsedThere, SnapThere
  <2>3. QED BY <2>1, <2>2 DEF Init, Warmed, BakedWarm
<1>2. Warmed /\ [Next]_vars => Warmed'
  BY NextKeepsWarmed
<1>3. Warmed => BakedWarm
  BY DEF Warmed
<1>4. QED BY <1>1, <1>2, <1>3, PTL DEF Spec

-----------------------------------------------------------------------------
(* The directory of cubins: where a process is.                            *)

Steps == {"idle", "open_source", "write_source", "nvcc", "open_cubin", "write_cubin", "fetch"}

Typed ==
  /\ setup \in Setups
  /\ ver \in [Kernels -> Versions]
  /\ mine \in [Procs -> [Kernels -> Versions]]
  /\ pc \in [Procs -> Steps]
  /\ DOMAIN text = Procs /\ \A p \in Procs : pc[p] # "idle" => text[p] \in Texts
  /\ DOMAIN read = Procs
  /\ failed \in Nat

-----------------------------------------------------------------------------
(* What a file may hold.                                                   *)

\* A text of the key under which the file stands.
Whole(f, k) == f \in Texts /\ Key(f) = k

\* That, or what a timeout left, where a timeout can leave something.
Fits(f, k) == Whole(f, k) \/ (f = Partial /\ "timeout" \in setup.failures /\ ~Complete)

Loadable(k) == k \in DOMAIN cubins /\ Fits(cubins[k], k)

\* What a process remembers, has loaded and runs.
Kept ==
  /\ DOMAIN memo = Procs /\ DOMAIN mods = Procs /\ DOMAIN got = Procs
  /\ \A p \in Procs :
       /\ \A k \in memo[p] : Loadable(k)
       /\ \A k \in DOMAIN mods[p] : Fits(mods[p][k], k)
       /\ \A i \in DOMAIN got[p] :
            got[p][i].asked \in Texts /\ Fits(got[p][i].loaded, Key(got[p][i].asked))

-----------------------------------------------------------------------------
(* A complete directory.                                                   *)

\* Whatever is asked for is there.
AllBuilt ==
  /\ \A k \in DOMAIN cubins : Whole(cubins[k], k)
  /\ \A t \in Texts : Key(t) \in DOMAIN cubins

\* An inline kernel's source is still written; nobody gets as far as nvcc.
NobodyCompiles ==
  \A p \in Procs : pc[p] \in {"idle", "fetch"} \/
                   (setup.inline /\ pc[p] \in {"open_source", "write_source"})

WarmInv == AllBuilt /\ NobodyCompiles /\ Kept

-----------------------------------------------------------------------------
(* Builds that come one at a time.                                         *)

Alone == \A p, q \in Procs : Building(p) /\ Building(q) => p = q

\* A file that does not fit is the one that its builder is writing.
SourcesFit ==
  \A k \in DOMAIN sources :
    \/ Fits(sources[k], k)
    \/ sources[k] = Partial /\ \E p \in Procs : pc[p] = "write_source" /\ MyKey(p) = k

CubinsFit ==
  \A k \in DOMAIN cubins :
    \/ Fits(cubins[k], k)
    \/ cubins[k] = Partial /\ \E p \in Procs : pc[p] = "write_cubin" /\ MyKey(p) = k

\* What each step of a build can rely on.
StageFits ==
  \A p \in Procs :
    /\ pc[p] \in {"nvcc", "open_cubin"} => MyKey(p) \notin DOMAIN cubins
    /\ ~setup.inline /\ pc[p] \in {"open_source", "write_source"} =>
         MyKey(p) \notin DOMAIN cubins
    /\ pc[p] = "nvcc" =>
         MyKey(p) \in DOMAIN sources /\ Whole(sources[MyKey(p)], MyKey(p))
    /\ pc[p] \in {"open_cubin", "write_cubin"} => Whole(read[p], MyKey(p))
    /\ pc[p] = "fetch" => Loadable(MyKey(p))

\* The half cubins that nobody is completing.
Damaged ==
  {k \in DOMAIN cubins : cubins[k] = Partial /\
                         ~\E p \in Procs : pc[p] = "write_cubin" /\ MyKey(p) = k}

DamageCounted == IsFiniteSet(Damaged) /\ Cardinality(Damaged) <= failed

TurnInv == Alone /\ SourcesFit /\ CubinsFit /\ StageFits /\ Kept /\ DamageCounted

-----------------------------------------------------------------------------
CubinInv ==
  /\ Typed
  /\ Complete => WarmInv
  /\ ~Complete /\ OneAtATime => TurnInv

-----------------------------------------------------------------------------
(* Lemmas about files and keys.                                            *)

\* A text is none of the marks.
LEMMA MarksAreNoTexts ==
  ASSUME NEW f \in Texts
  PROVE  f # Missing /\ f # Partial /\ f # Blank
BY DEF Texts, Missing, Partial, Blank

LEMMA MarksDiffer == Missing # Partial
BY DEF Missing, Partial

\* Texts with one key are texts of one goal, and inline they are the same.
LEMMA KeyTells ==
  ASSUME NEW t \in Texts, NEW u \in Texts, Key(t) = Key(u)
  PROVE  SameGoal(t, u) /\ (setup.inline => t = u)
BY DEF Key, InlineKey, EmitKey, SameGoal, Texts

\* A file that fits is there.
LEMMA FitIsThere ==
  ASSUME NEW k, Loadable(k)
  PROVE  IsBuilt(k) /\ File(cubins, k) = cubins[k]
<1>1. cubins[k] # Missing
  BY MarksAreNoTexts, MarksDiffer DEF Loadable, Fits, Whole
<1>2. QED BY <1>1 DEF IsBuilt, File, Loadable

\* The settings are fixed, and with them what a text, a key and a fit are.
LEMMA SettingsStay ==
  ASSUME [DiskNext]_diskVars
  PROVE  setup' = setup
BY DEF DiskNext, diskVars, Edit, Restart, Ask, OpenSource, WriteSource, EmitFails,
       NvccReads, NvccOpens, NvccWrites, TimedOut, Fetch

LEMMA FitsStays ==
  ASSUME setup' = setup, NEW f, NEW k
  PROVE  Fits(f, k)' <=> Fits(f, k)
BY DEF Fits, Whole, Complete, Texts, Versions, Key, InlineKey, EmitKey

-----------------------------------------------------------------------------
(* Types.                                                                  *)

LEMMA SetupTyped ==
  ASSUME setup \in Setups
  PROVE  /\ setup.inline \in BOOLEAN /\ setup.overlap \in BOOLEAN /\ setup.warm \in BOOLEAN
         /\ setup.edits \in Nat /\ setup.times \in Nat
BY CacheAssumption

\* The text that is asked for.
Wanted(p, k, o) == <<k, o, IF setup.inline THEN mine[p][k] ELSE ver[k]>>

LEMMA WantedIsText ==
  ASSUME Typed, NEW p \in Procs, NEW k \in Kernels, NEW o \in Opts
  PROVE  Wanted(p, k, o) \in Texts
BY DEF Typed, Wanted, Texts

LEMMA InitTyped == DiskInit => Typed
<1> SUFFICES ASSUME DiskInit PROVE Typed
  OBVIOUS
<1>1. setup \in Setups /\ 0 \in Versions
  BY SetupTyped DEF DiskInit, Versions
<1>2. QED BY <1>1 DEF DiskInit, Typed, Steps

LEMMA NextTyped ==
  ASSUME Typed, [DiskNext]_diskVars
  PROVE  Typed'
<1>1. setup' = setup /\ Versions' = Versions /\ Texts' = Texts
  BY SettingsStay DEF Versions, Texts
<1>2. setup \in Setups
  BY DEF Typed
<1>3. ASSUME NEW k \in Kernels, Edit(k)
      PROVE  Typed'
  <2>1. ver' \in [Kernels -> Versions]
    BY <1>2, <1>3, SetupTyped DEF Edit, Typed, Versions
  <2>2. QED BY <1>1, <1>3, <2>1 DEF Edit, Typed
<1>4. ASSUME NEW p \in Procs, Restart(p)
      PROVE  Typed'
  BY <1>1, <1>4 DEF Restart, Typed
<1>5. ASSUME NEW p \in Procs, NEW k \in Kernels, NEW o \in Opts, Ask(p, k, o)
      PROVE  Typed'
  <2>1. text' = [text EXCEPT ![p] = Wanted(p, k, o)]
    BY <1>5 DEF Ask, Wanted
  <2>2. Wanted(p, k, o) \in Texts
    BY WantedIsText
  <2>3. pc' \in [Procs -> Steps]
    BY <1>5 DEF Ask, Goto, Typed, Steps
  <2>4. \A r \in Procs : pc'[r] # "idle" => text'[r] \in Texts
    BY <1>5, <2>1, <2>2 DEF Ask, Goto, Typed
  <2>5. QED BY <1>1, <1>5, <2>1, <2>3, <2>4 DEF Ask, Typed
<1>6. ASSUME NEW p \in Procs,
             OpenSource(p) \/ WriteSource(p) \/ EmitFails(p) \/ NvccReads(p) \/
             NvccOpens(p) \/ NvccWrites(p) \/ TimedOut(p) \/ Fetch(p)
      PROVE  Typed'
  <2>1. /\ pc[p] # "idle" /\ UNCHANGED <<setup, ver, mine, text>>
        /\ \E l \in Steps : Goto(p, l)
        /\ DOMAIN read' = DOMAIN read
        /\ failed' \in {failed, failed + 1}
    BY <1>6 DEF OpenSource, WriteSource, EmitFails, NvccReads, NvccOpens, NvccWrites,
                TimedOut, Fetch, Fails, Steps
  <2>2. QED BY <1>1, <2>1 DEF Goto, Typed
<1>7. CASE UNCHANGED diskVars
  BY <1>1, <1>7 DEF diskVars, Typed
<1>8. QED BY <1>3, <1>4, <1>5, <1>6, <1>7 DEF DiskNext

-----------------------------------------------------------------------------
(* What processes keep.                                                    *)

\* A step that leaves a process's memory alone, and the cubins it relies on.
LEMMA KeptStays ==
  ASSUME Kept, setup' = setup, UNCHANGED <<memo, mods, got>>,
         \A k : Loadable(k) => Loadable(k)'
  PROVE  Kept'
BY FitsStays DEF Kept, Fits, Whole, Complete, Texts, Versions, Key, InlineKey, EmitKey

LEMMA RestartKeeps ==
  ASSUME Kept, NEW p \in Procs, Restart(p)
  PROVE  Kept'
BY DEF Restart, Kept, Loadable, Fits, Whole, Complete, Texts, Versions, Key, InlineKey, EmitKey

LEMMA AskKeeps ==
  ASSUME Kept, NEW p \in Procs, NEW k \in Kernels, NEW o \in Opts, Ask(p, k, o)
  PROVE  Kept'
BY DEF Ask, Kept, Loadable, Fits, Whole, Complete, Texts, Versions, Key, InlineKey, EmitKey

\* A process that fetches a cubin that fits keeps what fits.
LEMMA FetchKeeps ==
  ASSUME Kept, NEW p \in Procs, Fetch(p), text[p] \in Texts, Loadable(MyKey(p))
  PROVE  Kept'
<1> DEFINE k0 == MyKey(p)
           m0 == IF k0 \in DOMAIN mods[p] THEN mods[p] ELSE Put(mods[p], k0, File(cubins, k0))
<1>1. setup' = setup /\ cubins' = cubins
  BY DEF Fetch
<1>2. /\ memo' = [memo EXCEPT ![p] = IF setup.inline THEN @ \cup {k0} ELSE @]
      /\ mods' = [mods EXCEPT ![p] = m0]
      /\ got' = [got EXCEPT ![p] = <<[asked |-> text[p], loaded |-> m0[k0]]>>]
  BY DEF Fetch
<1>3. k0 \in DOMAIN m0 /\ \A k \in DOMAIN m0 : Fits(m0[k], k)
  <2>1. CASE k0 \in DOMAIN mods[p]
    BY <2>1 DEF Kept
  <2>2. CASE k0 \notin DOMAIN mods[p]
    <3>1. Fits(File(cubins, k0), k0)
      BY FitIsThere DEF Loadable
    <3>2. m0 = Put(mods[p], k0, File(cubins, k0))
      BY <2>2
    <3>3. DOMAIN m0 = DOMAIN mods[p] \cup {k0} /\ m0[k0] = File(cubins, k0)
          /\ \A j \in DOMAIN mods[p] : j # k0 => m0[j] = mods[p][j]
      BY <3>2 DEF Put
    <3>4. \A k \in DOMAIN mods[p] : Fits(mods[p][k], k)
      BY DEF Kept
    <3> HIDE DEF k0, m0
    <3>5. QED BY <3>1, <3>3, <3>4
  <2>3. QED BY <2>1, <2>2
<1>4. Loadable(k0)
  OBVIOUS
<1>5. Key(text[p]) = k0
  BY DEF MyKey
<1> HIDE DEF k0, m0
<1>6. \A k : Loadable(k)' <=> Loadable(k)
  BY <1>1 DEF Loadable, Fits, Whole, Complete, Texts, Versions, Key, InlineKey, EmitKey
<1>7. DOMAIN memo' = Procs /\ DOMAIN mods' = Procs /\ DOMAIN got' = Procs
  BY <1>2 DEF Kept
<1>8. \A r \in Procs : \A k \in memo'[r] : Loadable(k)
  BY <1>2, <1>4 DEF Kept
<1>9. \A r \in Procs : \A k \in DOMAIN mods'[r] : Fits(mods'[r][k], k)
  BY <1>2, <1>3 DEF Kept
<1>10. \A r \in Procs : \A i \in DOMAIN got'[r] :
         got'[r][i].asked \in Texts /\ Fits(got'[r][i].loaded, Key(got'[r][i].asked))
  BY <1>2, <1>3, <1>5 DEF Kept
<1>11. \A f, k : Fits(f, k)' <=> Fits(f, k)
  BY <1>1, FitsStays
<1>12. QED
  BY <1>1, <1>6, <1>7, <1>8, <1>9, <1>10, <1>11
     DEF Kept, Fits, Whole, Complete, Texts, Versions, Key, InlineKey, EmitKey

-----------------------------------------------------------------------------
(* A complete directory is only read.                                      *)

\* Whoever is past its question asks for a cubin that fits.
LEMMA WarmLoadable ==
  ASSUME Typed, Complete, AllBuilt, NEW t \in Texts
  PROVE  Loadable(Key(t)) /\ IsBuilt(Key(t))
<1>1. Loadable(Key(t))
  BY DEF AllBuilt, Loadable, Fits
<1>2. QED BY <1>1, FitIsThere

LEMMA InitWarm == DiskInit /\ Complete => WarmInv
<1> SUFFICES ASSUME DiskInit, Complete
             PROVE  WarmInv
  OBVIOUS
<1> DEFINE built == {t \in Texts : t[3] = 0}
<1>1. cubins = [k \in {Key(t) : t \in built} |-> CHOOSE t \in built : Key(t) = k]
  BY DEF DiskInit, Complete
<1>2. \A k \in DOMAIN cubins : Whole(cubins[k], k)
  BY <1>1 DEF Whole
<1>3. ASSUME NEW t \in Texts
      PROVE  Key(t) \in DOMAIN cubins
  <2>1. CASE setup.inline
    <3>1. setup.edits = 0
      BY <2>1 DEF Complete
    <3>2. t[3] = 0
      BY <3>1 DEF Texts, Versions
    <3>3. QED BY <1>1, <3>2
  <2>2. CASE ~setup.inline
    <3>1. setup.edits \in Nat
      BY SetupTyped DEF DiskInit
    <3>2. <<t[1], t[2], 0>> \in built
      BY <3>1 DEF Texts, Versions
    <3>3. Key(<<t[1], t[2], 0>>) = Key(t)
      BY <2>2 DEF Key, EmitKey
    <3> HIDE DEF built
    <3>4. Key(t) \in {Key(u) : u \in built}
      BY <3>2, <3>3
    <3>5. QED BY <1>1, <3>4
  <2>3. QED BY <2>1, <2>2
<1>4. AllBuilt
  BY <1>2, <1>3 DEF AllBuilt
<1>5. NobodyCompiles /\ Kept
  BY DEF DiskInit, NobodyCompiles, Kept
<1>6. QED BY <1>4, <1>5 DEF WarmInv

\* Where nobody compiles, no step writes a cubin.
LEMMA WarmReads ==
  ASSUME NobodyCompiles, [DiskNext]_diskVars
  PROVE  cubins' = cubins
BY DEF NobodyCompiles, DiskNext, diskVars, Edit, Restart, Ask, OpenSource, WriteSource,
       EmitFails, NvccReads, NvccOpens, NvccWrites, TimedOut, Fetch

LEMMA NextWarm ==
  ASSUME Typed, Complete, WarmInv, [DiskNext]_diskVars
  PROVE  WarmInv'
<1>1. setup' = setup /\ cubins' = cubins
  BY SettingsStay, WarmReads DEF WarmInv
<1>2. AllBuilt'
  BY <1>1 DEF WarmInv, AllBuilt, Whole, Texts, Versions, Key, InlineKey, EmitKey
<1>3. \A k : Loadable(k)' <=> Loadable(k)
  BY <1>1 DEF Loadable, Fits, Whole, Complete, Texts, Versions, Key, InlineKey, EmitKey
<1>4. NobodyCompiles /\ Kept /\ AllBuilt
  BY DEF WarmInv
<1>5. NobodyCompiles'
  <2>1. ASSUME NEW p \in Procs, NEW k \in Kernels, NEW o \in Opts, Ask(p, k, o)
        PROVE  NobodyCompiles'
    <3>1. ~setup.inline => Answered(p, Key(Wanted(p, k, o)))
      BY <1>4, WantedIsText, WarmLoadable DEF Answered
    <3>2. \/ Goto(p, "fetch")
          \/ setup.inline /\ Goto(p, "open_source")
      BY <2>1, <3>1 DEF Ask, Wanted
    <3>3. QED BY <1>1, <1>4, <3>2 DEF NobodyCompiles, Goto, Typed
  <2>2. ASSUME NEW p \in Procs, WriteSource(p)
        PROVE  NobodyCompiles'
    <3>1. text[p] \in Texts /\ setup.inline
      BY <1>4, <2>2 DEF WriteSource, Typed, NobodyCompiles
    <3>2. IsBuilt(MyKey(p))
      BY <1>4, <3>1, WarmLoadable DEF MyKey
    <3>3. Goto(p, "fetch")
      BY <2>2, <3>1, <3>2 DEF WriteSource
    <3>4. QED BY <1>1, <1>4, <3>3 DEF NobodyCompiles, Goto, Typed
  <2>3. ASSUME NEW p \in Procs, OpenSource(p) \/ Fetch(p)
        PROVE  NobodyCompiles'
    BY <1>1, <1>4, <2>3 DEF OpenSource, Fetch, NobodyCompiles, Goto, Typed
  <2>4. CASE UNCHANGED pc
    BY <1>1, <1>4, <2>4 DEF NobodyCompiles
  <2>5. QED
    BY <1>4, <2>1, <2>2, <2>3, <2>4
       DEF DiskNext, diskVars, NobodyCompiles, Edit, Restart, EmitFails, NvccReads,
           NvccOpens, NvccWrites, TimedOut
<1>6. Kept'
  <2>1. ASSUME NEW p \in Procs, Restart(p)
        PROVE  Kept'
    BY <1>4, <2>1, RestartKeeps
  <2>2. ASSUME NEW p \in Procs, NEW k \in Kernels, NEW o \in Opts, Ask(p, k, o)
        PROVE  Kept'
    BY <1>4, <2>2, AskKeeps
  <2>3. ASSUME NEW p \in Procs, Fetch(p)
        PROVE  Kept'
    <3>1. text[p] \in Texts
      BY <2>3 DEF Fetch, Typed
    <3>2. Loadable(MyKey(p))
      BY <1>4, <3>1, WarmLoadable DEF MyKey
    <3>3. QED BY <1>4, <2>3, <3>1, <3>2, FetchKeeps
  <2>4. CASE UNCHANGED <<memo, mods, got>>
    BY <1>1, <1>3, <1>4, <2>4, KeptStays
  <2>5. QED
    BY <2>1, <2>2, <2>3, <2>4
       DEF DiskNext, diskVars, Edit, OpenSource, WriteSource, EmitFails, NvccReads,
           NvccOpens, NvccWrites, TimedOut
<1>7. QED BY <1>2, <1>5, <1>6 DEF WarmInv

-----------------------------------------------------------------------------
(* Builds that come one at a time.                                         *)

\* The invariant after a step, in terms of the settings, which did not change.
LEMMA TurnAfter ==
  ASSUME setup' = setup
  PROVE  /\ SourcesFit' <=>
              \A k \in DOMAIN sources' :
                \/ Fits(sources'[k], k)
                \/ sources'[k] = Partial
                   /\ \E p \in Procs : pc'[p] = "write_source" /\ Key(text'[p]) = k
         /\ CubinsFit' <=>
              \A k \in DOMAIN cubins' :
                \/ Fits(cubins'[k], k)
                \/ cubins'[k] = Partial
                   /\ \E p \in Procs : pc'[p] = "write_cubin" /\ Key(text'[p]) = k
         /\ StageFits' <=>
              \A p \in Procs :
                /\ pc'[p] \in {"nvcc", "open_cubin"} => Key(text'[p]) \notin DOMAIN cubins'
                /\ ~setup.inline /\ pc'[p] \in {"open_source", "write_source"} =>
                     Key(text'[p]) \notin DOMAIN cubins'
                /\ pc'[p] = "nvcc" =>
                     /\ Key(text'[p]) \in DOMAIN sources'
                     /\ Whole(sources'[Key(text'[p])], Key(text'[p]))
                /\ pc'[p] \in {"open_cubin", "write_cubin"} =>
                     Whole(read'[p], Key(text'[p]))
                /\ pc'[p] = "fetch" =>
                     /\ Key(text'[p]) \in DOMAIN cubins'
                     /\ Fits(cubins'[Key(text'[p])], Key(text'[p]))
         /\ Damaged' =
              {k \in DOMAIN cubins' :
                 cubins'[k] = Partial /\
                 ~\E p \in Procs : pc'[p] = "write_cubin" /\ Key(text'[p]) = k}
         /\ \A k : Loadable(k)' <=> k \in DOMAIN cubins' /\ Fits(cubins'[k], k)
BY DEF SourcesFit, CubinsFit, StageFits, Damaged, Loadable, Fits, Whole, Complete, Texts,
       Versions, MyKey, Key, InlineKey, EmitKey, Partial

\* While one builds, the others wait for their turn or fetch.
LEMMA OthersWait ==
  ASSUME Typed, Alone, NEW p \in Procs, Building(p)
  PROVE  \A r \in Procs \ {p} : pc[r] \in {"idle", "fetch"}
BY DEF Alone, Building, Typed, Steps

\* A builder's step keeps the turns, if it moves nobody else.
LEMMA BuilderAlone ==
  ASSUME Typed, Alone, NEW p \in Procs, Building(p), NEW l \in Steps, Goto(p, l)
  PROVE  /\ Alone'
         /\ pc' = [pc EXCEPT ![p] = l] /\ pc'[p] = l
         /\ \A r \in Procs \ {p} : pc'[r] = pc[r] /\ pc'[r] \in {"idle", "fetch"}
<1>1. /\ pc' = [pc EXCEPT ![p] = l] /\ pc'[p] = l
      /\ \A r \in Procs \ {p} : pc'[r] = pc[r] /\ pc'[r] \in {"idle", "fetch"}
  BY OthersWait DEF Goto, Typed
<1>2. QED BY <1>1 DEF Alone, Building

LEMMA InitTurn == DiskInit => TurnInv
<1> SUFFICES ASSUME DiskInit PROVE TurnInv
  OBVIOUS
<1>1. \A k \in DOMAIN sources : Whole(sources[k], k)
  BY DEF DiskInit, Whole
<1>2. sources = cubins
  BY DEF DiskInit
<1>3. Alone /\ StageFits /\ Kept
  BY DEF DiskInit, Alone, Building, StageFits, Kept
<1>4. SourcesFit /\ CubinsFit
  BY <1>1, <1>2 DEF SourcesFit, CubinsFit, Fits
<1>5. Damaged = {}
  BY <1>1, <1>2, MarksAreNoTexts DEF Damaged, Whole
<1>6. DamageCounted
  BY <1>5, FS_EmptySet DEF DamageCounted, DiskInit
<1>7. QED BY <1>3, <1>4, <1>6 DEF TurnInv

\* Steps that leave the directory and the builds alone.
LEMMA TurnStays ==
  ASSUME TurnInv, UNCHANGED <<setup, pc, text, read, sources, cubins, failed>>, Kept'
  PROVE  TurnInv'
<1>1. Alone' /\ SourcesFit' /\ CubinsFit' /\ StageFits'
  BY TurnAfter DEF TurnInv, Alone, Building, SourcesFit, CubinsFit, StageFits, Loadable, MyKey
<1>2. Damaged' = Damaged
  BY TurnAfter DEF Damaged, MyKey
<1>3. QED BY <1>1, <1>2 DEF TurnInv, DamageCounted

LEMMA AskTurn ==
  ASSUME Typed, OneAtATime, TurnInv,
         NEW p \in Procs, NEW n \in Kernels, NEW o \in Opts, Ask(p, n, o)
  PROVE  TurnInv'
<1> DEFINE t0 == Wanted(p, n, o)
           k0 == Key(t0)
           l0 == IF Answered(p, k0) THEN "fetch" ELSE "open_source"
<1>1. /\ setup' = setup /\ pc[p] = "idle" /\ \A r \in Procs : ~Building(r)
      /\ text' = [text EXCEPT ![p] = t0] /\ pc' = [pc EXCEPT ![p] = l0]
      /\ UNCHANGED <<read, sources, cubins, failed>>
  BY DEF Ask, Wanted, Goto, OneAtATime
<1>2. \A r \in Procs : pc[r] \in {"idle", "fetch"}
  BY <1>1 DEF Building, Typed
<1>3. /\ \A k \in DOMAIN sources : Fits(sources[k], k)
      /\ \A k \in DOMAIN cubins : Loadable(k)
  BY <1>2 DEF TurnInv, SourcesFit, CubinsFit, Loadable
<1>4. IsBuilt(k0) <=> k0 \in DOMAIN cubins
  BY <1>3, FitIsThere DEF IsBuilt, File
<1>5. l0 = "fetch" => Loadable(k0)
  BY <1>3, <1>4 DEF Answered, TurnInv, Kept
<1>6. l0 = "open_source" /\ ~setup.inline => k0 \notin DOMAIN cubins
  BY <1>4 DEF Answered
<1>7. l0 \in {"fetch", "open_source"}
  OBVIOUS
<1> HIDE DEF t0, k0, l0
<1>8. /\ pc'[p] = l0 /\ text'[p] = t0
      /\ \A r \in Procs \ {p} : /\ pc'[r] = pc[r] /\ pc'[r] \in {"idle", "fetch"}
                                /\ text'[r] = text[r]
  BY <1>1, <1>2 DEF Typed
<1>9. Alone'
  BY <1>8 DEF Alone, Building
<1>10. SourcesFit' /\ CubinsFit'
  BY <1>1, <1>3, TurnAfter DEF Loadable
<1>11. StageFits'
  BY <1>1, <1>5, <1>6, <1>7, <1>8, TurnAfter DEF TurnInv, StageFits, Loadable, MyKey, k0
<1>12. Kept'
  BY AskKeeps DEF TurnInv
<1>13. Damaged' = Damaged
  BY <1>1, <1>2, <1>7, <1>8, TurnAfter DEF Damaged
<1>14. QED BY <1>1, <1>9, <1>10, <1>11, <1>12, <1>13 DEF TurnInv, DamageCounted

\* Before the builder opens the cubin, every cubin fits.
LEMMA CubinsAreFit ==
  ASSUME TurnInv, NEW p \in Procs, Building(p), pc[p] # "write_cubin"
  PROVE  \A k \in DOMAIN cubins : Loadable(k)
BY DEF TurnInv, Alone, CubinsFit, Loadable, Building

\* Unless it is at the source, every source fits.
LEMMA SourcesAreFit ==
  ASSUME TurnInv, NEW p \in Procs, Building(p), pc[p] # "write_source"
  PROVE  \A k \in DOMAIN sources : Fits(sources[k], k)
BY DEF TurnInv, Alone, SourcesFit, Building

\* A step of the builder that leaves the cubins alone.
LEMMA CubinsStay ==
  ASSUME Typed, TurnInv, NEW p \in Procs, Building(p), pc[p] # "write_cubin",
         NEW l \in Steps \ {"write_cubin"}, Goto(p, l),
         UNCHANGED <<setup, text, memo, mods, got, cubins>>,
         failed' \in {failed, failed + 1}
  PROVE  CubinsFit' /\ Kept' /\ DamageCounted'
<1>1. \A k \in DOMAIN cubins : Loadable(k)
  BY CubinsAreFit
<1>2. CubinsFit'
  BY <1>1, TurnAfter DEF Loadable
<1>3. Kept'
  BY KeptStays, TurnAfter DEF TurnInv, Loadable
<1>4. /\ \A r \in Procs : pc[r] # "write_cubin"
      /\ \A r \in Procs : pc'[r] # "write_cubin"
  BY BuilderAlone, OthersWait DEF TurnInv
<1>5. Damaged' = Damaged
  BY <1>4, TurnAfter DEF Damaged
<1>6. failed' >= failed /\ failed \in Nat /\ failed' \in Nat
  BY DEF Typed
<1>7. Cardinality(Damaged) \in Nat /\ Cardinality(Damaged) <= failed
  BY FS_CardinalityType DEF TurnInv, DamageCounted
<1>8. QED BY <1>2, <1>3, <1>5, <1>6, <1>7 DEF TurnInv, DamageCounted

\* The stages of the others, who wait or fetch, if what fits stays.
LEMMA OthersFit ==
  ASSUME Typed, TurnInv, NEW p \in Procs, Building(p), NEW l \in Steps, Goto(p, l),
         UNCHANGED <<setup, text>>, \A k : Loadable(k) => Loadable(k)',
         /\ l \in {"nvcc", "open_cubin"} => MyKey(p) \notin DOMAIN cubins'
         /\ ~setup.inline /\ l \in {"open_source", "write_source"} =>
              MyKey(p) \notin DOMAIN cubins'
         /\ l = "nvcc" =>
              MyKey(p) \in DOMAIN sources' /\ Whole(sources'[MyKey(p)], MyKey(p))
         /\ l \in {"open_cubin", "write_cubin"} => Whole(read'[p], MyKey(p))
         /\ l = "fetch" =>
              MyKey(p) \in DOMAIN cubins' /\ Fits(cubins'[MyKey(p)], MyKey(p))
  PROVE  StageFits'
<1>1. /\ pc'[p] = l
      /\ \A r \in Procs \ {p} : pc'[r] = pc[r] /\ pc'[r] \in {"idle", "fetch"}
  BY BuilderAlone DEF TurnInv
<1>2. \A r \in Procs : pc[r] = "fetch" => Loadable(MyKey(r))
  BY DEF TurnInv, StageFits
<1>3. \A r \in Procs : Key(text'[r]) = MyKey(r)
  BY DEF MyKey
<1>4. QED BY <1>1, <1>2, <1>3, TurnAfter

LEMMA OpenSourceTurn ==
  ASSUME Typed, TurnInv, NEW p \in Procs, OpenSource(p)
  PROVE  TurnInv'
<1>1. /\ Building(p) /\ pc[p] = "open_source" /\ Goto(p, "write_source")
      /\ sources' = Put(sources, MyKey(p), Partial)
      /\ UNCHANGED <<setup, text, memo, mods, got, cubins, failed>>
  BY DEF OpenSource, Building, SourceKey, MyKey
<1>2. CubinsFit' /\ Kept' /\ DamageCounted'
  BY <1>1, CubinsStay DEF Steps
<1>3. Alone' /\ pc'[p] = "write_source"
  BY <1>1, BuilderAlone DEF TurnInv, Steps
<1>4. SourcesFit'
  <2>1. \A k \in DOMAIN sources : Fits(sources[k], k)
    BY <1>1, SourcesAreFit
  <2>2. Key(text'[p]) = MyKey(p)
    BY <1>1 DEF MyKey
  <2>3. /\ \A k \in DOMAIN sources' : k = MyKey(p) \/ Fits(sources'[k], k)
        /\ sources'[MyKey(p)] = Partial
    BY <1>1, <2>1 DEF Put
  <2>4. QED BY <1>1, <1>3, <2>2, <2>3, TurnAfter
<1>5. StageFits'
  <2>1. ~setup.inline => MyKey(p) \notin DOMAIN cubins'
    BY <1>1 DEF TurnInv, StageFits
  <2>2. \A k : Loadable(k) => Loadable(k)'
    BY <1>1, TurnAfter DEF Loadable
  <2>3. QED BY <1>1, <2>1, <2>2, OthersFit DEF Steps
<1>6. QED BY <1>2, <1>3, <1>4, <1>5 DEF TurnInv

\* The builder's own source is whole once it is written.
LEMMA WriteSourceTurn ==
  ASSUME Typed, TurnInv, NEW p \in Procs, WriteSource(p)
  PROVE  TurnInv'
<1> DEFINE k0 == MyKey(p)
           t0 == IF setup.inline THEN text[p] ELSE <<text[p][1], text[p][2], ver[text[p][1]]>>
           l0 == IF setup.inline /\ IsBuilt(k0) THEN "fetch" ELSE "nvcc"
<1>1. /\ Building(p) /\ pc[p] = "write_source" /\ Goto(p, l0)
      /\ sources' = Put(sources, k0, t0)
      /\ UNCHANGED <<setup, text, memo, mods, got, cubins, failed>>
  BY DEF WriteSource, Building, SourceKey, MyKey
<1>2. Whole(t0, k0)
  <2>1. text[p] \in Texts
    BY <1>1 DEF Typed
  <2>2. t0 \in Texts
    BY <2>1 DEF Texts, Typed
  <2>3. QED BY <2>2 DEF Whole, MyKey, Key, InlineKey, EmitKey
<1>3. IsBuilt(k0) <=> Loadable(k0)
  BY <1>1, CubinsAreFit, FitIsThere DEF IsBuilt, File, Loadable
<1>4. Loadable(k0) <=> k0 \in DOMAIN cubins
  BY <1>1, CubinsAreFit DEF Loadable
<1>5. l0 = "fetch" => Loadable(k0)
  BY <1>3
<1>6. l0 = "nvcc" => k0 \notin DOMAIN cubins'
  BY <1>1, <1>3, <1>4 DEF TurnInv, StageFits
<1>7. l0 \in {"fetch", "nvcc"}
  OBVIOUS
<1> HIDE DEF k0, t0, l0
<1>8. CubinsFit' /\ Kept' /\ DamageCounted'
  BY <1>1, <1>7, CubinsStay DEF Steps
<1>9. Alone'
  BY <1>1, <1>7, BuilderAlone DEF TurnInv, Steps
<1>10. /\ k0 \in DOMAIN sources' /\ Whole(sources'[k0], k0)
       /\ \A k \in DOMAIN sources' : Fits(sources'[k], k)
  <2>1. \A k \in DOMAIN sources : k # k0 => Fits(sources[k], k)
    BY <1>1 DEF TurnInv, SourcesFit, Alone, Building, k0
  <2>2. QED BY <1>1, <1>2, <2>1 DEF Put, Fits
<1>11. SourcesFit'
  BY <1>1, <1>10, TurnAfter
<1>12. StageFits'
  <2>1. \A k : Loadable(k) => Loadable(k)'
    BY <1>1, TurnAfter DEF Loadable
  <2>2. l0 = "fetch" => k0 \in DOMAIN cubins' /\ Fits(cubins'[k0], k0)
    BY <1>1, <1>5 DEF Loadable
  <2>3. QED BY <1>1, <1>6, <1>7, <1>10, <2>1, <2>2, OthersFit DEF Steps, k0
<1>13. QED BY <1>8, <1>9, <1>11, <1>12 DEF TurnInv

\* An emit that fails leaves an older source of the same goal, or gives up.
LEMMA EmitFailsTurn ==
  ASSUME Typed, OneAtATime, TurnInv, NEW p \in Procs, EmitFails(p)
  PROVE  TurnInv'
<1> DEFINE k0 == MyKey(p)
           l0 == IF File(sources, k0) = Missing THEN "idle" ELSE "nvcc"
<1>1. /\ Building(p) /\ pc[p] = "open_source" /\ Goto(p, l0) /\ ~setup.inline
      /\ "emit" \in setup.failures /\ failed' = failed + 1
      /\ UNCHANGED <<setup, text, memo, mods, got, sources, cubins>>
  BY DEF EmitFails, Fails, Building, SourceKey, MyKey
<1>2. "timeout" \notin setup.failures
  BY <1>1 DEF OneAtATime
<1>3. \A k \in DOMAIN sources : Fits(sources[k], k)
  BY <1>1, SourcesAreFit
<1>4. l0 = "nvcc" => k0 \in DOMAIN sources /\ Whole(sources[k0], k0)
  BY <1>2, <1>3 DEF File, Fits
<1>5. k0 \notin DOMAIN cubins
  BY <1>1 DEF TurnInv, StageFits
<1>6. l0 \in {"idle", "nvcc"}
  OBVIOUS
<1> HIDE DEF k0, l0
<1>7. CubinsFit' /\ Kept' /\ DamageCounted'
  BY <1>1, <1>6, CubinsStay DEF Steps
<1>8. Alone'
  BY <1>1, <1>6, BuilderAlone DEF TurnInv, Steps
<1>9. SourcesFit'
  BY <1>1, <1>3, TurnAfter
<1>10. StageFits'
  <2>1. \A k : Loadable(k) => Loadable(k)'
    BY <1>1, TurnAfter DEF Loadable
  <2>2. QED BY <1>1, <1>4, <1>5, <1>6, <2>1, OthersFit DEF Steps, k0
<1>11. QED BY <1>7, <1>8, <1>9, <1>10 DEF TurnInv

LEMMA NvccReadsTurn ==
  ASSUME Typed, TurnInv, NEW p \in Procs, NvccReads(p)
  PROVE  TurnInv'
<1>1. /\ Building(p) /\ pc[p] = "nvcc" /\ Goto(p, "open_cubin")
      /\ read' = [read EXCEPT ![p] = File(sources, MyKey(p))]
      /\ UNCHANGED <<setup, text, memo, mods, got, sources, cubins, failed>>
  BY DEF NvccReads, Building, SourceKey, MyKey
<1>2. /\ MyKey(p) \in DOMAIN sources /\ Whole(sources[MyKey(p)], MyKey(p))
      /\ MyKey(p) \notin DOMAIN cubins
  BY <1>1 DEF TurnInv, StageFits
<1>3. Whole(read'[p], MyKey(p))
  BY <1>1, <1>2 DEF Typed, File
<1>4. CubinsFit' /\ Kept' /\ DamageCounted'
  BY <1>1, CubinsStay DEF Steps
<1>5. Alone'
  BY <1>1, BuilderAlone DEF TurnInv, Steps
<1>6. SourcesFit'
  BY <1>1, SourcesAreFit, TurnAfter
<1>7. StageFits'
  <2>1. \A k : Loadable(k) => Loadable(k)'
    BY <1>1, TurnAfter DEF Loadable
  <2>2. QED BY <1>1, <1>2, <1>3, <2>1, OthersFit DEF Steps
<1>8. QED BY <1>4, <1>5, <1>6, <1>7 DEF TurnInv

\* The half cubin has a builder, and so it is not counted.
LEMMA NvccOpensTurn ==
  ASSUME Typed, TurnInv, NEW p \in Procs, NvccOpens(p)
  PROVE  TurnInv'
<1> DEFINE k0 == MyKey(p)
<1>1. /\ Building(p) /\ pc[p] = "open_cubin" /\ Goto(p, "write_cubin")
      /\ cubins' = Put(cubins, k0, Partial)
      /\ UNCHANGED <<setup, text, memo, mods, got, read, sources, failed>>
  BY DEF NvccOpens, Building
<1>2. k0 \notin DOMAIN cubins /\ Whole(read[p], k0)
  BY <1>1 DEF TurnInv, StageFits
<1>3. Alone' /\ pc'[p] = "write_cubin" /\ \A r \in Procs \ {p} : pc'[r] \in {"idle", "fetch"}
  BY <1>1, BuilderAlone DEF TurnInv, Steps
<1>4. Key(text'[p]) = k0
  BY <1>1 DEF MyKey
<1>5. \A k \in DOMAIN cubins : Loadable(k)
  BY <1>1, CubinsAreFit
<1> HIDE DEF k0
<1>6. /\ DOMAIN cubins' = DOMAIN cubins \cup {k0} /\ cubins'[k0] = Partial
      /\ \A k \in DOMAIN cubins : cubins'[k] = cubins[k]
  BY <1>1, <1>2 DEF Put
<1>7. \A k : Loadable(k) => Loadable(k)'
  BY <1>1, <1>6, TurnAfter DEF Loadable
<1>8. CubinsFit'
  <2>1. \A k \in DOMAIN cubins : Fits(cubins'[k], k)
    BY <1>5, <1>6 DEF Loadable
  <2>2. QED BY <1>1, <1>3, <1>4, <1>6, <2>1, TurnAfter
<1>9. SourcesFit'
  BY <1>1, SourcesAreFit, TurnAfter
<1>10. StageFits'
  BY <1>1, <1>2, <1>7, OthersFit DEF Steps, k0
<1>11. Kept'
  BY <1>1, <1>7, KeptStays DEF TurnInv
<1>12. Damaged' = Damaged
  <2>1. \A r \in Procs : pc[r] # "write_cubin"
    BY <1>1, OthersWait DEF TurnInv
  <2>2. \A k : (\E r \in Procs : pc'[r] = "write_cubin" /\ Key(text'[r]) = k) <=> k = k0
    BY <1>3, <1>4
  <2>3. QED BY <1>1, <1>2, <1>6, <2>1, <2>2, TurnAfter DEF Damaged
<1>13. QED BY <1>1, <1>3, <1>8, <1>9, <1>10, <1>11, <1>12 DEF TurnInv, DamageCounted

\* nvcc completes a cubin of the source it read, which was whole.
LEMMA NvccWritesTurn ==
  ASSUME Typed, TurnInv, NEW p \in Procs, NvccWrites(p)
  PROVE  TurnInv'
<1> DEFINE k0 == MyKey(p)
<1>1. /\ Building(p) /\ pc[p] = "write_cubin" /\ Goto(p, "fetch")
      /\ cubins' = Put(cubins, k0, Compiled(read[p]))
      /\ UNCHANGED <<setup, text, memo, mods, got, read, sources, failed>>
  BY DEF NvccWrites, Building
<1>2. Whole(read[p], k0)
  BY <1>1 DEF TurnInv, StageFits
<1>3. Compiled(read[p]) = read[p] /\ read[p] # Partial
  BY <1>2, MarksAreNoTexts DEF Compiled, Whole
<1>4. Alone' /\ pc'[p] = "fetch" /\ \A r \in Procs : pc'[r] \in {"idle", "fetch"}
  BY <1>1, BuilderAlone DEF TurnInv, Steps
<1>5. \A k : (\E r \in Procs : pc[r] = "write_cubin" /\ MyKey(r) = k) <=> k = k0
  BY <1>1, OthersWait DEF TurnInv
<1> HIDE DEF k0
<1>6. /\ DOMAIN cubins' = DOMAIN cubins \cup {k0} /\ cubins'[k0] = read[p]
      /\ \A k \in DOMAIN cubins : k # k0 => cubins'[k] = cubins[k]
  BY <1>1, <1>3 DEF Put
<1>7. \A k \in DOMAIN cubins' : Fits(cubins'[k], k)
  BY <1>2, <1>5, <1>6 DEF TurnInv, CubinsFit, Fits
<1>8. CubinsFit' /\ \A k : Loadable(k) => Loadable(k)'
  BY <1>1, <1>6, <1>7, TurnAfter DEF Loadable
<1>9. SourcesFit'
  BY <1>1, SourcesAreFit, TurnAfter
<1>10. StageFits'
  BY <1>1, <1>6, <1>7, <1>8, OthersFit DEF Steps, k0
<1>11. Kept'
  BY <1>1, <1>8, KeptStays DEF TurnInv
<1>12. Damaged' = Damaged
  <2>1. \A r \in Procs : pc'[r] # "write_cubin"
    BY <1>4
  <2>2. QED BY <1>1, <1>3, <1>5, <1>6, <2>1, TurnAfter DEF Damaged
<1>13. QED BY <1>1, <1>4, <1>8, <1>9, <1>10, <1>11, <1>12 DEF TurnInv, DamageCounted

\* A timeout leaves one half file, of the key that was being built.
LEMMA TimedOutTurn ==
  ASSUME Typed, ~Complete, TurnInv, NEW p \in Procs, TimedOut(p)
  PROVE  TurnInv'
<1> DEFINE k0 == MyKey(p)
<1>1. /\ Building(p) /\ Goto(p, "idle") /\ "timeout" \in setup.failures
      /\ failed' = failed + 1
      /\ UNCHANGED <<setup, text, memo, mods, got, read, sources, cubins>>
  BY DEF TimedOut, Building, Fails
<1>2. Fits(Partial, k0)
  BY <1>1 DEF Fits
<1>3. Alone' /\ \A r \in Procs : pc'[r] \in {"idle", "fetch"}
  BY <1>1, BuilderAlone DEF TurnInv, Steps
<1>4. \A r \in Procs : Building(r) => r = p
  BY <1>1 DEF TurnInv, Alone
<1>5. /\ \A k \in DOMAIN sources : Fits(sources[k], k)
      /\ \A k \in DOMAIN cubins : Fits(cubins[k], k)
  BY <1>2, <1>4 DEF TurnInv, SourcesFit, CubinsFit, Building
<1>6. SourcesFit' /\ CubinsFit' /\ \A k : Loadable(k) => Loadable(k)'
  BY <1>1, <1>5, TurnAfter DEF Loadable
<1>7. StageFits'
  BY <1>1, <1>6, OthersFit DEF Steps
<1>8. Kept'
  BY <1>1, <1>6, KeptStays DEF TurnInv
<1>9. DamageCounted'
  <2>1. Damaged' \subseteq Damaged \cup {k0}
    BY <1>1, <1>4, TurnAfter DEF Damaged, Building
  <2>2. IsFiniteSet(Damaged) /\ Cardinality(Damaged) <= failed
    BY DEF TurnInv, DamageCounted
  <2>3. /\ IsFiniteSet(Damaged \cup {k0})
        /\ Cardinality(Damaged \cup {k0}) <= Cardinality(Damaged) + 1
    BY <2>2, FS_AddElement, FS_CardinalityType
  <2>4. /\ IsFiniteSet(Damaged')
        /\ Cardinality(Damaged') <= Cardinality(Damaged \cup {k0})
    BY <2>1, <2>3, FS_Subset
  <2>5. /\ Cardinality(Damaged) \in Nat /\ Cardinality(Damaged') \in Nat
        /\ Cardinality(Damaged \cup {k0}) \in Nat /\ failed \in Nat
    BY <2>2, <2>3, <2>4, FS_CardinalityType DEF Typed
  <2>6. QED BY <1>1, <2>2, <2>3, <2>4, <2>5 DEF DamageCounted
<1>10. QED BY <1>3, <1>6, <1>7, <1>8, <1>9 DEF TurnInv

LEMMA FetchTurn ==
  ASSUME Typed, TurnInv, NEW p \in Procs, Fetch(p)
  PROVE  TurnInv'
<1>1. /\ pc[p] = "fetch" /\ pc' = [pc EXCEPT ![p] = "idle"]
      /\ UNCHANGED <<setup, text, read, sources, cubins, failed>>
  BY DEF Fetch, Goto
<1>2. Kept'
  BY <1>1, FetchKeeps DEF TurnInv, StageFits, Typed
<1>3. \A r \in Procs : /\ pc'[r] # "idle" => pc'[r] = pc[r]
                       /\ pc[r] \notin {"idle", "fetch"} => pc'[r] = pc[r]
  BY <1>1 DEF Typed
<1>4. Alone'
  BY <1>3 DEF TurnInv, Alone, Building
<1>5. SourcesFit' /\ CubinsFit' /\ StageFits' /\ Damaged' = Damaged
  BY <1>1, <1>3, TurnAfter DEF TurnInv, SourcesFit, CubinsFit, StageFits, Loadable, Damaged, MyKey
<1>6. QED BY <1>1, <1>2, <1>4, <1>5 DEF TurnInv, DamageCounted

LEMMA NextTurn ==
  ASSUME Typed, ~Complete, OneAtATime, TurnInv, [DiskNext]_diskVars
  PROVE  TurnInv'
<1>1. ASSUME NEW k \in Kernels, Edit(k)
      PROVE  TurnInv'
  <2>1. UNCHANGED <<setup, pc, text, read, sources, cubins, memo, mods, got, failed>>
    BY <1>1 DEF Edit
  <2>2. QED BY <2>1, KeptStays, TurnAfter, TurnStays DEF TurnInv, Loadable
<1>2. ASSUME NEW p \in Procs, Restart(p)
      PROVE  TurnInv'
  BY <1>2, RestartKeeps, TurnStays DEF Restart, TurnInv
<1>3. ASSUME NEW p \in Procs, NEW k \in Kernels, NEW o \in Opts, Ask(p, k, o)
      PROVE  TurnInv'
  BY <1>3, AskTurn
<1>4. ASSUME NEW p \in Procs,
             OpenSource(p) \/ WriteSource(p) \/ EmitFails(p) \/ NvccReads(p) \/
             NvccOpens(p) \/ NvccWrites(p) \/ TimedOut(p) \/ Fetch(p)
      PROVE  TurnInv'
  BY <1>4, OpenSourceTurn, WriteSourceTurn, EmitFailsTurn, NvccReadsTurn, NvccOpensTurn,
     NvccWritesTurn, TimedOutTurn, FetchTurn
<1>5. CASE UNCHANGED diskVars
  <2>1. UNCHANGED <<setup, pc, text, read, sources, cubins, memo, mods, got, failed>>
    BY <1>5 DEF diskVars
  <2>2. QED BY <2>1, KeptStays, TurnAfter, TurnStays DEF TurnInv, Loadable
<1>6. QED BY <1>1, <1>2, <1>3, <1>4, <1>5 DEF DiskNext

LEMMA CacheInvariant == DiskSpec => []CubinInv
<1>1. DiskInit => CubinInv
  BY InitTyped, InitWarm, InitTurn DEF CubinInv
<1>2. CubinInv /\ [DiskNext]_diskVars => CubinInv'
  <2> SUFFICES ASSUME CubinInv, [DiskNext]_diskVars
               PROVE  CubinInv'
    OBVIOUS
  <2>1. Typed'
    BY NextTyped DEF CubinInv
  <2>2. (Complete' <=> Complete) /\ (OneAtATime' <=> OneAtATime)
    BY SettingsStay DEF Complete, OneAtATime
  <2>3. Complete => WarmInv'
    BY NextWarm DEF CubinInv
  <2>4. ~Complete /\ OneAtATime => TurnInv'
    BY NextTurn DEF CubinInv
  <2>5. QED BY <2>1, <2>2, <2>3, <2>4 DEF CubinInv
<1>3. QED BY <1>1, <1>2, PTL DEF DiskSpec

-----------------------------------------------------------------------------
\* What a process fetched fits, in the setups that the properties are about.
LEMMA FetchedFit ==
  ASSUME CubinInv, Complete \/ OneAtATime, NEW g \in Fetched
  PROVE  /\ g.asked \in Texts
         /\ Fits(g.loaded, Key(g.asked))
         /\ g.loaded \in Texts => SameGoal(g.loaded, g.asked)
         /\ g.loaded \in Texts /\ setup.inline => g.loaded = g.asked
<1>1. Kept
  BY DEF CubinInv, WarmInv, TurnInv
<1>2. PICK p \in Procs : \E i \in DOMAIN got[p] : g = got[p][i]
  BY DEF Fetched
<1>3. g.asked \in Texts /\ Fits(g.loaded, Key(g.asked))
  BY <1>1, <1>2 DEF Kept
<1>4. g.loaded \in Texts => Key(g.loaded) = Key(g.asked)
  BY <1>3, MarksAreNoTexts DEF Fits, Whole
<1>5. QED BY <1>3, <1>4, KeyTells

(***************************************************************************)
(* However many processes share the directory, and whatever is edited,     *)
(* restarted or fails to emit, a process of _build_inline runs the kernel  *)
(* compiled from its own source, and one of _emit_and_build a kernel of    *)
(* its own goal, provided that builds come one at a time and no tool       *)
(* hangs, or that the directory is complete.                               *)
(***************************************************************************)
THEOREM KernelsAreAsked == DiskSpec => []KernelIsAsked
<1>1. CubinInv => KernelIsAsked
  <2> SUFFICES ASSUME CubinInv, Sheltered, NEW g \in Fetched
               PROVE  /\ g.loaded \in Texts /\ SameGoal(g.loaded, g.asked)
                      /\ setup.inline => g.loaded = g.asked
    BY DEF KernelIsAsked
  <2>1. Complete \/ (OneAtATime /\ "timeout" \notin setup.failures)
    BY DEF Sheltered, OneAtATime
  <2>2. g.loaded \in Texts
    BY <2>1, FetchedFit DEF Fits, Whole
  <2>3. QED BY <2>1, <2>2, FetchedFit
<1>2. QED BY <1>1, CacheInvariant, PTL

(***************************************************************************)
(* When nobody builds, every cubin is whole and stands under its own key,  *)
(* and each timeout has cost at most the one cubin it cut off: no process  *)
(* ever gets another goal's kernel because of it.                          *)
(***************************************************************************)
THEOREM DirectoryIsWhole == DiskSpec => []FilesAreWhole
<1>1. CubinInv => QuietFiles
  <2> SUFFICES ASSUME CubinInv, Sheltered, \A p \in Procs : ~Building(p)
               PROVE  /\ \A k \in DOMAIN cubins : cubins[k] \in Texts /\ Key(cubins[k]) = k
                      /\ \A p \in Procs : memo[p] \subseteq DOMAIN cubins
    BY DEF QuietFiles
  <2>1. CASE Complete
    BY <2>1 DEF CubinInv, WarmInv, AllBuilt, Whole, Kept, Loadable
  <2>2. CASE ~Complete
    <3>1. TurnInv /\ "timeout" \notin setup.failures
      BY <2>2 DEF CubinInv, Sheltered, OneAtATime
    <3>2. \A k \in DOMAIN cubins : Whole(cubins[k], k)
      BY <3>1 DEF TurnInv, CubinsFit, Fits, Building
    <3>3. QED BY <3>1, <3>2 DEF Whole, TurnInv, Kept, Loadable
  <2>3. QED BY <2>1, <2>2
<1>2. CubinInv => DamageIsContained
  <2> SUFFICES ASSUME CubinInv, OneAtATime
               PROVE  /\ \A g \in Fetched : g.loaded = Partial \/
                           (g.loaded \in Texts /\ SameGoal(g.loaded, g.asked))
                      /\ (\A p \in Procs : ~Building(p)) =>
                           Cardinality({k \in DOMAIN cubins : cubins[k] = Partial}) <= failed
    BY DEF DamageIsContained
  <2>1. \A g \in Fetched : g.loaded = Partial \/
          (g.loaded \in Texts /\ SameGoal(g.loaded, g.asked))
    BY FetchedFit DEF Fits, Whole
  <2>2. CASE Complete
    <3>1. {k \in DOMAIN cubins : cubins[k] = Partial} = {}
      BY <2>2, MarksAreNoTexts DEF CubinInv, WarmInv, AllBuilt, Whole
    <3>2. failed \in Nat
      BY DEF CubinInv, Typed
    <3>3. QED BY <2>1, <3>1, <3>2, FS_EmptySet
  <2>3. CASE ~Complete
    <3>1. TurnInv
      BY <2>3 DEF CubinInv
    <3>2. (\A p \in Procs : ~Building(p)) =>
            Damaged = {k \in DOMAIN cubins : cubins[k] = Partial}
      BY DEF Damaged, Building
    <3>3. QED BY <2>1, <3>1, <3>2 DEF TurnInv, DamageCounted
  <2>4. QED BY <2>2, <2>3
<1>3. CubinInv => FilesAreWhole
  BY <1>1, <1>2 DEF FilesAreWhole
<1>4. QED BY <1>3, CacheInvariant, PTL

(***************************************************************************)
(* A directory that has every cubin is only read: any number of processes  *)
(* may use it at once, whatever hangs and however their questions fall     *)
(* together, although each of them rewrites the sources.                   *)
(***************************************************************************)
THEOREM CompleteIsReadOnly == DiskSpec => WarmIsReadOnly
<1>1. CubinInv /\ [DiskNext]_diskVars => [WarmKept]_diskVars
  BY WarmReads DEF CubinInv, WarmInv, WarmKept
<1>2. QED BY <1>1, CacheInvariant, PTL DEF DiskSpec, WarmIsReadOnly

=============================================================================
