-------------------------- MODULE ResidentForward --------------------------
(***************************************************************************)
(* The dataflow of one device-resident forward (forward_pass_resident):    *)
(* which kernel reads which buffer under every combination of the fusion   *)
(* toggles, and where each buffer comes from: the slab arena, which every  *)
(* layer rewinds, cuMemAlloc, or the two residual buffers that live for    *)
(* ever.  Without _DEVICE_ATTN and _DEVICE_KV_CACHE (HOST_ATTN here) the   *)
(* residual, rope and attention are the host's and a layer uploads thrice. *)
(*                                                                         *)
(* Values are symbolic: a kernel's output is the term of what it computed. *)
(* The toggles are said to be bit-exact, so every combination must build   *)
(* the terms of the reference, decode_fact.forward_pass with q8lin.  Two   *)
(* abstractions: a term that equals one of the reference's is replaced by  *)
(* its name (Named), and a kernel's reduction order is not part of a term. *)
(* Lengths and positions are those of GraphDecode.tla, without capture.    *)
(***************************************************************************)
EXTENDS Integers, Sequences, FiniteSets

CONSTANTS
  NLayers,     \* transformer layers
  Setups       \* the processes to run, one of which a behaviour is of

Flags == {"SLAB", "GRAPH_PREP", "DEVICE_LOGITS", "QFUSED", "V4_QFUSED",
          "FUSE_QKV", "FUSE_GATEUP", "ADDRES_FUSED", "BIAS_FOLD", "APPEND_FUSED",
          "RMS_QUANT_FUSED", "SILU_QUANT_FUSED", "RESID_CARRY_FUSED", "KV_QUANT_Q8",
          "HOST_ATTN"}

ASSUME ForwardAssumption ==
  /\ NLayers \in Nat \ {0}
  /\ Setups \subseteq
       [toggles  : SUBSET Flags,  \* the flags that are on
        cap      : Nat,           \* buffers the slab holds
        forwards : Nat,           \* bound on the forwards of a behaviour
        raises   : Nat]           \* bound on those that raise between operations

VARIABLES
  setup,     \* the process's toggles and bounds, which never change
  pc,        \* the next operation of the forward
  layer,     \* the layer it belongs to
  fwd,       \* forwards begun
  mem,       \* device memory: what each location written so far holds
  ptr,       \* the host's DevTensors: the location each name points to
  off,       \* the slab's bump pointer (_SLAB.off)
  heap,      \* live cuMemAlloc buffers
  scratch,   \* _SCRATCH, those of them that free_scratch will free
  cache,     \* per layer: the K and V rows appended
  logits,    \* the logits of the last forward
  raises,    \* forwards that raised
  overflows  \* of these, on a slab overflow

vars == <<setup, pc, layer, fwd, mem, ptr, off, heap, scratch, cache, logits,
          raises, overflows>>

Layers == 1..NLayers
On(f)  == f \in setup.toggles
OnHost == On("HOST_ATTN")
SlabCap   == setup.cap
NForwards == setup.forwards
MaxRaises == setup.raises

-----------------------------------------------------------------------------
(* Values.                                                                 *)

Garbage == <<"garbage">>
W(n)       == <<"weight", n, layer>>
Rms(x, n)  == <<"rms", x, W(n)>>
Lin(x, n)  == <<"gemv", <<"quant", x>>, W(n)>>
Add(a, b)  == <<"add", {a, b}>>
Biased(x, n) == Add(Lin(x, n), <<"bias", n, layer>>)
Rope(x)    == <<"rope", x>>
Attention(q, rows) == <<"attention", q, rows>>
Silu(g, u) == <<"silu_mul", g, u>>
KvQ(x)     == IF On("KV_QUANT_Q8") THEN <<"q8_round_trip", x>> ELSE x

(* The reference's layer, from the residual it starts with.                *)
X(l)       == <<"x", fwd, l>>
RowName(f) == <<"kv", f, layer>>
RefRow ==
  LET h == Rms(X(layer), "attn_norm")
  IN  <<Rope(KvQ(Biased(h, "k"))), KvQ(Biased(h, "v"))>>
RefLayer ==
  LET h   == Rms(X(layer), "attn_norm")
      y   == Attention(Rope(Biased(h, "q")), [f \in 1..fwd |-> RowName(f)])
      res == Add(X(layer), Lin(y, "attn_output"))
      h2  == Rms(res, "ffn_norm")
  IN  Add(res, Lin(Silu(Lin(h2, "ffn_gate"), Lin(h2, "ffn_up")), "ffn_down"))
FinalNorm(x)  == <<"rms", x, <<"weight", "output_norm", 0>>>>
VocabW        == <<"weight", "output", 0>>
VocabGemv(h)  == <<"gemv", <<"quant", h>>, VocabW>>
VocabMatmul(h) == <<"matmul", h, VocabW>>
LogitsOf(x) ==
  LET h == FinalNorm(x)
  IN  IF On("DEVICE_LOGITS") /\ ~OnHost THEN VocabGemv(h) ELSE VocabMatmul(h)

\* A residual or a row that is the reference's goes by the reference's name.
Named(v) == IF v = RefLayer THEN X(layer + 1) ELSE v
NamedRow(r) == IF r = RefRow THEN RowName(fwd) ELSE r

-----------------------------------------------------------------------------
(* Memory.  An operation's new buffers are a sequence of items: the names  *)
(* it gives them (several for views into one buffer), and their values.    *)

Buffer(names, vals) == [names |-> names, vals |-> vals, scratch |-> FALSE]
Out(n, v)           == Buffer(<<n>>, <<v>>)
Temp(v)             == Buffer(<< >>, <<v>>)
Scratch(v)          == [Temp(v) EXCEPT !.scratch = TRUE]
Nowhere             == << >>

ResidIn  == <<"fixed", 0, 1>>
ResidOut == <<"fixed", 1, 1>>
OnHeap(b) == <<"heap", b, 1>>
Tensor(n) == <<"torch", n, 1>>    \* a tensor of the host

\* cuMemAlloc gives the lowest free buffer, so a freed one is soon reused.
NthFree(i) == CHOOSE b \in 0..(Cardinality(heap) + i) :
  b \notin heap /\ Cardinality((0..b) \ heap) = i

\* The i-th buffer an operation allocates (_scratch_alloc, _empty_dev).
Slot(i)   == IF On("SLAB") THEN off + i - 1 ELSE NthFree(i)
Loc(i, p) == <<IF On("SLAB") THEN "slab" ELSE "heap", Slot(i), p>>

Read(n) == IF n \in DOMAIN ptr /\ ptr[n] \in DOMAIN mem THEN mem[ptr[n]] ELSE Garbage

Fits(n) == On("SLAB") => off + n <= SlabCap

\* The items' values, or their names, as a function from <<item, position>>.
Parts(seqs) == UNION {{<<i, p>> : p \in DOMAIN seqs[i]} : i \in DOMAIN seqs}

\* Memory with the work's buffers, in which an operation has also written to
\* places that exist already.
Written(work, places) ==
  LET vals  == [i \in DOMAIN work |-> work[i].vals]
      At(a) == {c \in Parts(vals) : Loc(c[1], c[2]) = a}
      new   == {Loc(c[1], c[2]) : c \in Parts(vals)}
  IN  [a \in new \cup DOMAIN places \cup DOMAIN mem |->
         CASE a \in new -> LET c == CHOOSE c \in At(a) : TRUE IN vals[c[1]][c[2]]
           [] a \in DOMAIN places \ new -> places[a]
           [] OTHER -> mem[a]]

Pointed(work) ==
  LET names == [i \in DOMAIN work |-> work[i].names]
      Of(n) == {c \in Parts(names) : names[c[1]][c[2]] = n}
      new   == {names[c[1]][c[2]] : c \in Parts(names)}
  IN  [n \in new \cup DOMAIN ptr |->
         IF n \in new THEN LET c == CHOOSE c \in Of(n) : TRUE IN Loc(c[1], c[2])
                      ELSE ptr[n]]

\* The slab hands out consecutive buffers; cuMemAlloc's are remembered in
\* _SCRATCH when they are scratch (twice; the second free is an error that
\* free_scratch ignores).
Allocate(work) ==
  IF On("SLAB")
  THEN off' = off + Len(work) /\ UNCHANGED <<heap, scratch>>
  ELSE /\ heap' = heap \cup {Slot(i) : i \in DOMAIN work}
       /\ scratch' = scratch \cup {Slot(i) : i \in {j \in DOMAIN work : work[j].scratch}}
       /\ UNCHANGED off

\* The forward raises: nothing is freed.
Abandon ==
  /\ raises' = raises + 1
  /\ pc' = "idle"
  /\ UNCHANGED <<setup, layer, fwd, mem, ptr, heap, scratch, logits>>

\* _SlabArena.alloc raises once the buffers that still fitted are handed out.
Overflow ==
  /\ Abandon
  /\ off' = SlabCap
  /\ overflows' = overflows + 1

\* One operation: its buffers, the places it writes to, and what comes next.
Launch(work, places, next) ==
  /\ Fits(Len(work))
  /\ Allocate(work)
  /\ mem' = Written(work, places)
  /\ ptr' = Pointed(work)
  /\ pc' = next
  /\ UNCHANGED <<setup, layer, fwd, logits, raises, overflows>>

LaunchOrOverflow(work, places, next) ==
  /\ \/ Launch(work, places, next)
     \/ /\ ~Fits(Len(work))
        /\ Overflow
  /\ UNCHANGED cache

-----------------------------------------------------------------------------
(* The linears: the buffers each one allocates, under the given names.     *)

InKernelQuant == On("QFUSED") \/ On("V4_QFUSED")
QuantScratch(v) == <<Scratch(<<"quant", v>>), Scratch(<<"scales", v>>)>>

\* q8_linear_dev: the quantised input is scratch, unless the GEMV quantises.
LinearWork(x, names, vals) ==
  (IF InKernelQuant THEN << >> ELSE QuantScratch(x)) \o <<Buffer(names, vals)>>

\* q8_linear_add_residual_dev has no in-kernel quantisation.
AddResWork(x, names, vals) == QuantScratch(x) \o <<Buffer(names, vals)>>

\* q8_linear_dev_bias, for the outputs ns of one GEMV.
BiasedWork(x, ns) ==
  LET biased == [i \in DOMAIN ns |-> Biased(x, ns[i])]
  IN  IF On("BIAS_FOLD") /\ On("ADDRES_FUSED")
      THEN AddResWork(x, ns, biased)
      ELSE LinearWork(x, << >>, [i \in DOMAIN ns |-> Lin(x, ns[i])])
             \o <<Buffer(ns, biased)>>

\* (The slip beside GateUpInput: no quantisation honours rms_src.)
SlipRawGateUp == Read("xres")

\* What the fused gate/up GEMV quantises: rms_src is honoured by the
\* stand-alone quant kernel only.
GateUpInput ==
  IF InKernelQuant THEN Read("xres") ELSE Rms(Read("xres"), "ffn_norm")

SiluFused  == On("ADDRES_FUSED") /\ On("SILU_QUANT_FUSED")
CarryFused == On("GRAPH_PREP") /\ On("ADDRES_FUSED") /\ On("RESID_CARRY_FUSED")
RmsFused   == On("RMS_QUANT_FUSED") /\ On("FUSE_GATEUP") /\ ~OnHost

-----------------------------------------------------------------------------
Init ==
  /\ setup \in Setups
  /\ pc = "idle" /\ layer = 1 /\ fwd = 0
  /\ mem = << >> /\ ptr = << >>
  /\ off = 0 /\ heap = {} /\ scratch = {}
  /\ cache = [l \in Layers |-> << >>]
  /\ logits = Garbage
  /\ raises = 0 /\ overflows = 0

\* The embedding goes to _RESID_IN, or to a buffer of DevTensor.from_host.
Begin ==
  /\ pc = "idle" /\ fwd < NForwards /\ ~OnHost
  /\ fwd' = fwd + 1 /\ layer' = 1 /\ pc' = "attn_norm"
  /\ LET home == IF On("GRAPH_PREP") THEN ResidIn ELSE OnHeap(NthFree(1))
     IN  /\ mem' = [a \in {home} \cup DOMAIN mem |->
                      IF a = home THEN <<"x", fwd + 1, 1>> ELSE mem[a]]
         /\ ptr' = [n \in {"x"} \cup DOMAIN ptr |-> IF n = "x" THEN home ELSE ptr[n]]
         /\ heap' = IF On("GRAPH_PREP") THEN heap ELSE heap \cup {NthFree(1)}
  /\ UNCHANGED <<setup, off, scratch, cache, logits, raises, overflows>>

AttnNorm ==
  /\ pc = "attn_norm"
  /\ LaunchOrOverflow(<<Out("h", Rms(Read("x"), "attn_norm"))>>, Nowhere, "qkv")

QkvFused ==
  /\ pc = "qkv" /\ On("FUSE_QKV")
  /\ LaunchOrOverflow(BiasedWork(Read("h"), <<"q", "k", "v">>), Nowhere, "attend")

\* The round trip of K and V through 8 bits follows in place.
QkvSeparate ==
  /\ pc = "qkv" /\ ~On("FUSE_QKV")
  /\ LET h == Read("h")
     IN  LaunchOrOverflow(BiasedWork(h, <<"q">>) \o BiasedWork(h, <<"k">>)
                            \o BiasedWork(h, <<"v">>), Nowhere, "kv_quant")

KvQuant ==
  /\ pc = "kv_quant"
  /\ LaunchOrOverflow(<< >>,
       [a \in {ptr["k"], ptr["v"]} |-> KvQ(mem[a])], "attend")

\* Rope in place (reading the position from two scratch ints outside
\* GRAPH_PREP), the append, and attention over the cache.
RopeScratch == IF On("GRAPH_PREP") THEN << >> ELSE <<Scratch(<<"pos">>), Scratch(<<"pos">>)>>
NewRow      == NamedRow(<<Rope(Read("k")), Read("v")>>)
Append1     == [cache EXCEPT ![layer] = Append(@, NewRow)]

Attend ==
  /\ pc = "attend" /\ ~OnHost
  /\ Launch(RopeScratch \o <<Out("y", Attention(Rope(Read("q")), Append1[layer]))>>,
            [a \in {ptr["q"], ptr["k"]} |-> Rope(mem[a])], "o_proj")
  /\ cache' = Append1

\* Attention's output does not fit: the row is in the cache already, unless
\* rope's scratch did not fit either.
AttendOverflow ==
  /\ pc = "attend" /\ ~OnHost
  /\ ~Fits(Len(RopeScratch) + 1)
  /\ Overflow
  /\ cache' = IF Fits(Len(RopeScratch)) THEN Append1 ELSE cache

OProj ==
  /\ pc = "o_proj" /\ ~OnHost
  /\ LET y   == Read("y")
         res == Add(Read("x"), Lin(y, "attn_output"))
     IN  LaunchOrOverflow(
           IF On("ADDRES_FUSED")
           THEN AddResWork(y, <<"xres">>, <<res>>)
           ELSE LinearWork(y, << >>, <<Lin(y, "attn_output")>>) \o <<Out("xres", res)>>,
           Nowhere, "ffn")

GateUpRmsFused ==
  /\ pc = "ffn" /\ RmsFused
  /\ LET z == GateUpInput
     IN  LaunchOrOverflow(LinearWork(z, <<"g", "u">>, <<Lin(z, "ffn_gate"), Lin(z, "ffn_up")>>),
                          Nowhere, "down")

GateUp ==
  /\ pc = "ffn" /\ ~RmsFused
  /\ LET h2 == Rms(Read("xres"), "ffn_norm")
         g  == Lin(h2, "ffn_gate")
         u  == Lin(h2, "ffn_up")
     IN  LaunchOrOverflow(
           <<Out("h2", h2)>> \o
             (IF On("FUSE_GATEUP")
              THEN LinearWork(h2, <<"g", "u">>, <<g, u>>)
              ELSE LinearWork(h2, <<"g">>, <<g>>) \o LinearWork(h2, <<"u">>, <<u>>)),
           Nowhere, "down")

\* The down projection.  Its addres form reads silu(g)*u from g and u, or from
\* a buffer, and may write its sum where the next layer starts.  Otherwise the
\* buffer is computed twice, the first never read.
DownOut == Named(Add(Read("xres"), Lin(Silu(Read("g"), Read("u")), "ffn_down")))

DownAddRes ==
  /\ pc = "down" /\ On("ADDRES_FUSED") /\ ~OnHost
  /\ LET gu == Silu(Read("g"), Read("u"))
     IN  LaunchOrOverflow(
           (IF SiluFused THEN << >> ELSE <<Out("gu", gu)>>)
             \o QuantScratch(gu) \o (IF CarryFused THEN << >> ELSE <<Out("out", DownOut)>>),
           IF CarryFused THEN [a \in {ResidOut} |-> DownOut] ELSE Nowhere, "carry")

DownAdd ==
  /\ pc = "down" /\ ~On("ADDRES_FUSED") /\ ~OnHost
  /\ LET gu == Silu(Read("g"), Read("u"))
     IN  LaunchOrOverflow(
           <<Out("gu", gu), Temp(gu)>> \o LinearWork(gu, << >>, <<Lin(gu, "ffn_down")>>)
             \o <<Out("out", DownOut)>>, Nowhere, "carry")

(* The layer's end: the residual moves on, then free_scratch.              *)
NextOp == IF layer < NLayers THEN "attn_norm" ELSE "final"
NextLayer == IF layer < NLayers THEN layer + 1 ELSE layer

\* Freed memory holds nothing one may read; rewound slab memory still does.
Freed(m, bufs) == [a \in {b \in DOMAIN m : b[1] = "heap" => b[2] \notin bufs} |-> m[a]]

FreeScratch(m, live) ==
  IF On("SLAB")
  THEN off' = 0 /\ heap' = live /\ mem' = m /\ UNCHANGED scratch
  ELSE heap' = live \ scratch /\ mem' = Freed(m, scratch) /\ scratch' = {} /\ UNCHANGED off

SlipNothingOwned == {}

\* x_resident, when the forward owns it: it never owns _RESID_IN or _RESID_OUT.
OwnedResidual == IF On("GRAPH_PREP") THEN {} ELSE {ptr["x"][2]}

\* (The slip: no copy out of the layer's memory.)
SlipHandOver == IF CarryFused THEN ResidOut ELSE ptr["out"]

\* Where GRAPH_PREP leaves the residual for the next layer.
CarryHome == ResidOut

CarryFixed ==
  /\ pc = "carry" /\ On("GRAPH_PREP") /\ ~OnHost
  /\ ptr' = [ptr EXCEPT !["x"] = CarryHome]
  /\ FreeScratch(IF CarryFused THEN mem
                 ELSE [a \in {ResidOut} \cup DOMAIN mem |->
                         IF a = ResidOut THEN Read("out") ELSE mem[a]], heap)
  /\ pc' = NextOp /\ layer' = NextLayer
  /\ UNCHANGED <<setup, fwd, cache, logits, raises, overflows>>

CarryCopied ==
  /\ pc = "carry" /\ ~On("GRAPH_PREP") /\ ~OnHost
  /\ LET nxt == NthFree(1)
     IN  /\ FreeScratch([a \in {OnHeap(nxt)} \cup DOMAIN Freed(mem, OwnedResidual) |->
                           IF a = OnHeap(nxt) THEN Read("out") ELSE mem[a]],
                        (heap \cup {nxt}) \ OwnedResidual)
         /\ ptr' = [ptr EXCEPT !["x"] = OnHeap(nxt)]
  /\ pc' = NextOp /\ layer' = NextLayer
  /\ UNCHANGED <<setup, fwd, cache, logits, raises, overflows>>

\* _compute_folded_logits reads _RESID_OUT, which only GRAPH_PREP fills.
DeviceLogits ==
  /\ pc = "final" /\ On("DEVICE_LOGITS") /\ On("GRAPH_PREP") /\ ~OnHost
  /\ logits' = LogitsOf(mem[ResidOut])
  /\ pc' = "idle"
  /\ UNCHANGED <<setup, layer, fwd, mem, ptr, off, heap, scratch, cache, raises, overflows>>

DeviceLogitsRefused ==
  /\ pc = "final" /\ On("DEVICE_LOGITS") /\ ~On("GRAPH_PREP") /\ ~OnHost
  /\ Abandon
  /\ UNCHANGED <<off, cache, overflows>>

HostLogits ==
  /\ pc = "final" /\ ~On("DEVICE_LOGITS") /\ ~OnHost
  /\ logits' = LogitsOf(Read("x"))
  /\ heap' = heap \ OwnedResidual
  /\ mem' = Freed(mem, OwnedResidual)
  /\ pc' = "idle"
  /\ UNCHANGED <<setup, layer, fwd, ptr, off, scratch, cache, raises, overflows>>

-----------------------------------------------------------------------------
(* The layer with the residual, rope and attention on the host.  Its       *)
(* projections are QkvFused, QkvSeparate, KvQuant and GateUp.              *)

Put(m, a, v) == [b \in {a} \cup DOMAIN m |-> IF b = a THEN v ELSE m[b]]
Point(n, a)  == [k \in {n} \cup DOMAIN ptr |-> IF k = n THEN a ELSE ptr[k]]

HostBegin ==
  /\ pc = "idle" /\ fwd < NForwards /\ OnHost
  /\ fwd' = fwd + 1 /\ layer' = 1 /\ pc' = "upload"
  /\ mem' = Put(mem, Tensor("xh"), <<"x", fwd + 1, 1>>) /\ ptr' = Point("xh", Tensor("xh"))
  /\ UNCHANGED <<setup, off, heap, scratch, cache, logits, raises, overflows>>

\* DevTensor.from_host, whose buffer nobody frees.
Upload(from, to) ==
  LET new == NthFree(1)
  IN  /\ heap' = heap \cup {new}
      /\ mem' = Put(mem, OnHeap(new), Read(from)) /\ ptr' = Point(to, OnHeap(new))
      /\ UNCHANGED <<setup, layer, fwd, off, scratch, cache, logits, raises, overflows>>

HostUpload ==
  \/ pc = "upload" /\ Upload("xh", "x") /\ pc' = "attn_norm"
  \/ pc = "y" /\ Upload("yh", "y") /\ pc' = "o_proj"
  \/ pc = "xd2" /\ Upload("xh", "x") /\ pc' = "add"

\* q, k and v are read back before free_scratch.  The rows are kept in torch
\* tensors, or go to the device cache and are read back from it.
HostAttend ==
  /\ pc = "attend" /\ OnHost
  /\ cache' = Append1
  /\ FreeScratch(Put(mem, Tensor("yh"), Attention(Rope(Read("q")), Append1[layer])), heap)
  /\ ptr' = Point("yh", Tensor("yh"))
  /\ pc' = "y"
  /\ UNCHANGED <<setup, layer, fwd, logits, raises, overflows>>

HostOProj ==
  /\ pc = "o_proj" /\ OnHost
  /\ LET y == Read("y")
     IN  LaunchOrOverflow(LinearWork(y, <<"od">>, <<Lin(y, "attn_output")>>), Nowhere, "xd2")

HostAdd ==
  /\ pc = "add"
  /\ LaunchOrOverflow(<<Out("xres", Add(Read("x"), Read("od")))>>, Nowhere, "ffn")

HostDown ==
  /\ pc = "down" /\ OnHost
  /\ LET gu == Silu(Read("g"), Read("u"))
     IN  LaunchOrOverflow(
           <<Out("gu", gu)>> \o LinearWork(gu, << >>, <<Lin(gu, "ffn_down")>>)
             \o <<Out("out", DownOut)>>, Nowhere, "carry")

\* The residual comes back to the host before free_scratch.
HostCarry ==
  /\ pc = "carry" /\ OnHost
  /\ FreeScratch(Put(mem, Tensor("xh"), Read("out")), heap)
  /\ pc' = (IF layer < NLayers THEN "upload" ELSE "final") /\ layer' = NextLayer
  /\ UNCHANGED <<setup, fwd, ptr, cache, logits, raises, overflows>>

HostFinal ==
  /\ pc = "final" /\ OnHost
  /\ logits' = LogitsOf(Read("xh"))
  /\ pc' = "idle"
  /\ UNCHANGED <<setup, layer, fwd, mem, ptr, off, heap, scratch, cache, raises, overflows>>

HostLayer == HostBegin \/ HostUpload \/ HostAttend \/ HostOProj \/ HostAdd \/ HostDown
               \/ HostCarry \/ HostFinal

-----------------------------------------------------------------------------
\* A kernel does not build or launch, or the user interrupts.
Raise ==
  /\ pc # "idle" /\ raises < MaxRaises
  /\ Abandon
  /\ UNCHANGED <<off, cache, overflows>>

Next ==
  \/ Begin \/ AttnNorm \/ QkvFused \/ QkvSeparate \/ KvQuant
  \/ Attend \/ AttendOverflow \/ OProj \/ GateUpRmsFused \/ GateUp
  \/ DownAddRes \/ DownAdd \/ CarryFixed \/ CarryCopied
  \/ DeviceLogits \/ DeviceLogitsRefused \/ HostLogits \/ Raise
  \/ HostLayer

Spec == Init /\ [][Next]_vars

-----------------------------------------------------------------------------
(* Properties.                                                             *)

\* What the reference computes: the residual a layer starts with, the rows of
\* every cache, and the logits of the forward.
Faithful ==
  /\ pc = "attn_norm" => Read("x") = X(layer)
  /\ pc = "add" => Read("x") = X(layer)
  /\ \A l \in Layers : cache[l] = [f \in DOMAIN cache[l] |-> <<"kv", f, l>>]
  /\ pc = "idle" /\ fwd > 0 => logits = LogitsOf(X(NLayers + 1))

\* The two compositions of toggles that drop an operation of the reference:
\* the ffn norm when the GEMV quantises, K and V's 8 bits when QKV is fused.
DropsFfnNorm == RmsFused /\ InKernelQuant
DropsKvQuant == On("KV_QUANT_Q8") /\ On("FUSE_QKV")

\* "Produces the SAME logits + kv_cache as decode_fact.forward_pass": under
\* every other combination of the toggles, residuals, cached rows and logits
\* are the reference's, through every reuse of a slab slot, a freed buffer or
\* a residual home by a later layer or forward.
SameForward == raises = 0 /\ ~DropsFfnNorm /\ ~DropsKvQuant => Faithful

\* The gate of GraphRunner.seed promises that a composition it lets through
\* is not value-divergent.
Refused == On("QFUSED") /\ (On("BIAS_FOLD") \/ On("APPEND_FUSED"))
CertifiedIsFaithful ==
  On("GRAPH_PREP") /\ On("SLAB") /\ ~Refused /\ raises = 0 /\ ~DropsKvQuant => Faithful

\* kv_quantize_q8 makes every cached K and V genuinely round-trip through 8 bits.
KvRoundTrips ==
  On("KV_QUANT_Q8") /\ raises = 0 /\ ~DropsFfnNorm =>
    \A l \in Layers : cache[l] = [f \in DOMAIN cache[l] |-> <<"kv", f, l>>]

\* With the slab a decode leaves no buffer of cuMemAlloc behind and every forward
\* finds all of the slab free, unless one before it raised: memory does not grow
\* with the tokens, whichever toggles route the residual.  But attention on the
\* host leaves three buffers of every layer behind, and no more than those.
HeapSteady ==
  On("SLAB") /\ raises = 0 /\ pc = "idle" =>
    /\ off = 0
    /\ Cardinality(heap) = IF OnHost THEN 3 * NLayers * fwd ELSE 0

\* What the rest of a layer still reads is in memory that no allocation hands
\* out again and no free_scratch frees first, also after forwards that raised
\* and left the slab's pointer, scratch buffers or a residual behind; and what
\* free_scratch will free is live, so that nothing is freed twice.
Needed ==
  CASE pc = "idle" -> {}
    [] pc \in {"upload", "final"} /\ OnHost -> {"xh"}
    [] pc = "attn_norm" \/ (pc = "final" /\ ~OnHost) -> {"x"}
    [] pc = "qkv" -> {"x", "h"}
    [] pc \in {"kv_quant", "attend"} -> {"x", "q", "k", "v"}
    [] pc = "y" -> {"xh", "yh"}
    [] pc = "o_proj" -> {"x", "y"}
    [] pc = "xd2" -> {"xh", "od"}
    [] pc = "add" -> {"x", "od"}
    [] pc = "ffn" -> {"xres"}
    [] pc = "down" -> {"xres", "g", "u"}
    [] pc = "carry" -> IF CarryFused /\ ~OnHost THEN {} ELSE {"out"}
NeededIsHeld ==
  /\ scratch \subseteq heap /\ off \in 0..SlabCap
  /\ \A n \in Needed :
    /\ n \in DOMAIN ptr
    /\ CASE ptr[n][1] = "slab"  -> ptr[n][2] < off
         [] ptr[n][1] = "heap"  -> ptr[n][2] \in heap \ scratch
         [] ptr[n][1] = "fixed" -> On("GRAPH_PREP")
         [] ptr[n][1] = "torch" -> OnHost
=============================================================================
