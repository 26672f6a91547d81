---------------------------- MODULE FactDispatch ----------------------------
(***************************************************************************)
(* The operations a forward is computed with on the host: the helpers of   *)
(* llamatov_helpers.py by torch, or, with BPD_FACT_DISPATCH, fact_dispatch *)
(* with kernels emitted from facts.  Every launch uploads its operands,    *)
(* and frees them afterwards; quantised weights stay on the device.  No    *)
(* status of the driver is looked at.                                      *)
(*                                                                         *)
(* An array is a function on its flat indices; an element is a term over   *)
(* the elements of the call's operands.  The order of additions is left    *)
(* out: a sum is the set of its products.                                  *)
(***************************************************************************)
EXTENDS Integers, Sequences, FiniteSets, TLC

CONSTANTS
  Programs,      \* the calls a process makes
  RowBlock,      \* threads of a block: 256 of the row kernels,
  GemvBlock,     \* 64 of the GEMV,
  GemmBlock,     \* 512 of the GEMM, whose
  Tile, TM, TN,  \* tiles are 128 wide and high and whose threads own 8 by 4 elements
  Quant,         \* elements of a block of Q8_0: 32
  MaxFaults      \* calls of the driver that fail

VARIABLES
  prog, turn,  \* the program, and the call it is at
  pc,
  got,         \* what the launches of this call gave so far
  bufs,        \* the device buffers of this launch
  dev,         \* the device: contents by address, addresses in use, whether the context is lost
  built,       \* tag -> kernel, the cubins
  loaded,      \* tag -> whether its function was found, _MODFN_CACHE
  kept,        \* key -> two buffers, _DEV_WEIGHT_CACHE
  faults,
  hit,         \* whether one concerns this call: it happened in it or in loading what it uses
  spoiled,     \* keys of the weights whose upload failed
  answer

dispatchVars == <<prog, turn, pc, got, bufs, dev, built, loaded, kept, faults, hit, spoiled, answer>>

------------------------------------------------------------------------------
(* Calls, arrays and terms                                                  *)

Call(op, fact, x, n, opt) == [op |-> op, fact |-> fact, x |-> x, n |-> n, opt |-> opt]
call == prog[turn]
Cols(x) == x[Len(x)]
RowsOf(x) == IF Len(x) = 1 THEN 1 ELSE IF Len(x) = 2 THEN x[1] ELSE x[1] * x[2]
Index(n) == 0 .. n - 1
\* An operand; those of another turn are other arrays.
Fresh(name, n) == [i \in Index(n) |-> <<name, turn, i>>]
Weight(name, n) == [i \in Index(n) |-> <<name, 0, i>>]
Sum(pairs) == <<"sum", pairs>>
Junk == <<"junk", {}>>
Masked == <<"masked", {}>>

MatMul(a, b, m, n, k) ==
  [c \in Index(m * n) |-> Sum({<<a[(c \div n) * k + i], b[i * n + (c % n)]>> : i \in Index(k)})]
RowAt(a, n, r) == [j \in Index(n) |-> a[r * n + j]]
Rms(a, w, n, eps) == [c \in DOMAIN a |-> <<"rms", RowAt(a, n, c \div n), c % n, w[c % n], eps>>]
Soft(a, n, scale) == [c \in DOMAIN a |-> <<"soft", RowAt(a, n, c \div n), c % n, scale>>]
SiluMul(g, u) == [c \in DOMAIN g |-> <<"silu mul", g[c], u[c]>>]
Array(kind, shape, at) == [kind |-> kind, shape |-> shape, at |-> at]
WithCols(x, n) == [x EXCEPT ![Len(x)] = n]

------------------------------------------------------------------------------
(* llamatov_helpers: attention of all tokens at once.  opt has the heads of *)
(* q, those of k and v, and their width; arrays are [head, token, width].   *)

Dims(o) == [T |-> call.x[Len(call.x) - 1], H |-> o.heads, G |-> o.kv, D |-> o.width]
\* llama_qkv_split, and merge_heads back.
Split(p, heads, T, D) ==
  [c \in Index(heads * T * D) |-> p[((c \div D) % T) * heads * D + (c \div (T * D)) * D + (c % D)]]
Merge(y, heads, T, D) ==
  [c \in Index(heads * T * D) |-> y[((c \div D) % heads) * T * D + (c \div (heads * D)) * D + (c % D)]]
\* attention_qkv_split: part 0, 1 or 2 of GPT-2's one projection.
Third(qkv, part, C, T) == [c \in Index(T * C) |-> qkv[(c \div C) * 3 * C + part * C + (c % C)]]
\* apply_rope: the two halves of a head are turned together.
Rope(x, T, D) ==
  LET half == D \div 2
      pair(c) == <<x[c], x[c + half], (c \div D) % T, c % D>> \* by cos and sin of its token and frequency
  IN [c \in DOMAIN x |-> IF c % D < half THEN <<"x1 cos - x2 sin", pair(c)>>
                         ELSE <<"x1 sin + x2 cos", pair(c - half)>>]
Expand(kv, G, H, T, D) ==
  [c \in Index(H * T * D) |-> kv[((c \div (T * D)) \div (H \div G)) * T * D + (c % (T * D))]]
\* Scaled and masked products of head h with those of head g.
Scores(q, k, h, g, T, D) ==
  [c \in Index(T * T) |-> IF c % T > c \div T THEN Masked
                         ELSE Sum({<<q[h * T * D + (c \div T) * D + i], k[g * T * D + (c % T) * D + i]>> : i \in Index(D)})]
HeadOf(v, g, T, D) == [c \in Index(T * D) |-> v[g * T * D + c]]
Joined(heads, T, D) == [c \in Index(Len(heads) * T * D) |-> heads[c \div (T * D) + 1][c % (T * D)]]
\* causal_attention and llama_causal_attention, k and v having q's heads.
CausalAttention(q, k, v, H, T, D) ==
  LET head(h) == MatMul(Soft(Scores(q, k, h, h, T, D), T, 1), HeadOf(v, h, T, D), T, D, T)
  IN Joined([h \in 1 .. H |-> head(h - 1)], T, D)

\* What attention is given: projections split into heads, q and k rotated.
Given ==
  LET d == Dims(call.opt)
      proj(name, heads) == Split(Fresh(name, d.T * heads * d.D), heads, d.T, d.D)
      qkv == Fresh("qkv", 3 * d.T * d.H * d.D)
      part(n) == Split(Third(qkv, n, d.H * d.D, d.T), d.H, d.T, d.D)
  IN IF call.op = "gpt2" THEN [q |-> part(0), k |-> part(1), v |-> part(2)]
     ELSE [q |-> Rope(proj("q", d.H), d.T, d.D), k |-> Rope(proj("k", d.G), d.T, d.D), v |-> proj("v", d.G)]
TorchAttention ==
  LET d == Dims(call.opt)
      expanded(kv) == Expand(kv, d.G, d.H, d.T, d.D)
  IN Merge(CausalAttention(Given.q, expanded(Given.k), expanded(Given.v), d.H, d.T, d.D), d.H, d.T, d.D)
Torch ==
  LET x == Fresh("x", RowsOf(call.x) * Cols(call.x))
      m == RowsOf(call.x)   k == Cols(call.x)   n == call.n
      up(name) == MatMul(x, Fresh(name, k * n), m, n, k)
  IN CASE call.op = "rms_norm" -> Array("torch", call.x, Rms(x, Fresh("w", k), k, call.opt))
       [] call.op = "linear"   -> Array("torch", WithCols(call.x, n), up("w"))
       [] call.op = "swiglu"   -> Array("torch", call.x, MatMul(SiluMul(up("gate"), up("up")), Fresh("down", n * k), m, k, n))
       [] call.op \in {"attention", "gpt2"} -> Array("torch", call.x, TorchAttention)

------------------------------------------------------------------------------
(* quantize_q8_0 and _quantize_weight_q8_0: a quant is its element in its   *)
(* block, a scale is of the block.                                          *)

BlockOf(a, b) == {a[b * Quant + i] : i \in Index(Quant)}
Quants(a) == [i \in DOMAIN a |-> <<"q", a[i], BlockOf(a, i \div Quant)>>]
Scales(a) == [b \in Index(Cardinality(DOMAIN a) \div Quant) |-> <<"d", BlockOf(a, b)>>]
Transposed(w, k, n) == [c \in Index(k * n) |-> w[(c % k) * n + (c \div k)]]
Quantised == call.op \in {"q8", "q8_silu", "q8_given"}
\* The key of _Q8_WEIGHT_CACHE, and so of the buffers: the shape and four elements.
SampleKey(w, k, n) ==
  IF k * n < 4 THEN <<k, n, Sum({w[c] : c \in Index(k * n)})>>
  ELSE <<k, n, w[0], w[(k * n) \div 3], w[(k * n) \div 2], w[k * n - 1]>>
Unblocked == Quantised /\ Cols(call.x) % Quant # 0 \* reshape raises

------------------------------------------------------------------------------
(* The launches of a call: the kernel, the arrays uploaded, the extents     *)
(* passed and the length of the output                                      *)

Upward(a, b) == (a + b - 1) \div b
Kernel(name, opt) == [name |-> name, opt |-> opt]
SlipTag(k) == k.name
\* The cubin is looked up by a tag that the options are part of (rms_norm: %g of eps).
Tag(k) == <<k.name, k.opt>>
Job(kernel, ins, m, n, k, out, opt) ==
  [kernel |-> kernel, ins |-> ins, m |-> m, n |-> n, k |-> k, out |-> out, opt |-> opt]
RowJob(x, w, eps) == Job(Kernel("k_rmsnorm", eps), <<x, w>>, RowsOf(call.x), Cols(call.x), 0, Cardinality(DOMAIN x), 0)
SoftJob(x, m, n, scale) == Job(Kernel("k_softmax", "none"), <<x>>, m, n, 0, m * n, scale)
GemmJob(a, b, m, n, k) == Job(Kernel("k_gemm", "none"), <<a, b>>, m, n, k, m * n, 0)
GemvJob(x, t) ==
  LET row == RowAt(x, Cols(call.x), t)
      wt == Transposed(Weight(call.opt, Cols(call.x) * call.n), Cols(call.x), call.n)
      given == IF call.op = "q8_given" THEN <<Quants(wt), Scales(wt)>> ELSE << >>
      epilogue == IF call.op = "q8_silu" THEN "silu" ELSE "acc"
  IN Job(Kernel("k_q8_0_gemv", epilogue), given \o <<Quants(row), Scales(row)>>, call.n, 0, Cols(call.x), call.n, 0)

Count ==
  CASE call.op \in {"rms_norm", "linear", "softmax"} -> 1
    [] call.op = "swiglu"    -> 3
    [] call.op = "attention" -> call.opt.heads
    [] Quantised             -> RowsOf(call.x)
NextJob ==
  LET x == Fresh("x", RowsOf(call.x) * Cols(call.x))
      m == RowsOf(call.x)   k == Cols(call.x)   n == call.n   done == Len(got)
  IN CASE call.op = "rms_norm" -> RowJob(x, Fresh("w", k), call.opt)
       [] call.op = "softmax"  -> SoftJob(x, m, k, call.opt)
       [] call.op = "linear"   -> GemmJob(x, Fresh("w", k * n), m, n, k)
       [] call.op = "swiglu" /\ done < 2 -> GemmJob(x, Fresh(<<"gate", "up">>[done + 1], k * n), m, n, k)
       [] call.op = "swiglu" /\ done = 2 -> GemmJob(SiluMul(got[1], got[2]), Fresh("down", n * k), m, k, n)
       [] call.op = "attention" ->
            LET d == Dims(call.opt)
            IN SoftJob(Scores(Given.q, Given.k, done, done \div (d.H \div d.G), d.T, d.D), d.T, d.T, 1)
       [] Quantised -> GemvJob(x, done)

\* What the wrapper makes of the launches' results.
Assembled ==
  LET flat == [c \in Index(Len(got) * call.n) |-> got[c \div call.n + 1][c % call.n]]
      d == Dims(call.opt)
      value(h) == HeadOf(Given.v, (h - 1) \div (d.H \div d.G), d.T, d.D)
      heads == [h \in 1 .. d.H |-> MatMul(got[h], value(h), d.T, d.D, d.T)]
  IN CASE call.op \in {"rms_norm", "softmax"} -> Array("torch", call.x, got[1])
       [] call.op = "linear"    -> Array("torch", WithCols(call.x, call.n), got[1])
       [] call.op = "swiglu"    -> Array("numpy", call.x, got[3]) \* its last product is given a numpy array
       [] call.op = "attention" -> Array("torch", call.x, Merge(Joined(heads, d.T, d.D), d.H, d.T, d.D))
       [] call.op = "q8_given"  -> Array("torch", IF Len(call.x) = 1 THEN <<call.n>> ELSE <<RowsOf(call.x), call.n>>, flat)
       [] Quantised             -> Array("torch", WithCols(call.x, call.n), flat)

------------------------------------------------------------------------------
(* The device                                                               *)

At(a, i) == IF i \in DOMAIN a THEN a[i] ELSE Junk
Allocated(d) == CHOOSE p \in 1 .. Cardinality(d.used) + 1 : p \notin d.used /\ \A q \in 1 .. p - 1 : q \in d.used
\* An array is allocated and copied; fault says which of the two fails.  A freed
\* address comes back with what lies there.
Put(d, a, fault) ==
  IF d.lost \/ fault = "alloc" THEN [dev |-> d, ptr |-> 0]
  ELSE LET p == Allocated(d)
           old == IF p \in DOMAIN d.mem THEN d.mem[p] ELSE << >>
       IN [dev |-> [d EXCEPT !.used = @ \cup {p}, !.mem = (p :> IF fault = "copy" THEN old ELSE a @@ old) @@ @], ptr |-> p]
Free(d, ps) == IF d.lost THEN d ELSE [d EXCEPT !.used = @ \ ps]

\* The elements a launch writes.
GemmCells(m, n) ==
  LET own(tid) == {<<(tid \div (Tile \div TN)) * TM + i, (tid % (Tile \div TN)) * TN + j>> : i \in Index(TM), j \in Index(TN)}
      tile == UNION {own(tid) : tid \in Index(GemmBlock)}
  IN {c \in Index(m * n) : /\ c \div n < Upward(m, Tile) * Tile
                           /\ c % n < Upward(n, Tile) * Tile
                           /\ <<(c \div n) % Tile, (c % n) % Tile>> \in tile}
RowCells(m, n, block) == {c \in Index(m * n) : c \div n < Upward(m, block) * block}

\* k_gemm reads A[r, i] and B[i, c]; k_q8_0_gemv a row of Wq and a scale for each block.
GemmOf(a, b, j) ==
  [c \in GemmCells(j.m, j.n) |-> Sum({<<At(a, (c \div j.n) * j.k + i), At(b, i * j.n + (c % j.n))>> : i \in Index(j.k)})]
GemvOf(wq, wd, xq, xd, j, silu) ==
  LET blocks == j.k \div Quant
      isum(r, b) == {<<At(wq, r * j.k + b * Quant + i), At(xq, b * Quant + i)>> : i \in Index(Quant)}
      acc(r) == Sum({<<At(wd, r * blocks + b), At(xd, b), isum(r, b)>> : b \in Index(blocks)})
  IN [r \in RowCells(j.m, 1, GemvBlock) |-> IF silu THEN <<"silu", acc(r)>> ELSE acc(r)]
Output(kernel, j, in) ==
  LET row(c) == [i \in Index(j.n) |-> At(in[1], (c \div j.n) * j.n + i)]
  IN CASE kernel.name = "k_rmsnorm" ->
            [c \in RowCells(j.m, j.n, RowBlock) |-> <<"rms", row(c), c % j.n, At(in[2], c % j.n), kernel.opt>>]
       [] kernel.name = "k_softmax" -> [c \in RowCells(j.m, j.n, RowBlock) |-> <<"soft", row(c), c % j.n, j.opt>>]
       [] kernel.name = "k_gemm"    -> GemmOf(in[1], in[2], j)
       [] kernel.name = "k_q8_0_gemv" -> GemvOf(in[1], in[2], in[3], in[4], j, kernel.opt = "silu")

------------------------------------------------------------------------------
(* Actions                                                                  *)

DispatchInit ==
  /\ prog \in Programs /\ turn = 1 /\ pc = "call" /\ got = << >> /\ bufs = << >>
  /\ dev = [mem |-> << >>, used |-> {}, lost |-> FALSE] /\ built = << >> /\ loaded = << >> /\ kept = << >>
  /\ faults = 0 /\ hit = FALSE /\ spoiled = {} /\ answer = << >>

\* At most MaxFaults calls fail, and none fails anew once the context is lost.
Faulty(fault, concerns) ==
  /\ fault # "none" => faults < MaxFaults /\ ~dev.lost
  /\ faults' = IF fault = "none" THEN faults ELSE faults + 1
  /\ hit' = (hit \/ fault # "none" \/ concerns)
KeepsWeights == call.op \in {"q8", "q8_silu"}

\* Without BPD_FACT_DISPATCH, and what has no kernel.
TorchCall ==
  /\ pc = "call" /\ ~call.fact
  /\ answer' = Torch /\ pc' = "returned"
  /\ UNCHANGED <<prog, turn, got, bufs, dev, built, loaded, kept, faults, hit, spoiled>>
ValueError ==
  /\ pc = "call" /\ Unblocked
  /\ answer' = "ValueError" /\ pc' = "returned"
  /\ UNCHANGED <<prog, turn, got, bufs, dev, built, loaded, kept, faults, hit, spoiled>>
\* _emit_and_build, which keeps a cubin that is there.
EmitAndBuild ==
  /\ pc = "call" /\ call.fact /\ ~Unblocked /\ Len(got) < Count
  /\ built' = built @@ (Tag(NextJob.kernel) :> NextJob.kernel)
  /\ pc' = IF KeepsWeights THEN "weights" ELSE "function"
  /\ UNCHANGED <<prog, turn, got, bufs, dev, loaded, kept, faults, hit, spoiled, answer>>
EmitOrBuildFails ==
  /\ pc = "call" /\ call.fact /\ ~Unblocked /\ Len(got) < Count /\ Tag(NextJob.kernel) \notin DOMAIN built
  /\ Faulty("build", TRUE)
  /\ answer' = "RuntimeError" /\ pc' = "returned"
  /\ UNCHANGED <<prog, turn, got, bufs, dev, built, loaded, kept, spoiled>>
\* _dev_weight; for a call's later rows the same buffers.
DevWeight ==
  /\ pc = "weights"
  /\ \E f \in {"none", "alloc", "copy"}, first \in BOOLEAN :
       LET k == Cols(call.x)
           w == Weight(call.opt, k * call.n)
           key == SampleKey(w, k, call.n)
           wq == Put(dev, Quants(Transposed(w, k, call.n)), IF first THEN f ELSE "none")
           wd == Put(wq.dev, Scales(Transposed(w, k, call.n)), IF first THEN "none" ELSE f)
       IN /\ f = "none" => ~first
          /\ key \in DOMAIN kept => f = "none"
          /\ Faulty(f, key \in spoiled)
          /\ spoiled' = IF f = "none" THEN spoiled ELSE spoiled \cup {key}
          /\ IF key \in DOMAIN kept THEN bufs' = kept[key] /\ UNCHANGED <<dev, kept>>
             ELSE bufs' = <<wq.ptr, wd.ptr>> /\ dev' = wd.dev /\ kept' = kept @@ (key :> bufs')
  /\ pc' = "function"
  /\ UNCHANGED <<prog, turn, got, built, loaded, answer>>
\* _func loads a module once; the null function of one that failed is kept too.
Func ==
  /\ pc = "function"
  /\ \E f \in {"none", "load"} :
       LET tag == Tag(NextJob.kernel)
       IN /\ tag \in DOMAIN loaded => f = "none"
          /\ loaded' = loaded @@ (tag :> (f = "none" /\ ~dev.lost))
          /\ Faulty(f, ~loaded'[tag])
  /\ pc' = "upload"
  /\ UNCHANGED <<prog, turn, got, bufs, dev, built, kept, spoiled, answer>>
Own == IF KeepsWeights THEN 2 ELSE 0 \* buffers that are not this launch's own
Upload ==
  /\ pc = "upload" /\ Len(bufs) < Own + Len(NextJob.ins)
  /\ \E f \in {"none", "alloc", "copy"} :
       LET put == Put(dev, NextJob.ins[Len(bufs) - Own + 1], f)
       IN Faulty(f, FALSE) /\ dev' = put.dev /\ bufs' = Append(bufs, put.ptr)
  /\ UNCHANGED <<prog, turn, pc, got, built, loaded, kept, spoiled, answer>>
AllocOutput ==
  /\ pc = "upload" /\ Len(bufs) = Own + Len(NextJob.ins)
  /\ \E f \in {"none", "alloc"} :
       LET put == Put(dev, << >>, f)
       IN Faulty(f, FALSE) /\ dev' = put.dev /\ bufs' = Append(bufs, put.ptr)
  /\ pc' = "launch"
  /\ UNCHANGED <<prog, turn, got, built, loaded, kept, spoiled, answer>>
\* A kernel that is given a null pointer costs the context.
Launch ==
  /\ pc = "launch"
  /\ \E f \in {"none", "launch"} :
       LET j == NextJob
           in == [b \in 1 .. Len(bufs) - 1 |-> dev.mem[bufs[b]]]
           out == bufs[Len(bufs)]
       IN /\ Faulty(f, FALSE)
          /\ dev' = IF dev.lost \/ f # "none" \/ ~loaded[Tag(j.kernel)] THEN dev
                    ELSE IF \E b \in DOMAIN bufs : bufs[b] = 0 THEN [dev EXCEPT !.lost = TRUE]
                    ELSE [dev EXCEPT !.mem[out] = Output(built[Tag(j.kernel)], j, in) @@ @]
  /\ pc' = "fetch"
  /\ UNCHANGED <<prog, turn, got, bufs, built, loaded, kept, spoiled, answer>>
SlipFreed(bs) == {bs[b] : b \in DOMAIN bs}
\* The weights' buffers are kept.
Freed(bs) == {bs[b] : b \in Own + 1 .. Len(bs)}
\* The result is copied into an array of np.empty, and the buffers are freed.
Fetch ==
  /\ pc = "fetch"
  /\ \E f \in {"none", "copy"} :
       LET out == bufs[Len(bufs)]
           failed == dev.lost \/ f # "none" \/ out = 0
       IN /\ Faulty(f, FALSE)
          /\ got' = Append(got, [c \in Index(NextJob.out) |-> IF failed THEN Junk ELSE At(dev.mem[out], c)])
  /\ dev' = Free(dev, Freed(bufs)) /\ bufs' = << >> /\ pc' = "call"
  /\ UNCHANGED <<prog, turn, built, loaded, kept, spoiled, answer>>
Return ==
  /\ pc = "call" /\ call.fact /\ ~Unblocked /\ Len(got) = Count
  /\ answer' = Assembled /\ pc' = "returned"
  /\ UNCHANGED <<prog, turn, got, bufs, dev, built, loaded, kept, faults, hit, spoiled>>
NextCall ==
  /\ pc = "returned" /\ turn < Len(prog)
  /\ turn' = turn + 1 /\ pc' = "call" /\ got' = << >> /\ hit' = FALSE /\ answer' = << >>
  /\ UNCHANGED <<prog, bufs, dev, built, loaded, kept, faults, spoiled>>

DispatchNext ==
  \/ TorchCall \/ ValueError \/ EmitAndBuild \/ EmitOrBuildFails \/ DevWeight \/ Func \/ Upload
  \/ AllocOutput \/ Launch \/ Fetch \/ Return \/ NextCall
DispatchSpec == DispatchInit /\ [][DispatchNext]_dispatchVars

------------------------------------------------------------------------------
(* The operations by their definitions, on coordinates                      *)

X(t, j) == <<"x", turn, t * Cols(call.x) + j>>
Linear(name, t, c) == Sum({<<X(t, i), <<name, turn, i * call.n + c>>>> : i \in Index(Cols(call.x))})
\* Element j of the head h of the projection of token t, turned if it is q's or k's.
Projected(name, heads, t, h, j) ==
  LET o == call.opt
      third == CASE name = "q" -> 0 [] name = "k" -> 1 [] name = "v" -> 2
      at(i) == IF call.op = "gpt2" THEN <<"qkv", turn, ((t * 3 + third) * heads + h) * o.width + i>>
               ELSE <<name, turn, (t * heads + h) * o.width + i>>
      half == o.width \div 2
  IN IF call.op = "gpt2" \/ name = "v" THEN at(j)
     ELSE IF j < half THEN <<"x1 cos - x2 sin", <<at(j), at(j + half), t, j>>>>
     ELSE <<"x1 sin + x2 cos", <<at(j - half), at(j), t, j - half>>>>
Attended(t, h, j) ==
  LET o == call.opt   d == Dims(o)   g == h \div (d.H \div d.G)
      score(s) == IF s > t THEN Masked
                  ELSE Sum({<<Projected("q", d.H, t, h, i), Projected("k", d.G, s, g, i)>> : i \in Index(d.D)})
      row == [s \in Index(d.T) |-> score(s)]
  IN Sum({<<<<"soft", row, s, 1>>, Projected("v", d.G, s, g, j)>> : s \in Index(d.T)})
\* A product of row t of x with column c of the weights, both in blocks of 8 bits.
Quantum(t, c) ==
  LET w == [i \in Index(Cols(call.x)) |-> <<call.opt, 0, i * call.n + c>>]
      x == [i \in Index(Cols(call.x)) |-> X(t, i)]
      within(a, b) == {a[i] : i \in {b * Quant + j : j \in Index(Quant)}}
      quant(a, i, b) == <<"q", a[b * Quant + i], within(a, b)>>
      block(b) == <<<<"d", within(w, b)>>, <<"d", within(x, b)>>, {<<quant(w, i, b), quant(x, i, b)>> : i \in Index(Quant)}>>
  IN Sum({block(b) : b \in Index(Cols(call.x) \div Quant)})
Element(t, c) ==
  LET row == [j \in Index(Cols(call.x)) |-> X(t, j)]
      inner(i) == <<"silu mul", Linear("gate", t, i), Linear("up", t, i)>>
  IN CASE call.op = "rms_norm" -> <<"rms", row, c, <<"w", turn, c>>, call.opt>>
       [] call.op = "softmax"  -> <<"soft", row, c, call.opt>>
       [] call.op = "linear"   -> Linear("w", t, c)
       [] call.op = "swiglu"   -> Sum({<<inner(i), <<"down", turn, i * Cols(call.x) + c>>>> : i \in Index(call.n)})
       [] call.op \in {"attention", "gpt2"} -> Attended(t, c \div call.opt.width, c % call.opt.width)
       [] call.op \in {"q8", "q8_given"} -> Quantum(t, c)
       [] call.op = "q8_silu" -> <<"silu", Quantum(t, c)>>
OutCols == IF call.op = "linear" \/ Quantised THEN call.n ELSE Cols(call.x)
Defined == [c \in Index(RowsOf(call.x) * OutCols) |-> Element(c \div OutCols, c % OutCols)]

\* What a call returns is its operation's definition, by torch as by facts, whatever
\* was called before it, unless a failed call of the driver concerns it or the context
\* is lost; and a tensor is answered by a tensor, but by swiglu_fact.  Then nothing but
\* cached weights is left on the device.
OpsAsDefined ==
  pc = "returned" /\ ~dev.lost =>
    /\ dev.used = UNION {{kept[w][1], kept[w][2]} : w \in DOMAIN kept} \ {0}
    /\ IF Unblocked THEN answer = "ValueError"
       ELSE ~hit => answer.at = Defined /\ (answer.kind = "numpy" <=> call.op = "swiglu" /\ call.fact)
=============================================================================
