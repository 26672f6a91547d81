----------------------------- MODULE LlamaBlock -----------------------------
(***************************************************************************)
(* bpd_llama_forward_cpu: the C forward pass of bpd-substrate.  A block is *)
(* a fixed list of kernel calls over four buffers that are used again and  *)
(* again, and a key and a value cache whose elements are two or four bytes *)
(* wide.  bpd_llamatov_infer.py calls it on the whole sequence for every   *)
(* token; its kv_pos allows to call it on the last token alone.  Before    *)
(* that it asks swipl for the configuration and for the tensors' places,   *)
(* by scripts under names that every process of the user shares.           *)
(*                                                                         *)
(* A buffer holds one term per current token, <<kernel, operands>>, where  *)
(* a weight is <<how it is read, tensor, whose offsets>>.  The caches are  *)
(* memory: a unit is one row of two-byte elements.                         *)
(***************************************************************************)
EXTENDS Integers, Sequences

CONSTANTS
  Vocab,    \* what the argmax may be
  Starts,   \* prompts
  Depth,    \* n_layers
  Slots,    \* max_seq_len
  MaxLen    \* bound: no call beyond so many tokens

\* generate raises where a sequence is longer than max_seq_len.
ASSUME LlamaAssumption ==
  /\ Depth \in Nat \ {0} /\ Slots \in Nat
  /\ \A s \in Starts : s \in Seq(Vocab) /\ Len(s) <= Slots

VARIABLES
  cfg,      \* [f16, again]: kv_cache_f16, and whether each call takes all tokens;
            \* [tied, peer]: whether the file has no output.weight, and what a
            \* second process of the user loads meanwhile, if there is one
  query,    \* [at, script, conf, places]: how far the load is, what the script
            \* holds, whose configuration and offsets were printed
  toks,     \* the sequence so far
  kvPos,    \* the call's kv_pos; its tokens are those from there on
  block, call,   \* the block and the kernel call the C code is at
  buf,      \* x, s1, s2, s3, logits: index of current token -> term
  caches    \* k, v: unit -> the piece of a row it holds

llamaVars == <<cfg, query, toks, kvPos, block, call, buf, caches>>

Zero == <<"zero">>

------------------------------------------------------------------------------
(* The model the file is read into.                                         *)

\* The other file of a second process has one layer; what the configuration
\* defaults to are the numbers of the model at hand, Llama 3.2 1B.
Blocks == IF query.conf = "other" THEN 1 ELSE Depth

SlipFields == [attn_norm_w |-> <<"f32", "attn_norm">>, w_q |-> <<"q8_0", "attn_q">>,
  w_k |-> <<"q8_0", "attn_k">>, w_v |-> <<"q8_0", "attn_v">>, w_o |-> <<"q8_0", "attn_output">>,
  ffn_norm_w |-> <<"f32", "ffn_norm">>, w_gate |-> <<"q8_0", "ffn_up">>,
  w_up |-> <<"q8_0", "ffn_gate">>, w_down |-> <<"q8_0", "ffn_down">>]

\* Fields of a layer's structure, how each is read, and from which tensor.
Fields == [attn_norm_w |-> <<"f32", "attn_norm">>, w_q |-> <<"q8_0", "attn_q">>,
  w_k |-> <<"q8_0", "attn_k">>, w_v |-> <<"q8_0", "attn_v">>, w_o |-> <<"q8_0", "attn_output">>,
  ffn_norm_w |-> <<"f32", "ffn_norm">>, w_gate |-> <<"q8_0", "ffn_gate">>,
  w_up |-> <<"q8_0", "ffn_up">>, w_down |-> <<"q8_0", "ffn_down">>]

\* The bytes of the own file at the offset that was printed for the tensor.
ReadAs(as, tensor) == <<as, tensor, query.places>>
TokenEmbd   == ReadAs("q8_0", "token_embd")
OutputNormW == ReadAs("f32", "output_norm")
OutputW     == IF cfg.tied THEN TokenEmbd ELSE ReadAs("q8_0", "output")
LayerWeight(l, field) == ReadAs(Fields[field][1], <<l, Fields[field][2]>>)

\* The script is written before swipl is started; a second process opens the
\* same file, which empties it, and closes it with its own text.  The text
\* follows from the file and its layers alone.
WriteScript ==
  /\ query.at \in {"config", "tensors"}
  /\ query' = [query EXCEPT !.script = "own",
                            !.at = IF @ = "config" THEN "config run" ELSE "tensors run"]
PeerOpens ==
  /\ cfg.peer # "none" /\ query.script = "own"
  /\ query' = [query EXCEPT !.script = "part"]
PeerCloses ==
  /\ query.script = "part"
  /\ query' = [query EXCEPT !.script = IF cfg.peer = "same" THEN "own" ELSE "other"]

\* A script in parts prints nothing and exits with 0, or waits for its input
\* until the timeout.  No metadata is no error: each value has a default.
QueryConfig ==
  /\ query.at = "config run"
  /\ \/ query' = [query EXCEPT !.at = "tensors", !.script = "none",
                      !.conf = IF query.script = "part" THEN "default" ELSE query.script]
     \/ /\ query.script = "part"
        /\ query' = [query EXCEPT !.at = "raised"]

\* No offset of a tensor that is asked for: KeyError.
Placed == \/ query.script = "own"
          \/ query.script = "other" /\ Blocks = 1
QueryTensors ==
  /\ query.at = "tensors run"
  /\ query' = IF Placed THEN [query EXCEPT !.at = "loaded", !.places = query.script]
              ELSE [query EXCEPT !.at = "raised"]

Load ==
  /\ (WriteScript \/ PeerOpens \/ PeerCloses \/ QueryConfig \/ QueryTensors)
  /\ UNCHANGED <<cfg, toks, kvPos, block, call, buf, caches>>

------------------------------------------------------------------------------
(* The caches.                                                              *)

Width == IF cfg.f16 THEN 1 ELSE 2
Units == 0..(Blocks * Slots * Width - 1)
ZeroMem == [k |-> [u \in Units |-> Zero], v |-> [u \in Units |-> Zero]]

\* k_cache is a uint16_t*: a layer's cache starts kv_layer_stride of those
\* after the one before it; within it, rows have the width of the elements.
Unit(l, p, j) == (l - 1) * Slots + Width * p + j
Pieces(l, p) == {Unit(l, p, j) : j \in 0..(Width - 1)}

\* A two-byte element is the value rounded.
Cached(c, term) == IF c.f16 THEN <<"f16", term>> ELSE term

\* bpd_kv_cache_write_cpu and _f16_cpu: token t goes to row pos_ids[t].
RowsWritten(m, l, terms) ==
  [u \in Units |->
     IF \E t \in DOMAIN terms : u \in Pieces(l, kvPos + t - 1)
     THEN LET t == CHOOSE t \in DOMAIN terms : u \in Pieces(l, kvPos + t - 1)
          IN  <<Cached(cfg, terms[t]), u - Unit(l, kvPos + t - 1, 0)>>
     ELSE m[u]]

\* What attention reads as row p.
Row(m, l, p) ==
  LET u == Unit(l, p, 0)
  IN  IF \E x \in {m[u]} : x # Zero /\ x[2] = 0 /\ \A j \in 0..(Width - 1) : m[u + j] = <<x[1], j>>
      THEN m[u][1] ELSE <<"torn", [j \in 0..(Width - 1) |-> m[u + j]]>>

------------------------------------------------------------------------------
(* The block: kernel calls 1 to 16, each with its operands and its result.  *)

Call(kernel, with, from, to) == [kernel |-> kernel, with |-> with, from |-> from, to |-> to]

Program ==
  << Call("norm", "attn_norm_w", <<"x">>, "s1"),
     Call("matmul", "w_q", <<"s1">>, "s2"),
     Call("matmul", "w_k", <<"s1">>, "s3"),
     Call("rope", "", <<"s2">>, "s2"),
     Call("rope", "", <<"s3">>, "s3"),
     Call("write", "", <<"s3">>, "k"),
     Call("matmul", "w_v", <<"s1">>, "s3"),
     Call("write", "", <<"s3">>, "v"),
     Call("attend", "", <<"s2">>, "s1"),
     Call("matmul", "w_o", <<"s1">>, "s2"),
     Call("add", "", <<"x", "s2">>, "x"),
     Call("norm", "ffn_norm_w", <<"x">>, "s1"),
     Call("matmul", "w_gate", <<"s1">>, "s2"),
     Call("matmul", "w_up", <<"s1">>, "s3"),
     Call("swiglu", "", <<"s2", "s3">>, "s2"),
     Call("matmul", "w_down", <<"s2">>, "s1"),
     Call("add", "", <<"x", "s1">>, "x") >>

Now == Program[call]
Current == 1..(Len(toks) - kvPos)
InBlock == query.at = "ready" /\ block \in 1..Blocks /\ call \in DOMAIN Program
AtCall(kernels) == InBlock /\ Now.kernel \in kernels
Weights(k) == IF k.with = "" THEN << >> ELSE <<LayerWeight(block, k.with)>>

\* Every kernel works on each current token by itself but attention.
Kernel ==
  /\ AtCall({"norm", "matmul", "add", "swiglu"})
  /\ buf' = [buf EXCEPT ![Now.to] =
               [i \in Current |-> <<Now.kernel>> \o Weights(Now) \o [o \in DOMAIN Now.from |-> buf[Now.from[o]][i]]]]
  /\ call' = call + 1
  /\ UNCHANGED <<cfg, query, toks, kvPos, block, caches>>

\* In place; pos_ids is kv_pos, kv_pos + 1 and so on.
RopeInPlace ==
  /\ AtCall({"rope"})
  /\ buf' = [buf EXCEPT ![Now.to] = [i \in Current |-> <<"rope", kvPos + i - 1, buf[Now.from[1]][i]>>]]
  /\ call' = call + 1
  /\ UNCHANGED <<cfg, query, toks, kvPos, block, caches>>

WriteCache ==
  /\ AtCall({"write"})
  /\ caches' = [caches EXCEPT ![Now.to] = RowsWritten(@, block, buf[Now.from[1]])]
  /\ call' = call + 1
  /\ UNCHANGED <<cfg, query, toks, kvPos, block, buf>>

\* All max_seq_len rows; those after kv_pos + qt are masked, weight 0.
AttendRows ==
  /\ AtCall({"attend"})
  /\ buf' = [buf EXCEPT ![Now.to] =
               [i \in Current |->
                 <<"attend", buf[Now.from[1]][i],
                   [p \in 0..(kvPos + i - 1) |-> <<Row(caches.k, block, p), Row(caches.v, block, p)>>]>>]]
  /\ call' = call + 1
  /\ UNCHANGED <<cfg, query, toks, kvPos, block, caches>>

NextBlock ==
  /\ query.at = "ready" /\ block \in 1..Blocks /\ call = Len(Program) + 1
  /\ block' = block + 1
  /\ call' = 1
  /\ UNCHANGED <<cfg, query, toks, kvPos, buf, caches>>

\* The final norm, into scratch1, and the output projection.
Logits ==
  /\ query.at = "ready" /\ block = Blocks + 1 /\ call = 1
  /\ LET normed == [i \in Current |-> <<"norm", OutputNormW, buf.x[i]>>]
     IN  buf' = [buf EXCEPT !.s1 = normed, !.logits = [i \in Current |-> <<"matmul", OutputW, normed[i]>>]]
  /\ call' = 2
  /\ UNCHANGED <<cfg, query, toks, kvPos, block, caches>>

------------------------------------------------------------------------------
(* The caller.                                                              *)

Fresh(seq, from) ==
  [b \in {"x", "s1", "s2", "s3", "logits"} |->
     [i \in 1..(Len(seq) - from) |-> IF b = "x" THEN <<"embed", TokenEmbd, seq[from + i]>> ELSE Zero]]

LlamaInit ==
  /\ cfg \in [f16 : BOOLEAN, again : BOOLEAN, tied : BOOLEAN, peer : {"none", "same", "other"}]
  /\ query = [at |-> "config", script |-> "none", conf |-> "none", places |-> "none"]
  /\ toks \in Starts
  /\ kvPos = 0 /\ block = 0 /\ call = 0
  /\ buf = << >> /\ caches = << >>

\* build_model returns; generate() makes the first call.
FirstCall ==
  /\ query.at = "loaded"
  /\ query' = [query EXCEPT !.at = "ready", !.script = "none"]
  /\ buf' = Fresh(toks, 0) /\ caches' = ZeroMem
  /\ block' = 1 /\ call' = 1
  /\ UNCHANGED <<cfg, toks, kvPos>>

Returned == query.at = "ready" /\ block = Blocks + 1 /\ call = 2

\* generate(): all tokens again, with caches set to zero; or the last alone.
NextToken ==
  /\ Returned /\ Len(toks) < MaxLen /\ Len(toks) < Slots
  /\ \E t \in Vocab : toks' = Append(toks, t)
  /\ kvPos' = IF cfg.again THEN 0 ELSE Len(toks)
  /\ buf' = Fresh(toks', kvPos')
  /\ caches' = IF cfg.again THEN ZeroMem ELSE caches
  /\ block' = 1 /\ call' = 1
  /\ UNCHANGED <<cfg, query>>

LlamaNext ==
  \/ Load \/ FirstCall \/ NextToken
  \/ Kernel \/ RopeInPlace \/ WriteCache \/ AttendRows \/ NextBlock \/ Logits

LlamaSpec == LlamaInit /\ [][LlamaNext]_llamaVars

------------------------------------------------------------------------------
(* Properties.                                                              *)

\* The layers and the head as run and llama_layer of llamatov_run.py write them,
\* on a whole sequence, but for the rounding of what goes through the cache: xs
\* are the hidden states below layer l, one for each token.
Own(as, tensor)    == <<as, tensor, "own">>
Normed(l, name, a) == <<"norm", Own("f32", <<l, name>>), a>>
Mul(l, name, a)    == <<"matmul", Own("q8_0", <<l, name>>), a>>
Query(l, a, p)     == <<"rope", p, Mul(l, "attn_q", Normed(l, "attn_norm", a))>>
Key(c, l, a, p)    == Cached(c, <<"rope", p, Mul(l, "attn_k", Normed(l, "attn_norm", a))>>)
Value(c, l, a)     == Cached(c, Mul(l, "attn_v", Normed(l, "attn_norm", a)))
Attended(c, l, xs, i) ==
  <<"attend", Query(l, xs[i], i - 1),
    [p \in 0..(i - 1) |-> <<Key(c, l, xs[p + 1], p), Value(c, l, xs[p + 1])>>]>>
Middle(c, l, xs, i) == <<"add", xs[i], Mul(l, "attn_output", Attended(c, l, xs, i))>>
Gated(l, a) ==
  Mul(l, "ffn_down", <<"swiglu", Mul(l, "ffn_gate", Normed(l, "ffn_norm", a)),
                                 Mul(l, "ffn_up", Normed(l, "ffn_norm", a))>>)
Above(c, l, xs, i) == <<"add", Middle(c, l, xs, i), Gated(l, Middle(c, l, xs, i))>>

Hidden(c, seq) ==
  LET h[l \in 0..Depth] ==
        IF l = 0 THEN [i \in DOMAIN seq |-> <<"embed", Own("q8_0", "token_embd"), seq[i]>>]
        ELSE [i \in DOMAIN seq |-> Above(c, l, h[l - 1], i)]
  IN  h

Scores(c, a) ==
  <<"matmul", Own("q8_0", IF c.tied THEN "token_embd" ELSE "output"),
    <<"norm", Own("f32", "output_norm"), a>>>>

Whole(c, seq) == LET top == Hidden(c, seq)[Depth]
                 IN  [i \in DOMAIN seq |-> Scores(c, top[i])]

Result == \A i \in Current : buf.logits[i] = Whole(cfg, toks)[kvPos + i]

\* Four buffers are enough: what a kernel reads has not been overwritten, a
\* token's row is the one its own block wrote, and every weight is the tensor
\* of its name and layer (bpd_cpu.c:5637-5735, bpd_llamatov_infer.py:303-324).
\* So a call computes what the whole sequence would, token by token or at once,
\* and a second process on the same file does no harm: a load that read half a
\* script fails or falls back to the same numbers.
\* Not claimed for a second process on another file, which leaves its offsets,
\* nor for four-byte caches and one token at a time past half of max_seq_len,
\* where LayersApart fails.
ForwardIsWhole ==
  (/\ Returned /\ cfg.peer # "other"
   /\ cfg.f16 \/ cfg.again \/ 2 * Len(toks) <= Slots) => Result

\* The caches are [n_layers, max_seq_len, n_kv_heads*head_dim]: a row of one
\* layer is not part of another layer's (bpd_cpu.c:5740-5749).
LayersApart == (Returned /\ cfg.peer # "other") => Result
=============================================================================
