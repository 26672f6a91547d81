----------------------------- MODULE HostDecode -----------------------------
(***************************************************************************)
(* The host engines: scripts that decode a GGUF model with torch, or that  *)
(* keep the loop on the host and send products to the device.  run() of    *)
(* llamatov_run.py recomputes the whole sequence; every other engine keeps *)
(* keys and values, and must compute what run() would.                     *)
(*                                                                         *)
(* A hidden state is a term: the layer that made it, its input, the rotary *)
(* position it was turned to, and the cached rows it attended to.  What a  *)
(* layer computes is told apart by its norm, its activation, whether it    *)
(* rotates and which of the layer's tensors it uses.                       *)
(***************************************************************************)
EXTENDS Integers, Sequences, FiniteSets

CONSTANTS
  Tokens,   \* what argmax may return
  Prompts,  \* input_ids: non-empty sequences of tokens
  NLayers,
  NTokens,  \* n_tokens asked for
  MaxSeq    \* MAX_SEQ of the fixed caches

ASSUME HostAssumption ==
  /\ Prompts \subseteq Seq(Tokens) \ {<< >>}
  /\ NLayers \in Nat \ {0} /\ NTokens \in Nat /\ MaxSeq \in Nat

VARIABLES
  eng, arch,  \* the script and general.architecture of its file, for life
  asked,      \* the prompt, for life
  ids,        \* generated: the prompt and what was appended
  pos,        \* tokens the engine has run through its layers
  cache,      \* layer -> slot -> row, a row being [x, at]
  out,        \* << >>, then the last hidden state
  raised      \* the exception that ended the script, None without

hostVars == <<eng, arch, asked, ids, pos, cache, out, raised>>

None == "none"

Archs   == {"llama", "qwen2", "qwen3", "qwen3moe", "gpt2", "starcoder2", "gemma", "gemma2", "phi3"}
Engines == {"generate", "kvcache", "dp4a_kv", "resident", "c", "last_only"}

------------------------------------------------------------------------------
(* What a layer of a file holds.                                            *)

Attn   == {"attn_norm", "q", "k", "v", "o"}
Gated  == {"ffn_norm", "gate", "up", "down"}
Biases == {"q.b", "k.b", "v.b"}
QKNorm == {"q_norm", "k_norm"}
Experts == {"gate_inp", "gate_exps", "up_exps", "down_exps"}
LayerNorms == {"attn_norm", "attn_norm.b", "ffn_norm", "ffn_norm.b"}
PlainFFN   == {"up", "up.b", "down", "down.b"}

File(a) ==
  CASE a \in {"llama", "gemma"} -> Attn \cup Gated
    [] a = "qwen2"      -> Attn \cup Gated \cup Biases
    [] a = "qwen3"      -> Attn \cup Gated \cup QKNorm
    [] a = "qwen3moe"   -> Attn \cup {"ffn_norm"} \cup Experts \cup QKNorm
    [] a = "gpt2"       -> LayerNorms \cup {"qkv", "qkv.b", "o", "o.b"} \cup PlainFFN
    [] a = "starcoder2" -> LayerNorms \cup Attn \cup Biases \cup {"o.b"} \cup PlainFFN
    [] a = "gemma2"     -> Attn \cup Gated \cup {"post_attn", "post_ffw"}
    [] a = "phi3"       -> {"attn_norm", "qkv", "o", "ffn_norm", "up", "down"}

HasPosEmbd(a) == a = "gpt2"

Layer(norm, act, rope, uses) == [norm |-> norm, act |-> act, rope |-> rope, uses |-> uses]

\* layer_fn of run(), with llama_layer for what LAYER_FN does not know.
LlamaLayer  == Layer("rms", "silu", TRUE, Attn \cup Gated)
Gpt2Layer   == Layer("layer", "gelu", FALSE, LayerNorms \cup {"qkv", "qkv.b", "o", "o.b"} \cup PlainFFN)
Qwen2Layer(f)  == Layer("rms", "silu", TRUE, Attn \cup Gated \cup (Biases \cap f))
GemmaLayer     == Layer("rms", "gelu", TRUE, Attn \cup Gated)
Gemma2Layer(f) == Layer("rms", "gelu", TRUE, Attn \cup Gated \cup ({"post_attn", "post_ffw"} \cap f))
Phi3Layer(f)   ==
  Layer("rms", "silu", TRUE,
        {"attn_norm", "o", "ffn_norm", "up", "down"}
          \cup (IF "q" \in f THEN {"q", "k", "v"} ELSE {"qkv"}))

RunLayer(a) ==
  LET f == File(a)
  IN  CASE a = "gpt2"   -> Gpt2Layer
        [] a = "qwen2"  -> Qwen2Layer(f)
        [] a = "gemma"  -> GemmaLayer
        [] a = "gemma2" -> Gemma2Layer(f)
        [] a = "phi3"   -> Phi3Layer(f)
        [] OTHER        -> LlamaLayer

\* The layer written out in generate(): one for GPT-2, one for the others.
GenerateLayer(a) ==
  LET f     == File(a)
      gpt2  == a \in {"gpt2", "starcoder2"}
      qkv   == IF gpt2 THEN {"attn_norm", "attn_norm.b", "qkv", "qkv.b"}
               ELSE {"attn_norm", "q", "k", "v"} \cup (IF "q.b" \in f THEN Biases ELSE {})
                      \cup (IF "q_norm" \in f THEN QKNorm ELSE {})
      ffn   == IF "gate_inp" \in f THEN {"ffn_norm"} \cup Experts
               ELSE IF gpt2 THEN {"ffn_norm", "ffn_norm.b"} \cup PlainFFN
               ELSE Gated
  IN  Layer(IF gpt2 THEN "layer" ELSE "rms",
            IF gpt2 /\ "gate_inp" \notin f THEN "gelu" ELSE "silu",
            ~gpt2, qkv \cup {"o"} \cup ({"o.b"} \cap f) \cup ffn)

SlipNoBiases(e, a) == Layer("rms", "silu", TRUE, Attn \cup Gated)

\* The layer of the engines with a fixed cache; only resident has no biases.
CachedLayer(e, a) ==
  Layer("rms", "silu", TRUE,
        Attn \cup Gated \cup (IF e = "resident" THEN {} ELSE Biases \cap File(a)))

\* "Just use Q as the attention output": no rotation, no attention.
LastOnlyLayer == Layer("rms", "silu", FALSE, Attn \cup Gated)

EngineLayer(e, a) ==
  CASE e = "generate"  -> GenerateLayer(a)
    [] e = "last_only" -> LastOnlyLayer
    [] OTHER           -> CachedLayer(e, a)

\* A tensor that is not in the file is a KeyError in its first layer.
Loads(layer, a) == layer.uses \subseteq File(a)

------------------------------------------------------------------------------
(* A pass through the layers.                                               *)

\* Scaled for gemma, with a learned position for gpt2, if the engine does so.
Embedding(t, i, a, full) ==
  [tok |-> t, scaled |-> full /\ a \in {"gemma", "gemma2"},
   learned |-> IF full /\ HasPosEmbd(a) THEN i ELSE 0]

\* Current tokens 1..n: their embeddings, rotary positions, the slots their
\* rows go to and the last slot each attends to.
Batch(xs, at, slot, sees) == [xs |-> xs, at |-> at, slot |-> slot, sees |-> sees]

Store(rows, b, xs) ==
  [s \in DOMAIN rows \cup {b.slot[i] : i \in DOMAIN xs} |->
     IF \E i \in DOMAIN xs : b.slot[i] = s
     THEN LET i == CHOOSE i \in DOMAIN xs : b.slot[i] = s IN [x |-> xs[i], at |-> b.at[i]]
     ELSE rows[s]]

\* The current tokens xs after a layer whose earlier rows are `old'.
Through(layer, b, old, xs) ==
  LET rows == Store(old, b, xs)
  IN  [i \in DOMAIN b.xs |->
        [by |-> layer, x |-> xs[i], at |-> b.at[i],
         over |-> [s \in 0..b.sees[i] |-> rows[s]]]]

\* h[l][i]: the hidden state of current token i after layer l.
Hidden(layer, b, old) ==
  LET h[l \in 0..NLayers] ==
        IF l = 0 THEN b.xs ELSE Through(layer, b, old[l], h[l - 1])
  IN  h

Kept(b, old, h) == [l \in 1..NLayers |-> Store(old[l], b, h[l - 1])]
Empty == [l \in 1..NLayers |-> [s \in {} |-> 0]]

\* run(path, seq): the whole sequence, lower-triangular mask.
Whole(a, seq) ==
  Batch([i \in DOMAIN seq |-> Embedding(seq[i], i - 1, a, TRUE)],
        [i \in DOMAIN seq |-> IF RunLayer(a).rope THEN i - 1 ELSE 0],
        [i \in DOMAIN seq |-> i - 1], [i \in DOMAIN seq |-> i - 1])
Run(a, seq) == Hidden(RunLayer(a), Whole(a, seq), Empty)[NLayers][Len(seq)]

------------------------------------------------------------------------------
HostInit ==
  /\ eng \in Engines /\ arch \in Archs
  /\ asked \in Prompts /\ ids = asked
  /\ pos = 0 /\ cache = Empty /\ out = << >> /\ raised = None

Going == raised = None /\ Loads(EngineLayer(eng, arch), arch)

Advance(b) ==
  LET h == Hidden(EngineLayer(eng, arch), b, cache)
  IN  /\ cache' = Kept(b, cache, h)
      /\ out' = <<h[NLayers][Len(b.xs)]>>

Append1 == \E t \in Tokens : ids' = Append(ids, t)

KeyError ==
  /\ raised = None /\ ~Loads(EngineLayer(eng, arch), arch)
  /\ raised' = "KeyError"
  /\ UNCHANGED <<eng, arch, asked, ids, pos, cache, out>>

\* The first iteration of generate() takes the whole prompt, each later one
\* the last token.  Row i of the mask is open up to column `upTo`.
GenerateStep ==
  /\ eng = "generate" /\ Going /\ Len(ids) < Len(asked) + NTokens
  /\ LET cur   == IF pos = 0 THEN ids ELSE <<ids[Len(ids)]>>
         posn(i) == IF pos = 0 THEN i - 1 ELSE Len(ids) - 1
         total == pos + Len(cur)
         upTo(i) == IF pos = 0 THEN Len(ids) - Len(cur) + i - 1 ELSE Len(ids) - 1
     IN  Advance(Batch([i \in DOMAIN cur |-> Embedding(cur[i], posn(i), arch, TRUE)],
                       [i \in DOMAIN cur |-> IF GenerateLayer(arch).rope THEN posn(i) ELSE 0],
                       [i \in DOMAIN cur |-> pos + i - 1],
                       [i \in DOMAIN cur |-> IF upTo(i) < total THEN upTo(i) ELSE total - 1]))
  /\ pos' = Len(ids)
  /\ Append1
  /\ UNCHANGED <<eng, arch, asked, raised>>

\* The engines with a fixed cache take one token at a time, the prompt's
\* first.  They append after the prompt's last token and after each later one.
OneToken(at, slot, steps) ==
  /\ Going /\ pos < steps
  /\ LET t == IF pos < Len(asked) THEN asked[pos + 1] ELSE ids[Len(ids)]
     IN  Advance(Batch(<<Embedding(t, pos, arch, FALSE)>>, <<at>>, <<slot>>, <<slot>>))
  /\ pos' = pos + 1
  /\ IF pos >= Len(asked) - 1 THEN Append1 ELSE UNCHANGED ids
  /\ UNCHANGED <<eng, arch, asked, raised>>

\* apply_rope without positions: a single token is turned to position 0.
KvCacheStep == eng = "kvcache" /\ pos < MaxSeq /\ OneToken(0, pos, Len(asked) + NTokens)

SlipNoPositions == eng = "dp4a_kv" /\ pos < MaxSeq /\ OneToken(0, pos, Len(asked) + NTokens)
Dp4aKvStep == eng = "dp4a_kv" /\ pos < MaxSeq /\ OneToken(pos, pos, Len(asked) + NTokens)

\* Its pos is never advanced: every token is at position 0 and in slot 0.
ResidentStep == eng = "resident" /\ OneToken(0, 0, Len(asked) + NTokens)

\* generate_token of the C loop; the first token comes with the prompt's last.
CStep == eng = "c" /\ pos < MaxSeq /\ OneToken(pos, pos, Len(asked) + NTokens - 1)

\* kv_k[il, :, pos, :] past the end.
IndexError ==
  /\ eng \in {"kvcache", "dp4a_kv"} /\ Going
  /\ pos >= MaxSeq /\ pos < Len(asked) + NTokens
  /\ raised' = "IndexError"
  /\ UNCHANGED <<eng, arch, asked, ids, pos, cache, out>>

\* llamatov_gpu_llama.py and run_dp4a: the last token alone, n times.
LastOnlyStep ==
  /\ eng = "last_only" /\ Going /\ Len(ids) < Len(asked) + NTokens
  /\ LET b == Batch(<<Embedding(ids[Len(ids)], 0, arch, FALSE)>>, <<0>>, <<0>>, <<0>>)
     IN  out' = Hidden(LastOnlyLayer, b, Empty)[NLayers]
  /\ pos' = Len(ids)
  /\ Append1
  /\ UNCHANGED <<eng, arch, asked, cache, raised>>

HostNext ==
  \/ KeyError \/ IndexError
  \/ GenerateStep \/ KvCacheStep \/ Dp4aKvStep \/ ResidentStep \/ CStep \/ LastOnlyStep

HostSpec == HostInit /\ [][HostNext]_hostVars

------------------------------------------------------------------------------
(* Properties.                                                              *)

Faithful ==
  {<<"generate", a>> : a \in {"llama", "qwen2", "gpt2"}}
    \cup ({"dp4a_kv", "c"} \X {"llama", "qwen2"})

\* An engine that keeps keys and values has, after every token, the hidden
\* state that run() computes for the same tokens from nothing: its positions,
\* its mask and its rows are those of one pass over the whole sequence
\* (llamatov_run.py:520-532, 1006-1079; llamatov_gpu_kvcache_dp4a.py:130-174).
SameAsRun ==
  (<<eng, arch>> \in Faithful /\ out # << >>) => out = <<Run(arch, SubSeq(ids, 1, pos))>>

\* Tensors an engine does not look at although its file has them: run() has
\* no QK norm, generate() no post-norms, resident no biases, and the engines
\* with a fixed cache know neither norm.
Overlooks ==
  ({"kvcache", "dp4a_kv", "resident", "c", "last_only"} \X {"qwen3", "gemma2"})
    \cup {<<"generate", "gemma2">>}
    \cup ({"resident", "last_only"} \X {"qwen2"})

\* No other engine decodes a model without a tensor of its layers: what it
\* cannot use stops it before the first token (llamatov_run.py:1021-1128).
NoTensorIgnored ==
  (out # << >> /\ <<eng, arch>> \notin Overlooks) => EngineLayer(eng, arch).uses = File(arch)
=============================================================================
