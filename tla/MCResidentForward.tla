------------------------- MODULE MCResidentForward -------------------------
(* The processes that ResidentForward's runs explore.                      *)
EXTENDS ResidentForward

Process(sets, cap, forwards, raised) ==
  [toggles : sets, cap : {cap}, forwards : {forwards}, raises : {raised}]

\* APPEND_FUSED changes no value or buffer of a forward, only the gate, and
\* V4_QFUSED is to a forward what QFUSED is.
AllSettings == SUBSET (Flags \ {"APPEND_FUSED", "V4_QFUSED", "HOST_ATTN"})

\* What a layer consults when attention is on the host, with and without the rest.
HostRead == {"SLAB", "QFUSED", "FUSE_QKV", "FUSE_GATEUP", "ADDRES_FUSED", "BIAS_FOLD", "KV_QUANT_Q8"}
HostSettings == {c \cup d : c \in SUBSET HostRead, d \in {{"HOST_ATTN"}, Flags \ HostRead}}

\* PRODUCTION_PROFILE with _SLAB.enabled.
Production == {"SLAB", "GRAPH_PREP", "DEVICE_LOGITS", "FUSE_QKV", "FUSE_GATEUP",
  "ADDRES_FUSED", "BIAS_FOLD", "APPEND_FUSED", "SILU_QUANT_FUSED", "RESID_CARRY_FUSED"}

\* No toggle, and the slab with and without the residual homes and fusions.
Plain == {{}, {"SLAB"}, {"SLAB", "GRAPH_PREP"}, {"SLAB", "ADDRES_FUSED"}, {"GRAPH_PREP"},
          {"ADDRES_FUSED", "FUSE_QKV"}, Production, Production \ {"SLAB"},
          Production \ {"RESID_CARRY_FUSED"}, Production \ {"GRAPH_PREP"},
          {"HOST_ATTN"}, {"HOST_ATTN", "SLAB"}}

\* Every combination on a slab that suffices, and some on one that may not,
\* with forwards that raise anywhere.
Forwards == Process(AllSettings \cup HostSettings, 33, 2, 0) \cup Process(Plain, 18, 3, 2)

\* What GraphRunner.seed accepts or refuses: the slab and the fixed buffers.
Seedable == Process({c \in SUBSET (Flags \ {"HOST_ATTN"}) : {"SLAB", "GRAPH_PREP", "DEVICE_LOGITS",
                       "FUSE_QKV", "ADDRES_FUSED", "SILU_QUANT_FUSED"} \subseteq c}, 33, 1, 0)

QuantisedKv == Process({Production \cup {"KV_QUANT_Q8"}}, 33, 1, 0)
=============================================================================
