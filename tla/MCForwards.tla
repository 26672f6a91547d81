----------------------------- MODULE MCForwards -----------------------------
(***************************************************************************)
(* The two forwards whose buffers are used again and again, for TLC: the   *)
(* resident one of the engine (ResidentForward) and the one in C           *)
(* (LlamaBlock); and the operations of the forward on the host             *)
(* (FactDispatch).  A behaviour is of one of the three.                    *)
(***************************************************************************)
EXTENDS MCResidentForward, LlamaBlock

CONSTANTS Programs, RowBlock, GemvBlock, GemmBlock, Tile, TM, TN, Quant, MaxFaults

VARIABLES prog, turn, stage, got, operands, dev, built, functions, weights, faults, hit, spoiled, answer

opVars == <<prog, turn, stage, got, operands, dev, built, functions, weights, faults, hit, spoiled, answer>>
notResident == <<llamaVars, opVars>>
notLlama == <<vars, opVars>>
notOps == <<vars, llamaVars>>

O == INSTANCE FactDispatch WITH pc <- stage, bufs <- operands, loaded <- functions, kept <- weights

\* The programs are made with FactDispatch's own constructor, from an instance without them.
OData == INSTANCE FactDispatch WITH Programs <- {}, pc <- stage, bufs <- operands, loaded <- functions, kept <- weights

\* Sequences of one and of two tokens, up to the tokens' names.
MCStarts == {<<1>>, <<1, 1>>, <<1, 2>>}

LlamaOver == /\ cfg = [f16 |-> TRUE, again |-> TRUE, tied |-> FALSE, peer |-> "none"]
             /\ query = [at |-> "over", script |-> "none", conf |-> "none", places |-> "none"]
             /\ toks = << >> /\ kvPos = 0 /\ block = 0 /\ call = 0 /\ buf = << >> /\ caches = << >>

---------------------------------------------------------------------------
(* FactDispatch: each operation by torch and by facts, over more rows and  *)
(* columns than a block or a tile has, and two or three that share a       *)
(* kernel or a weight                                                      *)

Op(op, fact, x, n, opt) == OData!Call(op, fact, x, n, opt)
Q8(op, x, n, weight) == Op(op, TRUE, x, n, weight)
Heads(h, g, d) == [heads |-> h, kv |-> g, width |-> d]
Shapes == {<<3>>, <<5, 3>>, <<1, 5, 2>>}
MCPrograms ==
  {<<Op("rms_norm", f, x, 0, e), Op("rms_norm", TRUE, x, 0, 6)>> : f \in BOOLEAN, x \in Shapes, e \in {5, 6}}
  \cup {<<Op("linear", f, x, n, 0), Op("linear", TRUE, <<3, 3>>, 4, 0)>> : f \in BOOLEAN, x \in Shapes, n \in {1, 5}}
  \cup {<<Op("softmax", TRUE, x, 0, 2), Op("softmax", TRUE, x, 0, 1)>> : x \in Shapes}
  \cup {<<Op("swiglu", f, <<1, 2, 2>>, 3, 0)>> : f \in BOOLEAN}
  \cup {<<Op("attention", f, <<1, t, h * 2>>, 0, Heads(h, g, 2))>> : f \in BOOLEAN, t \in {1, 3}, h \in {2, 4}, g \in 1..2}
  \cup {<<Op("gpt2", FALSE, <<1, 3, 4>>, 0, Heads(2, 2, 2))>>}
  \cup {<<Q8(one, <<4>>, 3, "a"), Q8(two, <<2, 4>>, 3, w)>> :
          one \in {"q8", "q8_silu"}, two \in {"q8", "q8_silu", "q8_given"}, w \in {"a", "b"}}
  \cup {<<Q8("q8", <<4>>, 3, "a"), Op("rms_norm", TRUE, <<2, 3>>, 0, 5), Q8("q8", <<1, 2, 4>>, 3, "a")>>,
        <<Q8("q8", <<4>>, 3, "a"), Q8("q8", <<2>>, 6, "a")>>, \* the same elements in another shape
        <<Q8("q8", <<2>>, 1, "a"), Q8("q8", <<2>>, 1, "a")>>, \* fewer elements than are sampled
        <<Q8("q8", <<3>>, 2, "a")>>}                          \* not whole blocks

OpsOver == /\ prog = << >> /\ turn = 0 /\ stage = "over" /\ got = << >> /\ operands = << >> /\ dev = << >>
           /\ built = << >> /\ functions = << >> /\ weights = << >> /\ faults = 0 /\ hit = FALSE
           /\ spoiled = {} /\ answer = << >>

---------------------------------------------------------------------------

NoForward == Process({{}}, 33, 0, 0)

ForwardsInit ==
  \/ Init /\ setup \notin NoForward /\ LlamaOver /\ OpsOver
  \/ Init /\ setup \in NoForward /\ LlamaInit /\ OpsOver
  \/ Init /\ setup \in NoForward /\ LlamaOver /\ O!DispatchInit

ResidentStep ==
  \/ Begin               /\ UNCHANGED notResident
  \/ AttnNorm            /\ UNCHANGED notResident
  \/ QkvFused            /\ UNCHANGED notResident
  \/ QkvSeparate         /\ UNCHANGED notResident
  \/ KvQuant             /\ UNCHANGED notResident
  \/ Attend              /\ UNCHANGED notResident
  \/ AttendOverflow      /\ UNCHANGED notResident
  \/ OProj               /\ UNCHANGED notResident
  \/ GateUpRmsFused      /\ UNCHANGED notResident
  \/ GateUp              /\ UNCHANGED notResident
  \/ DownAddRes          /\ UNCHANGED notResident
  \/ DownAdd             /\ UNCHANGED notResident
  \/ CarryFixed          /\ UNCHANGED notResident
  \/ CarryCopied         /\ UNCHANGED notResident
  \/ DeviceLogits        /\ UNCHANGED notResident
  \/ DeviceLogitsRefused /\ UNCHANGED notResident
  \/ HostLogits          /\ UNCHANGED notResident
  \/ Raise               /\ UNCHANGED notResident
  \/ HostBegin           /\ UNCHANGED notResident
  \/ HostUpload          /\ UNCHANGED notResident
  \/ HostAttend          /\ UNCHANGED notResident
  \/ HostOProj           /\ UNCHANGED notResident
  \/ HostAdd             /\ UNCHANGED notResident
  \/ HostDown            /\ UNCHANGED notResident
  \/ HostCarry           /\ UNCHANGED notResident
  \/ HostFinal           /\ UNCHANGED notResident

LlamaStep ==
  \/ Load        /\ UNCHANGED notLlama
  \/ FirstCall   /\ UNCHANGED notLlama
  \/ Kernel      /\ UNCHANGED notLlama
  \/ RopeInPlace /\ UNCHANGED notLlama
  \/ WriteCache  /\ UNCHANGED notLlama
  \/ AttendRows  /\ UNCHANGED notLlama
  \/ NextBlock   /\ UNCHANGED notLlama
  \/ Logits      /\ UNCHANGED notLlama
  \/ NextToken   /\ UNCHANGED notLlama

OpsStep ==
  \/ O!TorchCall        /\ UNCHANGED notOps
  \/ O!ValueError       /\ UNCHANGED notOps
  \/ O!EmitAndBuild     /\ UNCHANGED notOps
  \/ O!EmitOrBuildFails /\ UNCHANGED notOps
  \/ O!DevWeight        /\ UNCHANGED notOps
  \/ O!Func             /\ UNCHANGED notOps
  \/ O!Upload           /\ UNCHANGED notOps
  \/ O!AllocOutput      /\ UNCHANGED notOps
  \/ O!Launch           /\ UNCHANGED notOps
  \/ O!Fetch            /\ UNCHANGED notOps
  \/ O!Return           /\ UNCHANGED notOps
  \/ O!NextCall         /\ UNCHANGED notOps

ForwardsNext == ResidentStep \/ LlamaStep \/ OpsStep

AllForwards == Forwards \cup NoForward

\* A call of an operation on the host returns what the operation is defined to be,
\* as in FactDispatch.
OpsAsDefined == O!OpsAsDefined
=============================================================================
