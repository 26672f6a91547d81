------------------------------ MODULE KVDecode ------------------------------
(***************************************************************************)
(* What a KV-cached decode promises its caller, with no cache in it: the   *)
(* tokens decoded so far form one growing history, and the logits of a     *)
(* step are computed, in every layer, from exactly that history, each      *)
(* token at the position it was decoded at.  The promise ends with the     *)
(* first forward that raises, for nothing is rolled back.  GraphDecode.tla *)
(* (the device cache, eager forwards, a captured graph and its replays)    *)
(* implements it.                                                          *)
(***************************************************************************)
EXTENDS Naturals, Sequences

CONSTANTS
  Tokens,    \* the vocabulary
  NLayers,   \* transformer layers
  MaxSeq     \* positions the caller may decode

VARIABLES
  hist,      \* the tokens decoded so far
  logits,    \* per layer, the (token, position) pairs the last logits rest on
  status     \* "sound", or "failed" once a forward has raised

vars == <<hist, logits, status>>

Layers == 1..NLayers

\* A history with the position of each of its tokens (positions count from 0).
Positioned(h) == [i \in 1..Len(h) |-> [tok |-> h[i], pos |-> i - 1]]

Init ==
  /\ hist = << >>
  /\ logits = [l \in Layers |-> << >>]
  /\ status = "sound"

Decode(t) ==
  /\ status = "sound"
  /\ Len(hist) < MaxSeq
  /\ hist' = Append(hist, t)
  /\ logits' = [l \in Layers |-> Positioned(hist')]
  /\ UNCHANGED status

\* A forward raises, and from then on the history and the logits are anything.
Fail == status' = "failed"

Next == (\E t \in Tokens : Decode(t)) \/ Fail

Spec == Init /\ [][Next]_vars
=============================================================================
