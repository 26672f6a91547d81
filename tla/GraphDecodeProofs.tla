------------------------- MODULE GraphDecodeProofs --------------------------
(***************************************************************************)
(* Theorems about GraphDecode, for every vocabulary, number of layers and  *)
(* cache size.  First types.  Then its safety: the two lengths of a cache  *)
(* drift by captures and replays                                           *)
(* only, no row is written outside a buffer or over one that is counted,   *)
(* the layers' caches stay in step as far as raised forwards let them,     *)
(* every token's logits rest on exactly the tokens before it, and the      *)
(* whole implements KVDecode.                                              *)
(***************************************************************************)
EXTENDS GraphDecode, TLAPS

\* A forward in flight has a token in its residual.
InFlightToken == mode = "eager" => resid \in Tokens

\* A runner past its seed has device lengths in every layer: replays read them.
LenPtrs ==
  path = "graph_prep" =>
    \A l \in Layers :
      runner \in {"seeded", "captured"} \/ (mode = "eager" /\ l < cur)
        => dlen[l] # NoPtr

RunnerPath == path # "graph_prep" => runner = "new"

TypeInv == TypeOK /\ InFlightToken /\ LenPtrs /\ RunnerPath

-----------------------------------------------------------------------------
(* What attention reads is a sequence of rows and garbage.                 *)
LEMMA PrefixType ==
  ASSUME NEW buf \in [Slots -> Row \cup {Garbage}], NEW n \in Int
  PROVE  Prefix(buf, n) \in Seq(Row \cup {Garbage})
<1>1. CASE n \in Nat
  <2>1. \A i \in 1..n : (IF i - 1 \in Slots THEN buf[i - 1] ELSE Garbage)
                          \in Row \cup {Garbage}
    OBVIOUS
  <2>2. Prefix(buf, n) \in [1..n -> Row \cup {Garbage}]
    BY <2>1 DEF Prefix
  <2> QED BY <1>1, <2>2
<1>2. CASE n \notin Nat
  <2>1. 1..n = 1..0
    BY <1>2
  <2>2. Prefix(buf, n) \in [1..0 -> Row \cup {Garbage}]
    BY <2>1 DEF Prefix
  <2> QED BY <2>2
<1> QED BY <1>1, <1>2

LEMMA WriteRowType ==
  ASSUME NEW buf \in [Slots -> Row \cup {Garbage}], NEW s \in Int, NEW r \in Row
  PROVE  WriteRow(buf, s, r) \in [Slots -> Row \cup {Garbage}]
BY DEF WriteRow

(* An eager append and its attention keep the cache well-typed.            *)
LEMMA AppendRowType ==
  ASSUME TypeInv, mode = "eager", AppendRow(cur)
  PROVE  /\ length' \in [Layers -> Nat]
         /\ dlen' \in [Layers -> Nat \cup {NoPtr}]
         /\ rows' \in [Layers -> [Slots -> Row \cup {Garbage}]]
         /\ overrun' \in SUBSET Layers
         /\ path = "graph_prep" => dlen'[cur] # NoPtr
         /\ \A l \in Layers : dlen[l] # NoPtr => dlen'[l] # NoPtr
<1> USE DEF TypeInv, TypeOK, InFlightToken
<1>1. EagerSlot(cur) \in Nat /\ EagerPos(cur) \in Nat
  BY DEF EagerSlot, EagerPos
<1>2. /\ [tok |-> resid, pos |-> EagerPos(cur)] \in Row
      /\ rows[cur] \in [Slots -> Row \cup {Garbage}]
      /\ EagerSlot(cur) \in Int
  BY <1>1 DEF Row
<1>3. WriteRow(rows[cur], EagerSlot(cur), [tok |-> resid, pos |-> EagerPos(cur)])
        \in [Slots -> Row \cup {Garbage}]
  BY <1>1, <1>2, WriteRowType
<1>4. EagerLen(cur) \in Nat \cup {NoPtr}
  BY DEF EagerLen
<1>5. rows' \in [Layers -> [Slots -> Row \cup {Garbage}]]
  BY <1>3 DEF AppendRow
<1>6. /\ length' \in [Layers -> Nat]
      /\ dlen' \in [Layers -> Nat \cup {NoPtr}]
      /\ overrun' \in SUBSET Layers
  BY <1>4 DEF AppendRow, Overrun
<1>7. dlen' = [dlen EXCEPT ![cur] = EagerLen(cur)]
  BY DEF AppendRow
<1>8. path = "graph_prep" => EagerLen(cur) # NoPtr
  BY DEF EagerLen, NoPtr
<1>9. dlen[cur] # NoPtr => EagerLen(cur) # NoPtr
  BY DEF EagerLen, NoPtr
<1> QED BY <1>5, <1>6, <1>7, <1>8, <1>9

LEMMA AttendType ==
  ASSUME TypeInv, mode = "eager", AppendRow(cur), Attend(cur)
  PROVE  ctx' \in [Layers -> Seq(Row \cup {Garbage})]
<1> USE DEF TypeInv, TypeOK
<1>1. EagerVisible(cur) \in Int
  BY DEF EagerVisible, EagerLen, NoPtr
<1>2. rows'[cur] \in [Slots -> Row \cup {Garbage}]
  BY AppendRowType
<1>3. Prefix(rows'[cur], EagerVisible(cur)) \in Seq(Row \cup {Garbage})
  BY <1>1, <1>2, PrefixType
<1> QED BY <1>3 DEF Attend

(* What every forward that raises leaves of the host's own state.          *)
LEMMA RaiseType ==
  ASSUME TypeOK, Raise
  PROVE  /\ UNCHANGED <<resid, logits, gen, captures, replays>>
         /\ mode' = "idle" /\ cur' = 1 /\ cur' \in Layers
         /\ runner' \in {"new", "seeding", "seeded", "captured"}
         /\ aborts' \in Nat
<1>1. runner' = IF runner = "seeding" THEN "new" ELSE runner
  BY DEF Raise
<1>2. 1 \in Layers
  BY ConstantsAssumption DEF Layers
<1> QED BY <1>1, <1>2 DEF Raise, TypeOK

-----------------------------------------------------------------------------
LEMMA TypeInit == Init => TypeInv
<1> SUFFICES ASSUME Init PROVE TypeInv
  OBVIOUS
<1>1. << >> \in Seq(Row \cup {Garbage}) /\ << >> \in Seq(Tokens)
  OBVIOUS
<1>2. 1 \in Layers
  BY ConstantsAssumption DEF Layers
<1> QED
  BY <1>1, <1>2, ConstantsAssumption DEF Init, TypeInv, TypeOK, InFlightToken, LenPtrs, RunnerPath

(* A process keeps its attention path.                                      *)
LEMMA PathFixed == [Next]_vars => path' = path
BY DEF Next, vars, Begin, Replay, EagerLayer, LastLayer, AppendRow, Raise,
   RaiseBeforeAppend, RaiseBeforeIncr, RaiseAfterAppend, Capture, CaptureRaises

LEMMA TypeStep == TypeInv /\ [Next]_vars => TypeInv'
<1> SUFFICES ASSUME TypeInv, [Next]_vars PROVE TypeInv'
  OBVIOUS
<1>p. path' = path
  BY PathFixed
<1>n. /\ NLayers \in Nat \ {0} /\ MaxSeq \in Nat
      /\ FusedIncr \in BOOLEAN /\ EagerAfterCapture \in BOOLEAN
      /\ MaxCaptures \in Nat /\ MaxAborts \in Nat
  BY ConstantsAssumption
<1> USE <1>n
<1>1. ASSUME NEW t \in Tokens, Begin(t) PROVE TypeInv'
  <2> USE <1>1 DEF Begin, MayDecode, TypeInv, cacheVars
  <2>1. cur' = 1 /\ 1 \in Layers /\ \A l \in Layers : ~(l < 1)
    BY DEF Layers
  <2>2. runner' \in {runner, "seeding"}
    OBVIOUS
  <2>3. TypeOK'
    BY <2>1, <2>2 DEF TypeOK
  <2>4. LenPtrs'
    BY <2>1, <2>2 DEF LenPtrs
  <2>5. RunnerPath' /\ InFlightToken'
    BY DEF RunnerPath, InFlightToken
  <2> QED BY <2>3, <2>4, <2>5
<1>2. ASSUME NEW t \in Tokens, Replay(t) PROVE TypeInv'
  <2> USE DEF TypeInv, TypeOK
  <2>1. path = "graph_prep" /\ mode = "idle"
    BY <1>2 DEF Replay, MayDecode, RunnerPath
  <2>2. \A l \in Layers : dlen[l] \in Nat
    BY <1>2, <2>1 DEF Replay, LenPtrs
  <2>3. \A l \in Layers :
          WriteRow(rows[l], ReplaySlot(l), [tok |-> t, pos |-> dlen[l]])
            \in [Slots -> Row \cup {Garbage}]
    <3> SUFFICES ASSUME NEW l \in Layers
                 PROVE  WriteRow(rows[l], ReplaySlot(l),
                                 [tok |-> t, pos |-> dlen[l]])
                          \in [Slots -> Row \cup {Garbage}]
      OBVIOUS
    <3>1. [tok |-> t, pos |-> dlen[l]] \in Row
      BY <2>2 DEF Row
    <3>2. rows[l] \in [Slots -> Row \cup {Garbage}] /\ ReplaySlot(l) \in Int
      BY <2>2 DEF ReplaySlot
    <3> QED BY <3>1, <3>2, WriteRowType
  <2>4. rows' \in [Layers -> [Slots -> Row \cup {Garbage}]]
    BY <1>2, <2>3 DEF Replay
  <2>5. dlen' \in [Layers -> Nat]
    BY <1>2, <2>2 DEF Replay
  <2>6. ASSUME NEW l \in Layers
        PROVE  Prefix(rows'[l], dlen'[l]) \in Seq(Row \cup {Garbage})
    <3>1. rows'[l] \in [Slots -> Row \cup {Garbage}] /\ dlen'[l] \in Int
      BY <2>4, <2>5
    <3> QED BY <3>1, PrefixType
  <2>7. ctx' \in [Layers -> Seq(Row \cup {Garbage})] /\ logits' = ctx'
    BY <1>2, <2>6 DEF Replay
  <2>8. gen' \in Seq(Tokens)
    BY <1>2 DEF Replay
  <2>9. overrun' \in SUBSET Layers
    BY <1>2 DEF Replay
  <2>10. TypeOK'
    BY <1>2, <2>4, <2>5, <2>7, <2>8, <2>9 DEF Replay
  <2>11. LenPtrs' /\ RunnerPath' /\ InFlightToken'
    BY <1>2, <2>1, <2>5 DEF Replay, InFlightToken, LenPtrs, RunnerPath, NoPtr
  <2> QED BY <2>10, <2>11
<1>3. CASE EagerLayer
  <2>1. mode = "eager" /\ AppendRow(cur) /\ Attend(cur)
    BY <1>3 DEF EagerLayer
  <2>2. cur' \in Layers /\ cur' = cur + 1 /\ cur \in Layers
    BY <1>3 DEF EagerLayer, Layers, TypeInv, TypeOK
  <2>3. \A l \in Layers : l < cur' => l < cur \/ l = cur
    BY <2>2 DEF Layers, TypeInv, TypeOK
  <2>4. LenPtrs'
    BY <1>p, <1>3, <2>1, <2>3, AppendRowType DEF EagerLayer, LenPtrs, TypeInv
  <2> QED
    BY <1>p, <1>3, <2>1, <2>2, <2>4, AppendRowType, AttendType
    DEF EagerLayer, TypeInv, TypeOK, InFlightToken, RunnerPath
<1>4. CASE LastLayer
  <2>1. mode = "eager" /\ AppendRow(cur) /\ Attend(cur)
    BY <1>4 DEF LastLayer
  <2>2. gen' \in Seq(Tokens)
    BY <1>4 DEF LastLayer, TypeInv, TypeOK, InFlightToken
  <2>3. \A l \in Layers : l < cur \/ l = cur
    BY <1>4 DEF LastLayer, Layers
  <2>4. LenPtrs'
    BY <1>p, <1>4, <2>1, <2>3, AppendRowType DEF LastLayer, LenPtrs, TypeInv
  <2>5. cur' \in Layers
    BY <1>4 DEF LastLayer, Layers
  <2> QED
    BY <1>p, <1>4, <2>1, <2>2, <2>4, <2>5, AppendRowType, AttendType
    DEF LastLayer, TypeInv, TypeOK, InFlightToken, RunnerPath
<1>5. CASE RaiseBeforeAppend
  <2>1. dlen' \in [Layers -> Nat \cup {NoPtr}]
        /\ \A l \in Layers : dlen[l] # NoPtr => dlen'[l] # NoPtr
    <3>1. cur \in Layers /\ length[cur] \in Nat /\ length[cur] # NoPtr
      BY DEF TypeInv, TypeOK, NoPtr
    <3>2. dlen' = dlen \/ dlen' = [dlen EXCEPT ![cur] = length[cur]]
      BY <1>5 DEF RaiseBeforeAppend
    <3> QED BY <3>1, <3>2 DEF TypeInv, TypeOK
  <2>3. TypeOK'
    BY <1>p, <1>5, <2>1, RaiseType DEF RaiseBeforeAppend, TypeInv, TypeOK
  <2>4. LenPtrs' /\ InFlightToken' /\ RunnerPath'
    BY <1>5, <2>1 DEF RaiseBeforeAppend, Raise, TypeInv, LenPtrs, RunnerPath,
       InFlightToken
  <2> QED BY <2>3, <2>4 DEF TypeInv
<1>6. CASE RaiseBeforeIncr
  <2>1. dlen' \in [Layers -> Nat \cup {NoPtr}]
        /\ \A l \in Layers : dlen[l] # NoPtr => dlen'[l] # NoPtr
    BY <1>6 DEF RaiseBeforeIncr, Raise, TypeInv, TypeOK, NoPtr
  <2>3. [tok |-> resid, pos |-> EagerPos(cur)] \in Row /\ EagerSlot(cur) \in Nat
    BY <1>6 DEF RaiseBeforeIncr, Raise, TypeInv, TypeOK, InFlightToken, Row,
       EagerPos, EagerSlot
  <2>4. WriteRow(rows[cur], EagerSlot(cur), [tok |-> resid, pos |-> EagerPos(cur)])
          \in [Slots -> Row \cup {Garbage}]
    <3>1. rows[cur] \in [Slots -> Row \cup {Garbage}] /\ EagerSlot(cur) \in Int
      BY <2>3 DEF TypeInv, TypeOK
    <3> QED BY <2>3, <3>1, WriteRowType
  <2>5. rows' \in [Layers -> [Slots -> Row \cup {Garbage}]] /\ overrun' \in SUBSET Layers
    BY <1>6, <2>4 DEF RaiseBeforeIncr, TypeInv, TypeOK, Overrun
  <2>6. TypeOK'
    BY <1>p, <1>6, <2>1, <2>5, RaiseType DEF RaiseBeforeIncr, TypeInv, TypeOK
  <2>7. LenPtrs' /\ InFlightToken' /\ RunnerPath'
    BY <1>6, <2>1 DEF RaiseBeforeIncr, Raise, TypeInv, LenPtrs, RunnerPath,
       InFlightToken
  <2> QED BY <2>6, <2>7 DEF TypeInv
<1>7. CASE RaiseAfterAppend
  <2>1. mode = "eager" /\ AppendRow(cur) /\ Attend(cur)
    BY <1>7 DEF RaiseAfterAppend, Raise
  <2>3. LenPtrs'
    BY <1>7, <2>1, AppendRowType DEF RaiseAfterAppend, Raise, LenPtrs, TypeInv
  <2>4. TypeOK'
    BY <1>p, <1>7, <2>1, AppendRowType, AttendType, RaiseType
    DEF RaiseAfterAppend, TypeInv, TypeOK
  <2> QED
    BY <1>7, <2>3, <2>4 DEF RaiseAfterAppend, Raise, TypeInv, InFlightToken, RunnerPath
<1>8. CASE Capture
  BY <1>8 DEF Capture, CaptureReady, TypeInv, TypeOK, InFlightToken, LenPtrs, RunnerPath
<1>9. ASSUME NEW n \in 0..NLayers, CaptureRaises(n) PROVE TypeInv'
  BY <1>9 DEF CaptureRaises, CaptureReady, TypeInv, TypeOK, InFlightToken,
     LenPtrs, RunnerPath, runVars
<1>10. CASE UNCHANGED vars
  BY <1>10 DEF vars, TypeInv, TypeOK, InFlightToken, LenPtrs, RunnerPath
<1> QED
  BY <1>1, <1>2, <1>3, <1>4, <1>5, <1>6, <1>7, <1>8, <1>9, <1>10 DEF Next

(* Every reachable state is well-typed: in particular a replay never reads  *)
(* a device length that was never seeded, and rows hold tokens or garbage.  *)
THEOREM TypeCorrect == Spec => [](TypeOK /\ LenPtrs)
<1>1. Spec => []TypeInv
  BY TypeInit, TypeStep, PTL DEF Spec
<1>2. TypeInv => TypeOK /\ LenPtrs
  BY DEF TypeInv
<1> QED BY <1>1, <1>2, PTL
-----------------------------------------------------------------------------

\* The caller runs no eager forward once it has captured.
NoReseed == ~EagerAfterCapture

\* Captures and replays come in the order GraphRunner's assertions leave.
Protocol ==
  /\ mode = "eager" => captures = 0
  /\ captures = 0 => replays = 0 /\ runner # "captured"
  /\ path # "graph_prep" => captures = 0

\* Rows counted by layer l: exactly the drift between the two lengths.
Drift == path = "graph_prep" /\ mode # "wedged" =>
  \A l \in Layers : length[l] + replays = Valid(l) + captures

\* No layer counts more rows than forwards were started.
Bound ==
  /\ overrun = {}
  /\ mode = "eager" => Len(gen) + aborts < MaxSeq
  /\ mode # "wedged" =>
       \A l \in Layers : Valid(l) <= Len(gen) + aborts + InFlight(l)

CountInv == TypeInv /\ Protocol /\ Drift /\ Bound

-----------------------------------------------------------------------------
LEMMA ValidType == TypeOK => \A l \in Layers : Valid(l) \in Nat
BY DEF TypeOK, Valid

(* While a forward is in flight a layer counts what its host length says.  *)
LEMMA EagerValid ==
  ASSUME TypeInv, Protocol, Drift, mode = "eager"
  PROVE  \A l \in Layers : Valid(l) = length[l] /\ length[l] \in Nat
<1>1. captures = 0 /\ replays = 0
  BY DEF Protocol
<1>2. ASSUME NEW l \in Layers PROVE Valid(l) = length[l] /\ length[l] \in Nat
  <2>1. length[l] \in Nat /\ Valid(l) \in Nat
    BY ValidType DEF TypeInv, TypeOK
  <2>2. CASE path = "graph_prep"
    BY <1>1, <2>1, <2>2 DEF Drift
  <2>3. CASE path # "graph_prep"
    BY <2>1, <2>3 DEF Valid
  <2> QED BY <2>2, <2>3
<1> QED BY <1>2

(* An eager append makes its layer, and no other, count one row more, and  *)
(* leaves the two lengths equal.                                           *)
LEMMA AppendCount ==
  ASSUME TypeInv, Protocol, Drift, mode = "eager",
         NEW c \in Layers, c = cur, AppendRow(c)
  PROVE  /\ length'[c] = length[c] + 1
         /\ Valid(c)' = Valid(c) + 1
         /\ Valid(c)' = length'[c]
         /\ \A l \in Layers \ {c} : length'[l] = length[l] /\ Valid(l)' = Valid(l)
<1> USE DEF TypeInv, TypeOK
<1>p. path' = path
  BY DEF AppendRow
<1>1. Valid(c) = length[c] /\ length[c] \in Nat
  BY EagerValid
<1>2. length'[c] = length[c] + 1 /\ \A l \in Layers \ {c} : length'[l] = length[l]
  BY DEF AppendRow
<1>3. dlen'[c] = EagerLen(c) /\ \A l \in Layers \ {c} : dlen'[l] = dlen[l]
  BY DEF AppendRow
<1>4. path = "graph_prep" => EagerLen(c) = length[c] + 1 /\ EagerLen(c) # NoPtr
  BY <1>1 DEF EagerLen, NoPtr
<1>5. Valid(c)' = length[c] + 1
  BY <1>p, <1>2, <1>3, <1>4 DEF Valid
<1>6. \A l \in Layers \ {c} : Valid(l)' = Valid(l)
  BY <1>p, <1>2, <1>3 DEF Valid
<1> QED BY <1>1, <1>2, <1>5, <1>6

-----------------------------------------------------------------------------
LEMMA CountInit == Init => CountInv
<1> SUFFICES ASSUME Init PROVE CountInv
  OBVIOUS
<1>1. TypeInv
  BY TypeInit
<1>2. \A l \in Layers : Valid(l) = 0 /\ length[l] = 0 /\ InFlight(l) = 0
  BY DEF Init, Valid, InFlight
<1>3. Protocol /\ Drift
  BY <1>2 DEF Init, Protocol, Drift
<1>4. Bound
  BY <1>2 DEF Init, Bound
<1> QED BY <1>1, <1>3, <1>4 DEF CountInv

LEMMA ProtocolStep ==
  NoReseed /\ TypeInv /\ Protocol /\ [Next]_vars => Protocol'
<1> SUFFICES ASSUME NoReseed, TypeInv, Protocol, [Next]_vars PROVE Protocol'
  OBVIOUS
<1> USE DEF Protocol
<1>p. path' = path
  BY PathFixed
<1>1. ASSUME NEW t \in Tokens, Begin(t) PROVE Protocol'
  BY <1>1 DEF Begin, NoReseed
<1>2. ASSUME NEW t \in Tokens, Replay(t) PROVE Protocol'
  BY <1>2 DEF Replay, MayDecode
<1>3. CASE EagerLayer
  BY <1>3 DEF EagerLayer
<1>4. CASE LastLayer
  BY <1>4 DEF LastLayer
<1>5. CASE RaiseBeforeAppend
  BY <1>5 DEF RaiseBeforeAppend, Raise
<1>6. CASE RaiseBeforeIncr
  BY <1>6 DEF RaiseBeforeIncr, Raise
<1>7. CASE RaiseAfterAppend
  BY <1>7 DEF RaiseAfterAppend, Raise
<1>8. CASE Capture
  <2>1. path = "graph_prep" /\ mode' = "idle" /\ captures' = captures + 1
    BY <1>8 DEF Capture, CaptureReady, TypeInv, RunnerPath
  <2> QED BY <1>p, <2>1 DEF TypeInv, TypeOK
<1>9. ASSUME NEW n \in 0..NLayers, CaptureRaises(n) PROVE Protocol'
  BY <1>9 DEF CaptureRaises, runVars
<1>10. CASE UNCHANGED vars
  BY <1>10 DEF vars
<1> QED BY <1>1, <1>2, <1>3, <1>4, <1>5, <1>6, <1>7, <1>8, <1>9, <1>10 DEF Next

(* The step lemma for the counts: one step per action.                     *)
LEMMA DriftStep ==
  NoReseed /\ TypeInv /\ TypeInv' /\ Protocol /\ Drift /\ [Next]_vars => Drift'
<1>p. [Next]_vars => path' = path
  BY PathFixed
<1> SUFFICES ASSUME NoReseed, TypeInv, TypeInv', Protocol, Drift, [Next]_vars,
                    path = "graph_prep", mode' # "wedged",
                    NEW l \in Layers
             PROVE  length'[l] + replays' = Valid(l)' + captures'
  BY <1>p DEF Drift
<1> DEFINE Goal == length'[l] + replays' = Valid(l)' + captures'
<1>t. /\ length[l] \in Nat /\ length'[l] \in Nat /\ Valid(l) \in Nat
      /\ replays \in Nat /\ captures \in Nat /\ replays' \in Nat /\ captures' \in Nat
  BY ValidType DEF TypeInv, TypeOK
<1>d. mode # "wedged" => length[l] + replays = Valid(l) + captures
  BY DEF Drift
<1>1. ASSUME NEW t \in Tokens, Begin(t) PROVE Goal
  BY <1>1, <1>d DEF Begin, MayDecode, cacheVars, Valid
<1>2. ASSUME NEW t \in Tokens, Replay(t) PROVE Goal
  <2>1. mode = "idle" /\ replays' = replays + 1
        /\ length' = length /\ captures' = captures
    BY <1>2 DEF Replay, MayDecode
  <2>2. dlen'[l] = dlen[l] + 1 /\ dlen[l] \in Nat
    BY <1>2 DEF Replay, TypeInv, TypeOK, LenPtrs
  <2>3. Valid(l) = dlen[l] /\ Valid(l)' = dlen[l] + 1
    BY <1>p, <2>2 DEF Valid, NoPtr
  <2> QED BY <1>t, <1>d, <2>1, <2>3
<1>3. ASSUME mode = "eager", AppendRow(cur), captures' = captures, replays' = replays
      PROVE  Goal
  <2>1. captures = 0 /\ replays = 0 /\ mode # "wedged" /\ cur \in Layers
    BY <1>3 DEF Protocol, TypeInv, TypeOK
  <2>2. CASE l = cur
    BY <1>t, <1>3, <2>1, <2>2, AppendCount
  <2>3. CASE l # cur
    BY <1>t, <1>3, <1>d, <2>1, <2>3, AppendCount
  <2> QED BY <2>2, <2>3
<1>4. CASE EagerLayer
  BY <1>3, <1>4 DEF EagerLayer
<1>5. CASE LastLayer
  BY <1>3, <1>5 DEF LastLayer
<1>6. ASSUME mode = "eager", length' = length, captures' = captures, replays' = replays,
             dlen' = dlen \/ dlen' = [dlen EXCEPT ![cur] = length[cur]]
      PROVE  Goal
  <2>1. Valid(l) = length[l] /\ captures = 0 /\ replays = 0
    BY <1>6, EagerValid DEF Protocol
  <2>2. Valid(l)' = Valid(l)
    <3>1. CASE dlen' = dlen
      BY <1>p, <1>6, <3>1 DEF Valid
    <3>2. CASE dlen' = [dlen EXCEPT ![cur] = length[cur]] /\ l = cur
      BY <1>p, <1>t, <2>1, <3>2 DEF Valid, NoPtr, TypeInv, TypeOK
    <3>3. CASE dlen' = [dlen EXCEPT ![cur] = length[cur]] /\ l # cur
      BY <1>p, <1>6, <3>3 DEF Valid, TypeInv, TypeOK
    <3> QED BY <1>6, <3>1, <3>2, <3>3
  <2> QED BY <1>t, <1>6, <2>1, <2>2
<1>7. CASE RaiseBeforeAppend
  BY <1>6, <1>7 DEF RaiseBeforeAppend, Raise
<1>8. CASE RaiseBeforeIncr
  BY <1>6, <1>8 DEF RaiseBeforeIncr, Raise
<1>9. CASE RaiseAfterAppend
  BY <1>3, <1>9 DEF RaiseAfterAppend, Raise
<1>10. CASE Capture
  <2>1. mode = "idle" /\ length'[l] = length[l] + 1 /\ captures' = captures + 1
        /\ replays' = replays /\ dlen' = dlen
    BY <1>10 DEF Capture, CaptureReady
  <2>2. Valid(l)' = Valid(l)
    BY <1>p, <2>1 DEF Valid
  <2>3. length[l] + replays = Valid(l) + captures
    BY <1>d, <2>1
  <2>4. length'[l] + replays' = Valid(l) + captures'
    <3>1. length'[l] + replays' = (length[l] + replays) + 1
      BY <1>t, <2>1
    <3>2. Valid(l) + captures' = (Valid(l) + captures) + 1
      BY <1>t, <2>1
    <3> QED BY <2>3, <3>1, <3>2
  <2> QED BY <2>2, <2>4
<1>11. ASSUME NEW n \in 0..NLayers, CaptureRaises(n) PROVE Goal
  BY <1>11 DEF CaptureRaises
<1>12. CASE UNCHANGED vars
  BY <1>12, <1>d DEF vars, Valid
<1> QED
  BY <1>1, <1>2, <1>4, <1>5, <1>7, <1>8, <1>9, <1>10, <1>11, <1>12 DEF Next

(* Where rows are written, and how many a layer counts afterwards.         *)
LEMMA BoundStep ==
  NoReseed /\ CountInv /\ TypeInv' /\ Drift' /\ Protocol' /\ [Next]_vars => Bound'
<1> SUFFICES ASSUME NoReseed, TypeInv, Protocol, Drift, Bound,
                    TypeInv', Protocol', Drift', [Next]_vars
             PROVE  Bound'
  BY DEF CountInv
<1>p. path' = path
  BY PathFixed
<1>t. /\ Len(gen) \in Nat /\ aborts \in Nat /\ MaxSeq \in Nat
      /\ \A l \in Layers : Valid(l) \in Nat /\ length[l] \in Nat /\ InFlight(l) \in 0..1
  <2>1. Len(gen) \in Nat /\ aborts \in Nat /\ MaxSeq \in Nat
    BY ConstantsAssumption DEF TypeInv, TypeOK
  <2>2. \A l \in Layers : Valid(l) \in Nat /\ length[l] \in Nat
    BY ValidType DEF TypeInv, TypeOK
  <2>3. \A l \in Layers : InFlight(l) \in 0..1
    BY DEF InFlight
  <2> QED BY <2>1, <2>2, <2>3
<1>v. \A l \in Layers : Valid(l)' \in Nat /\ length'[l] \in Nat
  BY DEF TypeInv, TypeOK, Valid
<1>e. mode = "eager" => EagerSlot(cur) \in Slots /\ Len(gen) + aborts < MaxSeq
  <2> HAVE mode = "eager"
  <2>1. cur \in Layers /\ InFlight(cur) = 0
    BY DEF TypeInv, TypeOK, InFlight, Layers
  <2>2. Valid(cur) = length[cur] /\ Valid(cur) <= Len(gen) + aborts + InFlight(cur)
    BY <2>1, EagerValid DEF Bound
  <2>3. length[cur] <= Len(gen) + aborts /\ Len(gen) + aborts < MaxSeq
    BY <1>t, <2>1, <2>2 DEF Bound
  <2> QED BY <1>t, <2>1, <2>3 DEF EagerSlot, Slots
<1>1. ASSUME NEW t \in Tokens, Begin(t) PROVE Bound'
  <2>1. /\ overrun' = overrun /\ gen' = gen /\ aborts' = aborts
        /\ Len(gen) + aborts < MaxSeq
        /\ \A l \in Layers : Valid(l)' = Valid(l)
    BY <1>1 DEF Begin, MayDecode, cacheVars, Valid
  <2>2. \A l \in Layers : InFlight(l) = 0 /\ InFlight(l)' = 0
    BY <1>1 DEF Begin, MayDecode, InFlight, Layers
  <2>3. mode = "idle"
    BY <1>1 DEF Begin, MayDecode
  <2>4. \A l \in Layers : Valid(l) <= Len(gen) + aborts + InFlight(l)
    BY <2>3 DEF Bound
  <2>5. \A l \in Layers : Valid(l)' <= Len(gen') + aborts' + InFlight(l)'
    BY <1>t, <2>1, <2>2, <2>4
  <2>6. overrun' = {}
    BY <2>1 DEF Bound
  <2> QED BY <2>1, <2>5, <2>6 DEF Bound
<1>2. ASSUME NEW t \in Tokens, Replay(t) PROVE Bound'
  <2>1. mode = "idle" /\ mode' = "idle" /\ aborts' = aborts /\ gen' = Append(gen, t)
        /\ Len(gen) + aborts < MaxSeq
    BY <1>2 DEF Replay, MayDecode
  <2>2. path = "graph_prep" /\ runner = "captured"
    BY <1>2 DEF Replay, TypeInv, RunnerPath
  <2>3. \A l \in Layers : dlen[l] \in Nat /\ dlen'[l] = dlen[l] + 1
    <3>1. \A l \in Layers : dlen[l] \in Nat
      BY <2>2 DEF TypeInv, TypeOK, LenPtrs
    <3> QED BY <1>2, <3>1 DEF Replay
  <2>4. \A l \in Layers : Valid(l) = dlen[l] /\ Valid(l)' = dlen[l] + 1
    BY <1>p, <2>2, <2>3 DEF Valid, NoPtr
  <2>5. \A l \in Layers : InFlight(l) = 0 /\ InFlight(l)' = 0
    BY <2>1 DEF InFlight
  <2>6. \A l \in Layers : dlen[l] <= Len(gen) + aborts
    BY <1>t, <2>1, <2>4, <2>5 DEF Bound
  <2>7. \A l \in Layers : ReplaySlot(l) \in Slots
    BY <1>t, <2>1, <2>3, <2>6 DEF ReplaySlot, Slots
  <2>8. overrun' = {}
    BY <1>2, <2>7 DEF Replay, Bound
  <2>9. Len(gen') = Len(gen) + 1
    BY <2>1 DEF TypeInv, TypeOK
  <2>10. \A l \in Layers : Valid(l)' <= Len(gen') + aborts' + InFlight(l)'
    BY <1>t, <2>1, <2>3, <2>4, <2>5, <2>6, <2>9
  <2> QED BY <2>1, <2>8, <2>10 DEF Bound
<1>3. ASSUME mode = "eager", AppendRow(cur)
      PROVE  /\ overrun' = {} /\ cur \in Layers
             /\ \A l \in Layers : Valid(l)' <= Len(gen) + aborts + 1
             /\ \A l \in Layers : l > cur => Valid(l)' <= Len(gen) + aborts
  <2>1. cur \in Layers /\ EagerSlot(cur) \in Slots
    BY <1>3, <1>e DEF TypeInv, TypeOK
  <2>2. overrun' = {}
    BY <1>3, <2>1 DEF AppendRow, Overrun, Bound
  <2>3. \A l \in Layers : Valid(l)' = Valid(l) + (IF l = cur THEN 1 ELSE 0)
    <3> TAKE l \in Layers
    <3>1. CASE l = cur
      BY <1>3, <3>1, AppendCount
    <3>2. CASE l # cur
      BY <1>3, <1>t, <2>1, <3>2, AppendCount
    <3> QED BY <3>1, <3>2
  <2>4. \A l \in Layers : Valid(l) <= Len(gen) + aborts + InFlight(l)
    BY <1>3 DEF Bound
  <2>5. \A l \in Layers : InFlight(l) = IF l < cur THEN 1 ELSE 0
    BY <1>3 DEF InFlight
  <2>6. \A l \in Layers : l \in Int /\ cur \in Int
    BY <2>1 DEF Layers
  <2> QED BY <1>t, <2>1, <2>2, <2>3, <2>4, <2>5, <2>6
<1>4. CASE EagerLayer
  <2>1. mode = "eager" /\ mode' = "eager" /\ AppendRow(cur) /\ cur' = cur + 1
        /\ gen' = gen /\ aborts' = aborts
    BY <1>4 DEF EagerLayer
  <2>2. \A l \in Layers : InFlight(l)' = IF l < cur + 1 THEN 1 ELSE 0
    BY <2>1 DEF InFlight
  <2>3. \A l \in Layers : l \in Int /\ cur \in Int
    BY <1>3, <2>1 DEF Layers
  <2>4. \A l \in Layers : Valid(l)' <= Len(gen') + aborts' + InFlight(l)'
    BY <1>3, <1>t, <2>1, <2>2, <2>3
  <2> QED BY <1>3, <1>e, <2>1, <2>4 DEF Bound
<1>5. CASE LastLayer
  <2>1. mode = "eager" /\ mode' = "idle" /\ AppendRow(cur)
        /\ gen' = Append(gen, resid) /\ aborts' = aborts
    BY <1>5 DEF LastLayer
  <2>2. Len(gen') = Len(gen) + 1
    BY <2>1 DEF TypeInv, TypeOK
  <2>3. \A l \in Layers : InFlight(l)' = 0
    BY <2>1 DEF InFlight
  <2>4. \A l \in Layers : Valid(l)' <= Len(gen') + aborts' + InFlight(l)'
    BY <1>3, <1>t, <1>v, <2>1, <2>2, <2>3
  <2> QED BY <1>3, <2>1, <2>4 DEF Bound
<1>6. ASSUME Raise, \A l \in Layers : Valid(l)' <= Len(gen) + aborts + 1,
             overrun' = {}
      PROVE  Bound'
  <2>1. mode' = "idle" /\ gen' = gen /\ aborts' = aborts + 1
    BY <1>6 DEF Raise
  <2>2. \A l \in Layers : InFlight(l)' = 0
    BY <2>1 DEF InFlight
  <2>3. \A l \in Layers : Valid(l)' <= Len(gen') + aborts' + InFlight(l)'
    BY <1>6, <1>t, <1>v, <2>1, <2>2
  <2> QED BY <1>6, <2>1, <2>3 DEF Bound
<1>7. ASSUME mode = "eager", length' = length,
             dlen' = dlen \/ dlen' = [dlen EXCEPT ![cur] = length[cur]],
             mode' # "wedged", captures' = captures, replays' = replays
      PROVE  \A l \in Layers : Valid(l)' <= Len(gen) + aborts + 1
  <2> TAKE l \in Layers
  <2>1. captures = 0 /\ replays = 0 /\ Valid(l) = length[l]
    BY <1>7, EagerValid DEF Protocol
  <2>3. Valid(l)' = length'[l]
    BY <1>7, <1>v, <2>1 DEF Drift, Valid
  <2>4. Valid(l) <= Len(gen) + aborts + InFlight(l)
    BY <1>7 DEF Bound
  <2> QED BY <1>7, <1>t, <2>1, <2>3, <2>4
<1>8. CASE RaiseBeforeAppend
  BY <1>6, <1>7, <1>8 DEF RaiseBeforeAppend, Raise, Bound
<1>9. CASE RaiseBeforeIncr
  <2>1. Raise /\ overrun' = {}
    BY <1>9, <1>e DEF RaiseBeforeIncr, Raise, Overrun, Bound
  <2> QED BY <1>6, <1>7, <1>9, <2>1 DEF RaiseBeforeIncr, Raise
<1>10. CASE RaiseAfterAppend
  BY <1>3, <1>6, <1>10 DEF RaiseAfterAppend, Raise
<1>11. CASE Capture
  <2>1. /\ mode = "idle" /\ mode' = "idle" /\ dlen' = dlen /\ gen' = gen
        /\ aborts' = aborts /\ overrun' = overrun /\ path = "graph_prep"
    BY <1>11 DEF Capture, CaptureReady, TypeInv, RunnerPath
  <2>2. \A l \in Layers : Valid(l)' = Valid(l) /\ InFlight(l)' = InFlight(l)
    BY <1>p, <2>1 DEF Valid, InFlight
  <2> QED BY <2>1, <2>2 DEF Bound
<1>12. ASSUME NEW n \in 0..NLayers, CaptureRaises(n) PROVE Bound'
  BY <1>12 DEF CaptureRaises, Bound, CaptureReady
<1>13. CASE UNCHANGED vars
  BY <1>13 DEF vars, Bound, Valid, InFlight
<1> QED
  BY <1>1, <1>2, <1>4, <1>5, <1>8, <1>9, <1>10, <1>11, <1>12, <1>13 DEF Next

LEMMA CountStep == NoReseed /\ CountInv /\ [Next]_vars => CountInv'
BY TypeStep, ProtocolStep, DriftStep, BoundStep DEF CountInv

(* The host's length and the device's never drift but by captures and      *)
(* replays, provided no eager forward follows a capture.                   *)
THEOREM DriftCorrect == ASSUME NoReseed PROVE Spec => []MirrorDrift
<1>1. Spec => []CountInv
  BY CountInit, CountStep, PTL DEF Spec
<1>2. CountInv => MirrorDrift
  BY DEF CountInv, Drift, MirrorDrift
<1> QED BY <1>1, <1>2, PTL

(* No append ever leaves its buffer, although nothing checks its row: a    *)
(* caller that starts no more than MaxSeq forwards is enough, whatever it  *)
(* captures and whatever raises.                                           *)
THEOREM BoundsCorrect == ASSUME NoReseed PROVE Spec => []InBounds
<1>1. Spec => []CountInv
  BY CountInit, CountStep, PTL DEF Spec
<1>2. CountInv => InBounds
  BY DEF CountInv, Bound, InBounds
<1> QED BY <1>1, <1>2, PTL

-----------------------------------------------------------------------------
(* The contents of the cache, while no forward has raised.                 *)

\* A buffer whose first rows are the history h, each at its position.
Holds(buf, h) ==
  \A i \in 1..Len(h) : i - 1 \in Slots /\ buf[i - 1] = [tok |-> h[i], pos |-> i - 1]

\* What layer l has counted: the token in flight too, once it is past l.
History(l) == IF mode = "eager" /\ l < cur THEN Append(gen, resid) ELSE gen

Exact ==
  aborts = 0 =>
    /\ mode # "wedged"
    /\ \A l \in Layers :
         /\ Valid(l) = Len(History(l))
         /\ Holds(rows[l], History(l))
         /\ mode = "eager" /\ l < cur => ctx[l] = Positioned(History(l))
         /\ logits[l] = Positioned(gen)

ExactInv == CountInv /\ Exact

(* Attention over exactly the history sees the history.                    *)
LEMMA PrefixExact ==
  ASSUME NEW buf, NEW h \in Seq(Tokens), Holds(buf, h)
  PROVE  Prefix(buf, Len(h)) = Positioned(h)
BY DEF Holds, Prefix, Positioned

(* Writing the next row of a buffer extends what it holds.                 *)
LEMMA WriteExact ==
  ASSUME NEW buf \in [Slots -> Row \cup {Garbage}], NEW h \in Seq(Tokens),
         NEW t \in Tokens, Holds(buf, h), Len(h) \in Slots
  PROVE  Holds(WriteRow(buf, Len(h), [tok |-> t, pos |-> Len(h)]), Append(h, t))
<1> DEFINE new == WriteRow(buf, Len(h), [tok |-> t, pos |-> Len(h)])
<1>1. Len(Append(h, t)) = Len(h) + 1 /\ Len(h) \in Nat
  OBVIOUS
<1>2. new = [buf EXCEPT ![Len(h)] = [tok |-> t, pos |-> Len(h)]]
  BY DEF WriteRow
<1>3. ASSUME NEW i \in 1..(Len(h) + 1)
      PROVE  i - 1 \in Slots /\ new[i - 1] = [tok |-> Append(h, t)[i], pos |-> i - 1]
  <2>1. CASE i \in 1..Len(h)
    <3>1. Append(h, t)[i] = h[i] /\ i - 1 # Len(h)
      BY <2>1
    <3> QED BY <1>2, <2>1, <3>1 DEF Holds
  <2>2. CASE i = Len(h) + 1
    <3>1. Append(h, t)[i] = t /\ i - 1 = Len(h)
      BY <2>2
    <3> QED BY <1>2, <3>1
  <2> QED BY <1>1, <2>1, <2>2
<1> QED BY <1>1, <1>3 DEF Holds

(* An eager layer: its append and what its attention sees of it.           *)
LEMMA AppendExact ==
  ASSUME CountInv, Exact, aborts = 0, mode = "eager",
         NEW c \in Layers, c = cur, AppendRow(c), Attend(c)
  PROVE  /\ Valid(c)' = Len(Append(gen, resid))
         /\ Holds(rows'[c], Append(gen, resid))
         /\ ctx'[c] = Positioned(Append(gen, resid))
         /\ \A l \in Layers \ {c} :
              Valid(l)' = Valid(l) /\ rows'[l] = rows[l] /\ ctx'[l] = ctx[l]
<1>t. /\ gen \in Seq(Tokens) /\ resid \in Tokens /\ Len(gen) \in Nat
      /\ rows[c] \in [Slots -> Row \cup {Garbage}] /\ c \in Nat
      /\ rows \in [Layers -> [Slots -> Row \cup {Garbage}]]
      /\ ctx \in [Layers -> Seq(Row \cup {Garbage})]
  BY DEF CountInv, TypeInv, TypeOK, InFlightToken, Layers
<1>1. History(c) = gen
  BY <1>t DEF History
<1>2. Valid(c) = Len(gen) /\ Holds(rows[c], gen)
  BY <1>1 DEF Exact
<1>3. length[c] = Len(gen)
  BY <1>2, EagerValid DEF CountInv
<1>4. EagerSlot(c) = Len(gen) /\ EagerPos(c) = Len(gen)
  BY <1>3 DEF EagerSlot, EagerPos
<1>5. Len(gen) \in Slots
  BY <1>t, ConstantsAssumption DEF CountInv, Bound, Slots
<1>6. rows'[c] = WriteRow(rows[c], Len(gen), [tok |-> resid, pos |-> Len(gen)])
  BY <1>t, <1>4 DEF AppendRow
<1>7. Holds(rows'[c], Append(gen, resid))
  BY <1>t, <1>2, <1>5, <1>6, WriteExact
<1>8. Len(Append(gen, resid)) = Len(gen) + 1 /\ Append(gen, resid) \in Seq(Tokens)
  BY <1>t
<1>9. EagerVisible(c) = Len(gen) + 1
  BY <1>3 DEF EagerVisible, EagerLen
<1>10. ctx'[c] = Prefix(rows'[c], Len(Append(gen, resid)))
  BY <1>t, <1>8, <1>9 DEF Attend
<1>11. ctx'[c] = Positioned(Append(gen, resid))
  BY <1>7, <1>8, <1>10, PrefixExact
<1>12. /\ Valid(c)' = Valid(c) + 1
       /\ \A l \in Layers \ {c} : Valid(l)' = Valid(l)
  BY AppendCount DEF CountInv
<1>13. \A l \in Layers \ {c} : rows'[l] = rows[l] /\ ctx'[l] = ctx[l]
  BY <1>t DEF AppendRow, Attend
<1> QED BY <1>2, <1>7, <1>8, <1>11, <1>12, <1>13

LEMMA ExactInit == Init => Exact
<1> SUFFICES ASSUME Init PROVE Exact
  OBVIOUS
<1>1. gen = << >> /\ mode = "idle" /\ \A l \in Layers : logits[l] = << >>
  BY DEF Init
<1>2. \A l \in Layers : Valid(l) = 0 /\ History(l) = << >>
  BY DEF Init, Valid, History
<1>3. Len(gen) = 0 /\ \A l \in Layers : Holds(rows[l], << >>)
  BY <1>1 DEF Holds
<1>4. Positioned(gen) = << >>
  BY <1>1 DEF Positioned
<1> QED BY <1>1, <1>2, <1>3, <1>4 DEF Exact

LEMMA ExactStep == NoReseed /\ ExactInv /\ CountInv' /\ [Next]_vars => Exact'
<1> SUFFICES ASSUME NoReseed, CountInv, Exact, CountInv', [Next]_vars, aborts' = 0
             PROVE  /\ mode' # "wedged"
                    /\ \A l \in Layers :
                         /\ Valid(l)' = Len(History(l)')
                         /\ Holds(rows'[l], History(l)')
                         /\ mode' = "eager" /\ l < cur' => ctx'[l] = Positioned(History(l)')
                         /\ logits'[l] = Positioned(gen')
  BY DEF Exact, ExactInv
<1>p. path' = path
  BY PathFixed
<1> DEFINE Kept == /\ mode' # "wedged"
                   /\ \A l \in Layers :
                        /\ Valid(l)' = Len(History(l)')
                        /\ Holds(rows'[l], History(l)')
                        /\ mode' = "eager" /\ l < cur' => ctx'[l] = Positioned(History(l)')
                        /\ logits'[l] = Positioned(gen')
<1>t. /\ gen \in Seq(Tokens) /\ aborts \in Nat /\ cur \in Layers
      /\ rows \in [Layers -> [Slots -> Row \cup {Garbage}]]
      /\ \A l \in Layers : l \in Nat
  BY DEF CountInv, TypeInv, TypeOK, Layers
<1>1. ASSUME NEW t \in Tokens, Begin(t) PROVE Kept
  <2>1. /\ aborts = 0 /\ mode = "idle" /\ mode' = "eager" /\ cur' = 1
        /\ rows' = rows /\ gen' = gen /\ logits' = logits
        /\ dlen' = dlen /\ length' = length
    BY <1>1 DEF Begin, MayDecode, cacheVars
  <2>2. \A l \in Layers : ~(l < cur')
    BY <2>1 DEF Layers
  <2>3. \A l \in Layers : History(l) = gen /\ History(l)' = gen /\ Valid(l)' = Valid(l)
    BY <1>p, <2>1, <2>2 DEF History, Valid
  <2> QED BY <2>1, <2>2, <2>3 DEF Exact
<1>2. ASSUME NEW t \in Tokens, Replay(t) PROVE Kept
  <2>1. mode = "idle" /\ mode' = "idle" /\ aborts = 0 /\ gen' = Append(gen, t)
        /\ path = "graph_prep" /\ runner = "captured" /\ Len(gen) < MaxSeq
    BY <1>2, <1>t DEF Replay, MayDecode, CountInv, TypeInv, RunnerPath
  <2>2. \A l \in Layers : dlen[l] \in Nat /\ dlen[l] = Valid(l)
    BY <2>1 DEF CountInv, TypeInv, TypeOK, LenPtrs, Valid
  <2>3. \A l \in Layers : dlen[l] = Len(gen) /\ Holds(rows[l], gen)
    BY <2>1, <2>2 DEF Exact, History
  <2>4. Len(gen) \in Slots /\ gen' \in Seq(Tokens) /\ Len(gen') = Len(gen) + 1
    BY <1>t, <2>1, ConstantsAssumption DEF Slots
  <2>5. ASSUME NEW l \in Layers
        PROVE  rows'[l] = WriteRow(rows[l], Len(gen), [tok |-> t, pos |-> Len(gen)])
    BY <1>2, <2>3 DEF Replay, ReplaySlot
  <2>6. ASSUME NEW l \in Layers PROVE Holds(rows'[l], gen')
    <3>1. rows[l] \in [Slots -> Row \cup {Garbage}]
      BY <1>t
    <3>2. Holds(WriteRow(rows[l], Len(gen), [tok |-> t, pos |-> Len(gen)]), Append(gen, t))
      BY <1>t, <2>3, <2>4, <3>1, WriteExact
    <3> QED BY <2>1, <2>5, <3>2
  <2>7. ASSUME NEW l \in Layers PROVE dlen'[l] = Len(gen') /\ Valid(l)' = Len(gen')
    <3>1. dlen'[l] = Len(gen) + 1
      BY <1>2, <2>3 DEF Replay
    <3> QED BY <1>p, <2>1, <2>4, <3>1 DEF Valid, NoPtr
  <2>8. ASSUME NEW l \in Layers PROVE logits'[l] = Positioned(gen')
    <3>1. logits'[l] = Prefix(rows'[l], Len(gen'))
      BY <1>2, <2>7 DEF Replay
    <3> QED BY <2>4, <2>6, <3>1, PrefixExact
  <2>9. \A l \in Layers : History(l)' = gen'
    BY <2>1 DEF History
  <2> QED BY <2>1, <2>6, <2>7, <2>8, <2>9
<1>3. CASE EagerLayer
  <2>1. /\ mode = "eager" /\ mode' = "eager" /\ AppendRow(cur) /\ Attend(cur)
        /\ cur' = cur + 1 /\ aborts = 0
        /\ gen' = gen /\ resid' = resid /\ logits' = logits
    BY <1>3 DEF EagerLayer
  <2>2. ASSUME NEW l \in Layers, l = cur
        PROVE  /\ Valid(l)' = Len(History(l)') /\ Holds(rows'[l], History(l)')
               /\ ctx'[l] = Positioned(History(l)')
    <3>1. History(l)' = Append(gen, resid)
      BY <1>t, <2>1, <2>2 DEF History
    <3> QED BY <2>1, <2>2, <3>1, AppendExact
  <2>3. ASSUME NEW l \in Layers, l # cur
        PROVE  /\ Valid(l)' = Len(History(l)') /\ Holds(rows'[l], History(l)')
               /\ l < cur' => ctx'[l] = Positioned(History(l)')
    <3>1. Valid(l)' = Valid(l) /\ rows'[l] = rows[l] /\ ctx'[l] = ctx[l]
      BY <1>t, <2>1, <2>3, AppendExact
    <3>2. l < cur' <=> l < cur
      BY <1>t, <2>1, <2>3
    <3>3. History(l)' = History(l)
      BY <2>1, <3>2 DEF History
    <3> QED BY <2>1, <3>1, <3>2, <3>3 DEF Exact
  <2> QED BY <2>1, <2>2, <2>3 DEF Exact
<1>4. CASE LastLayer
  <2>1. /\ mode = "eager" /\ mode' = "idle" /\ AppendRow(cur) /\ Attend(cur)
        /\ cur = NLayers /\ aborts = 0 /\ gen' = Append(gen, resid) /\ logits' = ctx'
    BY <1>4 DEF LastLayer
  <2>2. \A l \in Layers : History(l)' = gen'
    BY <2>1 DEF History
  <2>3. ASSUME NEW l \in Layers, l = cur
        PROVE  Valid(l)' = Len(gen') /\ Holds(rows'[l], gen') /\ ctx'[l] = Positioned(gen')
    BY <2>1, <2>3, AppendExact
  <2>4. ASSUME NEW l \in Layers, l # cur
        PROVE  Valid(l)' = Len(gen') /\ Holds(rows'[l], gen') /\ ctx'[l] = Positioned(gen')
    <3>1. Valid(l)' = Valid(l) /\ rows'[l] = rows[l] /\ ctx'[l] = ctx[l]
      BY <1>t, <2>1, <2>4, AppendExact
    <3>2. l < cur
      BY <2>1, <2>4, ConstantsAssumption DEF Layers
    <3>3. History(l) = gen'
      BY <2>1, <3>2 DEF History
    <3> QED BY <2>1, <3>1, <3>2, <3>3 DEF Exact
  <2> QED BY <2>1, <2>2, <2>3, <2>4
<1>5. ASSUME Raise PROVE Kept
  BY <1>5, <1>t DEF Raise
<1>6. CASE Capture
  <2>1. /\ mode = "idle" /\ mode' = "idle" /\ aborts = 0 /\ path = "graph_prep"
        /\ dlen' = dlen /\ rows' = rows /\ gen' = gen /\ logits' = logits
    BY <1>6 DEF Capture, CaptureReady, CountInv, TypeInv, RunnerPath
  <2>2. \A l \in Layers : Valid(l)' = Valid(l) /\ History(l)' = gen' /\ History(l) = gen
    BY <1>p, <2>1 DEF Valid, History
  <2> QED BY <2>1, <2>2 DEF Exact
<1>7. ASSUME NEW n \in 0..NLayers, CaptureRaises(n) PROVE Kept
  BY <1>7, <1>t DEF CaptureRaises
<1>8. CASE UNCHANGED vars
  <2>1. /\ mode' = mode /\ aborts' = aborts /\ cur' = cur /\ ctx' = ctx
        /\ rows' = rows /\ gen' = gen /\ logits' = logits
    BY <1>8 DEF vars
  <2>2. \A l \in Layers : Valid(l)' = Valid(l) /\ History(l)' = History(l)
    BY <1>8 DEF vars, Valid, History
  <2> QED BY <2>1, <2>2 DEF Exact
<1> QED
  BY <1>1, <1>2, <1>3, <1>4, <1>5, <1>6, <1>7, <1>8
  DEF Next, RaiseBeforeAppend, RaiseBeforeIncr, RaiseAfterAppend

(* Every token, eager or replayed, is computed from exactly the tokens      *)
(* before it, in order and at their positions, in every layer.             *)
THEOREM ContextCorrect == ASSUME NoReseed PROVE Spec => []ContextExact
<1>1. Init => ExactInv
  BY CountInit, ExactInit DEF ExactInv
<1>2. ExactInv /\ [Next]_vars => ExactInv'
  BY CountStep, ExactStep DEF ExactInv
<1>3. ExactInv => ContextExact
  BY DEF ExactInv, Exact, ContextExact
<1> QED BY <1>1, <1>2, <1>3, PTL DEF Spec

-----------------------------------------------------------------------------
(* The implementation of KVDecode.                                         *)

\* With no forward that raised the cache holds the caller's history.
LEMMA CachedIsGen == ExactInv /\ aborts = 0 => CachedTokens = gen
<1> SUFFICES ASSUME ExactInv, aborts = 0 PROVE CachedTokens = gen
  OBVIOUS
<1>1. NLayers \in Layers /\ gen \in Seq(Tokens) /\ cur \in Layers
  BY ConstantsAssumption DEF Layers, ExactInv, CountInv, TypeInv, TypeOK
<1>2. History(NLayers) = gen
  BY <1>1, ConstantsAssumption DEF History, Layers
<1>3. Valid(NLayers) = Len(gen) /\ Holds(rows[NLayers], gen)
  BY <1>1, <1>2 DEF ExactInv, Exact
<1>4. Prefix(rows[NLayers], Valid(NLayers)) = Positioned(gen)
  BY <1>1, <1>3, PrefixExact
<1>5. ASSUME NEW i \in 1..Len(gen)
      PROVE  Positioned(gen)[i] \in Row /\ Positioned(gen)[i].tok = gen[i]
  <2>1. Positioned(gen)[i] = [tok |-> gen[i], pos |-> i - 1]
    BY DEF Positioned
  <2>2. gen[i] \in Tokens /\ i - 1 \in Nat
    BY <1>1
  <2> QED BY <2>1, <2>2 DEF Row
<1>6. CachedTokens = [i \in 1..Len(gen) |-> gen[i]]
  BY <1>3, <1>4, <1>5 DEF CachedTokens
<1> QED BY <1>1, <1>6

LEMMA AbstractInit == Init => Abstract!Init
<1> SUFFICES ASSUME Init PROVE Abstract!Init
  OBVIOUS
<1>1. CachedTokens = << >>
  <2>1. NLayers \in Layers
    BY ConstantsAssumption DEF Layers
  <2>2. Valid(NLayers) = 0
    BY <2>1 DEF Init, Valid
  <2> QED BY <2>2 DEF CachedTokens
<1>2. logits = [l \in 1..NLayers |-> << >>]
  BY DEF Init, Layers
<1>3. aborts = 0
  BY DEF Init
<1> QED BY <1>1, <1>2, <1>3 DEF Abstract!Init, Abstract!Layers

(* Until a forward raises, a step appends one token or shows nothing.       *)
LEMMA SoundStep ==
  ASSUME ExactInv, ExactInv', aborts = 0, aborts' = 0, [Next]_vars
  PROVE  [Abstract!Next]_(Abstract!vars)
<1>1. CachedTokens = gen /\ CachedTokens' = gen'
  <2>1. (ExactInv /\ aborts = 0)' => (CachedTokens = gen)'
    BY CachedIsGen, PTL
  <2> QED BY <2>1, CachedIsGen
<1>t. /\ gen \in Seq(Tokens) /\ aborts \in Nat /\ MaxSeq \in Nat
      /\ logits' \in [Layers -> Seq(Row \cup {Garbage})]
  BY ConstantsAssumption DEF ExactInv, CountInv, TypeInv, TypeOK
<1>2. ASSUME gen' = gen, logits' = logits PROVE [Abstract!Next]_(Abstract!vars)
  BY <1>1, <1>2 DEF Abstract!vars
<1>3. ASSUME NEW t \in Tokens, gen' = Append(gen, t), Len(gen) < MaxSeq
      PROVE  [Abstract!Next]_(Abstract!vars)
  <2>1. \A l \in Layers : logits'[l] = Positioned(gen')
    BY DEF ExactInv, Exact
  <2>2. logits' = [l \in Layers |-> Positioned(gen')]
    BY <1>t, <2>1
  <2>3. Abstract!Decode(t)
    BY <1>1, <1>3, <2>2 DEF Abstract!Decode, Abstract!Layers, Layers,
       Abstract!Positioned, Positioned
  <2> QED BY <2>3 DEF Abstract!Next
<1>4. ASSUME NEW t \in Tokens, Begin(t) PROVE [Abstract!Next]_(Abstract!vars)
  BY <1>2, <1>4 DEF Begin
<1>5. ASSUME NEW t \in Tokens, Replay(t) PROVE [Abstract!Next]_(Abstract!vars)
  BY <1>3, <1>5, <1>t DEF Replay, MayDecode
<1>6. CASE EagerLayer
  BY <1>2, <1>6 DEF EagerLayer
<1>7. CASE LastLayer
  <2>1. mode = "eager" /\ gen' = Append(gen, resid)
    BY <1>7 DEF LastLayer
  <2>2. resid \in Tokens /\ Len(gen) < MaxSeq
    BY <1>t, <2>1 DEF ExactInv, CountInv, TypeInv, InFlightToken, Bound
  <2> QED BY <1>3, <2>1, <2>2
<1>8. CASE Raise
  BY <1>2, <1>8 DEF Raise
<1>9. CASE Capture
  BY <1>2, <1>9 DEF Capture
<1>10. ASSUME NEW n \in 0..NLayers, CaptureRaises(n)
       PROVE  [Abstract!Next]_(Abstract!vars)
  BY <1>2, <1>10 DEF CaptureRaises
<1>11. CASE UNCHANGED vars
  BY <1>2, <1>11 DEF vars
<1> QED
  BY <1>4, <1>5, <1>6, <1>7, <1>8, <1>9, <1>10, <1>11
  DEF Next, RaiseBeforeAppend, RaiseBeforeIncr, RaiseAfterAppend

(* Once a forward has raised the abstract decode has failed for good.       *)
LEMMA AbstractStep ==
  ASSUME ExactInv, ExactInv', [Next]_vars
  PROVE  [Abstract!Next]_(Abstract!vars)
<1>1. aborts \in Nat /\ (aborts' = aborts \/ aborts' = aborts + 1)
  BY DEF ExactInv, CountInv, TypeInv, TypeOK, Next, vars, Begin, Replay, EagerLayer,
     LastLayer, RaiseBeforeAppend, RaiseBeforeIncr, RaiseAfterAppend, Raise, Capture,
     CaptureRaises
<1>2. CASE aborts' = 0
  BY <1>1, <1>2, SoundStep
<1>3. CASE aborts' # 0
  BY <1>3 DEF Abstract!Next, Abstract!Fail
<1> QED BY <1>2, <1>3

(* Eager forwards, captures and replays implement a decode with no cache,  *)
(* device length or graph: until a forward raises, the caller sees its     *)
(* history grow by one token at a time and logits computed from all of it. *)
THEOREM Refinement == ASSUME NoReseed PROVE Spec => ImplementsKVDecode
<1>1. Init => ExactInv
  BY CountInit, ExactInit DEF ExactInv
<1>2. ExactInv /\ [Next]_vars => ExactInv'
  BY CountStep, ExactStep DEF ExactInv
<1>3. Init => Abstract!Init
  BY AbstractInit
<1>4. ExactInv /\ ExactInv' /\ [Next]_vars => [Abstract!Next]_(Abstract!vars)
  BY AbstractStep
<1> QED
  BY <1>1, <1>2, <1>3, <1>4, PTL DEF Spec, ImplementsKVDecode, Abstract!Spec

-----------------------------------------------------------------------------
(* What stays true of the caches when forwards raise.                      *)

\* The rows that a layer counts stay as they are.
CountedRowsKept ==
  \A l \in Layers : \A s \in 0..(Valid(l) - 1) : s \in Slots => rows'[l][s] = rows[l][s]

(* An append, also one whose increment does not follow, writes the row      *)
(* after those that its layer counts, and ropes it there if it reads the    *)
(* device length.                                                           *)
WritesNext ==
  rows' = [rows EXCEPT ![cur] =
    WriteRow(@, EagerSlot(cur), [tok |-> resid, pos |-> EagerPos(cur)])]

LEMMA EagerWrite ==
  ASSUME CountInv, mode = "eager", WritesNext
  PROVE  /\ \A l \in Layers, s \in Slots :
              ~(l = cur /\ s = Valid(cur)) => rows'[l][s] = rows[l][s]
         /\ path = "graph_prep" /\ Valid(cur) \in Slots =>
              /\ rows'[cur][Valid(cur)] # Garbage
              /\ rows'[cur][Valid(cur)].pos = Valid(cur)
<1>1. /\ cur \in Layers /\ resid \in Tokens
      /\ rows \in [Layers -> [Slots -> Row \cup {Garbage}]]
  BY DEF CountInv, TypeInv, TypeOK, InFlightToken
<1>2. EagerSlot(cur) = Valid(cur) /\ Valid(cur) = length[cur] /\ length[cur] \in Nat
  BY <1>1, EagerValid DEF CountInv, EagerSlot
<1> DEFINE r0 == [tok |-> resid, pos |-> EagerPos(cur)]
<1>3. path = "graph_prep" => r0.pos = Valid(cur) /\ r0 \in Row
  BY <1>1, <1>2 DEF EagerPos, Row
<1>4. path = "graph_prep" => r0 # Garbage
  BY <1>3, ConstantsAssumption DEF Row
<1> HIDE DEF r0
<1>5. rows' = [rows EXCEPT ![cur] = WriteRow(rows[cur], Valid(cur), r0)]
  BY <1>2 DEF WritesNext, r0
<1>6. CASE Valid(cur) \in Slots
  <2>1. rows'[cur] = [rows[cur] EXCEPT ![Valid(cur)] = r0]
    BY <1>1, <1>5, <1>6 DEF WriteRow
  <2>2. rows'[cur][Valid(cur)] = r0
    BY <1>1, <1>6, <2>1
  <2>3. \A l \in Layers, s \in Slots :
          ~(l = cur /\ s = Valid(cur)) => rows'[l][s] = rows[l][s]
    BY <1>1, <1>5, <2>1
  <2> QED BY <1>3, <1>4, <2>2, <2>3
<1>7. CASE Valid(cur) \notin Slots
  BY <1>1, <1>5, <1>7 DEF WriteRow
<1> QED BY <1>6, <1>7

LEMMA ReplayWrite ==
  ASSUME CountInv, NEW t \in Tokens, Replay(t)
  PROVE  /\ path = "graph_prep"
         /\ \A l \in Layers :
              /\ Valid(l)' = Valid(l) + 1
              /\ \A s \in Slots : s # Valid(l) => rows'[l][s] = rows[l][s]
              /\ Valid(l) \in Slots => /\ rows'[l][Valid(l)] # Garbage
                                       /\ rows'[l][Valid(l)].pos = Valid(l)
<1>1. /\ path = "graph_prep" /\ path' = path
      /\ rows \in [Layers -> [Slots -> Row \cup {Garbage}]]
      /\ \A l \in Layers : dlen[l] \in Nat
  BY DEF Replay, CountInv, TypeInv, TypeOK, RunnerPath, LenPtrs
<1>2. \A l \in Layers : Valid(l) = dlen[l] /\ Valid(l)' = dlen[l] + 1
  BY <1>1 DEF Replay, Valid, NoPtr
<1>3. ASSUME NEW l \in Layers
      PROVE  /\ \A s \in Slots : s # Valid(l) => rows'[l][s] = rows[l][s]
             /\ Valid(l) \in Slots => /\ rows'[l][Valid(l)] # Garbage
                                      /\ rows'[l][Valid(l)].pos = Valid(l)
  <2> DEFINE r0 == [tok |-> t, pos |-> dlen[l]]
  <2>1. rows'[l] = WriteRow(rows[l], dlen[l], r0)
    BY DEF Replay, ReplaySlot
  <2>2. r0 \in Row /\ r0.pos = dlen[l]
    BY <1>1 DEF Row
  <2>3. r0 # Garbage
    BY <2>2, ConstantsAssumption DEF Row
  <2> HIDE DEF r0
  <2> QED BY <1>1, <1>2, <2>1, <2>2, <2>3 DEF WriteRow
<1> QED BY <1>1, <1>2, <1>3

(* Whatever forward, capture or replay runs, and wherever it raises, it     *)
(* writes no row that a layer counts.                                       *)
LEMMA RowsStep ==
  ASSUME CountInv, [Next]_vars
  PROVE  CountedRowsKept
<1>t. \A l \in Layers : Valid(l) \in Nat
  BY ValidType DEF CountInv, TypeInv
<1>1. CASE rows' = rows
  BY <1>1 DEF CountedRowsKept
<1>2. CASE mode = "eager" /\ WritesNext
  BY <1>t, <1>2, EagerWrite DEF CountedRowsKept
<1>3. ASSUME NEW t \in Tokens, Replay(t) PROVE CountedRowsKept
  BY <1>t, <1>3, ReplayWrite DEF CountedRowsKept
<1> QED
  BY <1>1, <1>2, <1>3
  DEF Next, vars, cacheVars, WritesNext, Begin, EagerLayer, LastLayer, AppendRow, Raise,
      RaiseBeforeAppend, RaiseBeforeIncr, RaiseAfterAppend, Capture, CaptureRaises

(* A row that a layer counts is never written again: eager appends and      *)
(* replays go behind it, although one goes by the host's length and the     *)
(* other by the device's, and although forwards raise.                      *)
THEOREM RowsCorrect == ASSUME NoReseed PROVE Spec => RowsAppendOnly
<1>1. Init => CountInv
  BY CountInit
<1>2. CountInv /\ [Next]_vars => CountInv'
  BY CountStep
<1>3. CountInv /\ [Next]_vars => [CountedRowsKept]_vars
  BY RowsStep
<1> QED BY <1>1, <1>2, <1>3, PTL DEF Spec, RowsAppendOnly, CountedRowsKept

-----------------------------------------------------------------------------
(* The layers of the cache, in step or not.                                *)

\* What a step leaves of the counts, of an eager forward that goes on or
\* raises: the layers below n count one row more.
CountsUpTo(n) == length' = [l \in Layers |-> IF l <= n THEN length[l] + 1 ELSE length[l]]

(* The layers before the one at hand are one row ahead, in a forward that  *)
(* goes on; one that raises adds to what an earlier one left.              *)
LEMMA SkewStep ==
  ASSUME TypeInv, TypeInv', LayerSkew, [Next]_vars
  PROVE  LayerSkew'
<1> SUFFICES ASSUME NEW l \in 1..(NLayers - 1)
             PROVE  /\ length'[l] - InFlight(l)' >= length'[l + 1] - InFlight(l + 1)'
                    /\ length'[l] - InFlight(l)'
                         <= length'[l + 1] - InFlight(l + 1)' + aborts'
  BY DEF LayerSkew
<1> DEFINE Goal == /\ length'[l] - InFlight(l)' >= length'[l + 1] - InFlight(l + 1)'
                   /\ length'[l] - InFlight(l)'
                        <= length'[l + 1] - InFlight(l + 1)' + aborts'
<1>l. NLayers \in Nat /\ l \in Layers /\ l + 1 \in Layers /\ l \in Nat
  BY ConstantsAssumption DEF Layers
<1>t. /\ length \in [Layers -> Nat] /\ aborts \in Nat /\ cur \in Layers /\ cur \in Nat
      /\ length[l] \in Nat /\ length[l + 1] \in Nat
  <2>1. length \in [Layers -> Nat] /\ aborts \in Nat /\ cur \in Layers
    BY DEF TypeInv, TypeOK
  <2> QED BY <1>l, <2>1 DEF Layers
<1>s. /\ length[l] - InFlight(l) >= length[l + 1] - InFlight(l + 1)
      /\ length[l] - InFlight(l) <= length[l + 1] - InFlight(l + 1) + aborts
  BY DEF LayerSkew
<1>i. /\ InFlight(l) = IF mode = "eager" /\ l < cur THEN 1 ELSE 0
      /\ InFlight(l + 1) = IF mode = "eager" /\ l + 1 < cur THEN 1 ELSE 0
      /\ InFlight(l)' = IF mode' = "eager" /\ l < cur' THEN 1 ELSE 0
      /\ InFlight(l + 1)' = IF mode' = "eager" /\ l + 1 < cur' THEN 1 ELSE 0
  BY DEF InFlight
<1>1. ASSUME NEW t \in Tokens, Begin(t) PROVE Goal
  <2>1. mode = "idle" /\ cur' = 1 /\ length' = length /\ aborts' = aborts
    BY <1>1 DEF Begin, MayDecode, cacheVars
  <2> QED BY <1>l, <1>t, <1>s, <1>i, <2>1
<1>2. ASSUME NEW t \in Tokens, Replay(t) PROVE Goal
  <2>1. mode = "idle" /\ mode' = "idle" /\ length' = length /\ aborts' = aborts
    BY <1>2 DEF Replay, MayDecode
  <2> QED BY <1>l, <1>t, <1>s, <1>i, <2>1
<1>3. CASE EagerLayer
  <2>1. /\ mode = "eager" /\ mode' = "eager" /\ cur' = cur + 1 /\ aborts' = aborts
        /\ length' = [length EXCEPT ![cur] = length[cur] + 1]
    BY <1>3 DEF EagerLayer, AppendRow
  <2> QED BY <1>l, <1>t, <1>s, <1>i, <2>1
<1>4. CASE LastLayer
  <2>1. /\ mode = "eager" /\ cur = NLayers /\ mode' = "idle" /\ aborts' = aborts
        /\ length' = [length EXCEPT ![cur] = length[cur] + 1]
    BY <1>4 DEF LastLayer, AppendRow
  <2> QED BY <1>l, <1>t, <1>s, <1>i, <2>1
<1>5. CASE RaiseBeforeAppend \/ RaiseBeforeIncr \/ RaiseAfterAppend
  <2>1. /\ mode = "eager" /\ mode' = "idle" /\ aborts' = aborts + 1
        /\ length' = length \/ length' = [length EXCEPT ![cur] = length[cur] + 1]
    BY <1>5 DEF RaiseBeforeAppend, RaiseBeforeIncr, RaiseAfterAppend, Raise, AppendRow
  <2> QED BY <1>l, <1>t, <1>s, <1>i, <2>1
<1>6. CASE Capture
  <2>1. /\ mode = "idle" /\ mode' = "idle" /\ aborts' = aborts
        /\ length' = [k \in Layers |-> length[k] + 1]
    BY <1>6 DEF Capture, CaptureReady
  <2> QED BY <1>l, <1>t, <1>s, <1>i, <2>1
<1>7. ASSUME NEW n \in 0..NLayers, CaptureRaises(n) PROVE Goal
  <2>1. /\ mode = "idle" /\ mode' = "wedged" /\ aborts' = aborts + 1
        /\ CountsUpTo(n)
    BY <1>7 DEF CaptureRaises, CaptureReady, CountsUpTo
  <2> QED BY <1>l, <1>t, <1>s, <1>i, <2>1 DEF CountsUpTo
<1>8. CASE UNCHANGED vars
  BY <1>s, <1>i, <1>8 DEF vars
<1> QED BY <1>1, <1>2, <1>3, <1>4, <1>5, <1>6, <1>7, <1>8 DEF Next

(* Each append leaves the device length where the host's is.               *)
LEMMA MirrorStep ==
  ASSUME TypeInv, SeededMirror, [Next]_vars
  PROVE  SeededMirror'
<1>p. path' = path
  BY PathFixed
<1> SUFFICES ASSUME path = "masked", NEW l \in Layers
             PROVE  dlen'[l] \in {NoPtr, length'[l]}
  BY <1>p DEF SeededMirror
<1>t. /\ length \in [Layers -> Nat] /\ dlen \in [Layers -> Nat \cup {NoPtr}] /\ cur \in Layers
      /\ dlen[l] \in {NoPtr, length[l]} /\ runner = "new"
  BY DEF TypeInv, TypeOK, RunnerPath, SeededMirror
<1>1. CASE length' = length /\ dlen' = dlen
  BY <1>1, <1>t
<1>2. CASE AppendRow(cur)
  BY <1>2, <1>t DEF AppendRow, EagerLen
<1> QED
  BY <1>1, <1>2, <1>t
  DEF Next, vars, cacheVars, Begin, Replay, EagerLayer, LastLayer, Raise, RaiseBeforeAppend,
      RaiseBeforeIncr, RaiseAfterAppend, Capture, CaptureRaises, CaptureReady

(* A forward that raises before its append, or before the increment, leaves *)
(* each layer counting what it counted.                                     *)
LEMMA RaiseCount ==
  ASSUME CountInv, RaiseBeforeAppend \/ RaiseBeforeIncr
  PROVE  \A l \in Layers : Valid(l)' = Valid(l)
<1> SUFFICES ASSUME NEW l \in Layers PROVE Valid(l)' = Valid(l)
  OBVIOUS
<1>1. /\ mode = "eager" /\ path' = path /\ length' = length
      /\ dlen' \in {dlen, [dlen EXCEPT ![cur] = length[cur]]}
  BY DEF RaiseBeforeAppend, RaiseBeforeIncr, Raise
<1>2. Valid(l) = length[l] /\ length[l] \in Nat
  BY <1>1, EagerValid DEF CountInv
<1>3. cur \in Layers /\ dlen \in [Layers -> Nat \cup {NoPtr}]
  BY DEF CountInv, TypeInv, TypeOK
<1> QED BY <1>1, <1>2, <1>3 DEF Valid, NoPtr

LEMMA PositionStep ==
  ASSUME CountInv, PositionIsSlot, [Next]_vars
  PROVE  PositionIsSlot'
<1>p. path' = path
  BY PathFixed
<1> SUFFICES ASSUME path = "graph_prep", NEW l \in Layers, NEW s \in Slots, s < Valid(l)'
             PROVE  rows'[l][s] # Garbage /\ rows'[l][s].pos = s
  BY <1>p DEF PositionIsSlot
<1>t. Valid(l) \in Nat /\ s \in Nat /\ cur \in Layers
  BY ValidType DEF CountInv, TypeInv, TypeOK, Slots
<1>o. s < Valid(l) => rows[l][s] # Garbage /\ rows[l][s].pos = s
  BY DEF PositionIsSlot
<1>1. CASE Valid(l)' = Valid(l)
  <2>1. rows'[l][s] = rows[l][s]
    BY <1>t, <1>1, RowsStep DEF CountedRowsKept
  <2> QED BY <1>o, <1>1, <2>1
<1>2. CASE mode = "eager" /\ AppendRow(cur)
  <2>1. Valid(l)' = Valid(l) + (IF l = cur THEN 1 ELSE 0)
    BY <1>t, <1>2, AppendCount DEF CountInv
  <2>2. WritesNext
    BY <1>2 DEF AppendRow, WritesNext
  <2>3. CASE s < Valid(l)
    BY <1>t, <1>o, <2>3, RowsStep DEF CountedRowsKept
  <2>4. CASE ~(s < Valid(l))
    <3>1. l = cur /\ s = Valid(cur)
      BY <1>t, <2>1, <2>4
    <3> QED BY <1>2, <2>2, <3>1, EagerWrite
  <2> QED BY <2>3, <2>4
<1>3. ASSUME NEW t \in Tokens, Replay(t)
      PROVE  rows'[l][s] # Garbage /\ rows'[l][s].pos = s
  <2>1. Valid(l)' = Valid(l) + 1
    BY <1>3, ReplayWrite
  <2>2. CASE s < Valid(l)
    BY <1>t, <1>o, <2>2, RowsStep DEF CountedRowsKept
  <2>3. CASE ~(s < Valid(l))
    <3>1. s = Valid(l)
      BY <1>t, <2>1, <2>3
    <3> QED BY <1>3, <3>1, ReplayWrite
  <2> QED BY <2>2, <2>3
<1>4. CASE RaiseBeforeAppend \/ RaiseBeforeIncr
  BY <1>1, <1>4, RaiseCount
<1>5. CASE dlen' = dlen
  BY <1>1, <1>5, <1>p DEF Valid
<1> QED
  BY <1>2, <1>3, <1>4, <1>5
  DEF Next, vars, cacheVars, Begin, EagerLayer, LastLayer, Raise, RaiseAfterAppend,
      Capture, CaptureRaises

(* Forwards that raise part of the way leave the layers apart, but every    *)
(* counted row is roped for the slot it is in, an earlier layer is never    *)
(* behind a later one nor ahead by more rows than forwards have raised, and *)
(* the masked path's device length is the host's.                           *)
THEOREM CachesCorrect == ASSUME NoReseed PROVE Spec => []CachesInStep
<1>1. Init => CountInv /\ CachesInStep
  <2> SUFFICES ASSUME Init PROVE CountInv /\ CachesInStep
    OBVIOUS
  <2>1. \A l \in Layers : Valid(l) = 0 /\ length[l] = 0 /\ InFlight(l) = 0 /\ dlen[l] = NoPtr
    BY DEF Init, Valid, InFlight
  <2>2. PositionIsSlot /\ SeededMirror
    BY <2>1 DEF PositionIsSlot, SeededMirror, Slots
  <2>3. LayerSkew
    BY <2>1, ConstantsAssumption DEF LayerSkew, Layers, Init
  <2> QED BY <2>2, <2>3, CountInit DEF CachesInStep
<1>2. CountInv /\ CachesInStep /\ [Next]_vars => (CountInv /\ CachesInStep)'
  <2> SUFFICES ASSUME CountInv, CachesInStep, [Next]_vars
               PROVE  CountInv' /\ CachesInStep'
    OBVIOUS
  <2>1. CountInv'
    BY CountStep
  <2>2. PositionIsSlot' /\ LayerSkew' /\ SeededMirror'
    BY <2>1, PositionStep, SkewStep, MirrorStep DEF CountInv, CachesInStep
  <2> QED BY <2>1, <2>2 DEF CachesInStep
<1> QED BY <1>1, <1>2, PTL DEF Spec
=============================================================================
