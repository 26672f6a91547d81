\* Seed, capture and replay, with forwards that raise; the unfused append, whose
\* behaviours include the fused one's.  The decode stops at MaxSeq tokens.
CONSTANTS
  Tokens = {t1, t2}
  Garbage = garbage
  NLayers = 3
  MaxSeq = 5
  PathsUsed = {"graph_prep", "masked", "host_len"}
  FusedIncr = FALSE
  EagerAfterCapture = FALSE
  MaxCaptures = 2
  MaxAborts = 2
SPECIFICATION Spec
INVARIANTS TypeOK ContextExact MirrorDrift InBounds CachesInStep
PROPERTIES RowsAppendOnly ImplementsKVDecode
CHECK_DEADLOCK FALSE
