\* The K/V transform with the fused QKV projection.
CONSTANTS
  NLayers = 1
  Setups <- QuantisedKv
SPECIFICATION Spec
INVARIANTS KvRoundTrips
CHECK_DEADLOCK FALSE
