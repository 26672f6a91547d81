\* The ensembles that the gate of GraphRunner.seed lets through.
CONSTANTS
  NLayers = 1
  Setups <- Seedable
SPECIFICATION Spec
INVARIANTS CertifiedIsFaithful
CHECK_DEADLOCK FALSE
