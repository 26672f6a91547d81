\* Two models in one process, both with fused projections.
CONSTANTS
  a = a
  b = b
  Models <- MCModels
  Linears = {"q", "k"}
  Groups = {"qk"}
  Norms = {"n"}
  Samples <- MCSamples
  Sample <- MCSample
  Processes <- BothFused
  None = None
SPECIFICATION Spec
INVARIANTS FusedIsOwn
