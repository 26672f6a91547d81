\* Pipelines and tunings, each alone and overlapping, with faults.
SPECIFICATION Spec
CONSTANTS
  MaxPushes = 3
  MaxFaults = 2
  Machines <- MCMachines
  Tuners <- MCTuners
  MaxMishaps = 2
  Quality <- MCQuality
  Speed <- MCSpeed
  Tunings <- MCTunings
INVARIANTS BuiltSoFar TunedIsBest NothingForgotten
PROPERTIES ThreadEnds PushIsShown
\* Pushes and tunings come to an end.
CHECK_DEADLOCK FALSE
