\* Every loader and block type; every engine and architecture over two layers,
\* prompts of one and two tokens, three tokens asked for and caches of four rows;
\* two sweeps with an edit of the facts in between and two tools that fail;
\* graphs of three operations of nine kinds and of four of three, under four lists
\* of rules and under fuse_graph; forwards of up to three lines, and pairs of six
\* of up to five lines verified in turn and by a pool;
\* the referees over three tokens or four replays with any one defect; a table of
\* three operations.
INIT Init
NEXT Next
CONSTANTS
  Tokens = {a, b}
  Prompts <- MCPrompts
  NLayers = 2
  NTokens = 3
  MaxSeq = 4
  Shapes <- MCShapes
  Matrices <- MCMatrices
  Depth = 2
  MaxEdits = 1
  MaxFaults = 2
  Given = 90
  MaxSecond = 4
  Margins = {1, 6, 12}
  Drifts = {0, 1, 3}
  Trials <- MCTrials
  Recipes = {"relu"}
  Measurements <- MCMeasurements
  Plans <- MCPlans
  Backends <- MCBackends
  Libdevice <- MCLibdevice
INVARIANTS WeightsAreTheFiles SameAsRun NoTensorIgnored RowIsOwn PlanIsItsGraph
           OracleIsForward FusedIsOracle VerdictIsEarned GoldIsMeasured
\* Blocks, prompts, sequences and sweeps come to an end.
CHECK_DEADLOCK FALSE
