\* Every combination of the fusion toggles, and forwards that raise or overflow
\* the slab; the C forward over two layers, four slots and both widths of a cache,
\* its load alone or beside a second one of the same or of another file; the
\* operations of the host with blocks, tiles and quants of a few elements and one
\* failure of the driver.
CONSTANTS
  NLayers = 2
  Setups <- AllForwards
  Vocab = {1, 2}
  Starts <- MCStarts
  Depth = 2
  Slots = 4
  MaxLen = 4
  Programs <- MCPrograms
  RowBlock = 2
  GemvBlock = 2
  GemmBlock = 8
  Tile = 4
  TM = 2
  TN = 1
  Quant = 2
  MaxFaults = 1
INIT ForwardsInit
NEXT ForwardsNext
INVARIANTS SameForward NeededIsHeld HeapSteady ForwardIsWhole OpsAsDefined
CHECK_DEADLOCK FALSE
