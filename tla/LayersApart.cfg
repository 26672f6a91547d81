\* Two-byte and four-byte caches; all tokens again, or one at a time.
INIT LlamaInit
NEXT LlamaNext
CONSTANTS
  Vocab = {a}
  Starts <- MCStarts
  Depth = 2
  Slots = 4
  MaxLen = 4
INVARIANTS LayersApart
CHECK_DEADLOCK FALSE
