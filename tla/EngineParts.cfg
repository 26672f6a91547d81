\* In memory: one model whose fusion flags flip at any time; two models that never
\* fuse.  On disk: two processes, one kernel with two sets of options, all the
\* setups that the directory withstands.
\* A block of the attention: frozen layouts of four lanes, blocks of one and of
\* two lanes' worth of threads, lengths below, at and above the lanes.
\* The argmax: up to five logits of four classes (NaN, below the start value, at
\* it, above), three blocks of two threads: full, short and empty chunks, ties.
SPECIFICATION PartsSpec
CONSTANTS
  a = a
  b = b
  Models <- MCModels
  Linears = {"q", "k"}
  Groups = {"qk"}
  Norms = {"n"}
  Samples <- MCSamples
  Sample <- MCSample
  Processes <- Safe
  None = None
  Procs = {p, q}
  Kernels = {k}
  Setups <- Quiet
  Opts = {o1, o2}
  RLANES = 4
  Blocks = {4, 8}
  Attentions = {"decode", "masked"}
  MaxTs = {5}
  Lens = {1, 4, 5}
  HD = 3
  Floats = {0, 1, 2, 3}
  MaxN = 5
  NB = 3
  BlockDim = 2
  Rubbish <- MCRubbish
  MaxTokens = 1
INVARIANTS ServesOwn BakedOwn BakedWarm KernelIsAsked FilesAreWhole
INVARIANTS MemoryIsSafe FrozenSoftmax TokenIsFirstMax
PROPERTIES WarmIsReadOnly
