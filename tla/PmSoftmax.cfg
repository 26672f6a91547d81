SPECIFICATION SoftmaxSpec
CONSTANTS
  RLANES = 2
  Blocks = {8}
  Attentions = {"pm"}
  MaxTs = {3}
  Lens = {1, 3}
  HD = 2
INVARIANT RedInside
