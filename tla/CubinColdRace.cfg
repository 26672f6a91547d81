\* Two processes that build the same kernel at once.
CONSTANTS
  Procs = {p, q}
  Kernels = {k}
  Opts = {o}
  Setups <- Cold
SPECIFICATION DiskSpec
INVARIANTS NeverNoOp
