SPECIFICATION Spec
CONSTANTS
  Threads = {t1, t2, t3}
  Items = {a, b}
  MaxSize = 2
  Nums = {1}
SYMMETRY PipeSymmetry
INVARIANTS
  Convention
  NobodyOversleeps
  DequeuersSuffice
  DestroyedEmpty
PROPERTY ImplementsFifo
