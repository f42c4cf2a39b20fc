SPECIFICATION SpecUnpaired
CONSTANTS
  Clients = {c1, c2, c3}
  max_locks = 2
  MaxExtra = 1
  MaxCalls = 2
INVARIANT NoReaderBesideWriter
SYMMETRY ClientSymmetry
