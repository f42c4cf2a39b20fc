SPECIFICATION FairSpec
CONSTANTS
  Clients = {c1, c2, c3, c4}
  max_locks = 2
  MaxExtra = 0
  MaxCalls = 2
INVARIANTS
  OneWriter
  NoReaderBesideWriter
  AtMostMaxLocks
  NobodyOversleeps
PROPERTY EverybodyServed
