SPECIFICATION FairSpec
CONSTANTS
  Clients = {c1, c2}
  Workers = {w1, w2}
  Tasks = {1, 2, 3}
  None = None
INVARIANTS
  WorkersSuffice
  SlotsTellTheTruth
  NobodyOversleeps
  NeverStuck
PROPERTIES
  ImplementsExecutor
  TasksFinish
  CallsReturn
