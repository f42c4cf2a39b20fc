SPECIFICATION AppFairSpec
CONSTANTS
  Faces = {f1}
  Masks = {m1, m2, bad}
  WellFormed = {m1, m2}
  DefaultMask = m1
  FDTimeThreshold = 0
  MaxQueue = 2
INVARIANTS
  OffOnlyWhileLoading
  SetupUndisturbed
PROPERTIES
  ImplementsSession
  InstallsInOrder
  DetectionResumes
  InstallsAll
