SPECIFICATION FairSpec
CONSTANTS
  Faces = {f1}
  Masks = {m1}
  FDTimeThreshold = 1
  MaxQueue = 3
INVARIANTS
  TypeOK
  AtMostOneFlip
  NoBlockBeforeView
  ReadStillCovered
PROPERTIES
  QuietUntilFlagCleared
  EventuallyShown
  EventuallyHidden
  DetectionsContinue
