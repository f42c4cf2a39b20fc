SPECIFICATION AppSpec
CONSTANTS
  Faces = {f1}
  Masks = {m1}
  WellFormed = {m1}
  DefaultMask = m1
  FDTimeThreshold = 0
  MaxQueue = 2
INVARIANT FirstFaceIsThere
