SPECIFICATION TrackSpec
CONSTANTS
  Faces = {f1}
  Masks = {m1}
  WellFormed = {m1}
  DefaultMask = m1
  FDTimeThreshold = 0
  MaxQueue = 1
  Shapes = {s1, s2}
  Complete = {m1}
SYMMETRY ShapeSymmetry
INVARIANTS
  ReferenceProtected
  ShowsWhatIsCompared
