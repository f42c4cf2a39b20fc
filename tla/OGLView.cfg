SPECIFICATION Spec
CONSTANTS
  Masks = {m1, m2, short}
  Complete = {m1, m2}
  Detections = {d1, d2}
INVARIANTS
  ReferenceOfMask
  MaskBelongsTogether
