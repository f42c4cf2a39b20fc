SPECIFICATION Spec
CONSTANTS
  NumParts = 2
  Coords = {0, 1, 2}
  Threshold = 2
INVARIANTS
  DrawnTracksFace
PROPERTY RedrawnOnlyIfMoved
