----------------------------- MODULE DlibWrapper -----------------------------
(***************************************************************************)
(* The landmark smoothing of DlibWrapper/DlibWrapper.mm.                   *)
(*                                                                         *)
(* Each detection predicts a shape, the landmarks of the face in the frame,*)
(* compares it part by part with the shape that was drawn last, and hands  *)
(* it to the mask view only if some coordinate has moved by Threshold or   *)
(* more.  Everything runs on sampleQueue, except prepare, which the main   *)
(* thread calls too.  The predictor of the dlib library is not modelled:   *)
(* it may return any shape.                                                *)
(***************************************************************************)
EXTENDS Integers

CONSTANTS
  NumParts,     \* landmarks of a shape
  Coords,       \* the coordinates a landmark may have
  Threshold

ASSUME DlibAssumption ==
  /\ NumParts \in Nat \ {0}
  /\ Coords \subseteq Int
  /\ Threshold \in Nat \ {0}

VARIABLES
  prepared,         \* the predictor has been read from its file
  pc,               \* "idle", or "compare" in the loop over the parts
  part,             \* the loop's index
  shape,            \* the shape of this detection, or of the last one
  prevShape, isPrevShapeNull,
  maxDiff,
  drawn, isDrawn    \* what updateDlibVertices was last called with, if it was

vars == <<prepared, pc, part, shape, prevShape, isPrevShapeNull, maxDiff,
          drawn, isDrawn>>

Parts  == 0 .. NumParts - 1
Points == [x : Coords, y : Coords]
Shapes == [Parts -> Points]

Abs(n) == IF n < 0 THEN -n ELSE n
MAX(m, n) == IF m > n THEN m ELSE n

\* Before the first detection the shapes have no part; nothing reads them.
Init ==
  /\ prepared = FALSE /\ pc = "idle" /\ part = 0
  /\ shape \in Shapes /\ prevShape = shape /\ drawn = shape
  /\ isPrevShapeNull = TRUE /\ isDrawn = FALSE
  /\ maxDiff = 0
-----------------------------------------------------------------------------
\* openSession calls prepare.
Prepare ==
  /\ prepared' = TRUE
  /\ UNCHANGED <<pc, part, shape, prevShape, isPrevShapeNull, maxDiff, drawn,
                 isDrawn>>

\* detectFaceFromSampleBuffer up to the loop; it prepares when nobody has.
DetectFace(predicted) ==
  /\ pc = "idle"
  /\ prepared' = TRUE
  /\ shape' = predicted /\ part' = 0 /\ pc' = "compare"
  /\ UNCHANGED <<prevShape, isPrevShapeNull, maxDiff, drawn, isDrawn>>

\* Both coordinate differences go into maxDiff, if they are larger.
LargestDiff(p, q) == MAX(MAX(maxDiff, Abs(p.x - q.x)), Abs(p.y - q.y))

ComparePart ==
  /\ pc = "compare" /\ part < NumParts
  /\ maxDiff' = IF isPrevShapeNull THEN maxDiff
                ELSE LargestDiff(shape[part], prevShape[part])
  /\ part' = part + 1
  /\ UNCHANGED <<prepared, pc, shape, prevShape, isPrevShapeNull, drawn, isDrawn>>

\* The test after the loop, and what it leaves for the next detection.
Moved == maxDiff >= Threshold \/ isPrevShapeNull
LastShape == shape                                \* mutant: kept even if not drawn
KeptShape == IF Moved THEN shape ELSE prevShape
DiffKept == maxDiff                               \* mutant: maxDiff is not reset
DiffReset == 0

Decide ==
  /\ pc = "compare" /\ part = NumParts
  /\ prevShape' = KeptShape
  /\ isPrevShapeNull' = (isPrevShapeNull /\ ~Moved)
  /\ IF Moved THEN drawn' = shape /\ isDrawn' = TRUE
              ELSE UNCHANGED <<drawn, isDrawn>>
  /\ maxDiff' = DiffReset
  /\ pc' = "idle"
  /\ UNCHANGED <<prepared, part, shape>>

Next ==
  \/ Prepare \/ ComparePart \/ Decide
  \/ \E predicted \in Shapes : DetectFace(predicted)

Spec == Init /\ [][Next]_vars
-----------------------------------------------------------------------------
TypeOK ==
  /\ prepared \in BOOLEAN /\ isPrevShapeNull \in BOOLEAN /\ isDrawn \in BOOLEAN
  /\ pc \in {"idle", "compare"} /\ part \in 0 .. NumParts
  /\ shape \in Shapes /\ prevShape \in Shapes /\ drawn \in Shapes
  /\ maxDiff \in Nat

Near(p, q) == Abs(p.x - q.x) < Threshold /\ Abs(p.y - q.y) < Threshold
Close(s, t) == \A i \in Parts : Near(s[i], t[i])

\* The smoothing bounds the error: however the face has moved since the mask was
\* last drawn, frame by frame below the threshold or in jumps, no landmark drawn
\* is Threshold or more away from where the last detection has seen it.
DrawnTracksFace == isDrawn /\ pc = "idle" => Close(drawn, shape)

\* And it does smooth: the mask is redrawn only for a face that has really moved
\* away from what is drawn, never for a difference left over from before.
RedrawnOnlyIfMoved ==
  [][drawn' # drawn \/ isDrawn' # isDrawn => ~isDrawn \/ ~Close(drawn, shape)]_vars
=============================================================================
