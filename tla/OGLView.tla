------------------------------- MODULE OGLView -------------------------------
(***************************************************************************)
(* The mask geometry of MaskRenderer/OGLView.mm.                           *)
(*                                                                         *)
(* The vertices of the mask are one global array, and two threads write    *)
(* it without a lock.  The main thread's setupVBOs copies the mask's       *)
(* template into it and then derives the reference geometry from the       *)
(* array: where the vertices outside the face, 68 to 75, lie relative to   *)
(* the corners of the eyes, 36 and 45.  sampleQueue's updateDlibVertices   *)
(* writes the landmarks 0 to 67 of a detection and places the others by    *)
(* that reference.                                                         *)
(*                                                                         *)
(* A coordinate holds no number here but where its value comes from, and   *)
(* one stands for several that are treated alike and one after the other:  *)
(* a float of vertex 36 and one of vertex 45 for the two of each, a third  *)
(* for all those of the vertices outside the face.  The other landmarks    *)
(* take no part in the computation.                                        *)
(***************************************************************************)
EXTENDS Sequences

CONSTANTS
  Masks,
  Complete,     \* the masks whose file lists all 76 landmarks
  Detections    \* what is detected: each the landmarks of some face

ASSUME OGLAssumption ==
  /\ Complete \subseteq Masks
  /\ "none" \notin Masks \cup Detections

VARIABLES
  vertices,       \* faceShapeVertices
  points,         \* maskmap's point68 to 75, prevPoint36 and prevPoint45
  reference,      \* prevDist and prevAngle of the eyes, and of the outside
  cur,            \* maskmap's curPoint36 and curPoint45
  setupPC, setupTodo, mask,     \* setupVBOs, what is left of its loop, its mask
  updatePC, updateTodo, face,   \* the same of updateDlibVertices
  installed,      \* the initialiser has returned: there is a view to update
  overlapped      \* history: an update has overlapped the last setup

setupVars  == <<setupPC, setupTodo, mask, points, reference, installed>>
updateVars == <<updatePC, updateTodo, face, cur>>
vars == <<vertices, setupVars, updateVars, overlapped>>

EyeCoords   == <<"p36", "p45">>
OuterCoords == <<"outer">>
Eyes   == {"p36", "p45"}
Outer  == {"outer"}
Coords == Eyes \cup Outer

\* A value comes from the template of a mask, from a detection, or from both by
\* calculateMaskRect; one computed from a mixture of them is of no use.
Sources == [mask : Masks \cup {"none"}, face : Detections \cup {"none"}]
OfMask(m)    == [mask |-> m, face |-> "none"]
OfFace(f)    == [mask |-> "none", face |-> f]
Fitted(m, f) == [mask |-> m, face |-> f]
Mixed        == [mask |-> "none", face |-> "none"]

\* Where a computation over several coordinates comes from.
Common(sources) == IF \E s \in sources : sources = {s}
                   THEN CHOOSE s \in sources : TRUE ELSE Mixed

Init ==
  /\ vertices = [c \in Coords |-> Mixed] /\ points = [c \in Coords |-> Mixed]
  /\ reference = [part \in {"eyes", "outer"} |-> Mixed]
  /\ cur = [c \in Eyes |-> Mixed]
  /\ setupPC = "idle" /\ setupTodo = << >> /\ mask = "none"
  /\ updatePC = "idle" /\ updateTodo = << >> /\ face = "none"
  /\ installed = FALSE /\ overlapped = FALSE
-----------------------------------------------------------------------------
(* setupVBOs:withLandmaskArray:, on the main thread.  Each step touches one *)
(* float of the array.                                                      *)

SetupVBOs(m) ==
  /\ setupPC = "idle"
  /\ setupPC' = "put" /\ mask' = m
  /\ setupTodo' = EyeCoords \o IF m \in Complete THEN OuterCoords ELSE << >>
  /\ overlapped' = (updatePC # "idle")
  /\ UNCHANGED <<vertices, points, reference, installed, updateVars>>

\* The loop over the landmarks of the file: what it does not list stays.
SetupPut ==
  /\ setupPC = "put" /\ setupTodo # << >>
  /\ vertices' = [vertices EXCEPT ![Head(setupTodo)] = OfMask(mask)]
  /\ setupTodo' = Tail(setupTodo)
  /\ UNCHANGED <<setupPC, mask, points, reference, installed, updateVars,
                 overlapped>>

\* initReferenceMaskData follows: it reads the vertices back, outer ones first,
ReferenceNotTaken == << >>            \* mutant: it is not called
ReadBack == OuterCoords \o EyeCoords

SetupLoopEnds ==
  /\ setupPC = "put" /\ setupTodo = << >>
  /\ setupPC' = "get" /\ setupTodo' = ReadBack
  /\ UNCHANGED <<vertices, mask, points, reference, installed, updateVars,
                 overlapped>>

SetupGet ==
  /\ setupPC = "get" /\ setupTodo # << >>
  /\ points' = [points EXCEPT ![Head(setupTodo)] = vertices[Head(setupTodo)]]
  /\ setupTodo' = Tail(setupTodo)
  /\ UNCHANGED <<vertices, setupPC, mask, reference, installed, updateVars,
                 overlapped>>

\* and derives the distance and angle of the eyes, then those of the outside.
KeepEyes ==
  /\ setupPC = "get" /\ setupTodo = << >>
  /\ reference' = [reference EXCEPT !["eyes"] = Common({points[c] : c \in Eyes})]
  /\ setupPC' = "keep"
  /\ UNCHANGED <<vertices, setupTodo, mask, points, installed, updateVars,
                 overlapped>>

KeepOuter ==
  /\ setupPC = "keep"
  /\ reference' = [reference EXCEPT !["outer"] =
                     Common({points[c] : c \in Outer \cup {"p36"}})]
  /\ setupPC' = "idle" /\ installed' = TRUE
  /\ UNCHANGED <<vertices, setupTodo, mask, points, updateVars, overlapped>>

SetupStep == SetupPut \/ SetupLoopEnds \/ SetupGet \/ KeepEyes \/ KeepOuter
-----------------------------------------------------------------------------
(* updateDlibVertices:WithRect:, on sampleQueue.                           *)

UpdateDlibVertices(f) ==
  /\ updatePC = "idle" /\ installed
  /\ updatePC' = "put" /\ updateTodo' = EyeCoords /\ face' = f
  /\ overlapped' = (overlapped \/ setupPC # "idle")
  /\ UNCHANGED <<vertices, cur, setupVars>>

UpdatePut ==
  /\ updatePC = "put" /\ updateTodo # << >>
  /\ vertices' = [vertices EXCEPT ![Head(updateTodo)] = OfFace(face)]
  /\ updateTodo' = Tail(updateTodo)
  /\ UNCHANGED <<updatePC, face, cur, setupVars, overlapped>>

\* The corners of the eyes are read back into curPoint36 and curPoint45.
OneEyeOnly == <<"p36">>               \* mutant: curPoint45 is not taken anew
CurPoints == EyeCoords

UpdateLoopEnds ==
  /\ updatePC = "put" /\ updateTodo = << >>
  /\ updatePC' = "get" /\ updateTodo' = CurPoints
  /\ UNCHANGED <<vertices, face, cur, setupVars, overlapped>>

UpdateGet ==
  /\ updatePC = "get" /\ updateTodo # << >>
  /\ cur' = [cur EXCEPT ![Head(updateTodo)] = vertices[Head(updateTodo)]]
  /\ updateTodo' = Tail(updateTodo)
  /\ UNCHANGED <<vertices, updatePC, face, setupVars, overlapped>>

\* calculateMaskRect carries the reference over from the template to the face:
\* it needs both corners of the eyes from one face, and a reference of one mask.
Placed ==
  LET eyes  == Common({cur[c] : c \in Eyes})
      rigid == Common({reference["eyes"], reference["outer"]})
  IN  IF \E m \in Masks, f \in Detections : rigid = OfMask(m) /\ eyes = OfFace(f)
      THEN Fitted(rigid.mask, eyes.face) ELSE Mixed

PlaceStarts ==
  /\ updatePC = "get" /\ updateTodo = << >>
  /\ updatePC' = "place" /\ updateTodo' = OuterCoords
  /\ UNCHANGED <<vertices, face, cur, setupVars, overlapped>>

CalculateMaskRect ==
  /\ updatePC = "place" /\ updateTodo # << >>
  /\ vertices' = [vertices EXCEPT ![Head(updateTodo)] = Placed]
  /\ updateTodo' = Tail(updateTodo)
  /\ updatePC' = IF Tail(updateTodo) = << >> THEN "idle" ELSE "place"
  /\ UNCHANGED <<face, cur, setupVars, overlapped>>

UpdateStep ==
  UpdatePut \/ UpdateLoopEnds \/ UpdateGet \/ PlaceStarts \/ CalculateMaskRect
-----------------------------------------------------------------------------
Next ==
  \/ \E m \in Masks : SetupVBOs(m)
  \/ \E f \in Detections : UpdateDlibVertices(f)
  \/ SetupStep \/ UpdateStep

Spec == Init /\ [][Next]_vars
-----------------------------------------------------------------------------
(* Properties.                                                             *)

TypeOK ==
  /\ vertices \in [Coords -> Sources] /\ points \in [Coords -> Sources]
  /\ reference \in [{"eyes", "outer"} -> Sources] /\ cur \in [Eyes -> Sources]
  /\ setupPC \in {"idle", "put", "get", "keep"}
  /\ updatePC \in {"idle", "put", "get", "place"}
  /\ setupTodo \in Seq(Coords) /\ updateTodo \in Seq(Coords)
  /\ mask \in Masks \cup {"none"} /\ face \in Detections \cup {"none"}
  /\ installed \in BOOLEAN /\ overlapped \in BOOLEAN

SetUpAlone == installed /\ setupPC = "idle" /\ ~overlapped /\ mask \in Complete

\* A setup that no detection has overlapped makes everything right again, also
\* after one that was overlapped and took its reference from a mixture of the
\* template and a face: the reference is the new mask's from then on, and no
\* later detection disturbs it.
ReferenceOfMask ==
  SetUpAlone => \A part \in {"eyes", "outer"} : reference[part] = OfMask(mask)

\* Between detections the whole mask belongs together: it is either the template
\* or that template carried over to the face detected last, never partly one
\* and partly the other.
MaskBelongsTogether ==
  SetUpAlone /\ updatePC = "idle" =>
    \/ \A c \in Coords : vertices[c] = OfMask(mask)
    \/ /\ \A c \in Eyes : vertices[c] = OfFace(face)
       /\ \A c \in Outer : vertices[c] = Fitted(mask, face)
=============================================================================
