---------------------------- MODULE MaskTracking ----------------------------
(***************************************************************************)
(* The mask on the face: ViewController and its session, composed with the *)
(* mask view of OGLView and the comparison with the last shape of          *)
(* DlibWrapper.                                                            *)
(*                                                                         *)
(* The two threads that OGLView leaves free are bound here to what starts  *)
(* them.  setupVBOs runs inside the mask block, or inside the initialiser  *)
(* of the view that the block creates; updateDlibVertices runs inside the  *)
(* detection that the frame handler has started, when DlibWrapper finds    *)
(* that the face has moved.                                                *)
(*                                                                         *)
(* DlibWrapper's comparison is reduced to its outcome: two shapes that     *)
(* differ by the threshold or more are different Shapes here, and those    *)
(* that do not are one.                                                    *)
(***************************************************************************)
EXTENDS ViewController

CONSTANTS
  Shapes,       \* what the predictor may return
  Complete      \* the masks whose file lists all 76 landmarks

ASSUME TrackingAssumption ==
  /\ Complete \subseteq Masks
  /\ "none" \notin Shapes /\ Shapes \cap Masks = {}

VARIABLES
  vertices, points, reference, cur,     \* as in OGLView
  setupPC, setupTodo, setupMask, updatePC, updateTodo, face,
  installed, overlapped,
  prevShape,    \* DlibWrapper's, "none" while isPrevShapeNull
  moved         \* the running detection has found that the face has moved

oglVars   == <<vertices, points, reference, cur, setupPC, setupTodo, setupMask,
               updatePC, updateTodo, face, installed, overlapped>>
trackVars == <<oglVars, prevShape, moved>>

View == INSTANCE OGLView WITH Detections <- Shapes, mask <- setupMask

TrackInit ==
  /\ AppInit /\ View!Init
  /\ prevShape = "none" /\ moved = FALSE
-----------------------------------------------------------------------------
(* The main thread.                                                        *)

\* setupVBOs is called with the mask the block has captured, by the block or by
\* the initialiser of the view.
BlockSetsUp ==
  /\ BeginMaskBlock
  /\ View!SetupVBOs(Head(mainQueue))
  /\ UNCHANGED <<prevShape, moved>>

SetsUp == Alive /\ View!SetupStep /\ UNCHANGED <<appVars, prevShape, moved>>

\* ... and has returned when the block goes on.
SetupReturned == setupPC = "idle"

BlockGoesOn ==
  /\ SetupReturned /\ (SetupVBOs \/ CreateView)
  /\ UNCHANGED trackVars

OnMain ==
  /\ User \/ LoadRssFeed \/ Resume \/ BeginVisibilityBlock
  /\ UNCHANGED trackVars
-----------------------------------------------------------------------------
(* The frame handler on sampleQueue, from detectFace on.                   *)

\* if (maxDiff >= Threshold || isPrevShapeNull), and what is kept.
KeptNever(shape) == "none"            \* mutant: prevShape is not kept
Kept(shape) == shape

Decide(shape) ==
  /\ samplePC = "detecting" /\ ~moved /\ updatePC = "idle"
  /\ Alive
  /\ shape # prevShape
  /\ prevShape' = Kept(shape) /\ moved' = TRUE
  /\ View!UpdateDlibVertices(shape)
  /\ UNCHANGED appVars

Draws == Alive /\ View!UpdateStep /\ UNCHANGED <<appVars, prevShape, moved>>

\* detectFace returns, with or without an update.
DetectionReturns ==
  /\ updatePC = "idle"
  /\ SampleDetected /\ moved' = FALSE
  /\ UNCHANGED <<vcVars, oglVars, prevShape>>

\* The clock only runs on here: to set it makes a detection due at another time,
\* which Tick does as well.
OtherCallback ==
  /\ CallbackStep /\ ~SampleDetected /\ ~ClockSet
  /\ UNCHANGED trackVars
-----------------------------------------------------------------------------
Tracking ==
  \/ OnMain \/ BlockSetsUp \/ SetsUp \/ BlockGoesOn
  \/ (\E shape \in Shapes : Decide(shape)) \/ Draws
  \/ DetectionReturns \/ OtherCallback

TrackHalted == ~Alive /\ UNCHANGED <<appVars, trackVars>>

TrackNext == Tracking \/ TrackHalted

TrackSpec == TrackInit /\ [][TrackNext]_<<appVars, trackVars>>
-----------------------------------------------------------------------------
(* Properties.                                                             *)

\* The last mask block began with detection at rest, and is past its set-up.
SetUpAtRest ==
  quietStart /\ setupPC = "idle" /\ installed /\ loading \in Complete

\* The flag isFaceDetectionOff does what the view controller sets it for: a mask
\* block that begins with detection at rest has the vertices to itself until the
\* reference geometry of its mask has been taken from them, although frames and
\* faces keep arriving on two other threads.
ReferenceProtected ==
  SetUpAtRest =>
    \A part \in {"eyes", "outer"} : reference[part] = View!OfMask(loading)

\* And from then on the comparison of one component and the vertices of the other
\* agree: between detections the mask on screen is the template just set up, or
\* that template carried over to the very shape the next one is compared with.
ShowsWhatIsCompared ==
  SetUpAtRest /\ updatePC = "idle" =>
    \/ \A c \in View!Coords : vertices[c] = View!OfMask(loading)
    \/ /\ \A c \in View!Eyes : vertices[c] = View!OfFace(prevShape)
       /\ \A c \in View!Outer : vertices[c] = View!Fitted(loading, prevShape)
=============================================================================
