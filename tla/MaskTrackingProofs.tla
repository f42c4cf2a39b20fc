------------------------- MODULE MaskTrackingProofs -------------------------
(***************************************************************************)
(* Proof that the flag isFaceDetectionOff protects the set-up of the mask  *)
(* view, across the three threads and the three components, for any masks, *)
(* faces and shapes.  What is proved of ViewController and of OGLView each *)
(* by itself is put together here: the one says that no detection runs     *)
(* during the set-up, the other what a set-up is worth that none overlaps. *)
(* The composition implements both, so that their theorems are its own.    *)
(***************************************************************************)
EXTENDS MaskTracking, ViewControllerProofs

VP == INSTANCE OGLViewProofs WITH Detections <- Shapes, mask <- setupMask

\* The composition has the same view.
LEMMA SameView ==
  /\ View!Init <=> VP!Init
  /\ \A m : View!SetupVBOs(m) <=> VP!SetupVBOs(m)
  /\ \A f : View!UpdateDlibVertices(f) <=> VP!UpdateDlibVertices(f)
  /\ View!SetupStep <=> VP!SetupStep
  /\ View!UpdateStep <=> VP!UpdateStep
  <1>1. View!Init <=> VP!Init
    BY DEF View!Init, VP!Init, View!Mixed, VP!Mixed, View!Coords, VP!Coords, View!Eyes,
      VP!Eyes, View!Outer, VP!Outer
  <1>2. \A m : View!SetupVBOs(m) <=> VP!SetupVBOs(m)
    BY DEF View!SetupVBOs, VP!SetupVBOs, View!EyeCoords, VP!EyeCoords, View!OuterCoords,
      VP!OuterCoords, View!updateVars, VP!updateVars
  <1>3. \A f : View!UpdateDlibVertices(f) <=> VP!UpdateDlibVertices(f)
    BY DEF View!UpdateDlibVertices, VP!UpdateDlibVertices, View!EyeCoords, VP!EyeCoords,
      View!setupVars, VP!setupVars
  <1>4. View!SetupPut <=> VP!SetupPut
    BY DEF View!SetupPut, VP!SetupPut, View!OfMask, VP!OfMask, View!updateVars,
      VP!updateVars
  <1>5. View!SetupLoopEnds <=> VP!SetupLoopEnds
    BY DEF View!SetupLoopEnds, VP!SetupLoopEnds, View!ReadBack, VP!ReadBack,
      View!EyeCoords, VP!EyeCoords, View!OuterCoords, VP!OuterCoords,
      View!updateVars, VP!updateVars
  <1>6. View!SetupGet <=> VP!SetupGet
    BY DEF View!SetupGet, VP!SetupGet, View!updateVars, VP!updateVars
  <1>7. View!KeepEyes <=> VP!KeepEyes
    BY DEF View!KeepEyes, VP!KeepEyes, View!Common, VP!Common, View!Mixed, VP!Mixed,
      View!Eyes, VP!Eyes, View!updateVars, VP!updateVars
  <1>8. View!KeepOuter <=> VP!KeepOuter
    BY DEF View!KeepOuter, VP!KeepOuter, View!Common, VP!Common, View!Mixed, VP!Mixed,
      View!Outer, VP!Outer, View!updateVars, VP!updateVars
  <1>9. View!UpdatePut <=> VP!UpdatePut
    BY DEF View!UpdatePut, VP!UpdatePut, View!OfFace, VP!OfFace, View!setupVars,
      VP!setupVars
  <1>10. View!UpdateLoopEnds <=> VP!UpdateLoopEnds
    BY DEF View!UpdateLoopEnds, VP!UpdateLoopEnds, View!CurPoints, VP!CurPoints,
      View!EyeCoords, VP!EyeCoords, View!setupVars, VP!setupVars
  <1>11. View!UpdateGet <=> VP!UpdateGet
    BY DEF View!UpdateGet, VP!UpdateGet, View!setupVars, VP!setupVars
  <1>12. View!PlaceStarts <=> VP!PlaceStarts
    BY DEF View!PlaceStarts, VP!PlaceStarts, View!OuterCoords, VP!OuterCoords,
      View!setupVars, VP!setupVars
  <1>13. View!CalculateMaskRect <=> VP!CalculateMaskRect
    BY DEF View!CalculateMaskRect, VP!CalculateMaskRect, View!Placed, VP!Placed,
      View!Common, VP!Common, View!OfMask, VP!OfMask, View!OfFace, VP!OfFace,
      View!Fitted, VP!Fitted, View!Mixed, VP!Mixed, View!Eyes, VP!Eyes,
      View!setupVars, VP!setupVars
  <1> QED
    BY <1>1, <1>2, <1>3, <1>4, <1>5, <1>6, <1>7, <1>8, <1>9, <1>10, <1>11, <1>12,
      <1>13
    DEF View!SetupStep, VP!SetupStep, View!UpdateStep, VP!UpdateStep

LEMMA ViewConstants == Complete \subseteq Masks /\ "none" \notin Masks \cup Shapes
BY ViewAssumption, TrackingAssumption
-----------------------------------------------------------------------------
(* The composition is the view controller with its session ...             *)

LEMMA TrackStepOrHalt ==
  ASSUME [TrackNext]_<<appVars, trackVars>>
  PROVE  Tracking \/ UNCHANGED <<appVars, trackVars>>
BY DEF TrackNext, TrackHalted

LEMMA AppOrNot ==
  ASSUME [TrackNext]_<<appVars, trackVars>>
  PROVE  [AppNext]_appVars
  <1> SUFFICES ASSUME Tracking PROVE [AppNext]_appVars
    BY TrackStepOrHalt
  <1> USE DEF AppNext, AppStep, MainBegins, MainContinues
  <1>1. CASE OnMain
    BY <1>1 DEF OnMain
  <1>2. CASE BlockSetsUp
    BY <1>2 DEF BlockSetsUp
  <1>3. CASE BlockGoesOn
    BY <1>3 DEF BlockGoesOn
  <1>4. CASE SetsUp \/ Draws \/ \E shape \in Shapes : Decide(shape)
    BY <1>4 DEF SetsUp, Draws, Decide
  <1>5. CASE DetectionReturns
    BY <1>5 DEF DetectionReturns, CallbackStep, SampleStep
  <1>6. CASE OtherCallback
    BY <1>6 DEF OtherCallback
  <1> QED
    BY <1>1, <1>2, <1>3, <1>4, <1>5, <1>6 DEF Tracking
-----------------------------------------------------------------------------
(* ... and the mask view.                                                  *)

LEMMA VertexVars ==
  ASSUME UNCHANGED oglVars
  PROVE  UNCHANGED VP!vars
BY DEF oglVars, VP!vars, VP!setupVars, VP!updateVars

LEMMA ViewOrNot ==
  ASSUME [TrackNext]_<<appVars, trackVars>>
  PROVE  [VP!Next]_VP!vars
  <1> SUFFICES ASSUME Tracking PROVE [VP!Next]_VP!vars
    BY TrackStepOrHalt, VertexVars DEF trackVars
  <1>1. CASE BlockSetsUp
    <2>1. Head(mainQueue) \in Masks /\ View!SetupVBOs(Head(mainQueue))
      BY <1>1 DEF BlockSetsUp, BeginMaskBlock, RunMaskBlock
    <2>2. VP!SetupVBOs(Head(mainQueue))
      BY <2>1, SameView
    <2> QED
      BY <2>1, <2>2 DEF VP!Next
  <1>2. CASE SetsUp
    BY <1>2, SameView DEF SetsUp, VP!Next
  <1>3. ASSUME NEW shape \in Shapes, Decide(shape) PROVE [VP!Next]_VP!vars
    <2>1. VP!UpdateDlibVertices(shape)
      BY <1>3, SameView DEF Decide
    <2> QED
      BY <2>1 DEF VP!Next
  <1>4. CASE Draws
    BY <1>4, SameView DEF Draws, VP!Next
  <1>5. CASE OnMain \/ BlockGoesOn \/ DetectionReturns \/ OtherCallback
    BY <1>5, VertexVars DEF OnMain, BlockGoesOn, DetectionReturns, OtherCallback, trackVars
  <1> QED
    BY <1>1, <1>2, <1>3, <1>4, <1>5 DEF Tracking
-----------------------------------------------------------------------------
(* What binds the two together.                                            *)

Bound ==
  /\ setupPC # "idle" => mainPC \in {"setup", "create"}
  /\ updatePC # "idle" => samplePC = "detecting"
  /\ installed \/ setupPC # "idle" => setupMask = loading
  /\ quietStart => ~overlapped
  /\ face = prevShape

TrackInv == AppInv /\ VP!IInv /\ Bound

LEMMA BlockStarts ==
  ASSUME TrackInv, BlockSetsUp
  PROVE  Bound'
  <1>1. /\ setupPC' = "put" /\ setupMask' = Head(mainQueue)
        /\ overlapped' = (updatePC # "idle")
        /\ UNCHANGED <<updatePC, face, prevShape>>
    BY DEF BlockSetsUp, View!SetupVBOs, View!updateVars
  <1>2. /\ mainPC' \in {"setup", "create"} /\ loading' = Head(mainQueue)
        /\ quietStart' = DetectionQuiet /\ samplePC' = samplePC
    BY DEF BlockSetsUp, BeginMaskBlock, MainGoto, RunMaskBlock, MainLeaves
  <1>3. DetectionQuiet => updatePC = "idle"
    BY DEF TrackInv, Bound, DetectionQuiet
  <1> QED
    BY <1>1, <1>2, <1>3 DEF TrackInv, Bound

LEMMA SetUpGoesOn ==
  ASSUME TrackInv, SetsUp
  PROVE  Bound'
  <1>1. /\ UNCHANGED <<setupMask, updatePC, face, overlapped>> /\ setupPC # "idle"
    BY DEF SetsUp, View!SetupStep, View!SetupPut, View!SetupLoopEnds, View!SetupGet,
      View!KeepEyes, View!KeepOuter, View!updateVars
  <1>2. UNCHANGED <<mainPC, samplePC, loading, quietStart, prevShape>>
    BY DEF SetsUp, appVars, vars, vcVars
  <1> QED
    BY <1>1, <1>2 DEF TrackInv, Bound

LEMMA DetectionDecides ==
  ASSUME TrackInv, NEW shape \in Shapes, Decide(shape)
  PROVE  Bound'
  <1>1. /\ updatePC' = "put" /\ face' = shape /\ prevShape' = shape
        /\ overlapped' = (overlapped \/ setupPC # "idle")
        /\ UNCHANGED <<setupPC, setupMask, installed>> /\ samplePC = "detecting"
    BY DEF Decide, Kept, View!UpdateDlibVertices, View!setupVars
  <1>2. UNCHANGED <<mainPC, samplePC, loading, quietStart>>
    BY DEF Decide, appVars, vars, vcVars
  <1>3. quietStart => setupPC = "idle"
    BY <1>1 DEF TrackInv, Bound, AppInv, QuietSetup, DetectionQuiet
  <1> QED
    BY <1>1, <1>2, <1>3 DEF TrackInv, Bound

LEMMA DetectionDraws ==
  ASSUME TrackInv, Draws
  PROVE  Bound'
  <1>1. UNCHANGED <<setupPC, setupMask, installed, face, overlapped>> /\ updatePC # "idle"
    BY DEF Draws, View!UpdateStep, View!UpdatePut, View!UpdateLoopEnds, View!UpdateGet,
      View!PlaceStarts, View!CalculateMaskRect, View!setupVars
  <1>2. UNCHANGED <<mainPC, samplePC, loading, quietStart, prevShape>>
    BY DEF Draws, appVars, vars, vcVars
  <1> QED
    BY <1>1, <1>2 DEF TrackInv, Bound

\* The steps of the session and the view controller that leave the vertices alone: the
\* main thread is not in the set-up, or the frame handler not in a detection.
LEMMA OthersLeave ==
  ASSUME TrackInv, OnMain \/ BlockGoesOn \/ DetectionReturns \/ OtherCallback
  PROVE  Bound'
  <1>1. UNCHANGED <<setupPC, setupMask, updatePC, installed, overlapped, face, prevShape>>
    BY DEF OnMain, BlockGoesOn, DetectionReturns, OtherCallback, trackVars, oglVars
  <1>2. UNCHANGED <<loading, quietStart>>
    BY DEF OnMain, BlockGoesOn, DetectionReturns, OtherCallback, User, ViewDidAppear,
      ViewDidDisappear, DidSelectItem, LoadRssFeed, Resume, BeginVisibilityBlock, SetupVBOs,
      CreateView, CallbackStep, vcVars
  <1>3. setupPC # "idle" => mainPC' = mainPC
    <2>1. CASE OnMain
      BY <2>1 DEF TrackInv, Bound, OnMain, User, ViewDidAppear, ViewDidDisappear,
        DidSelectItem, LoadRssFeed, Resume, BeginVisibilityBlock, MainGoto, vcVars
    <2>2. CASE BlockGoesOn
      BY <2>2 DEF BlockGoesOn, SetupReturned
    <2>3. CASE DetectionReturns \/ OtherCallback
      BY <2>3 DEF DetectionReturns, OtherCallback, CallbackStep, vcVars
    <2> QED
      BY <2>1, <2>2, <2>3
  <1>4. updatePC # "idle" => samplePC' = samplePC
    <2>1. CASE OnMain
      BY <2>1 DEF OnMain, User, ViewDidAppear, OpenSession, ViewDidDisappear, StopRunning,
        DidSelectItem, LoadRssFeed, PostMaskBlock, Resume, SetFaceDetectionOff,
        BeginVisibilityBlock, RunVisibilityBlock, MainLeaves, vars
    <2>2. CASE BlockGoesOn
      BY <2>2 DEF BlockGoesOn, SetupVBOs, CreateView, MainLeaves, vars
    <2>3. CASE DetectionReturns
      BY <2>3 DEF DetectionReturns
    <2>4. ASSUME OtherCallback, samplePC = "detecting" PROVE samplePC' = samplePC
      BY <2>4 DEF OtherCallback, CallbackStep, FaceCallback, FacePublish, SampleCallback,
        SampleStep, SampleReadMetadata, SampleReadHidden, SamplePostShow, SampleThrottle,
        SampleFirstFace, SampleMetadataRace, SampleStamp, SampleReadShown, SamplePostHide,
        SampleEnqueue, SampleGoto, Tick, ClockLeaves
    <2> QED
      BY <2>1, <2>2, <2>3, <2>4 DEF TrackInv, Bound
  <1> QED
    BY <1>1, <1>2, <1>3, <1>4 DEF TrackInv, Bound

LEMMA NextTrackInv ==
  TrackInv /\ [TrackNext]_<<appVars, trackVars>> => TrackInv'
  <1> SUFFICES ASSUME TrackInv, [TrackNext]_<<appVars, trackVars>> PROVE TrackInv'
    OBVIOUS
  <1>1. AppInv'
    BY AppOrNot, NextAppInv DEF TrackInv
  <1>2. VP!IInv'
    BY ViewOrNot, VP!NextIInv, ViewConstants DEF TrackInv
  <1>3. Bound'
    <2>1. CASE UNCHANGED <<appVars, trackVars>>
      BY <2>1 DEF TrackInv, Bound, appVars, trackVars, oglVars, vars, vcVars
    <2>2. CASE Tracking
      BY <2>2, BlockStarts, SetUpGoesOn, DetectionDecides, DetectionDraws, OthersLeave
      DEF Tracking
    <2> QED
      BY <2>1, <2>2, TrackStepOrHalt
  <1> QED
    BY <1>1, <1>2, <1>3 DEF TrackInv

LEMMA InitTrackInv == TrackInit => TrackInv
  <1> SUFFICES ASSUME TrackInit PROVE TrackInv
    OBVIOUS
  <1>1. AppInv
    BY InitAppInv DEF TrackInit
  <1>2. VP!IInv
    BY SameView, VP!InitIInv, ViewConstants DEF TrackInit
  <1>3. Bound
    BY DEF TrackInit, AppInit, View!Init, Bound
  <1> QED
    BY <1>1, <1>2, <1>3 DEF TrackInv
-----------------------------------------------------------------------------
\* A set-up that began at rest was overlapped by no detection.
LEMMA SetUpWasAlone ==
  ASSUME TrackInv, SetUpAtRest
  PROVE  VP!SetUpAlone /\ setupMask = loading
BY DEF TrackInv, Bound, SetUpAtRest, VP!SetUpAlone

LEMMA SameSources ==
  /\ \A m : View!OfMask(m) = VP!OfMask(m)
  /\ \A f : View!OfFace(f) = VP!OfFace(f)
  /\ \A m, f : View!Fitted(m, f) = VP!Fitted(m, f)
  /\ View!Coords = VP!Coords /\ View!Eyes = VP!Eyes /\ View!Outer = VP!Outer
BY DEF View!OfMask, VP!OfMask, View!OfFace, VP!OfFace, View!Fitted, VP!Fitted,
  View!Coords, VP!Coords, View!Eyes, VP!Eyes, View!Outer, VP!Outer

\* The flag isFaceDetectionOff, written on the main thread and read on faceQueue, keeps
\* sampleQueue from the vertices while a mask is set up, if it had come to rest before.
THEOREM ReferenceProtectedCorrect == TrackSpec => []ReferenceProtected
  <1>1. TrackInv => ReferenceProtected
    <2> SUFFICES ASSUME TrackInv, SetUpAtRest
                 PROVE  \A part \in {"eyes", "outer"} : reference[part] = View!OfMask(loading)
      BY DEF ReferenceProtected
    <2>1. VP!ReferenceOfMask
      BY VP!WhatFollows, ViewConstants DEF TrackInv
    <2> QED
      BY <2>1, SetUpWasAlone, SameSources DEF VP!ReferenceOfMask
  <1> QED
    BY <1>1, InitTrackInv, NextTrackInv, PTL DEF TrackSpec

\* ... and the shape that the next one is compared with is the one on screen.
THEOREM ShownIsCompared == TrackSpec => []ShowsWhatIsCompared
  <1>1. TrackInv => ShowsWhatIsCompared
    <2> SUFFICES ASSUME TrackInv, SetUpAtRest, updatePC = "idle"
                 PROVE  \/ \A c \in View!Coords : vertices[c] = View!OfMask(loading)
                        \/ /\ \A c \in View!Eyes : vertices[c] = View!OfFace(prevShape)
                           /\ \A c \in View!Outer :
                                vertices[c] = View!Fitted(loading, prevShape)
      BY DEF ShowsWhatIsCompared
    <2>1. VP!MaskBelongsTogether
      BY VP!WhatFollows, ViewConstants DEF TrackInv
    <2>2. face = prevShape
      BY DEF TrackInv, Bound
    <2> QED
      BY <2>1, <2>2, SetUpWasAlone, SameSources DEF VP!MaskBelongsTogether
  <1> QED
    BY <1>1, InitTrackInv, NextTrackInv, PTL DEF TrackSpec
-----------------------------------------------------------------------------
(* Each component behaves, in the composition, as it does by itself.       *)

LEMMA ViewStep ==
  ASSUME [TrackNext]_<<appVars, trackVars>>
  PROVE  [View!Next]_View!vars
  <1>0. UNCHANGED oglVars => UNCHANGED View!vars
    BY DEF oglVars, View!vars, View!setupVars, View!updateVars
  <1> SUFFICES ASSUME Tracking PROVE [View!Next]_View!vars
    BY <1>0, TrackStepOrHalt DEF trackVars
  <1>1. CASE BlockSetsUp
    <2>1. Head(mainQueue) \in Masks /\ View!SetupVBOs(Head(mainQueue))
      BY <1>1 DEF BlockSetsUp, BeginMaskBlock, RunMaskBlock
    <2> QED
      BY <2>1 DEF View!Next
  <1>2. CASE SetsUp
    BY <1>2 DEF SetsUp, View!Next
  <1>3. ASSUME NEW shape \in Shapes, Decide(shape) PROVE [View!Next]_View!vars
    BY <1>3 DEF Decide, View!Next
  <1>4. CASE Draws
    BY <1>4 DEF Draws, View!Next
  <1>5. CASE OnMain \/ BlockGoesOn \/ DetectionReturns \/ OtherCallback
    BY <1>0, <1>5 DEF OnMain, BlockGoesOn, DetectionReturns, OtherCallback, trackVars
  <1> QED
    BY <1>1, <1>2, <1>3, <1>4, <1>5 DEF Tracking

\* The mask view by itself may be set up, and updated, at any time; the composition only
\* chooses among what it may do then.
THEOREM ViewImplemented == TrackSpec => View!Spec
  <1>1. TrackInit => View!Init
    BY DEF TrackInit
  <1> QED
    BY <1>1, ViewStep, PTL DEF TrackSpec, View!Spec

\* And the view controller goes on as it does without the view: the binding holds a step
\* back, but adds none.
THEOREM AppImplemented == TrackSpec => AppSpec
  <1>1. TrackInit => AppInit
    BY DEF TrackInit
  <1> QED
    BY <1>1, AppOrNot, PTL DEF TrackSpec, AppSpec

\* So what is proved of the session and of the view controller holds of the whole program:
\* masks are installed in the order asked for, the blocks that wait flip the view at most
\* once, and the flag that switches detection off is not forgotten.
THEOREM WholeProgram ==
  TrackSpec => /\ InstallsInOrder
               /\ [](AtMostOneFlip /\ NoBlockBeforeView /\ OffOnlyWhileLoading)
BY AppImplemented, InstallsInOrderCorrect, AppVisibilityCorrect, OffOnlyWhileLoadingCorrect, PTL
=============================================================================
