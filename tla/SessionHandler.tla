--------------------------- MODULE SessionHandler ---------------------------
(***************************************************************************)
(* The capture session of ViewController/SessionHandler.swift.             *)
(*                                                                         *)
(* One SessionHandler object is called back on two serial dispatch queues  *)
(* and is also written by the main thread, with no lock anywhere:          *)
(*   - faceQueue    publishes the faces of the last metadata callback in   *)
(*                  currentMetadata,                                       *)
(*   - sampleQueue  handles one video frame at a time: it reads            *)
(*                  currentMetadata several times, starts a detection at   *)
(*                  most every FDTimeThreshold, and asks the main queue to *)
(*                  show or hide the mask view,                            *)
(*   - the main thread runs the posted blocks in FIFO order and, for the   *)
(*                  view controller, sets isFaceDetectionOff and glView.   *)
(* An action is one access to the state the threads share.  A handler      *)
(* between two accesses is a value of its program counter.                 *)
(*                                                                         *)
(* The view controller is the environment of this module: it may call      *)
(* openSession and stopRunning, write the flag, install the view, and post *)
(* blocks of its own at any time.                                          *)
(***************************************************************************)
EXTENDS Integers, Sequences

CONSTANTS
  Faces,            \* the face objects a metadata callback may report
  Masks,            \* the masks; the block posted for one is named by it
  FDTimeThreshold,  \* least time between two detections, in clock ticks
  MaxQueue          \* bound: no frame begins while this many blocks are pending

ASSUME SessionAssumption ==
  /\ Faces # {}
  /\ Masks \cap {"show", "hide"} = {}
  /\ FDTimeThreshold \in Nat
  /\ MaxQueue \in Nat \ {0}

VARIABLES
  mainQueue,           \* blocks posted to the main queue and not yet started
  running,             \* between session.startRunning and session.stopRunning
  attached,            \* what addInput and addOutput have put in the session
  currentMetadata,     \* the faces last published by faceQueue
  isFaceDetectionOff,
  glView,              \* the mask view has been installed (is not nil)
  isHidden,            \* glView.isHidden
  facePC, faceValue,   \* faceQueue's handler and the value it will publish
  samplePC,            \* sampleQueue's handler
  age,                 \* the clock minus lastFaceDetectedTime, saturated
  sampledAge,          \* the clock minus currentFaceDetectedTime, saturated
  trap                 \* the run-time check that ended the process, if any

faceVars   == <<currentMetadata, facePC, faceValue>>
clockVars  == <<age, sampledAge>>
viewVars   == <<glView, isHidden>>
deviceVars == <<running, attached>>
vars == <<mainQueue, deviceVars, faceVars, isFaceDetectionOff, viewVars,
          samplePC, clockVars, trap>>
-----------------------------------------------------------------------------
VisibilityBlocks == {"show", "hide"}
Blocks == VisibilityBlocks \cup Masks

\* Time enters the code only through one difference and its comparison with
\* FDTimeThreshold, so every difference beyond the threshold is the same value.
Ages == -(FDTimeThreshold + 1) .. (FDTimeThreshold + 1)
Saturate(n) == IF n > FDTimeThreshold + 1 THEN FDTimeThreshold + 1 ELSE n
Abs(n) == IF n < 0 THEN -n ELSE n

\* The handler holds a clock value it has read and not yet stored.
Measuring == samplePC \in {"detect", "detecting", "stamp"}

SamplePCs == {"idle", "meta", "face", "show", "throttle", "detect",
              "detecting", "stamp", "noface", "hide", "enqueue"}
Traps == {"none", "device", "connection", "metaTypes", "glView", "race",
          "first"}

\* A trap ends the process: no action is possible any more.
Alive == trap = "none"

Init ==
  /\ mainQueue = << >>
  /\ running = FALSE /\ attached = {}
  /\ currentMetadata = {} /\ facePC = "idle" /\ faceValue = {}
  /\ isFaceDetectionOff = FALSE
  /\ glView = FALSE /\ isHidden = FALSE
  /\ samplePC = "idle"
  /\ age = FDTimeThreshold + 1 /\ sampledAge = 0
  /\ trap = "none"
-----------------------------------------------------------------------------
(* The capture session, opened and stopped by the view controller.         *)

\* openSession makes a new input and two new outputs, adds each one only if
\* the session accepts it, and then configures them whether or not they were
\* added: an output without an input has no connection to force-unwrap, and
\* an output that is not in the session offers no metadata type to assign.
OpenSession ==
  /\ Alive
  /\ \E added \in SUBSET {"input", "video", "meta"} :
       /\ attached' = attached \cup added
       /\ \/ /\ trap' = "device"          \* no front camera, or no permission
             /\ added = {} /\ UNCHANGED running
          \/ /\ ~({"video"} \subseteq added /\ "input" \in attached')
             /\ trap' = "connection" /\ UNCHANGED running
          \/ /\ "video" \in added /\ "input" \in attached'
             /\ "meta" \notin added
             /\ trap' = "metaTypes" /\ UNCHANGED running
          \/ /\ {"video", "meta"} \subseteq added /\ "input" \in attached'
             /\ running' = TRUE /\ UNCHANGED trap
  /\ UNCHANGED <<mainQueue, faceVars, isFaceDetectionOff, viewVars, samplePC,
                 clockVars>>

\* Callbacks that have begun when the session stops still run to their end.
StopRunning ==
  /\ Alive
  /\ running' = FALSE
  /\ UNCHANGED <<mainQueue, attached, faceVars, isFaceDetectionOff, viewVars,
                 samplePC, clockVars, trap>>
-----------------------------------------------------------------------------
(* faceQueue: captureOutput(_:didOutputMetadataObjects:from:).             *)

\* isFaceDetectionOff ? emptyArray : metadataObjects
PublishedAnyway(metadataObjects) == metadataObjects    \* mutant: no test
Published(metadataObjects) ==
  IF isFaceDetectionOff THEN {} ELSE metadataObjects

FaceCallback(metadataObjects) ==
  /\ Alive /\ facePC = "idle" /\ running
  /\ faceValue' = Published(metadataObjects)
  /\ facePC' = "publish"
  /\ UNCHANGED <<mainQueue, deviceVars, currentMetadata, isFaceDetectionOff,
                 viewVars, samplePC, clockVars, trap>>

FacePublish ==
  /\ Alive /\ facePC = "publish"
  /\ currentMetadata' = faceValue
  /\ facePC' = "idle" /\ faceValue' = {}
  /\ UNCHANGED <<mainQueue, deviceVars, isFaceDetectionOff, viewVars, samplePC,
                 clockVars, trap>>
-----------------------------------------------------------------------------
(* sampleQueue: captureOutput(_:didOutputSampleBuffer:from:).              *)

SampleGoto(from, to) == Alive /\ samplePC = from /\ samplePC' = to

SampleLeaves == UNCHANGED <<deviceVars, faceVars, isFaceDetectionOff, viewVars>>

\* A frame that arrives while the handler is busy is dropped (didDrop).
SampleCallback ==
  /\ running /\ Len(mainQueue) < MaxQueue
  /\ SampleGoto("idle", "meta")
  /\ SampleLeaves /\ UNCHANGED <<mainQueue, clockVars, trap>>

\* if !currentMetadata.isEmpty
SampleReadMetadata ==
  /\ SampleGoto("meta", IF currentMetadata # {} THEN "face" ELSE "noface")
  /\ SampleLeaves /\ UNCHANGED <<mainQueue, clockVars, trap>>

\* if self.glView.isHidden: the implicit unwrap traps on a view not there yet.
ShowsWithoutTest == TRUE              \* mutant: a show block for every frame
ShowsWhenShown == ~isHidden           \* mutant: the test is negated
WantsShow == isHidden

SampleReadHidden ==
  /\ Alive /\ samplePC = "face"
  /\ IF glView
     THEN /\ samplePC' = IF WantsShow THEN "show" ELSE "throttle"
          /\ UNCHANGED trap
     ELSE trap' = "glView" /\ UNCHANGED samplePC
  /\ SampleLeaves /\ UNCHANGED <<mainQueue, clockVars>>

SamplePostShow ==
  /\ SampleGoto("show", "throttle")
  /\ mainQueue' = Append(mainQueue, "show")
  /\ SampleLeaves /\ UNCHANGED <<clockVars, trap>>

\* Reads the clock, and compares it with the time of the last detection.  A
\* frame that comes too early leaves that time alone.
DetectionDue == Abs(age) > FDTimeThreshold
StampsAnyway == "stamp"               \* mutant: the time is stored regardless
AfterTooEarly == "enqueue"

SampleThrottle ==
  /\ SampleGoto("throttle", IF DetectionDue THEN "detect" ELSE AfterTooEarly)
  /\ sampledAge' = 0
  /\ SampleLeaves /\ UNCHANGED <<mainQueue, age, trap>>

\* currentMetadata is read again for the argument of detectFace, and its
\* first element is force-unwrapped.
SampleFirstFace ==
  /\ Alive /\ samplePC = "detect"
  /\ IF currentMetadata # {}
     THEN samplePC' = "detecting" /\ UNCHANGED trap
     ELSE trap' = "first" /\ UNCHANGED samplePC
  /\ SampleLeaves /\ UNCHANGED <<mainQueue, clockVars>>

\* Reading an array property retains the array that faceQueue may be releasing:
\* the reads at the top of the handler, for boundsArray and for detectFace.
SampleMetadataRace ==
  /\ Alive
  /\ samplePC \in {"meta", "throttle", "detect"} /\ facePC = "publish"
  /\ trap' = "race"
  /\ SampleLeaves /\ UNCHANGED <<mainQueue, samplePC, clockVars>>

\* wrapper.detectFace returns.
SampleDetected ==
  /\ SampleGoto("detecting", "stamp")
  /\ SampleLeaves /\ UNCHANGED <<mainQueue, clockVars, trap>>

\* lastFaceDetectedTime = currentFaceDetectedTime, read before the detection.
StampedInSeconds == sampledAge + 1000 \* mutant: not the unit it is compared in
StampedAge == sampledAge

SampleStamp ==
  /\ SampleGoto("stamp", "enqueue")
  /\ age' = StampedAge /\ sampledAge' = 0
  /\ SampleLeaves /\ UNCHANGED <<mainQueue, trap>>

\* The other branch: if glView != nil, if !self.glView.isHidden.
HidesWithoutTest == glView            \* mutant: a hide block for every frame
HidesWithoutView == ~isHidden         \* mutant: the nil test is dropped
HidesWhenHidden == glView /\ isHidden \* mutant: the test is not negated
WantsHide == glView /\ ~isHidden

SampleReadShown ==
  /\ SampleGoto("noface", IF WantsHide THEN "hide" ELSE "enqueue")
  /\ SampleLeaves /\ UNCHANGED <<mainQueue, clockVars, trap>>

SamplePostHide ==
  /\ SampleGoto("hide", "enqueue")
  /\ mainQueue' = Append(mainQueue, "hide")
  /\ SampleLeaves /\ UNCHANGED <<clockVars, trap>>

\* layer.enqueue(sampleBuffer) hands the frame to the display layer.
SampleEnqueue ==
  /\ SampleGoto("enqueue", "idle")
  /\ SampleLeaves /\ UNCHANGED <<mainQueue, clockVars, trap>>

SampleStep ==
  \/ SampleReadMetadata \/ SampleReadHidden \/ SamplePostShow
  \/ SampleThrottle \/ SampleFirstFace \/ SampleMetadataRace
  \/ SampleDetected \/ SampleStamp
  \/ SampleReadShown \/ SamplePostHide \/ SampleEnqueue
-----------------------------------------------------------------------------
(* The main queue.                                                         *)

MainLeaves == UNCHANGED <<deviceVars, faceVars, samplePC, clockVars, trap>>

\* The blocks posted by the sample handler: self.glView.isHidden = false/true.
RunVisibilityBlock ==
  /\ Alive /\ mainQueue # << >> /\ Head(mainQueue) \in VisibilityBlocks
  /\ mainQueue' = Tail(mainQueue)
  /\ isHidden' = (Head(mainQueue) = "hide")
  /\ MainLeaves /\ UNCHANGED <<isFaceDetectionOff, glView>>

\* What the view controller does to this object on the main thread.
PostMaskBlock(mask) ==
  /\ Alive /\ Len(mainQueue) <= MaxQueue
  /\ mainQueue' = Append(mainQueue, mask)
  /\ MainLeaves /\ UNCHANGED <<isFaceDetectionOff, viewVars>>

RunMaskBlock ==
  /\ Alive /\ mainQueue # << >> /\ Head(mainQueue) \in Masks
  /\ mainQueue' = Tail(mainQueue)
  /\ MainLeaves /\ UNCHANGED <<isFaceDetectionOff, viewVars>>

SetFaceDetectionOff(off) ==
  /\ Alive
  /\ isFaceDetectionOff' = off
  /\ MainLeaves /\ UNCHANGED <<mainQueue, viewVars>>

\* A view is created visible.
InstallView ==
  /\ Alive /\ ~glView
  /\ glView' = TRUE /\ isHidden' = FALSE
  /\ MainLeaves /\ UNCHANGED <<mainQueue, isFaceDetectionOff>>
-----------------------------------------------------------------------------
(* The wall clock of Date(), which runs on and may be set.                 *)

ClockLeaves == UNCHANGED <<mainQueue, deviceVars, faceVars, isFaceDetectionOff,
                           viewVars, samplePC, trap>>

Tick ==
  /\ Alive
  /\ age' = Saturate(age + 1)
  /\ sampledAge' = IF Measuring THEN Saturate(sampledAge + 1) ELSE sampledAge
  /\ ClockLeaves

ClockSet ==
  /\ Alive
  /\ age' \in Ages
  /\ IF Measuring THEN sampledAge' \in Ages ELSE UNCHANGED sampledAge
  /\ ClockLeaves
  /\ ~Tick
-----------------------------------------------------------------------------
ViewControllerStep ==
  \/ OpenSession \/ StopRunning \/ InstallView \/ RunMaskBlock
  \/ \E mask \in Masks : PostMaskBlock(mask)
  \/ \E off \in BOOLEAN : SetFaceDetectionOff(off)

Step ==
  \/ ViewControllerStep
  \/ \E metadataObjects \in SUBSET Faces : FaceCallback(metadataObjects)
  \/ FacePublish
  \/ SampleCallback \/ SampleStep
  \/ RunVisibilityBlock
  \/ Tick \/ ClockSet

Halted == ~Alive /\ UNCHANGED vars

Next == Step \/ Halted

Spec == Init /\ [][Next]_vars

\* Dispatch runs what its queues hold, the camera goes on delivering frames
\* while the session runs, and time passes.  Nothing is assumed of what the
\* camera sees, nor of the view controller but that it does not hold the main
\* queue at the bound MaxQueue for ever.  The code has no such bound: that is
\* why the frame callback, which the bound disables, is strongly fair.
Fairness ==
  /\ WF_vars(SampleStep)
  /\ SF_vars(SampleCallback)
  /\ WF_vars(FacePublish)
  /\ WF_vars(RunVisibilityBlock \/ RunMaskBlock)
  /\ WF_vars(Tick)
  /\ []<>(~Alive \/ Len(mainQueue) < MaxQueue)

FairSpec == Spec /\ Fairness
-----------------------------------------------------------------------------
(* Properties.                                                             *)

TypeOK ==
  /\ mainQueue \in Seq(Blocks)
  /\ running \in BOOLEAN /\ attached \subseteq {"input", "video", "meta"}
  /\ currentMetadata \subseteq Faces /\ faceValue \subseteq Faces
  /\ facePC \in {"idle", "publish"}
  /\ isFaceDetectionOff \in BOOLEAN
  /\ glView \in BOOLEAN /\ isHidden \in BOOLEAN
  /\ samplePC \in SamplePCs
  /\ age \in Ages /\ sampledAge \in Ages
  /\ trap \in Traps

\* The block that would change the visibility h: "show" when hidden.
Flip(h) == IF h THEN "show" ELSE "hide"

\* The handler asks for a block whenever the view is not as it wants it, frame
\* after frame, without knowing what it has already asked for.  Whatever the
\* interleaving, what is pending flips the view at most once: behind the first
\* pending block that changes isHidden there is none that changes it back, so
\* draining the queue cannot make the mask flicker.
AtMostOneFlip ==
  \A i, j \in 1 .. Len(mainQueue) :
    i < j /\ mainQueue[i] = Flip(isHidden) => mainQueue[j] # Flip(~isHidden)

\* Both blocks unwrap self.glView when they run on the main thread.  None is
\* ever posted before the view is there, so none of them can trap.
NoBlockBeforeView ==
  ~glView => \A i \in 1 .. Len(mainQueue) : mainQueue[i] \notin VisibilityBlocks

\* What the handler has read of the view before it posts is still true of the
\* main queue, or has been overtaken only by blocks that agree with it.
ReadStillCovered ==
  /\ samplePC \in {"show", "hide"} => glView
  /\ samplePC = "show" /\ ~isHidden =>
       \A i \in 1 .. Len(mainQueue) : mainQueue[i] # "hide"
  /\ samplePC = "hide" /\ isHidden =>
       \A i \in 1 .. Len(mainQueue) : mainQueue[i] # "show"

\* Detection is off and nothing on its way can start one: no face is published
\* or about to be, and the frame being handled has not seen one.
DetectionQuiet ==
  /\ isFaceDetectionOff
  /\ currentMetadata = {} /\ faceValue = {}
  /\ samplePC \in {"idle", "meta", "noface", "hide", "stamp", "enqueue"}

\* Setting isFaceDetectionOff does not stop a detection by itself.  This is the
\* guarantee the flag does give while a mask is exchanged: once quiet, detection
\* stays quiet until the flag is cleared, whatever the callbacks in between.
QuietUntilFlagCleared ==
  [][DetectionQuiet => DetectionQuiet' \/ ~isFaceDetectionOff']_vars

\* With faces in view from some time on, the mask is shown and stays shown,
\* although hide blocks posted earlier may still be in the main queue.
EventuallyShown ==
  <>[](running /\ currentMetadata # {}) =>
    <>[](~Alive \/ ~isHidden)

\* With no face from some time on, an installed mask is hidden and stays so.
EventuallyHidden ==
  <>[](running /\ currentMetadata = {} /\ glView) =>
    <>[](~Alive \/ isHidden)

\* With faces in view and the clock no longer set, the throttle always lets
\* another detection through: it never starves on the times it has stored.
DetectionsContinue ==
  (<>[](running /\ currentMetadata # {}) /\ <>[][~ClockSet]_vars) =>
    []<>(~Alive \/ samplePC = "detecting")

\* var glView:OGLView! states that there is a view whenever it is used.
GLViewIsThere == trap # "glView"

\* first! states that there is a face when detectFace is called.
FirstFaceIsThere == trap # "first"
=============================================================================
