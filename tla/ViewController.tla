--------------------------- MODULE ViewController ---------------------------
(***************************************************************************)
(* The view controller of ViewController/ViewController.swift, with the    *)
(* capture session it drives: the environment that SessionHandler leaves   *)
(* open is here the code that runs on the main thread.                     *)
(*                                                                         *)
(* The main thread runs one thing at a time: a callback of UIKit, or a     *)
(* block of its queue.  The two that touch the session in several places   *)
(* are split there, and mainPC says how far they have come:                *)
(*   didSelectItemAt  sets isFaceDetectionOff, then "load"s the mask,      *)
(*   a mask block     first "setup"s the view or "create"s it, and then    *)
(*                    "resume"s the detection.                             *)
(* Loading parses the mask's file on the spot and posts the block only     *)
(* from parserDidEndDocument, so a file with an error posts none.          *)
(***************************************************************************)
EXTENDS SessionHandler

CONSTANTS
  WellFormed,    \* the masks whose file the parser reads to its end
  DefaultMask    \* the first one of the list

ASSUME ViewAssumption ==
  /\ WellFormed \subseteq Masks /\ DefaultMask \in Masks
  /\ "none" \notin Masks

VARIABLES
  mainPC,          \* what the main thread is doing
  appeared,        \* between viewDidAppear and viewDidDisappear
  requested,       \* the mask last given to loadRssFeed
  loading,         \* the mask of the block that is running, or ran last
  isGLViewAdded,
  mask,            \* the mask last set up in the view, "none" at first
  quietStart       \* history: detection was quiet when the block began

vcVars  == <<mainPC, appeared, requested, loading, isGLViewAdded, mask,
             quietStart>>
appVars == <<vars, vcVars>>

AppInit ==
  /\ Init
  /\ mainPC = "idle" /\ appeared = FALSE
  /\ requested = DefaultMask /\ loading = DefaultMask
  /\ isGLViewAdded = FALSE /\ mask = "none" /\ quietStart = FALSE

MainGoto(from, to) == Alive /\ mainPC = from /\ mainPC' = to
-----------------------------------------------------------------------------
(* Callbacks of UIKit.                                                     *)

ViewDidAppear ==
  /\ ~appeared /\ Len(mainQueue) < MaxQueue
  /\ MainGoto("idle", "load")
  /\ OpenSession
  /\ appeared' = TRUE /\ requested' = DefaultMask
  /\ UNCHANGED <<loading, isGLViewAdded, mask, quietStart>>

ViewDidDisappear ==
  /\ mainPC = "idle" /\ appeared
  /\ StopRunning
  /\ appeared' = FALSE
  /\ UNCHANGED <<mainPC, requested, loading, isGLViewAdded, mask, quietStart>>

DidSelectItem(item) ==
  /\ appeared /\ Len(mainQueue) < MaxQueue
  /\ MainGoto("idle", "load")
  /\ SetFaceDetectionOff(TRUE)
  /\ requested' = item
  /\ UNCHANGED <<appeared, loading, isGLViewAdded, mask, quietStart>>

\* loadRssFeed and, at the end of the document, didEndLandmarksParsing.
AfterPost == "idle"

LoadRssFeed ==
  /\ MainGoto("load", AfterPost)
  /\ IF requested \in WellFormed THEN PostMaskBlock(requested)
                                 ELSE UNCHANGED vars
  /\ UNCHANGED <<appeared, requested, loading, isGLViewAdded, mask, quietStart>>
-----------------------------------------------------------------------------
(* The block posted by didEndLandmarksParsing.                             *)

ViewAddedNotKept == isGLViewAdded     \* mutant: the flag is not set
ViewAddedNow == TRUE

BeginMaskBlock ==
  /\ MainGoto("idle", IF isGLViewAdded THEN "setup" ELSE "create")
  /\ RunMaskBlock
  /\ loading' = Head(mainQueue)
  /\ isGLViewAdded' = ViewAddedNow
  /\ quietStart' = DetectionQuiet
  /\ UNCHANGED <<appeared, requested, mask>>

\* The block has captured the mask it was posted for.
NotCaptured == requested              \* mutant: it reads the parser's last one
CapturedMask == loading

SetupVBOs ==
  /\ MainGoto("setup", "resume")
  /\ mask' = CapturedMask
  /\ UNCHANGED <<vars, appeared, requested, loading, isGLViewAdded, quietStart>>

\* The new view is set up by its initialiser, and visible.
CreateView ==
  /\ MainGoto("create", "resume")
  /\ mask' = CapturedMask
  /\ glView' = TRUE /\ isHidden' = FALSE
  /\ MainLeaves /\ UNCHANGED <<mainQueue, isFaceDetectionOff>>
  /\ UNCHANGED <<appeared, requested, loading, isGLViewAdded, quietStart>>

LeftAsItIs == isFaceDetectionOff      \* mutant: the flag is not cleared
ResumedFlag == FALSE

Resume ==
  /\ MainGoto("resume", "idle")
  /\ SetFaceDetectionOff(ResumedFlag)
  /\ UNCHANGED <<appeared, requested, loading, isGLViewAdded, mask, quietStart>>

BeginVisibilityBlock ==
  /\ mainPC = "idle" /\ RunVisibilityBlock /\ UNCHANGED vcVars
-----------------------------------------------------------------------------
\* What the main thread goes on to do by itself, and the blocks it starts.
MainContinues == LoadRssFeed \/ SetupVBOs \/ CreateView \/ Resume
MainBegins    == BeginMaskBlock \/ BeginVisibilityBlock

User ==
  \/ ViewDidAppear \/ ViewDidDisappear
  \/ \E item \in Masks : DidSelectItem(item)

CallbackStep ==
  /\ \/ \E metadataObjects \in SUBSET Faces : FaceCallback(metadataObjects)
     \/ FacePublish \/ SampleCallback \/ SampleStep \/ Tick \/ ClockSet
  /\ UNCHANGED vcVars

AppStep == User \/ MainContinues \/ MainBegins \/ CallbackStep

AppHalted == ~Alive /\ UNCHANGED appVars

AppNext == AppStep \/ AppHalted

AppSpec == AppInit /\ [][AppNext]_appVars

\* The main thread finishes what it is doing, and its run loop comes back to
\* the queue however many events UIKit has for it.
AppFairness ==
  /\ WF_appVars(MainContinues)
  /\ SF_appVars(MainBegins)

AppFairSpec == AppSpec /\ AppFairness
-----------------------------------------------------------------------------
(* Properties.                                                             *)

AppTypeOK ==
  /\ TypeOK
  /\ mainPC \in {"idle", "load", "setup", "create", "resume"}
  /\ appeared \in BOOLEAN /\ isGLViewAdded \in BOOLEAN
  /\ quietStart \in BOOLEAN
  /\ requested \in Masks /\ loading \in Masks
  /\ mask \in Masks \cup {"none"}
  /\ mainPC = "load" => Len(mainQueue) <= MaxQueue  \* the bound holds up nobody

\* The blocks of masks in a queue, in their order: of its first i blocks first.
MaskBlocks(queue) ==
  LET ofFirst[i \in 0 .. Len(queue)] ==
        IF i = 0 THEN << >>
        ELSE IF queue[i] \in Masks THEN Append(ofFirst[i - 1], queue[i])
        ELSE ofFirst[i - 1]
  IN  ofFirst[Len(queue)]

MasksPosted == MaskBlocks(mainQueue)

\* Selecting a mask switches detection off for everyone, and only the block
\* posted when its file has been read switches it on again.  The flag is never
\* left set without one: a block is on its way, or the last file was malformed.
OffOnlyWhileLoading ==
  isFaceDetectionOff =>
    \/ mainPC \in {"load", "setup", "create", "resume"}
    \/ \E i \in 1 .. Len(mainQueue) : mainQueue[i] \in Masks
    \/ requested \notin WellFormed

\* setupVBOs rewrites the vertices that detectFace writes on sampleQueue, with
\* no lock.  If detection had come to rest when the block began, it stays so
\* until the view is set up, although frames and faces keep arriving.
SetupUndisturbed ==
  mainPC = "setup" /\ quietStart =>
    samplePC \notin {"face", "show", "throttle", "detect", "detecting"}

\* didEndLandmarksParsing makes the view once, and every use of the session by
\* this view controller is one that SessionHandler allows for: in particular a
\* view is installed only where there is none.
ImplementsSession == Spec

\* Masks are installed in the order asked for, whatever is posted in between.
Switch == INSTANCE MaskSwitch WITH
  waiting <- IF mainPC \in {"setup", "create"}
             THEN <<loading>> \o MasksPosted ELSE MasksPosted,
  shown   <- mask

InstallsInOrder == Switch!Spec

\* ... and no mask waits for ever, however many events and blocks come between.
InstallsAll ==
  \A m \in Masks : Switch!Waits(m) ~> (mask = m \/ ~Alive)

\* However often the user selects, detection resumes after every selection of a
\* mask that can be loaded.
DetectionResumes ==
  isFaceDetectionOff ~>
    (~isFaceDetectionOff \/ requested \notin WellFormed \/ ~Alive)
=============================================================================
