------------------------ MODULE SessionHandlerProofs ------------------------
(***************************************************************************)
(* What holds of the capture session for every set of faces and masks,     *)
(* every throttle and every bound on the main queue, under any view        *)
(* controller.                                                             *)
(***************************************************************************)
EXTENDS SessionHandler, SequenceTheorems, TLAPS

LEMMA StepOrHalt ==
  ASSUME [Next]_vars
  PROVE  Step \/ UNCHANGED vars
BY DEF Next, Halted

\* The type invariant is inductive by itself: one step per action.
LEMMA TypeInductive == TypeOK /\ [Next]_vars => TypeOK'
<1> SUFFICES ASSUME TypeOK, Step PROVE TypeOK'
  BY StepOrHalt DEF TypeOK, vars, deviceVars, faceVars, viewVars, clockVars
<1> USE DEF TypeOK, MainLeaves, SampleLeaves, ClockLeaves, deviceVars,
            faceVars, viewVars, clockVars
<1>1. CASE ViewControllerStep
  <2>1. CASE OpenSession
    BY <2>1 DEF OpenSession, Traps
  <2>2. CASE StopRunning
    BY <2>2 DEF StopRunning
  <2>3. CASE InstallView
    BY <2>3 DEF InstallView
  <2>4. CASE RunMaskBlock
    BY <2>4 DEF RunMaskBlock
  <2>5. ASSUME NEW mask \in Masks, PostMaskBlock(mask) PROVE TypeOK'
    BY <2>5 DEF PostMaskBlock, Blocks
  <2>6. ASSUME NEW off \in BOOLEAN, SetFaceDetectionOff(off) PROVE TypeOK'
    BY <2>6 DEF SetFaceDetectionOff
  <2>7. QED
    BY <1>1, <2>1, <2>2, <2>3, <2>4, <2>5, <2>6 DEF ViewControllerStep
<1>2. ASSUME NEW m \in SUBSET Faces, FaceCallback(m) PROVE TypeOK'
  BY <1>2 DEF FaceCallback, Published
<1>3. CASE FacePublish
  BY <1>3 DEF FacePublish
<1>4. CASE SampleCallback
  BY <1>4 DEF SampleCallback, SampleGoto, SamplePCs
<1>5. CASE SampleStep
  <2> USE DEF SampleGoto, SamplePCs
  <2>1. CASE SampleReadMetadata
    BY <2>1 DEF SampleReadMetadata
  <2>2. CASE SampleReadHidden
    BY <2>2 DEF SampleReadHidden, Traps
  <2>3. CASE SamplePostShow
    BY <2>3 DEF SamplePostShow, Blocks, VisibilityBlocks
  <2>4. CASE SampleThrottle
    BY <2>4, SessionAssumption DEF SampleThrottle, AfterTooEarly, Ages
  <2>5. CASE SampleFirstFace
    BY <2>5 DEF SampleFirstFace, Traps
  <2>5r. CASE SampleMetadataRace
    BY <2>5r DEF SampleMetadataRace, Traps
  <2>6. CASE SampleDetected
    BY <2>6 DEF SampleDetected
  <2>7. CASE SampleStamp
    BY <2>7, SessionAssumption DEF SampleStamp, StampedAge, Ages
  <2>8. CASE SampleReadShown
    BY <2>8 DEF SampleReadShown
  <2>9. CASE SamplePostHide
    BY <2>9 DEF SamplePostHide, Blocks, VisibilityBlocks
  <2>10. CASE SampleEnqueue
    BY <2>10 DEF SampleEnqueue
  <2>11. QED
    BY <1>5, <2>1, <2>2, <2>3, <2>4, <2>5, <2>5r, <2>6, <2>7, <2>8, <2>9,
       <2>10
    DEF SampleStep
<1>6. CASE RunVisibilityBlock
  BY <1>6 DEF RunVisibilityBlock
<1>7. CASE Tick
  BY <1>7, SessionAssumption DEF Tick, Saturate, Ages
<1>8. CASE ClockSet
  BY <1>8 DEF ClockSet
<1>9. QED
  BY <1>1, <1>2, <1>3, <1>4, <1>5, <1>6, <1>7, <1>8 DEF Step

LEMMA TypeInit == Init => TypeOK
<1> SUFFICES ASSUME Init PROVE TypeOK
  OBVIOUS
<1> USE DEF Init
<1>1. mainQueue \in Seq(Blocks)
  OBVIOUS
<1>2. age \in Ages /\ sampledAge \in Ages
  BY SessionAssumption DEF Ages
<1>3. samplePC \in SamplePCs /\ trap \in Traps
  BY DEF SamplePCs, Traps
<1>4. QED
  BY <1>1, <1>2, <1>3 DEF TypeOK

\* Every shared variable and every program counter keeps to its values, whatever
\* the view controller does and however the clock is set.
THEOREM TypeCorrect == Spec => []TypeOK
BY TypeInit, TypeInductive, PTL DEF Spec
-----------------------------------------------------------------------------
(* The visibility of the mask.  AtMostOneFlip is inductive only together    *)
(* with what the sample handler knows when it posts, and with the fact that *)
(* no block is pending when the view is created visible.                    *)

VisibilityInv ==
  TypeOK /\ AtMostOneFlip /\ NoBlockBeforeView /\ ReadStillCovered

\* What Append and Tail do to the positions of the main queue.
LEMMA AppendBlock ==
  ASSUME NEW q \in Seq(Blocks), NEW b \in Blocks
  PROVE  /\ Append(q, b) \in Seq(Blocks)
         /\ Len(Append(q, b)) = Len(q) + 1
         /\ \A i \in 1 .. Len(q) : Append(q, b)[i] = q[i]
         /\ Append(q, b)[Len(q) + 1] = b
BY AppendProperties

LEMMA TailBlock ==
  ASSUME NEW q \in Seq(Blocks), q # << >>
  PROVE  /\ Tail(q) \in Seq(Blocks)
         /\ Len(q) \in Nat \ {0}
         /\ Len(Tail(q)) = Len(q) - 1
         /\ \A i \in 1 .. Len(Tail(q)) : Tail(q)[i] = q[i + 1]
         /\ Head(q) = q[1]
BY HeadTailProperties, LenProperties, EmptySeq

\* A step that leaves the queue, the view and the handler's intention alone.
LEMMA VisibilityUntouched ==
  ASSUME AtMostOneFlip, NoBlockBeforeView, ReadStillCovered,
         UNCHANGED <<mainQueue, glView, isHidden>>,
         samplePC' \in {"show", "hide"} =>
           samplePC' = samplePC \/ (glView /\ (samplePC' = "show") = isHidden)
  PROVE  AtMostOneFlip' /\ NoBlockBeforeView' /\ ReadStillCovered'
BY DEF AtMostOneFlip, NoBlockBeforeView, ReadStillCovered, Flip,
       VisibilityBlocks

\* Starting a block: a visibility block, or one that leaves the view alone.
LEMMA VisibilityAfterTail ==
  ASSUME VisibilityInv, mainQueue # << >>, mainQueue' = Tail(mainQueue),
         UNCHANGED <<glView, samplePC>>,
         \/ /\ Head(mainQueue) \in VisibilityBlocks
            /\ isHidden' = (Head(mainQueue) = "hide")
         \/ UNCHANGED isHidden
  PROVE  AtMostOneFlip' /\ NoBlockBeforeView' /\ ReadStillCovered'
<1> USE DEF VisibilityInv, TypeOK
<1> DEFINE q == mainQueue
           t == Tail(mainQueue)
<1>1. /\ Len(q) \in Nat \ {0} /\ Len(t) = Len(q) - 1
      /\ \A i \in 1 .. Len(t) : t[i] = q[i + 1] /\ i + 1 \in 1 .. Len(q)
      /\ Head(q) = q[1] /\ 1 \in 1 .. Len(q)
  BY TailBlock
<1>2. \A i \in 1 .. Len(t) : 1 < i + 1
  BY <1>1
<1>3. AtMostOneFlip'
  <2> SUFFICES ASSUME NEW i \in 1 .. Len(t), NEW j \in 1 .. Len(t), i < j,
                      t[i] = Flip(isHidden')
               PROVE  t[j] # Flip(~isHidden')
    BY DEF AtMostOneFlip
  <2>1. i + 1 < j + 1 /\ i + 1 \in 1 .. Len(q) /\ j + 1 \in 1 .. Len(q)
    BY <1>1
  <2>2. CASE isHidden' = isHidden
    BY <1>1, <2>1, <2>2 DEF AtMostOneFlip
  <2>3. CASE isHidden' # isHidden
    <3>1. isHidden' = ~isHidden /\ q[1] = Flip(isHidden)
      BY <1>1, <2>3 DEF Flip, VisibilityBlocks
    <3>2. t[i] # Flip(~isHidden)
      BY <3>1, <1>1, <1>2 DEF AtMostOneFlip
    <3>3. QED
      BY <3>1, <3>2
  <2>4. QED
    BY <2>2, <2>3
<1>4. NoBlockBeforeView'
  BY <1>1 DEF NoBlockBeforeView
<1>5. ReadStillCovered'
  <2>1. ASSUME samplePC = "show", ~isHidden', NEW i \in 1 .. Len(t)
        PROVE  t[i] # "hide"
    <3>1. CASE isHidden
      BY <3>1, <2>1, <1>1, <1>2 DEF AtMostOneFlip, Flip, VisibilityBlocks
    <3>2. CASE ~isHidden
      BY <3>2, <2>1, <1>1 DEF ReadStillCovered
    <3>3. QED
      BY <3>1, <3>2
  <2>2. ASSUME samplePC = "hide", isHidden', NEW i \in 1 .. Len(t)
        PROVE  t[i] # "show"
    <3>1. CASE ~isHidden
      <4>1. q[1] = Flip(isHidden)
        BY <3>1, <2>2, <1>1 DEF Flip
      <4>2. t[i] # Flip(~isHidden)
        BY <4>1, <1>1, <1>2 DEF AtMostOneFlip
      <4>3. QED
        BY <3>1, <4>2 DEF Flip
    <3>2. CASE isHidden
      BY <3>2, <2>2, <1>1 DEF ReadStillCovered
    <3>3. QED
      BY <3>1, <3>2
  <2>3. QED
    BY <2>1, <2>2 DEF ReadStillCovered
<1>6. QED
  BY <1>3, <1>4, <1>5
\* Posting a block: a mask, or the flip the handler found missing.
LEMMA VisibilityAfterAppend ==
  ASSUME VisibilityInv, UNCHANGED <<glView, isHidden>>,
         NEW b \in Blocks, mainQueue' = Append(mainQueue, b),
         \/ b \in Masks /\ samplePC' = samplePC
         \/ b \in VisibilityBlocks /\ samplePC = b /\ samplePC' \notin VisibilityBlocks
  PROVE  AtMostOneFlip' /\ NoBlockBeforeView' /\ ReadStillCovered'
<1> USE SessionAssumption DEF VisibilityInv, TypeOK, VisibilityBlocks
<1> DEFINE q == mainQueue
           a == Append(mainQueue, b)
<1>1. /\ Len(q) \in Nat /\ Len(a) = Len(q) + 1 /\ a[Len(q) + 1] = b
      /\ \A i \in 1 .. Len(q) : a[i] = q[i]
  BY AppendBlock, LenProperties
<1>2. AtMostOneFlip'
  <2> SUFFICES ASSUME NEW i \in 1 .. Len(a), NEW j \in 1 .. Len(a), i < j,
                      a[i] = Flip(isHidden)
               PROVE  a[j] # Flip(~isHidden)
    BY DEF AtMostOneFlip
  <2>1. i \in 1 .. Len(q) /\ a[i] = q[i]
    BY <1>1
  <2>2. CASE j \in 1 .. Len(q)
    BY <2>1, <2>2, <1>1 DEF AtMostOneFlip
  <2>3. CASE j = Len(q) + 1
    <3>1. CASE b \in Masks
      BY <2>3, <3>1, <1>1 DEF Flip
    <3>2. CASE b = "show" /\ samplePC = "show"
      BY <2>1, <2>3, <3>2, <1>1 DEF Flip, ReadStillCovered
    <3>3. CASE b = "hide" /\ samplePC = "hide"
      BY <2>1, <2>3, <3>3, <1>1 DEF Flip, ReadStillCovered
    <3>4. QED
      BY <3>1, <3>2, <3>3
  <2>4. QED
    BY <1>1, <2>2, <2>3
<1>3. NoBlockBeforeView'
  BY <1>1 DEF NoBlockBeforeView, ReadStillCovered
<1>4. ReadStillCovered'
  BY <1>1 DEF ReadStillCovered
<1>5. QED
  BY <1>2, <1>3, <1>4


LEMMA VisibilityInductive == VisibilityInv /\ [Next]_vars => VisibilityInv'
<1> SUFFICES ASSUME VisibilityInv, [Next]_vars
             PROVE  AtMostOneFlip' /\ NoBlockBeforeView' /\ ReadStillCovered'
  BY TypeInductive DEF VisibilityInv
<1>1. CASE UNCHANGED vars
  BY <1>1, VisibilityUntouched DEF VisibilityInv, vars, viewVars
<1>2. CASE Step
  <2> USE DEF VisibilityInv, MainLeaves, SampleLeaves, ClockLeaves, deviceVars,
              faceVars, viewVars, clockVars
  <2>1. CASE OpenSession \/ StopRunning \/ (\E off \in BOOLEAN : SetFaceDetectionOff(off))
    BY <2>1, VisibilityUntouched
    DEF OpenSession, StopRunning, SetFaceDetectionOff
  <2>2. CASE (\E m \in SUBSET Faces : FaceCallback(m)) \/ FacePublish \/ Tick \/ ClockSet
    BY <2>2, VisibilityUntouched DEF FaceCallback, FacePublish, Tick, ClockSet
  <2>3. CASE InstallView
    BY <2>3 DEF InstallView, AtMostOneFlip, NoBlockBeforeView,
                ReadStillCovered, Flip, VisibilityBlocks
  <2>4. CASE RunMaskBlock
    BY <2>4, VisibilityAfterTail DEF RunMaskBlock
  <2>5. CASE RunVisibilityBlock
    BY <2>5, VisibilityAfterTail DEF RunVisibilityBlock
  <2>6. ASSUME NEW mask \in Masks, PostMaskBlock(mask)
        PROVE  AtMostOneFlip' /\ NoBlockBeforeView' /\ ReadStillCovered'
    BY <2>6, VisibilityAfterAppend DEF PostMaskBlock, Blocks
  <2>7. CASE SamplePostShow
    BY <2>7, VisibilityAfterAppend
    DEF SamplePostShow, SampleGoto, Blocks, VisibilityBlocks
  <2>8. CASE SamplePostHide
    BY <2>8, VisibilityAfterAppend
    DEF SamplePostHide, SampleGoto, Blocks, VisibilityBlocks
  <2>9. CASE SampleCallback \/ SampleReadMetadata \/ SampleEnqueue
    BY <2>9, VisibilityUntouched
    DEF SampleCallback, SampleReadMetadata, SampleEnqueue, SampleGoto
  <2>10. CASE SampleReadHidden
    BY <2>10, VisibilityUntouched DEF SampleReadHidden, WantsShow, TypeOK
  <2>11. CASE SampleReadShown
    BY <2>11, VisibilityUntouched DEF SampleReadShown, WantsHide, SampleGoto, TypeOK
  <2>12. CASE SampleThrottle
    BY <2>12, VisibilityUntouched DEF SampleThrottle, AfterTooEarly, SampleGoto
  <2>13. CASE SampleFirstFace \/ SampleMetadataRace
    BY <2>13, VisibilityUntouched DEF SampleFirstFace, SampleMetadataRace
  <2>14. CASE SampleDetected \/ SampleStamp
    BY <2>14, VisibilityUntouched DEF SampleDetected, SampleStamp, SampleGoto
  <2>15. QED
    BY <1>2, <2>1, <2>2, <2>3, <2>4, <2>5, <2>6, <2>7, <2>8, <2>9, <2>10,
       <2>11, <2>12, <2>13, <2>14
    DEF Step, ViewControllerStep, SampleStep
<1>3. QED
  BY <1>1, <1>2, StepOrHalt

\* Whatever the threads do, the show and hide blocks waiting on the main queue
\* flip the mask at most once, and none of them waits before there is a view.
THEOREM VisibilityCorrect ==
  Spec => [](AtMostOneFlip /\ NoBlockBeforeView /\ ReadStillCovered)
<1>1. Init => VisibilityInv
  <2>1. Init => TypeOK
    BY TypeInit
  <2>2. Init => AtMostOneFlip /\ NoBlockBeforeView /\ ReadStillCovered
    BY DEF Init, AtMostOneFlip, NoBlockBeforeView, ReadStillCovered
  <2>3. QED
    BY <2>1, <2>2 DEF VisibilityInv
<1>2. QED
  BY <1>1, VisibilityInductive, PTL DEF Spec, VisibilityInv
-----------------------------------------------------------------------------
\* Detection at rest stays so, one step at a time.
LEMMA QuietStep ==
  ASSUME [Next]_vars, DetectionQuiet
  PROVE  DetectionQuiet' \/ ~isFaceDetectionOff'
<1> USE DEF DetectionQuiet, MainLeaves, SampleLeaves, ClockLeaves, deviceVars,
            faceVars, viewVars, clockVars
<1>1. CASE UNCHANGED vars
  BY <1>1 DEF vars
<1>2. CASE ViewControllerStep
  BY <1>2 DEF ViewControllerStep, OpenSession, StopRunning,
    InstallView, RunMaskBlock, PostMaskBlock, SetFaceDetectionOff
<1>3. CASE (\E m \in SUBSET Faces : FaceCallback(m)) \/ FacePublish
  BY <1>3 DEF FaceCallback, Published, FacePublish
<1>4. CASE SampleCallback \/ SampleStep
  BY <1>4 DEF SampleStep, SampleGoto, SampleCallback,
    SampleReadMetadata, SampleReadHidden, SamplePostShow, SampleThrottle,
    SampleFirstFace, SampleMetadataRace, SampleDetected, SampleStamp,
    SampleReadShown, SamplePostHide, SampleEnqueue
<1>5. CASE RunVisibilityBlock \/ Tick \/ ClockSet
  BY <1>5 DEF RunVisibilityBlock, Tick, ClockSet
<1>6. QED
  BY <1>1, <1>2, <1>3, <1>4, <1>5, StepOrHalt DEF Step

\* While isFaceDetectionOff stays set, no callback on any queue can start the
\* detection again once it has come to rest.
THEOREM QuietCorrect == Spec => QuietUntilFlagCleared
BY QuietStep, PTL DEF Spec, QuietUntilFlagCleared
=============================================================================
