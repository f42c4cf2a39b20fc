------------------------ MODULE ViewControllerProofs ------------------------
(***************************************************************************)
(* What holds of the view controller together with its session, for any    *)
(* masks, whichever of them can be loaded, and any order of the user's     *)
(* selections: it keeps to what SessionHandler allows for, so that what    *)
(* is proved of the session holds here too, and the flag that switches     *)
(* detection off does what it is set for.  Masks are installed in the      *)
(* order of the selections, as MaskSwitch has it.                          *)
(***************************************************************************)
EXTENDS ViewController, SessionHandlerProofs, WellFoundedInduction

LEMMA AppStepOrHalt ==
  ASSUME [AppNext]_appVars
  PROVE  AppStep \/ UNCHANGED appVars
BY DEF AppNext, AppHalted

\* There is a view only once the flag says that it has been made, and the block that
\* is about to make it has set the flag already.
ViewOnce ==
  /\ glView => isGLViewAdded
  /\ mainPC = "create" => isGLViewAdded /\ ~glView

LEMMA UserSteps == ASSUME User PROVE Next \/ UNCHANGED vars
BY DEF User, ViewDidAppear, ViewDidDisappear, DidSelectItem, Next, Step, ViewControllerStep

\* Each step of the main thread is one that SessionHandler leaves to it.
LEMMA MainSteps ==
  ASSUME ViewOnce, requested \in Masks, MainContinues \/ MainBegins
  PROVE  Next \/ UNCHANGED vars
  <1> USE DEF Next, Step, ViewControllerStep
  <1>1. CASE LoadRssFeed
    BY <1>1 DEF LoadRssFeed
  <1>2. CASE SetupVBOs
    BY <1>2 DEF SetupVBOs
  <1>3. CASE CreateView
    <2>1. InstallView
      BY <1>3 DEF CreateView, InstallView, MainGoto, ViewOnce
    <2> QED
      BY <2>1
  <1>4. CASE Resume
    <2>1. SetFaceDetectionOff(FALSE)
      BY <1>4 DEF Resume, ResumedFlag
    <2> QED
      BY <2>1
  <1>5. CASE BeginMaskBlock
    BY <1>5 DEF BeginMaskBlock
  <1>6. CASE BeginVisibilityBlock
    BY <1>6 DEF BeginVisibilityBlock
  <1> QED
    BY <1>1, <1>2, <1>3, <1>4, <1>5, <1>6 DEF MainContinues, MainBegins

LEMMA CallbackSteps == ASSUME CallbackStep PROVE Next
BY DEF CallbackStep, Next, Step

LEMMA SessionStep ==
  ASSUME ViewOnce, requested \in Masks, [AppNext]_appVars
  PROVE  [Next]_vars
BY AppStepOrHalt, UserSteps, MainSteps, CallbackSteps DEF AppStep, appVars

LEMMA CallbackLeaves ==
  ASSUME CallbackStep PROVE UNCHANGED <<glView, isFaceDetectionOff>>
BY DEF CallbackStep, FaceCallback, FacePublish, SampleCallback, SampleStep,
  SampleReadMetadata, SampleReadHidden, SamplePostShow, SampleThrottle, SampleFirstFace,
  SampleMetadataRace, SampleDetected, SampleStamp, SampleReadShown, SamplePostHide,
  SampleEnqueue, Tick, ClockSet, SampleLeaves, ClockLeaves, viewVars
-----------------------------------------------------------------------------
VcType ==
  /\ mainPC \in {"idle", "load", "setup", "create", "resume"}
  /\ appeared \in BOOLEAN /\ isGLViewAdded \in BOOLEAN /\ quietStart \in BOOLEAN
  /\ requested \in Masks /\ loading \in Masks /\ mask \in Masks \cup {"none"}

\* While the main thread reads a file, nobody but the frame handler posts, once for a
\* frame that began below the bound: there is room for the block of the mask.
Posting == samplePC \in {"meta", "face", "show", "noface", "hide"}
RoomToPost ==
  mainPC = "load" => /\ Len(mainQueue) <= MaxQueue
                     /\ Posting => Len(mainQueue) < MaxQueue

\* A block that began with detection at rest has it at rest until its view is set up.
QuietSetup == mainPC \in {"setup", "create"} /\ quietStart => DetectionQuiet

AppInv ==
  /\ TypeOK /\ VcType /\ ViewOnce /\ RoomToPost /\ QuietSetup /\ OffOnlyWhileLoading

LEMMA AppSteps ==
  ASSUME AppStep
  PROVE  \/ ViewDidAppear \/ ViewDidDisappear \/ \E item \in Masks : DidSelectItem(item)
         \/ LoadRssFeed \/ SetupVBOs \/ CreateView \/ Resume
         \/ BeginMaskBlock \/ BeginVisibilityBlock \/ CallbackStep
BY DEF AppStep, User, MainContinues, MainBegins

LEMMA TypesKept ==
  ASSUME AppInv, [AppNext]_appVars
  PROVE  TypeOK' /\ VcType' /\ ViewOnce'
  <1>1. TypeOK'
    BY SessionStep, TypeInductive DEF AppInv, VcType
  <1> SUFFICES ASSUME AppStep PROVE VcType' /\ ViewOnce'
    BY <1>1, AppStepOrHalt
    DEF AppInv, VcType, ViewOnce, appVars, vcVars, vars, viewVars
  <1> USE DEF AppInv, VcType, ViewOnce, MainGoto
  <1>2. CASE ViewDidAppear
    BY <1>2, ViewAssumption DEF ViewDidAppear, OpenSession, viewVars
  <1>3. CASE ViewDidDisappear
    BY <1>3 DEF ViewDidDisappear, StopRunning, viewVars
  <1>4. ASSUME NEW item \in Masks, DidSelectItem(item) PROVE VcType' /\ ViewOnce'
    BY <1>4 DEF DidSelectItem, SetFaceDetectionOff, viewVars
  <1>5. CASE LoadRssFeed
    BY <1>5 DEF LoadRssFeed, AfterPost, PostMaskBlock, viewVars, vars
  <1>6. CASE SetupVBOs
    BY <1>6 DEF SetupVBOs, CapturedMask, vars, viewVars
  <1>7. CASE CreateView
    BY <1>7 DEF CreateView, CapturedMask
  <1>8. CASE Resume
    BY <1>8 DEF Resume, SetFaceDetectionOff, viewVars
  <1>9. CASE BeginMaskBlock
    <2>1. Head(mainQueue) \in Masks /\ UNCHANGED <<glView, isHidden>>
      BY <1>9 DEF BeginMaskBlock, RunMaskBlock, viewVars
    <2> QED
      BY <1>9, <2>1 DEF BeginMaskBlock, ViewAddedNow, DetectionQuiet, TypeOK
  <1>10. CASE BeginVisibilityBlock
    BY <1>10 DEF BeginVisibilityBlock, RunVisibilityBlock, vcVars
  <1>11. CASE CallbackStep
    BY <1>11, CallbackLeaves DEF CallbackStep, vcVars
  <1> QED
    BY <1>2, <1>3, <1>4, <1>5, <1>6, <1>7, <1>8, <1>9, <1>10, <1>11, AppSteps
-----------------------------------------------------------------------------
(* What the callbacks of the two queues do to the main queue.              *)

LEMMA CallbackPosts ==
  ASSUME TypeOK, CallbackStep
  PROVE  /\ UNCHANGED vcVars
         /\ \/ UNCHANGED mainQueue /\ (Posting' => Posting \/ Len(mainQueue) < MaxQueue)
            \/ /\ Posting /\ ~Posting'
               /\ \E b \in VisibilityBlocks : mainQueue' = Append(mainQueue, b)
  <1> DEFINE Same  == UNCHANGED mainQueue /\ (Posting' => Posting \/ Len(mainQueue) < MaxQueue)
             Posts == /\ Posting /\ ~Posting'
                      /\ \E b \in VisibilityBlocks : mainQueue' = Append(mainQueue, b)
  <1> SUFFICES Same \/ Posts
    BY DEF CallbackStep
  <1> USE DEF Posting, SampleGoto
  <1>1. CASE (\E m \in SUBSET Faces : FaceCallback(m)) \/ FacePublish \/ Tick \/ ClockSet
    BY <1>1 DEF FaceCallback, FacePublish, Tick, ClockSet, ClockLeaves
  <1>2. CASE SampleCallback
    BY <1>2 DEF SampleCallback
  <1>3. CASE SamplePostShow \/ SamplePostHide
    BY <1>3 DEF SamplePostShow, SamplePostHide, VisibilityBlocks
  <1>4. CASE SampleReadMetadata \/ SampleReadHidden \/ SampleReadShown
    BY <1>4 DEF SampleReadMetadata, SampleReadHidden, SampleReadShown
  <1>5. CASE SampleThrottle \/ SampleFirstFace \/ SampleMetadataRace \/ SampleDetected
             \/ SampleStamp \/ SampleEnqueue
    BY <1>5 DEF SampleThrottle, AfterTooEarly, SampleFirstFace, SampleMetadataRace, SampleDetected,
      SampleStamp, SampleEnqueue
  <1> QED
    BY <1>1, <1>2, <1>3, <1>4, <1>5 DEF CallbackStep, SampleStep

\* Appending a block keeps those in front.
LEMMA Appended ==
  ASSUME TypeOK, NEW b \in Blocks
  PROVE  /\ Len(Append(mainQueue, b)) = Len(mainQueue) + 1 /\ Len(mainQueue) \in Nat
         /\ \A i \in 1 .. Len(mainQueue) : Append(mainQueue, b)[i] = mainQueue[i]
         /\ Append(mainQueue, b)[Len(mainQueue) + 1] = b
BY AppendBlock, LenProperties DEF TypeOK

LEMMA RoomKept ==
  ASSUME AppInv, [AppNext]_appVars
  PROVE  RoomToPost'
  <1> SUFFICES ASSUME AppStep PROVE RoomToPost'
    BY AppStepOrHalt DEF AppInv, RoomToPost, Posting, appVars, vcVars, vars
  <1> USE DEF RoomToPost, MainGoto
  <1>0. Len(mainQueue) \in Nat /\ MaxQueue \in Nat
    BY SessionAssumption, LenProperties DEF AppInv, TypeOK
  <1>1. CASE ViewDidAppear
    BY <1>0, <1>1 DEF ViewDidAppear, OpenSession
  <1>2. ASSUME NEW item \in Masks, DidSelectItem(item) PROVE RoomToPost'
    BY <1>0, <1>2 DEF DidSelectItem, SetFaceDetectionOff
  <1>3. CASE CallbackStep
    <2>1. CASE UNCHANGED mainQueue
      BY <1>0, <1>3, <2>1, CallbackPosts DEF AppInv, vcVars
    <2>2. ASSUME NEW b \in VisibilityBlocks, mainQueue' = Append(mainQueue, b),
                 Posting, ~Posting'
          PROVE  RoomToPost'
      <3>1. Len(mainQueue') = Len(mainQueue) + 1
        BY <2>2, Appended DEF AppInv, Blocks
      <3> QED
        BY <1>0, <1>3, <2>2, <3>1, CallbackPosts DEF AppInv, vcVars
    <2> QED
      BY <1>3, <2>1, <2>2, CallbackPosts DEF AppInv
  <1>4. CASE ViewDidDisappear \/ LoadRssFeed \/ SetupVBOs \/ CreateView \/ Resume
             \/ BeginMaskBlock \/ BeginVisibilityBlock
    BY <1>4 DEF ViewDidDisappear, LoadRssFeed, AfterPost, SetupVBOs, CreateView, Resume,
      BeginMaskBlock, BeginVisibilityBlock, vcVars
  <1> QED
    BY <1>1, <1>2, <1>3, <1>4, AppSteps
-----------------------------------------------------------------------------
(* The flag.                                                               *)

LEMMA QuietKept ==
  ASSUME AppInv, [AppNext]_appVars
  PROVE  QuietSetup'
  <1>0. [Next]_vars
    BY SessionStep DEF AppInv, VcType
  <1> SUFFICES ASSUME AppStep PROVE QuietSetup'
    BY AppStepOrHalt DEF AppInv, QuietSetup, DetectionQuiet, appVars, vcVars, vars, faceVars
  <1> USE DEF QuietSetup, MainGoto
  <1>1. CASE BeginMaskBlock
    BY <1>1 DEF BeginMaskBlock, RunMaskBlock, MainLeaves, DetectionQuiet, faceVars
  <1>2. CASE CallbackStep
    <2>1. UNCHANGED <<mainPC, quietStart, isFaceDetectionOff>>
      BY <1>2, CallbackLeaves DEF CallbackStep, vcVars
    <2> QED
      BY <1>0, <2>1, QuietStep DEF AppInv, DetectionQuiet
  <1>3. CASE ViewDidAppear \/ ViewDidDisappear \/ (\E item \in Masks : DidSelectItem(item))
             \/ LoadRssFeed \/ SetupVBOs \/ CreateView \/ Resume \/ BeginVisibilityBlock
    BY <1>3 DEF ViewDidAppear, ViewDidDisappear, DidSelectItem, LoadRssFeed, AfterPost,
      SetupVBOs, CreateView, Resume, BeginVisibilityBlock, vcVars
  <1> QED
    BY <1>1, <1>2, <1>3, AppSteps

LEMMA FlagKept ==
  ASSUME AppInv, [AppNext]_appVars
  PROVE  OffOnlyWhileLoading'
  <1> SUFFICES ASSUME AppStep PROVE OffOnlyWhileLoading'
    BY AppStepOrHalt DEF AppInv, OffOnlyWhileLoading, appVars, vcVars, vars
  <1> USE DEF OffOnlyWhileLoading, MainGoto
  <1>0. mainQueue \in Seq(Blocks)
    BY DEF AppInv, TypeOK
  <1>1. CASE ViewDidAppear \/ (\E item \in Masks : DidSelectItem(item))
             \/ BeginMaskBlock \/ SetupVBOs \/ CreateView
    BY <1>1 DEF ViewDidAppear, DidSelectItem, BeginMaskBlock, SetupVBOs, CreateView
  <1>2. CASE ViewDidDisappear
    BY <1>2 DEF AppInv, ViewDidDisappear, StopRunning
  <1>3. CASE Resume
    BY <1>3 DEF Resume, ResumedFlag, SetFaceDetectionOff
  <1>4. CASE LoadRssFeed
    <2>1. CASE requested \in WellFormed
      <3>1. requested \in Blocks /\ requested \in Masks
        BY DEF AppInv, VcType, Blocks
      <3>2. mainQueue' = Append(mainQueue, requested)
        BY <1>4, <2>1 DEF LoadRssFeed, PostMaskBlock
      <3>3. /\ Len(mainQueue') = Len(mainQueue) + 1 /\ Len(mainQueue) \in Nat
            /\ mainQueue'[Len(mainQueue) + 1] = requested
        BY <3>1, <3>2, Appended DEF AppInv
      <3>4. Len(mainQueue) + 1 \in 1 .. Len(mainQueue')
        BY <3>3
      <3> QED
        BY <3>1, <3>3, <3>4
    <2>2. CASE requested \notin WellFormed
      BY <1>4, <2>2 DEF LoadRssFeed
    <2> QED
      BY <2>1, <2>2
  <1>5. CASE BeginVisibilityBlock
    <2>1. /\ mainQueue # << >> /\ mainQueue' = Tail(mainQueue)
          /\ Head(mainQueue) \in VisibilityBlocks
          /\ UNCHANGED <<isFaceDetectionOff, mainPC, requested>>
      BY <1>5 DEF BeginVisibilityBlock, RunVisibilityBlock, vcVars
    <2>2. /\ Len(mainQueue) \in Nat /\ Len(mainQueue') = Len(mainQueue) - 1
          /\ \A i \in 1 .. Len(mainQueue') : mainQueue'[i] = mainQueue[i + 1]
          /\ mainQueue[1] \notin Masks
      BY <1>0, <2>1, TailBlock, SessionAssumption DEF VisibilityBlocks
    <2>3. ASSUME NEW i \in 1 .. Len(mainQueue), mainQueue[i] \in Masks
          PROVE  \E j \in 1 .. Len(mainQueue') : mainQueue'[j] \in Masks
      <3>1. i - 1 \in 1 .. Len(mainQueue') /\ (i - 1) + 1 = i
        BY <2>2, <2>3
      <3>2. mainQueue'[i - 1] = mainQueue[i]
        BY <2>2, <3>1
      <3> QED
        BY <2>3, <3>1, <3>2
    <2> QED
      BY <2>1, <2>3 DEF AppInv
  <1>6. CASE CallbackStep
    <2>1. UNCHANGED <<isFaceDetectionOff, mainPC, requested>>
      BY <1>6, CallbackLeaves DEF CallbackStep, vcVars
    <2>2. CASE UNCHANGED mainQueue
      BY <2>1, <2>2 DEF AppInv
    <2>3. ASSUME NEW b \in VisibilityBlocks, mainQueue' = Append(mainQueue, b)
          PROVE  OffOnlyWhileLoading'
      <3>1. /\ Len(mainQueue') = Len(mainQueue) + 1 /\ Len(mainQueue) \in Nat
            /\ \A i \in 1 .. Len(mainQueue) : mainQueue'[i] = mainQueue[i]
        BY <2>3, Appended DEF AppInv, Blocks
      <3>2. \A i \in 1 .. Len(mainQueue) : i \in 1 .. Len(mainQueue')
        BY <3>1
      <3> QED
        BY <2>1, <3>1, <3>2 DEF AppInv
    <2> QED
      BY <1>6, <2>2, <2>3, CallbackPosts DEF AppInv
  <1> QED
    BY <1>1, <1>2, <1>3, <1>4, <1>5, <1>6, AppSteps
-----------------------------------------------------------------------------
(* The masks in a queue.  MaskBlocks is a recursive function: that there   *)
(* is one, and only one, is shown by way of the least position where it    *)
(* would fail.                                                             *)

LEMMA Smallest ==
  ASSUME NEW R \in SUBSET Nat, R # {}
  PROVE  \E j \in R : \A k \in R : j <= k
  <1> DEFINE L == OpToRel(<, Nat)
  <1>1. PICK j \in R : \A k \in R : ~(<<k, j>> \in L)
    BY NatLessThanWellFounded, WFMin
  <1>2. ASSUME NEW k \in R PROVE j <= k
    <2>1. k \in Nat /\ j \in Nat
      OBVIOUS
    <2>2. <<k, j>> \in L <=> k < j
      BY <2>1 DEF OpToRel
    <2>3. ~(k < j)
      BY <1>1, <2>2
    <2> QED
      BY <2>1, <2>3
  <1> QED
    BY <1>1, <1>2

\* f selects the masks among the first n blocks of the queue q.
Selects(q, n, f) ==
  f = [i \in 0 .. n |-> IF i = 0 THEN << >>
                        ELSE IF q[i] \in Masks THEN Append(f[i - 1], q[i])
                        ELSE f[i - 1]]

LEMMA SelectionExists ==
  ASSUME NEW q \in Seq(Blocks), NEW n \in Nat, n <= Len(q)
  PROVE  \E f \in [0 .. n -> Seq(Masks)] : Selects(q, n, f)
  <1>0. Len(q) \in Nat
    BY LenProperties
  <1> DEFINE OK(k) == \E f \in [0 .. k -> Seq(Masks)] : Selects(q, k, f)
             Bad   == {k \in 0 .. Len(q) : ~OK(k)}
  <1> SUFFICES ASSUME Bad # {} PROVE FALSE
    BY <1>0
  <1> HIDE DEF OK
  <1>1. PICK k \in Bad : \A j \in Bad : k <= j
    <2>1. Bad \in SUBSET Nat
      BY <1>0
    <2> HIDE DEF Bad
    <2> QED
      BY <2>1, Smallest
  <1>2. k # 0
    <2> DEFINE f == [i \in 0 .. 0 |-> << >>]
    <2>1. << >> \in Seq(Masks)
      BY EmptySeq
    <2>2. f \in [0 .. 0 -> Seq(Masks)]
      BY <2>1
    <2>3. Selects(q, 0, f)
      BY DEF Selects
    <2>4. OK(0)
      BY <2>2, <2>3 DEF OK
    <2> QED
      BY <1>1, <2>4
  <1>3. k \in Nat /\ k - 1 \in Nat /\ k <= Len(q) /\ k \in 1 .. Len(q)
    BY <1>0, <1>1, <1>2
  <1>4. OK(k - 1)
    BY <1>0, <1>1, <1>3
  <1>5. PICK f \in [0 .. k - 1 -> Seq(Masks)] : Selects(q, k - 1, f)
    BY <1>4 DEF OK
  <1> DEFINE last == IF q[k] \in Masks THEN Append(f[k - 1], q[k]) ELSE f[k - 1]
             g    == [i \in 0 .. k |-> IF i = k THEN last ELSE f[i]]
  <1>6. last \in Seq(Masks)
    BY <1>3, <1>5, AppendProperties
  <1>7. g \in [0 .. k -> Seq(Masks)]
    <2>1. \A i \in 0 .. k : i # k => i \in 0 .. k - 1
      BY <1>3
    <2> HIDE DEF last
    <2> QED
      BY <1>5, <1>6, <2>1
  <1>8. Selects(q, k, g)
    <2> DEFINE h(i) == IF i = 0 THEN << >>
                       ELSE IF q[i] \in Masks THEN Append(g[i - 1], q[i]) ELSE g[i - 1]
    <2>1. ASSUME NEW i \in 0 .. k PROVE g[i] = h(i)
      <3>1. CASE i = k
        <4>1. g[i - 1] = f[k - 1]
          BY <1>3, <3>1
        <4> QED
          BY <1>2, <3>1, <4>1
      <3>2. CASE i # k /\ i # 0
        <4>1. i \in 0 .. k - 1 /\ i - 1 \in 0 .. k - 1 /\ i - 1 # k /\ i - 1 \in 0 .. k
          BY <1>3, <3>2
        <4>2. g[i] = f[i] /\ g[i - 1] = f[i - 1]
          BY <3>2, <4>1
        <4>3. f[i] = IF q[i] \in Masks THEN Append(f[i - 1], q[i]) ELSE f[i - 1]
          BY <1>5, <3>2, <4>1 DEF Selects
        <4> QED
          BY <3>2, <4>2, <4>3
      <3>3. CASE i # k /\ i = 0
        <4>1. i \in 0 .. k - 1
          BY <1>3, <3>3
        <4>2. f[i] = << >>
          BY <1>5, <3>3, <4>1 DEF Selects
        <4> QED
          BY <3>3, <4>2
      <3> QED
        BY <3>1, <3>2, <3>3
    <2> HIDE DEF h
    <2>2. g = [i \in 0 .. k |-> h(i)]
      BY <2>1
    <2> QED
      BY <2>2 DEF Selects, h
  <1>9. OK(k)
    BY <1>7, <1>8 DEF OK
  <1> QED
    BY <1>1, <1>9

\* Two queues that begin alike have the same masks there.
LEMMA SelectionUnique ==
  ASSUME NEW q, NEW r, NEW n \in Nat, NEW m \in Nat, NEW k \in Nat, k <= n, k <= m,
         \A i \in 1 .. k : q[i] = r[i],
         NEW f, Selects(q, n, f), NEW g, Selects(r, m, g)
  PROVE  f[k] = g[k]
  <1> DEFINE Bad == {i \in 0 .. k : f[i] # g[i]}
  <1> SUFFICES ASSUME Bad # {} PROVE FALSE
    OBVIOUS
  <1>1. PICK i \in Bad : \A j \in Bad : i <= j
    <2>1. Bad \in SUBSET Nat
      OBVIOUS
    <2> HIDE DEF Bad
    <2> QED
      BY <2>1, Smallest
  <1>2. i \in 0 .. n /\ i \in 0 .. m
    OBVIOUS
  <1>3. /\ f[i] = IF i = 0 THEN << >>
                  ELSE IF q[i] \in Masks THEN Append(f[i - 1], q[i]) ELSE f[i - 1]
        /\ g[i] = IF i = 0 THEN << >>
                  ELSE IF r[i] \in Masks THEN Append(g[i - 1], r[i]) ELSE g[i - 1]
    BY <1>2 DEF Selects
  <1>4. i # 0
    BY <1>1, <1>3
  <1>5. i - 1 \in 0 .. k /\ i - 1 < i /\ q[i] = r[i]
    BY <1>4
  <1>6. f[i - 1] = g[i - 1]
    BY <1>1, <1>5
  <1> QED
    BY <1>1, <1>3, <1>5, <1>6

LEMMA MaskBlocksSelect ==
  ASSUME NEW q \in Seq(Blocks)
  PROVE  /\ MaskBlocks(q) \in Seq(Masks)
         /\ \E f : Selects(q, Len(q), f) /\ MaskBlocks(q) = f[Len(q)]
  <1>0. Len(q) \in Nat
    BY LenProperties
  <1>1. PICK g \in [0 .. Len(q) -> Seq(Masks)] : Selects(q, Len(q), g)
    BY <1>0, SelectionExists
  <1> DEFINE f == CHOOSE f : Selects(q, Len(q), f)
  <1>2. Selects(q, Len(q), f)
    BY <1>1
  <1>3. MaskBlocks(q) = f[Len(q)]
    BY DEF MaskBlocks, Selects
  <1> HIDE DEF f
  <1>4. f[Len(q)] = g[Len(q)]
    BY <1>0, <1>1, <1>2, SelectionUnique
  <1> QED
    BY <1>0, <1>1, <1>2, <1>3, <1>4

LEMMA AppendConcat ==
  ASSUME NEW s \in Seq(Masks), NEW t \in Seq(Masks), NEW x \in Masks
  PROVE  Append(s \o t, x) = s \o Append(t, x)
  <1> DEFINE l == Append(s \o t, x)
             r == s \o Append(t, x)
  <1>1. /\ s \o t \in Seq(Masks) /\ Len(s) \in Nat /\ Len(t) \in Nat
        /\ Len(s \o t) = Len(s) + Len(t)
        /\ \A i \in 1 .. Len(s) + Len(t) :
             (s \o t)[i] = IF i <= Len(s) THEN s[i] ELSE t[i - Len(s)]
    BY ConcatProperties, LenProperties
  <1>2. /\ l \in Seq(Masks) /\ Len(l) = Len(s) + Len(t) + 1
        /\ \A i \in 1 .. Len(s) + Len(t) : l[i] = (s \o t)[i]
        /\ l[Len(s) + Len(t) + 1] = x
    BY <1>1, AppendProperties
  <1>3. /\ Append(t, x) \in Seq(Masks) /\ Len(Append(t, x)) = Len(t) + 1
        /\ \A i \in 1 .. Len(t) : Append(t, x)[i] = t[i]
        /\ Append(t, x)[Len(t) + 1] = x
    BY <1>1, AppendProperties
  <1>4. /\ r \in Seq(Masks) /\ Len(r) = Len(s) + Len(t) + 1
        /\ \A i \in 1 .. Len(s) + Len(t) + 1 :
             r[i] = IF i <= Len(s) THEN s[i] ELSE Append(t, x)[i - Len(s)]
    BY <1>1, <1>3, ConcatProperties
  <1> HIDE DEF l, r
  <1>5. ASSUME NEW i \in 1 .. Len(l) PROVE l[i] = r[i]
    <2>1. CASE i <= Len(s)
      BY <1>1, <1>2, <1>4, <2>1
    <2>2. CASE ~(i <= Len(s)) /\ i <= Len(s) + Len(t)
      <3>1. i - Len(s) \in 1 .. Len(t) /\ i \in 1 .. Len(s) + Len(t)
        BY <1>1, <1>2, <2>2
      <3> QED
        BY <1>1, <1>2, <1>3, <1>4, <2>2, <3>1
    <2>3. CASE i = Len(s) + Len(t) + 1
      <3>1. i - Len(s) = Len(t) + 1 /\ ~(i <= Len(s))
        BY <1>1, <2>3
      <3> QED
        BY <1>1, <1>2, <1>3, <1>4, <2>3, <3>1
    <2> QED
      BY <1>1, <1>2, <2>1, <2>2, <2>3
  <1> QED
    BY <1>2, <1>4, <1>5, SeqEqual DEF l, r

\* A block at the end adds its mask at the end, and other blocks add none.
LEMMA MaskBlocksAppend ==
  ASSUME NEW q \in Seq(Blocks), NEW b \in Blocks
  PROVE  MaskBlocks(Append(q, b)) =
           IF b \in Masks THEN Append(MaskBlocks(q), b) ELSE MaskBlocks(q)
  <1> DEFINE a == Append(q, b)
             n == Len(q)
  <1>1. /\ a \in Seq(Blocks) /\ Len(a) = n + 1 /\ n \in Nat
        /\ \A i \in 1 .. n : a[i] = q[i]
        /\ a[n + 1] = b
    BY AppendBlock, LenProperties
  <1>2. PICK f : Selects(q, n, f) /\ MaskBlocks(q) = f[n]
    BY MaskBlocksSelect
  <1>3. PICK g : Selects(a, n + 1, g) /\ MaskBlocks(a) = g[n + 1]
    BY <1>1, MaskBlocksSelect
  <1> HIDE DEF a, n
  <1>4. f[n] = g[n]
    BY <1>1, <1>2, <1>3, SelectionUnique
  <1>5. g[n + 1] = IF a[n + 1] \in Masks THEN Append(g[n], a[n + 1]) ELSE g[n]
    <2>1. n + 1 \in 0 .. n + 1 /\ n + 1 # 0 /\ (n + 1) - 1 = n
      BY <1>1
    <2> QED
      BY <1>3, <2>1 DEF Selects
  <1> QED
    BY <1>1, <1>2, <1>3, <1>4, <1>5 DEF a

\* The block at the head is the first of the masks, if it is one of a mask.
LEMMA MaskBlocksTail ==
  ASSUME NEW q \in Seq(Blocks), q # << >>
  PROVE  MaskBlocks(q) = IF Head(q) \in Masks
                         THEN <<Head(q)>> \o MaskBlocks(Tail(q)) ELSE MaskBlocks(Tail(q))
  <1> DEFINE t == Tail(q)
             n == Len(t)
             front == IF Head(q) \in Masks THEN <<Head(q)>> ELSE << >>
  <1>1. /\ t \in Seq(Blocks) /\ n \in Nat /\ Len(q) = n + 1
        /\ \A i \in 1 .. n : t[i] = q[i + 1]
        /\ Head(q) = q[1]
    <2>1. t \in Seq(Blocks) /\ Len(q) \in Nat \ {0} /\ n = Len(q) - 1
      BY TailBlock
    <2> QED
      BY <2>1, TailBlock, LenProperties
  <1>2. PICK f \in [0 .. n -> Seq(Masks)] : Selects(t, n, f)
    <2>1. n <= Len(t)
      BY <1>1
    <2> HIDE DEF t
    <2> QED
      BY <1>1, <2>1, SelectionExists
  <1>3. PICK d : Selects(t, Len(t), d) /\ MaskBlocks(t) = d[n]
    BY <1>1, MaskBlocksSelect
  <1>4. PICK g : Selects(q, n + 1, g) /\ MaskBlocks(q) = g[n + 1]
    BY <1>1, MaskBlocksSelect
  <1> HIDE DEF t, n
  <1>5. MaskBlocks(t) = f[n]
    <2>1. f[n] = d[n]
      BY <1>1, <1>2, <1>3, SelectionUnique DEF n
    <2> QED
      BY <1>3, <2>1
  <1>6. front \in Seq(Masks)
    <2>1. \A m \in Masks : <<m>> \in Seq(Masks)
      OBVIOUS
    <2>2. << >> \in Seq(Masks)
      BY EmptySeq
    <2> QED
      BY <2>1, <2>2
  <1> HIDE DEF front
  <1> DEFINE Bad == {i \in 0 .. n : g[i + 1] # front \o f[i]}
  <1>7. Bad = {}
    <2> SUFFICES ASSUME Bad # {} PROVE FALSE
      OBVIOUS
    <2>1. PICK i \in Bad : \A j \in Bad : i <= j
      <3>1. Bad \in SUBSET Nat
        BY <1>1
      <3> HIDE DEF Bad
      <3> QED
        BY <3>1, Smallest
    <2>2. i \in Nat /\ i <= n /\ i \in 0 .. n /\ g[i + 1] # front \o f[i]
      BY <1>1, <2>1
    <2>3. i + 1 \in 0 .. n + 1 /\ i + 1 # 0 /\ (i + 1) - 1 = i
      BY <1>1, <2>2
    <2>4. g[i + 1] = IF q[i + 1] \in Masks THEN Append(g[i], q[i + 1]) ELSE g[i]
      BY <1>4, <2>3 DEF Selects
    <2>5. CASE i = 0
      <3>1. g[0] = << >> /\ f[0] = << >>
        BY <1>1, <1>2, <1>4 DEF Selects
      <3>2. g[1] = front
        <4>1. 0 + 1 = 1 /\ \A x \in Masks : Append(<< >>, x) = <<x>>
          OBVIOUS
        <4> QED
          BY <1>1, <2>4, <2>5, <3>1, <4>1 DEF front
      <3>3. front \o << >> = front
        BY <1>6, ConcatEmptySeq
      <3> QED
        BY <2>2, <2>5, <3>1, <3>2, <3>3
    <2>6. CASE i # 0
      <3>1. i - 1 \in 0 .. n /\ i - 1 < i /\ (i - 1) + 1 = i /\ i \in 1 .. n
        BY <1>1, <2>2, <2>6
      <3>2. g[i] = front \o f[i - 1]
        BY <2>1, <3>1
      <3>3. f[i] = IF t[i] \in Masks THEN Append(f[i - 1], t[i]) ELSE f[i - 1]
        BY <1>2, <2>2, <2>6 DEF Selects
      <3>4. t[i] = q[i + 1]
        BY <1>1, <3>1
      <3>5. f[i - 1] \in Seq(Masks)
        BY <1>2, <3>1
      <3>6. CASE t[i] \in Masks
        <4>1. Append(front \o f[i - 1], t[i]) = front \o Append(f[i - 1], t[i])
          BY <1>6, <3>5, <3>6, AppendConcat
        <4> QED
          BY <2>2, <2>4, <3>2, <3>3, <3>4, <3>6, <4>1
      <3>7. CASE t[i] \notin Masks
        BY <2>2, <2>4, <3>2, <3>3, <3>4, <3>7
      <3> QED
        BY <3>6, <3>7
    <2> QED
      BY <2>5, <2>6
  <1>8. g[n + 1] = front \o f[n]
    <2>1. n \in 0 .. n
      BY <1>1
    <2> QED
      BY <1>7, <2>1
  <1>9. << >> \o MaskBlocks(t) = MaskBlocks(t)
    BY <1>1, MaskBlocksSelect, ConcatEmptySeq
  <1> QED
    BY <1>4, <1>5, <1>8, <1>9 DEF front, t
-----------------------------------------------------------------------------
(* The masks are installed in the order asked for.                         *)

Waiting == IF mainPC \in {"setup", "create"}
           THEN <<loading>> \o MasksPosted ELSE MasksPosted

LEMMA WaitingKept ==
  ASSUME UNCHANGED <<mainQueue, mask>>,
         mainPC \notin {"setup", "create"}, mainPC' \notin {"setup", "create"}
  PROVE  UNCHANGED <<Waiting, mask>>
BY DEF Waiting, MasksPosted

\* A block of a mask that starts hands the mask over from the queue to loading.
LEMMA StartedWaiting ==
  ASSUME AppInv, BeginMaskBlock
  PROVE  UNCHANGED <<Waiting, mask>>
  <1>1. /\ mainQueue # << >> /\ Head(mainQueue) \in Masks /\ mainQueue' = Tail(mainQueue)
        /\ loading' = Head(mainQueue) /\ mask' = mask
        /\ mainPC = "idle" /\ mainPC' \in {"setup", "create"}
    BY DEF BeginMaskBlock, RunMaskBlock, MainGoto
  <1>2. MasksPosted = <<Head(mainQueue)>> \o MaskBlocks(Tail(mainQueue))
    BY <1>1, MaskBlocksTail DEF AppInv, TypeOK, MasksPosted
  <1> QED
    BY <1>1, <1>2 DEF Waiting, MasksPosted

\* The view shows the mask that waited longest.
LEMMA Installed ==
  ASSUME AppInv, SetupVBOs \/ CreateView
  PROVE  Switch!Install
  <1>1. /\ mainQueue' = mainQueue /\ mainPC \in {"setup", "create"} /\ mainPC' = "resume"
        /\ mask' = loading
    BY DEF SetupVBOs, CreateView, CapturedMask, MainGoto, vars
  <1>2. MasksPosted \in Seq(Masks) /\ loading \in Masks
    BY MaskBlocksSelect DEF AppInv, TypeOK, VcType, MasksPosted
  <1>3. MasksPosted' = MasksPosted
    BY <1>1 DEF MasksPosted
  <1>4. ASSUME NEW m \in Masks, NEW s \in Seq(Masks)
        PROVE  <<m>> \o s # << >> /\ Head(<<m>> \o s) = m /\ Tail(<<m>> \o s) = s
    OBVIOUS
  <1> QED
    BY <1>1, <1>2, <1>3, <1>4 DEF Switch!Install

LEMMA Asked ==
  ASSUME AppInv, LoadRssFeed
  PROVE  (\E m \in Masks : Switch!Ask(m)) \/ UNCHANGED <<Waiting, mask>>
  <1>1. mainPC = "load" /\ mainPC' = "idle" /\ mask' = mask
    BY DEF LoadRssFeed, AfterPost, MainGoto
  <1>2. CASE requested \in WellFormed
    <2>1. mainQueue' = Append(mainQueue, requested)
      BY <1>2 DEF LoadRssFeed, PostMaskBlock
    <2>2. requested \in Masks /\ requested \in Blocks /\ mainQueue \in Seq(Blocks)
      BY DEF AppInv, TypeOK, VcType, Blocks
    <2>3. MasksPosted' = Append(MasksPosted, requested)
      BY <2>1, <2>2, MaskBlocksAppend DEF MasksPosted
    <2>4. Switch!Ask(requested)
      BY <1>1, <2>3 DEF Switch!Ask
    <2> QED
      BY <2>2, <2>4
  <1>3. CASE requested \notin WellFormed
    <2>1. mainQueue' = mainQueue
      BY <1>3 DEF LoadRssFeed, vars
    <2> QED
      BY <1>1, <2>1, WaitingKept
  <1> QED
    BY <1>2, <1>3

LEMMA SwitchStep ==
  ASSUME AppInv, [AppNext]_appVars
  PROVE  Switch!Next \/ UNCHANGED <<Waiting, mask>>
  <1>0. mainQueue \in Seq(Blocks)
    BY DEF AppInv, TypeOK
  <1>0a. \A b \in VisibilityBlocks : b \in Blocks /\ b \notin Masks
    BY SessionAssumption DEF VisibilityBlocks, Blocks
  <1> SUFFICES ASSUME AppStep PROVE Switch!Next \/ UNCHANGED <<Waiting, mask>>
    BY AppStepOrHalt DEF appVars, vcVars, vars, Waiting, MasksPosted
  <1>1. CASE ViewDidAppear \/ ViewDidDisappear \/ (\E item \in Masks : DidSelectItem(item))
             \/ Resume
    <2>1. /\ UNCHANGED <<mainQueue, mask>>
          /\ mainPC \notin {"setup", "create"} /\ mainPC' \notin {"setup", "create"}
      BY <1>1 DEF ViewDidAppear, OpenSession, ViewDidDisappear, StopRunning, DidSelectItem,
        SetFaceDetectionOff, Resume, MainGoto
    <2> QED
      BY <2>1, WaitingKept
  <1>2. CASE LoadRssFeed
    BY <1>2, Asked DEF Switch!Next
  <1>3. CASE SetupVBOs \/ CreateView
    BY <1>3, Installed DEF Switch!Next
  <1>4. CASE BeginMaskBlock
    BY <1>4, StartedWaiting
  <1>5. CASE BeginVisibilityBlock
    <2>1. /\ mainQueue # << >> /\ mainQueue' = Tail(mainQueue)
          /\ Head(mainQueue) \in VisibilityBlocks
          /\ UNCHANGED <<mainPC, loading, mask>>
      BY <1>5 DEF BeginVisibilityBlock, RunVisibilityBlock, vcVars
    <2>2. MasksPosted' = MasksPosted
      BY <1>0, <1>0a, <2>1, MaskBlocksTail DEF MasksPosted
    <2> QED
      BY <2>1, <2>2 DEF Waiting
  <1>6. CASE CallbackStep
    <2>1. UNCHANGED vcVars
      BY <1>6 DEF CallbackStep
    <2>2. CASE UNCHANGED mainQueue
      BY <2>1, <2>2 DEF Waiting, MasksPosted, vcVars
    <2>3. ASSUME NEW b \in VisibilityBlocks, mainQueue' = Append(mainQueue, b)
          PROVE  UNCHANGED <<Waiting, mask>>
      <3>1. MasksPosted' = MasksPosted
        BY <1>0, <1>0a, <2>3, MaskBlocksAppend DEF MasksPosted
      <3> QED
        BY <2>1, <3>1 DEF Waiting, vcVars
    <2> QED
      BY <1>6, <2>2, <2>3, CallbackPosts DEF AppInv
  <1> QED
    BY <1>1, <1>2, <1>3, <1>4, <1>5, <1>6, AppSteps
-----------------------------------------------------------------------------
LEMMA InitAppInv == AppInit => AppInv
  <1> SUFFICES ASSUME AppInit PROVE AppInv
    OBVIOUS
  <1>1. TypeOK
    BY TypeInit DEF AppInit
  <1>2. VcType
    BY ViewAssumption DEF AppInit, VcType
  <1>3. ~glView /\ ~isFaceDetectionOff
    BY DEF AppInit, Init
  <1> QED
    BY <1>1, <1>2, <1>3 DEF AppInit, AppInv, ViewOnce, RoomToPost, QuietSetup,
      OffOnlyWhileLoading

LEMMA NextAppInv == AppInv /\ [AppNext]_appVars => AppInv'
BY TypesKept, RoomKept, QuietKept, FlagKept DEF AppInv

LEMMA AppInvHolds == AppSpec => []AppInv
BY InitAppInv, NextAppInv, PTL DEF AppSpec

\* Every variable keeps its type, and the bound on the main queue never keeps the
\* main thread from posting the block of a mask it has read.
THEOREM AppTypeCorrect == AppSpec => []AppTypeOK
  <1>1. AppInv => AppTypeOK
    BY DEF AppInv, VcType, RoomToPost, AppTypeOK
  <1> QED
    BY <1>1, AppInvHolds, PTL

\* didEndLandmarksParsing makes the view once, and the view controller does nothing
\* to the session that SessionHandler does not allow for.
THEOREM SessionImplemented == AppSpec => ImplementsSession
  <1>1. AppInit => Init
    BY DEF AppInit
  <1>2. AppInv /\ [AppNext]_appVars => [Next]_vars
    BY SessionStep DEF AppInv, VcType
  <1> QED
    BY <1>1, <1>2, AppInvHolds, PTL DEF AppSpec, ImplementsSession, Spec

\* The flag is not left set without a block on its way that clears it, unless the
\* file of the last mask could not be read.
THEOREM OffOnlyWhileLoadingCorrect == AppSpec => []OffOnlyWhileLoading
  <1>1. AppInv => OffOnlyWhileLoading
    BY DEF AppInv
  <1> QED
    BY <1>1, AppInvHolds, PTL

\* setupVBOs is not disturbed by a detection if there was none when its block began.
THEOREM SetupUndisturbedCorrect == AppSpec => []SetupUndisturbed
  <1>1. AppInv => SetupUndisturbed
    BY DEF AppInv, QuietSetup, DetectionQuiet, SetupUndisturbed
  <1> QED
    BY <1>1, AppInvHolds, PTL

\* The view controller is the abstract MaskSwitch: every mask whose file can be read is
\* installed once, in the order of the selections, whatever is posted in between.
THEOREM InstallsInOrderCorrect == AppSpec => InstallsInOrder
  <1>1. AppInit => Switch!Init
    <2> SUFFICES ASSUME AppInit PROVE Switch!Init
      OBVIOUS
    <2>1. mainQueue = << >> /\ mainPC = "idle" /\ mask = "none"
      BY DEF AppInit, Init
    <2>2. PICK f : Selects(mainQueue, Len(mainQueue), f) /\ MasksPosted = f[Len(mainQueue)]
      BY <2>1, EmptySeq, MaskBlocksSelect DEF MasksPosted
    <2>3. MasksPosted = << >>
      BY <2>1, <2>2, Len(<< >>) = 0 DEF Selects
    <2> QED
      BY <2>1, <2>3 DEF Switch!Init
  <1>2. AppInv /\ [AppNext]_appVars => [Switch!Next]_<<Waiting, mask>>
    BY SwitchStep
  <1> QED
    BY <1>1, <1>2, AppInvHolds, PTL DEF AppSpec, InstallsInOrder, Switch!Spec, Waiting

\* What is proved of the session under any view controller holds under this one.
THEOREM AppVisibilityCorrect == AppSpec => [](AtMostOneFlip /\ NoBlockBeforeView)
BY SessionImplemented, VisibilityCorrect, PTL DEF ImplementsSession
=============================================================================
