------------------------- MODULE DlibWrapperProofs -------------------------
(***************************************************************************)
(* What the smoothing guarantees for every threshold, every number of      *)
(* landmarks and every set of coordinates.                                 *)
(***************************************************************************)
EXTENDS DlibWrapper, TLAPS

\* What the loop knows of the parts it has compared: maxDiff has reached the
\* threshold exactly if one of them has moved that far.
LoopInv ==
  pc = "compare" /\ ~isPrevShapeNull =>
    (maxDiff >= Threshold <=>
       \E j \in Parts : j < part /\ ~Near(shape[j], prevShape[j]))

\* What holds between detections, and carries over from one to the next.
SmoothInv ==
  /\ TypeOK
  /\ isDrawn = ~isPrevShapeNull
  /\ isDrawn => drawn = prevShape
  /\ pc = "idle" \/ part = 0 \/ isPrevShapeNull => maxDiff = 0
  /\ LoopInv
  /\ DrawnTracksFace

LEMMA CoordinateTypes ==
  ASSUME NEW s \in Shapes, NEW i \in Parts
  PROVE  s[i].x \in Int /\ s[i].y \in Int
BY DlibAssumption DEF Shapes, Points

\* One comparison: the maximum reaches the threshold now if it had before or if
\* this landmark is not near where it was.
LEMMA DiffReaches ==
  ASSUME NEW p, NEW q, p.x \in Int, p.y \in Int, q.x \in Int, q.y \in Int,
         maxDiff \in Nat
  PROVE  /\ LargestDiff(p, q) \in Nat
         /\ LargestDiff(p, q) >= Threshold <=> maxDiff >= Threshold \/ ~Near(p, q)
BY DlibAssumption DEF LargestDiff, MAX, Abs, Near

LEMMA SmoothInit == Init => SmoothInv
<1> SUFFICES ASSUME Init PROVE SmoothInv
  OBVIOUS
<1>1. TypeOK
  <2>1. part \in 0 .. NumParts
    BY DlibAssumption DEF Init
  <2>2. shape \in Shapes /\ prevShape \in Shapes /\ drawn \in Shapes
    BY DEF Init
  <2>3. QED
    BY <2>1, <2>2 DEF Init, TypeOK
<1>2. LoopInv /\ DrawnTracksFace
  BY DEF Init, LoopInv, DrawnTracksFace
<1>3. QED
  BY <1>1, <1>2 DEF Init, SmoothInv

LEMMA TypeStep == TypeOK /\ [Next]_vars => TypeOK'
<1> SUFFICES ASSUME TypeOK, [Next]_vars PROVE TypeOK'
  OBVIOUS
<1> USE DlibAssumption DEF TypeOK
<1>1. CASE UNCHANGED vars
  BY <1>1 DEF vars
<1>2. CASE Prepare
  BY <1>2 DEF Prepare
<1>3. ASSUME NEW predicted \in Shapes, DetectFace(predicted) PROVE TypeOK'
  BY <1>3 DEF DetectFace
<1>4. CASE ComparePart
  <2>1. part \in Parts
    BY <1>4 DEF ComparePart, Parts
  <2>2. maxDiff' \in Nat
    BY <1>4, <2>1, CoordinateTypes, DiffReaches DEF ComparePart
  <2>3. QED
    BY <1>4, <2>2 DEF ComparePart
<1>5. CASE Decide
  BY <1>5 DEF Decide, KeptShape, DiffReset
<1>6. QED
  BY <1>1, <1>2, <1>3, <1>4, <1>5 DEF Next

\* After the loop the threshold has been reached exactly by a shape that is not
\* close to the previous one.
LEMMA AfterLoop ==
  ASSUME SmoothInv, Decide, ~isPrevShapeNull
  PROVE  Moved <=> ~Close(prevShape, shape)
<1>1. \A j \in Parts : j < part
  BY DEF Decide, SmoothInv, TypeOK, Parts
<1>2. \A j \in Parts : Near(shape[j], prevShape[j]) <=> Near(prevShape[j], shape[j])
  <2> TAKE j \in Parts
  <2>1. /\ shape[j].x \in Int /\ shape[j].y \in Int
        /\ prevShape[j].x \in Int /\ prevShape[j].y \in Int
    BY CoordinateTypes DEF SmoothInv, TypeOK
  <2>2. QED
    BY <2>1, DlibAssumption DEF Near, Abs
<1>3. QED
  BY <1>1, <1>2 DEF Moved, Close, SmoothInv, LoopInv, Decide

LEMMA SmoothStep == SmoothInv /\ [Next]_vars => SmoothInv'
<1> SUFFICES ASSUME SmoothInv, [Next]_vars PROVE SmoothInv'
  OBVIOUS
<1>t. TypeOK'
  BY TypeStep DEF SmoothInv
<1> USE <1>t DEF SmoothInv
<1>1. CASE UNCHANGED vars
  BY <1>1 DEF vars, TypeOK, LoopInv, DrawnTracksFace, Near, Close
<1>2. CASE Prepare
  BY <1>2 DEF Prepare, LoopInv, DrawnTracksFace, Near, Close
<1>3. ASSUME NEW predicted \in Shapes, DetectFace(predicted) PROVE SmoothInv'
  <2>1. LoopInv'
    BY <1>3, DlibAssumption DEF DetectFace, LoopInv, Parts
  <2>2. QED
    BY <1>3, <2>1 DEF DetectFace, DrawnTracksFace
<1>4. CASE ComparePart
  <2>1. part \in Parts /\ part' = part + 1
    BY <1>4, DlibAssumption DEF ComparePart, Parts, TypeOK
  <2>2. LoopInv'
    <3> SUFFICES ASSUME ~isPrevShapeNull
                 PROVE  maxDiff' >= Threshold <=>
                          \E j \in Parts : j < part + 1 /\ ~Near(shape[j], prevShape[j])
      BY <1>4, <2>1 DEF ComparePart, LoopInv, Near
    <3>1. maxDiff' >= Threshold <=>
            maxDiff >= Threshold \/ ~Near(shape[part], prevShape[part])
      BY <1>4, <2>1, CoordinateTypes, DiffReaches DEF ComparePart, TypeOK
    <3>2. \A j \in Parts : j < part + 1 <=> j < part \/ j = part
      BY <2>1 DEF Parts
    <3>3. QED
      BY <1>4, <2>1, <3>1, <3>2 DEF ComparePart, LoopInv
  <2>3. QED
    BY <1>4, <2>1, <2>2 DEF ComparePart, DrawnTracksFace, TypeOK, Parts
<1>5. CASE Decide
  <2>1. isDrawn' => drawn' = prevShape' /\ (Moved => drawn' = shape)
    BY <1>5 DEF Decide, KeptShape, TypeOK, Moved
  <2>2. DrawnTracksFace'
    <3> SUFFICES ASSUME isDrawn' PROVE Close(drawn', shape')
      BY DEF DrawnTracksFace
    <3>1. CASE Moved
      <4>1. \A j \in Parts : Near(shape[j], shape[j])
        BY CoordinateTypes, DlibAssumption DEF Near, Abs, TypeOK
      <4>2. QED
        BY <1>5, <3>1, <4>1 DEF Decide, Close
    <3>2. CASE ~Moved
      <4>1. ~isPrevShapeNull /\ drawn' = drawn /\ shape' = shape /\ drawn = prevShape
        BY <1>5, <3>2 DEF Decide, Moved
      <4>2. QED
        BY <1>5, <3>2, <4>1, AfterLoop
    <3>3. QED
      BY <3>1, <3>2
  <2>3. QED
    BY <1>5, <2>1, <2>2 DEF Decide, LoopInv, DiffReset, Moved, KeptShape, TypeOK
<1>6. QED
  BY <1>1, <1>2, <1>3, <1>4, <1>5 DEF Next

\* No landmark is ever drawn Threshold or more away from where the last
\* detection has seen it, however slowly or fast the face has moved.
THEOREM DrawnTracks == Spec => []DrawnTracksFace
BY SmoothInit, SmoothStep, PTL DEF Spec, SmoothInv

\* The mask is redrawn only for a face that has moved by the threshold or more
\* from what is drawn: a small motion never redraws it.
THEOREM NoJitter == Spec => RedrawnOnlyIfMoved
<1>1. ASSUME SmoothInv, [Next]_vars, drawn' # drawn \/ isDrawn' # isDrawn
      PROVE  ~isDrawn \/ ~Close(drawn, shape)
  <2>1. Decide /\ Moved
    BY <1>1 DEF Next, vars, Prepare, DetectFace, ComparePart, Decide
  <2>2. CASE isPrevShapeNull
    BY <1>1, <2>2 DEF SmoothInv
  <2>3. CASE ~isPrevShapeNull
    BY <1>1, <2>1, <2>3, AfterLoop DEF SmoothInv
  <2>4. QED
    BY <2>2, <2>3
<1>2. Spec => []SmoothInv
  BY SmoothInit, SmoothStep, PTL DEF Spec
<1>3. QED
  BY <1>1, <1>2, PTL DEF Spec, RedrawnOnlyIfMoved
=============================================================================
