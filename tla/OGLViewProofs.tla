---------------------------- MODULE OGLViewProofs ----------------------------
(***************************************************************************)
(* Proof that a set-up which no detection overlaps leaves the reference    *)
(* geometry and the vertices of the mask right, for any masks and any      *)
(* detections, and whatever an earlier set-up has left behind.             *)
(***************************************************************************)
EXTENDS OGLView, SequenceTheorems, TLAPS

\* How far the running set-up has come, the one of a mask that lists everything.
Template == \A c \in Coords : vertices[c] = OfMask(mask)
Carried  == /\ \A c \in Eyes : vertices[c] = OfFace(face)
            /\ \A c \in Outer : vertices[c] = Fitted(mask, face)

PutSoFar ==
  \/ setupTodo = <<"p36", "p45", "outer">>
  \/ setupTodo = <<"p45", "outer">> /\ vertices["p36"] = OfMask(mask)
  \/ setupTodo = <<"outer">> /\ \A c \in Eyes : vertices[c] = OfMask(mask)
  \/ setupTodo = << >> /\ Template

GotSoFar ==
  \/ setupTodo = <<"outer", "p36", "p45">>
  \/ setupTodo = <<"p36", "p45">> /\ points["outer"] = OfMask(mask)
  \/ setupTodo = <<"p45">> /\ \A c \in {"outer", "p36"} : points[c] = OfMask(mask)
  \/ setupTodo = << >> /\ \A c \in Coords : points[c] = OfMask(mask)

SetupKnown ==
  /\ setupPC = "put" => PutSoFar
  /\ setupPC = "get" => Template /\ GotSoFar
  /\ setupPC = "keep" => /\ Template /\ \A c \in Coords : points[c] = OfMask(mask)
                         /\ reference["eyes"] = OfMask(mask)
  /\ setupPC = "idle" => \A part \in {"eyes", "outer"} : reference[part] = OfMask(mask)

\* The same of a detection that runs when the set-up has returned.
DrawnSoFar ==
  \/ updateTodo = <<"p36", "p45">>
  \/ updateTodo = <<"p45">> /\ vertices["p36"] = OfFace(face)
  \/ updateTodo = << >> /\ \A c \in Eyes : vertices[c] = OfFace(face)

ReadSoFar ==
  \/ updateTodo = <<"p36", "p45">>
  \/ updateTodo = <<"p45">> /\ cur["p36"] = OfFace(face)
  \/ updateTodo = << >> /\ \A c \in Eyes : cur[c] = OfFace(face)

UpdateKnown ==
  /\ updatePC = "idle" => Template \/ Carried
  /\ updatePC = "put" => DrawnSoFar
  /\ updatePC = "get" => ReadSoFar /\ \A c \in Eyes : vertices[c] = OfFace(face)
  /\ updatePC = "place" => /\ updateTodo = <<"outer">>
                           /\ \A c \in Eyes : vertices[c] = OfFace(face)
                           /\ \A c \in Eyes : cur[c] = OfFace(face)

IInv ==
  /\ TypeOK
  /\ updatePC # "idle" => face \in Detections
  /\ ~overlapped /\ setupPC # "idle" => updatePC = "idle"
  /\ ~overlapped /\ mask \in Complete => SetupKnown
  /\ ~overlapped /\ mask \in Complete /\ setupPC = "idle" => UpdateKnown
-----------------------------------------------------------------------------
(* The sequences of coordinates.                                           *)

LEMMA TwoAndOne ==
  ASSUME NEW S, NEW a \in S, NEW b \in S, NEW c \in S
  PROVE  /\ <<a, b>> \o <<c>> = <<a, b, c>>
         /\ <<c>> \o <<a, b>> = <<c, a, b>>
  <1> DEFINE s == <<a, b>>
             t == <<c>>
             u == <<a, b, c>>
             v == <<c, a, b>>
  <1>1. s \in Seq(S) /\ t \in Seq(S) /\ u \in Seq(S) /\ v \in Seq(S)
    OBVIOUS
  <1>2. Len(s) = 2 /\ Len(t) = 1 /\ Len(u) = 3 /\ Len(v) = 3
    OBVIOUS
  <1>3. s[1] = a /\ s[2] = b /\ t[1] = c /\ u[1] = a /\ u[2] = b /\ u[3] = c
        /\ v[1] = c /\ v[2] = a /\ v[3] = b
    OBVIOUS
  <1> HIDE DEF s, t, u, v
  <1>4. /\ s \o t \in Seq(S) /\ Len(s \o t) = 3
        /\ (s \o t)[1] = a /\ (s \o t)[2] = b /\ (s \o t)[3] = c
    <2>1. /\ s \o t \in Seq(S) /\ Len(s \o t) = Len(s) + Len(t)
          /\ \A i \in 1 .. Len(s) + Len(t) :
               (s \o t)[i] = IF i <= Len(s) THEN s[i] ELSE t[i - Len(s)]
      BY <1>1, ConcatProperties, Zenon
    <2> QED
      BY <2>1, <1>2, <1>3
  <1>5. /\ t \o s \in Seq(S) /\ Len(t \o s) = 3
        /\ (t \o s)[1] = c /\ (t \o s)[2] = a /\ (t \o s)[3] = b
    <2>1. /\ t \o s \in Seq(S) /\ Len(t \o s) = Len(t) + Len(s)
          /\ \A i \in 1 .. Len(t) + Len(s) :
               (t \o s)[i] = IF i <= Len(t) THEN t[i] ELSE s[i - Len(t)]
      BY <1>1, ConcatProperties, Zenon
    <2> QED
      BY <2>1, <1>2, <1>3
  <1>6. 1 .. 3 = {1, 2, 3}
    OBVIOUS
  <1>7. s \o t = u
    BY <1>1, <1>2, <1>3, <1>4, <1>6, SeqEqual
  <1>8. t \o s = v
    BY <1>1, <1>2, <1>3, <1>5, <1>6, SeqEqual
  <1> QED
    BY <1>7, <1>8 DEF s, t, u, v

\* The coordinates in the order in which they are put, and read back.
LEMMA Orders ==
  /\ EyeCoords = <<"p36", "p45">> /\ OuterCoords = <<"outer">>
  /\ EyeCoords \o OuterCoords = <<"p36", "p45", "outer">>
  /\ ReadBack = <<"outer", "p36", "p45">>
  <1>1. "p36" \in Coords /\ "p45" \in Coords /\ "outer" \in Coords
    BY DEF Coords, Eyes, Outer
  <1> QED
    BY <1>1, TwoAndOne DEF EyeCoords, OuterCoords, ReadBack

LEMMA OrderTypes ==
  /\ EyeCoords \in Seq(Coords) /\ OuterCoords \in Seq(Coords)
  /\ EyeCoords \o OuterCoords \in Seq(Coords) /\ EyeCoords \o << >> \in Seq(Coords)
  /\ ReadBack \in Seq(Coords)
  <1>1. EyeCoords \in Seq(Coords) /\ OuterCoords \in Seq(Coords)
    BY DEF Coords, Eyes, Outer, EyeCoords, OuterCoords
  <1>2. << >> \in Seq(Coords)
    OBVIOUS
  <1> QED
    BY <1>1, <1>2, ConcatProperties, Zenon DEF ReadBack

LEMMA TodoType ==
  ASSUME NEW todo \in Seq(Coords), todo # << >>
  PROVE  Head(todo) \in Coords /\ Tail(todo) \in Seq(Coords)
BY HeadTailProperties

\* What is computed from values of one source comes from that source.
LEMMA CommonOfOne == ASSUME NEW s PROVE Common({s}) = s
BY DEF Common

LEMMA CommonType ==
  ASSUME NEW S \in SUBSET Sources PROVE Common(S) \in Sources
  <1>1. CASE \E s \in S : S = {s}
    BY <1>1, CommonOfOne
  <1>2. CASE ~ \E s \in S : S = {s}
    BY <1>2 DEF Common, Mixed, Sources
  <1> QED
    BY <1>1, <1>2

LEMMA SourceTypes ==
  /\ \A m \in Masks \cup {"none"} : OfMask(m) \in Sources
  /\ \A f \in Detections \cup {"none"} : OfFace(f) \in Sources
  /\ \A m \in Masks, f \in Detections : Fitted(m, f) \in Sources
  /\ Mixed \in Sources
BY DEF OfMask, OfFace, Fitted, Mixed, Sources
-----------------------------------------------------------------------------
(* The type invariant.                                                     *)

LEMMA PlacedType ==
  ASSUME TypeOK PROVE Placed \in Sources
  <1> DEFINE eyes  == Common({cur[c] : c \in Eyes})
             rigid == Common({reference["eyes"], reference["outer"]})
  <1>1. CASE \E m \in Masks, f \in Detections : rigid = OfMask(m) /\ eyes = OfFace(f)
    <2>1. PICK m \in Masks, f \in Detections : rigid = OfMask(m) /\ eyes = OfFace(f)
      BY <1>1
    <2>2. rigid.mask = m /\ eyes.face = f
      BY <2>1 DEF OfMask, OfFace
    <2>3. Placed = Fitted(m, f)
      BY <1>1, <2>2 DEF Placed
    <2> QED
      BY <2>3, SourceTypes
  <1>2. CASE ~ \E m \in Masks, f \in Detections : rigid = OfMask(m) /\ eyes = OfFace(f)
    <2>1. Placed = Mixed
      BY <1>2 DEF Placed
    <2> QED
      BY <2>1, SourceTypes
  <1> QED
    BY <1>1, <1>2

LEMMA TypeKept ==
  ASSUME TypeOK, updatePC # "idle" => face \in Detections, [Next]_vars
  PROVE  TypeOK'
  <1> USE DEF TypeOK, setupVars, updateVars
  <1>1. ASSUME NEW m \in Masks, SetupVBOs(m) PROVE TypeOK'
    BY <1>1, OrderTypes DEF SetupVBOs
  <1>2. ASSUME NEW f \in Detections, UpdateDlibVertices(f) PROVE TypeOK'
    BY <1>2, OrderTypes DEF UpdateDlibVertices
  <1>3. CASE SetupPut
    BY <1>3, TodoType, SourceTypes DEF SetupPut
  <1>4. CASE SetupLoopEnds
    BY <1>4, OrderTypes DEF SetupLoopEnds
  <1>5. CASE SetupGet
    BY <1>5, TodoType DEF SetupGet
  <1>6. CASE KeepEyes
    <2>1. {points[c] : c \in Eyes} \in SUBSET Sources
      BY DEF Coords
    <2> QED
      BY <1>6, <2>1, CommonType DEF KeepEyes
  <1>7. CASE KeepOuter
    <2>1. {points[c] : c \in Outer \cup {"p36"}} \in SUBSET Sources
      BY DEF Coords, Eyes
    <2> QED
      BY <1>7, <2>1, CommonType DEF KeepOuter
  <1>8. CASE UpdatePut
    BY <1>8, TodoType, SourceTypes DEF UpdatePut
  <1>9. CASE UpdateLoopEnds
    BY <1>9, OrderTypes DEF UpdateLoopEnds, CurPoints
  <1>10. CASE UpdateGet
    <2>1. Head(updateTodo) \in Coords /\ Tail(updateTodo) \in Seq(Coords)
      BY <1>10, TodoType DEF UpdateGet
    <2> QED
      BY <1>10, <2>1 DEF UpdateGet
  <1>11. CASE PlaceStarts
    BY <1>11, OrderTypes DEF PlaceStarts
  <1>12. CASE CalculateMaskRect
    BY <1>12, TodoType, PlacedType DEF CalculateMaskRect
  <1>13. CASE UNCHANGED vars
    BY <1>13 DEF vars
  <1> QED
    BY <1>1, <1>2, <1>3, <1>4, <1>5, <1>6, <1>7, <1>8, <1>9, <1>10, <1>11, <1>12,
       <1>13
    DEF Next, SetupStep, UpdateStep
-----------------------------------------------------------------------------
(* One step of the set-up.                                                 *)

LEMMA SetupStarts ==
  ASSUME IInv, NEW m \in Masks, SetupVBOs(m)
  PROVE  IInv'
  <1>1. TypeOK'
    BY TypeKept DEF IInv, Next
  <1>2. mask' \in Complete => setupTodo' = <<"p36", "p45", "outer">>
    BY Orders DEF SetupVBOs
  <1> QED
    BY <1>1, <1>2 DEF IInv, SetupVBOs, SetupKnown, PutSoFar, updateVars

LEMMA SetupGoesOn ==
  ASSUME IInv, SetupStep
  PROVE  IInv'
  <1>1. TypeOK'
    BY TypeKept DEF IInv, Next
  <1>2. UNCHANGED <<mask, overlapped, face, updatePC>> /\ setupPC # "idle"
    BY DEF SetupStep, SetupPut, SetupLoopEnds, SetupGet, KeepEyes, KeepOuter, updateVars
  <1> SUFFICES ASSUME ~overlapped, mask \in Complete
               PROVE  SetupKnown' /\ (setupPC' = "idle" => UpdateKnown')
    BY <1>1, <1>2 DEF IInv
  <1> USE DEF IInv, TypeOK, SetupKnown
  <1>3. updatePC' = "idle"
    BY <1>2
  <1>4. CASE SetupPut
    <2>1. /\ setupPC = "put" /\ setupPC' = "put" /\ PutSoFar /\ setupTodo # << >>
          /\ vertices' = [vertices EXCEPT ![Head(setupTodo)] = OfMask(mask)]
          /\ setupTodo' = Tail(setupTodo)
      BY <1>4 DEF SetupPut
    <2>2. CASE setupTodo = <<"p36", "p45", "outer">>
      <3>1. setupTodo' = <<"p45", "outer">> /\ vertices'["p36"] = OfMask(mask)
        BY <2>1, <2>2 DEF Coords, Eyes
      <3> QED
        BY <1>2, <2>1, <3>1 DEF PutSoFar
    <2>3. CASE setupTodo = <<"p45", "outer">> /\ vertices["p36"] = OfMask(mask)
      <3>1. setupTodo' = <<"outer">> /\ \A c \in Eyes : vertices'[c] = OfMask(mask)
        BY <2>1, <2>3 DEF Coords, Eyes
      <3> QED
        BY <1>2, <2>1, <3>1 DEF PutSoFar
    <2>4. CASE setupTodo = <<"outer">> /\ \A c \in Eyes : vertices[c] = OfMask(mask)
      <3>1. setupTodo' = << >> /\ \A c \in Coords : vertices'[c] = OfMask(mask)
        BY <2>1, <2>4 DEF Coords, Eyes, Outer
      <3> QED
        BY <1>2, <2>1, <3>1 DEF PutSoFar, Template
    <2> QED
      BY <2>1, <2>2, <2>3, <2>4 DEF PutSoFar
  <1>5. CASE SetupLoopEnds
    BY <1>2, <1>5, Orders DEF SetupLoopEnds, PutSoFar, GotSoFar, Template
  <1>6. CASE SetupGet
    <2>1. /\ setupPC = "get" /\ setupPC' = "get" /\ GotSoFar /\ setupTodo # << >>
          /\ points' = [points EXCEPT ![Head(setupTodo)] = vertices[Head(setupTodo)]]
          /\ setupTodo' = Tail(setupTodo)
      BY <1>6 DEF SetupGet
    <2>2. Template /\ Template'
      BY <1>2, <1>6 DEF SetupGet, Template
    <2>3. CASE setupTodo = <<"outer", "p36", "p45">>
      <3>1. setupTodo' = <<"p36", "p45">> /\ points'["outer"] = OfMask(mask)
        BY <2>1, <2>2, <2>3 DEF Template, Coords, Outer
      <3> QED
        BY <1>2, <2>1, <2>2, <3>1 DEF GotSoFar
    <2>4. CASE setupTodo = <<"p36", "p45">> /\ points["outer"] = OfMask(mask)
      <3>1. setupTodo' = <<"p45">> /\ \A c \in {"outer", "p36"} : points'[c] = OfMask(mask)
        BY <2>1, <2>2, <2>4 DEF Template, Coords, Eyes, Outer
      <3> QED
        BY <1>2, <2>1, <2>2, <3>1 DEF GotSoFar
    <2>5. CASE setupTodo = <<"p45">> /\ \A c \in {"outer", "p36"} : points[c] = OfMask(mask)
      <3>1. setupTodo' = << >> /\ \A c \in Coords : points'[c] = OfMask(mask)
        BY <2>1, <2>2, <2>5 DEF Template, Coords, Eyes, Outer
      <3> QED
        BY <1>2, <2>1, <2>2, <3>1 DEF GotSoFar
    <2> QED
      BY <2>1, <2>3, <2>4, <2>5 DEF GotSoFar
  <1>7. CASE KeepEyes
    <2>1. \A c \in Coords : points[c] = OfMask(mask)
      BY <1>7 DEF KeepEyes, GotSoFar
    <2>2. {points[c] : c \in Eyes} = {OfMask(mask)}
      BY <2>1 DEF Coords, Eyes
    <2> QED
      BY <1>2, <1>7, <2>1, <2>2, CommonOfOne DEF KeepEyes, Template
  <1>8. CASE KeepOuter
    <2>1. {points[c] : c \in Outer \cup {"p36"}} = {OfMask(mask)}
      BY <1>8 DEF KeepOuter, Coords, Eyes, Outer
    <2>2. \A part \in {"eyes", "outer"} : reference'[part] = OfMask(mask)
      BY <1>8, <2>1, CommonOfOne DEF KeepOuter
    <2>3. Template'
      BY <1>2, <1>8 DEF KeepOuter, Template
    <2> QED
      BY <1>2, <1>3, <1>8, <2>2, <2>3 DEF KeepOuter, UpdateKnown
  <1> QED
    BY <1>4, <1>5, <1>6, <1>7, <1>8 DEF SetupStep
-----------------------------------------------------------------------------
(* One step of the detection.                                              *)

LEMMA UpdateStarts ==
  ASSUME IInv, NEW f \in Detections, UpdateDlibVertices(f)
  PROVE  IInv'
  <1>1. TypeOK'
    BY TypeKept DEF IInv, Next
  <1>2. updateTodo' = <<"p36", "p45">>
    BY Orders DEF UpdateDlibVertices
  <1> QED
    BY <1>1, <1>2 DEF IInv, UpdateDlibVertices, SetupKnown, UpdateKnown, DrawnSoFar,
      setupVars

\* What calculateMaskRect places fits the mask to the face.
LEMMA PlacedFits ==
  ASSUME IInv, ~overlapped, mask \in Complete, setupPC = "idle", updatePC = "place"
  PROVE  Placed = Fitted(mask, face)
  <1>1. mask \in Masks /\ face \in Detections
    BY OGLAssumption DEF IInv
  <1>2. {cur[c] : c \in Eyes} = {OfFace(face)}
    BY DEF IInv, UpdateKnown, Eyes
  <1>3. {reference["eyes"], reference["outer"]} = {OfMask(mask)}
    BY DEF IInv, SetupKnown
  <1>4. Common({cur[c] : c \in Eyes}) = OfFace(face)
    BY <1>2, CommonOfOne
  <1>5. Common({reference["eyes"], reference["outer"]}) = OfMask(mask)
    BY <1>3, CommonOfOne
  <1>6. OfMask(mask).mask = mask /\ OfFace(face).face = face
    BY DEF OfMask, OfFace
  <1> QED
    BY <1>1, <1>4, <1>5, <1>6 DEF Placed

LEMMA UpdateGoesOn ==
  ASSUME IInv, UpdateStep
  PROVE  IInv'
  <1>1. TypeOK'
    BY TypeKept DEF IInv, Next
  <1>2. UNCHANGED <<mask, overlapped, face, setupPC, reference>> /\ updatePC # "idle"
    BY DEF UpdateStep, UpdatePut, UpdateLoopEnds, UpdateGet, PlaceStarts,
      CalculateMaskRect, setupVars
  <1> SUFFICES ASSUME ~overlapped, mask \in Complete
               PROVE  SetupKnown' /\ (setupPC' = "idle" => UpdateKnown')
    BY <1>1, <1>2 DEF IInv
  <1> USE DEF IInv, TypeOK, UpdateKnown
  <1>3. setupPC = "idle" /\ setupPC' = "idle"
    BY <1>2
  <1>4. SetupKnown'
    BY <1>2, <1>3 DEF SetupKnown
  <1>5. CASE UpdatePut
    <2>1. /\ updatePC = "put" /\ updatePC' = "put" /\ DrawnSoFar /\ updateTodo # << >>
          /\ vertices' = [vertices EXCEPT ![Head(updateTodo)] = OfFace(face)]
          /\ updateTodo' = Tail(updateTodo)
      BY <1>3, <1>5 DEF UpdatePut
    <2>2. CASE updateTodo = <<"p36", "p45">>
      <3>1. updateTodo' = <<"p45">> /\ vertices'["p36"] = OfFace(face)
        BY <2>1, <2>2 DEF Coords, Eyes
      <3> QED
        BY <1>2, <1>4, <2>1, <3>1 DEF DrawnSoFar
    <2>3. CASE updateTodo = <<"p45">> /\ vertices["p36"] = OfFace(face)
      <3>1. updateTodo' = << >> /\ \A c \in Eyes : vertices'[c] = OfFace(face)
        BY <2>1, <2>3 DEF Coords, Eyes
      <3> QED
        BY <1>2, <1>4, <2>1, <3>1 DEF DrawnSoFar
    <2> QED
      BY <2>1, <2>2, <2>3 DEF DrawnSoFar
  <1>6. CASE UpdateLoopEnds
    BY <1>2, <1>3, <1>4, <1>6, Orders
    DEF UpdateLoopEnds, CurPoints, DrawnSoFar, ReadSoFar
  <1>7. CASE UpdateGet
    <2>1. /\ updatePC = "get" /\ updatePC' = "get" /\ ReadSoFar /\ updateTodo # << >>
          /\ cur' = [cur EXCEPT ![Head(updateTodo)] = vertices[Head(updateTodo)]]
          /\ updateTodo' = Tail(updateTodo) /\ vertices' = vertices
          /\ \A c \in Eyes : vertices[c] = OfFace(face)
      BY <1>3, <1>7 DEF UpdateGet
    <2>2. CASE updateTodo = <<"p36", "p45">>
      <3>1. updateTodo' = <<"p45">> /\ cur'["p36"] = OfFace(face)
        BY <2>1, <2>2 DEF Eyes
      <3> QED
        BY <1>2, <1>4, <2>1, <3>1 DEF ReadSoFar
    <2>3. CASE updateTodo = <<"p45">> /\ cur["p36"] = OfFace(face)
      <3>1. updateTodo' = << >> /\ \A c \in Eyes : cur'[c] = OfFace(face)
        BY <2>1, <2>3 DEF Eyes
      <3> QED
        BY <1>2, <1>4, <2>1, <3>1 DEF ReadSoFar
    <2> QED
      BY <2>1, <2>2, <2>3 DEF ReadSoFar
  <1>8. CASE PlaceStarts
    BY <1>2, <1>3, <1>4, <1>8, Orders DEF PlaceStarts, ReadSoFar
  <1>9. CASE CalculateMaskRect
    <2>1. updateTodo = <<"outer">> /\ Placed = Fitted(mask, face)
      BY <1>3, <1>9, PlacedFits DEF CalculateMaskRect
    <2>2. Head(updateTodo) = "outer" /\ Tail(updateTodo) = << >>
      BY <2>1
    <2>3. Carried'
      BY <1>2, <1>3, <1>9, <2>1, <2>2 DEF CalculateMaskRect, Carried, Coords, Eyes, Outer
    <2> QED
      BY <1>4, <1>9, <2>2, <2>3 DEF CalculateMaskRect
  <1> QED
    BY <1>5, <1>6, <1>7, <1>8, <1>9 DEF UpdateStep
-----------------------------------------------------------------------------
LEMMA InitIInv == Init => IInv
  <1> SUFFICES ASSUME Init PROVE IInv
    OBVIOUS
  <1>1. TypeOK
    <2>1. << >> \in Seq(Coords) /\ Mixed \in Sources
      BY SourceTypes
    <2> QED
      BY <2>1 DEF Init, TypeOK
  <1>2. mask \notin Complete
    BY OGLAssumption DEF Init
  <1> QED
    BY <1>1, <1>2 DEF Init, IInv

LEMMA NextIInv == IInv /\ [Next]_vars => IInv'
  <1> SUFFICES ASSUME IInv, [Next]_vars PROVE IInv'
    OBVIOUS
  <1>1. CASE UNCHANGED vars
    <2>1. TypeOK'
      BY TypeKept DEF IInv
    <2> QED
      BY <1>1, <2>1 DEF IInv, vars, setupVars, updateVars, SetupKnown, UpdateKnown, PutSoFar,
        GotSoFar, DrawnSoFar, ReadSoFar, Template, Carried
  <1>2. CASE Next
    BY <1>2, SetupStarts, UpdateStarts, SetupGoesOn, UpdateGoesOn DEF Next
  <1> QED
    BY <1>1, <1>2

LEMMA WhatFollows == IInv => TypeOK /\ ReferenceOfMask /\ MaskBelongsTogether
BY DEF IInv, SetupKnown, UpdateKnown, Template, Carried, ReferenceOfMask,
  MaskBelongsTogether, SetUpAlone

\* After a set-up that nobody has overlapped, the reference geometry is that of its
\* mask, whatever state the vertices were in before, and no detection changes it.
THEOREM ReferenceCorrect == Spec => []ReferenceOfMask
BY InitIInv, NextIInv, WhatFollows, PTL DEF Spec

\* ... and between detections the whole mask is the template, or the template carried
\* over to the face detected last.
THEOREM MaskCorrect == Spec => []MaskBelongsTogether
BY InitIInv, NextIInv, WhatFollows, PTL DEF Spec
=============================================================================
