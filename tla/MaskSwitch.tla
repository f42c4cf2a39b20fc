----------------------------- MODULE MaskSwitch -----------------------------
(***************************************************************************)
(* What the program promises of the masks the user picks: those that can   *)
(* be loaded are installed one after the other, each once and in the order *)
(* in which they were asked for.                                           *)
(***************************************************************************)
EXTENDS Sequences

CONSTANT Masks

VARIABLES
  waiting,   \* masks asked for and not yet installed, oldest first
  shown      \* the mask installed last, "none" before the first

Init == waiting = << >> /\ shown = "none"

Ask(mask) == waiting' = Append(waiting, mask) /\ UNCHANGED shown

Install ==
  /\ waiting # << >>
  /\ shown' = Head(waiting) /\ waiting' = Tail(waiting)

Next == Install \/ \E mask \in Masks : Ask(mask)

Spec == Init /\ [][Next]_<<waiting, shown>>

\* The mask is asked for and not installed yet.
Waits(mask) == \E i \in DOMAIN waiting : waiting[i] = mask
=============================================================================
