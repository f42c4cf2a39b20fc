----------------------------- MODULE BoundedFifo -----------------------------
(***************************************************************************)
(* What dlib's pipe promises (pipe/pipe_kernel_abstract.h): a first in     *)
(* first out queue of at most Capacity items for passing objects between   *)
(* threads.  Each thread owns one object, item[t], which it hands in by    *)
(* reference: an object is put, taken, or passed from hand to hand where   *)
(* there is no room for any.  Nothing is duplicated, and a call that fails *)
(* changes nothing.                                                        *)
(***************************************************************************)
EXTENDS Naturals, Sequences

CONSTANTS Threads, Items, Capacity

VARIABLES
  queue,    \* the items put and not yet taken, the oldest first
  item,     \* the object of each thread
  calling   \* the threads that are blocked in a call

Init == queue = << >> /\ item \in [Threads -> Items] /\ calling = {}

\* Outside of a call a thread does as it likes with its own object.
Own(t) ==
  /\ t \notin calling
  /\ \E v \in Items : item' = [item EXCEPT ![t] = v]
  /\ UNCHANGED <<queue, calling>>

\* A call blocks, or ends, without an effect or after its effect.
Blocks(t) == calling' = calling \cup {t} /\ UNCHANGED <<queue, item>>
Ends(t)   == calling' = calling \ {t}    /\ UNCHANGED <<queue, item>>

\* An object handed in is left undefined but valid.
Put(t) ==
  /\ Len(queue) < Capacity
  /\ queue' = Append(queue, item[t])
  /\ \E v \in Items : item' = [item EXCEPT ![t] = v]
  /\ calling' = calling \ {t}

Take(t) ==
  /\ queue # << >>
  /\ item' = [item EXCEPT ![t] = Head(queue)]
  /\ queue' = Tail(queue)
  /\ calling' = calling \ {t}

Pass(s, t) ==
  /\ Capacity = 0 /\ s # t /\ s \in calling
  /\ \E v \in Items : item' = [item EXCEPT ![t] = item[s], ![s] = v]
  /\ calling' = calling \ {t}
  /\ UNCHANGED queue

Clear == queue' = << >> /\ UNCHANGED <<item, calling>>

Next ==
  \/ \E t \in Threads : Own(t) \/ Blocks(t) \/ Ends(t) \/ Put(t) \/ Take(t)
  \/ \E s, t \in Threads : Pass(s, t)
  \/ Clear

Spec == Init /\ [][Next]_<<queue, item, calling>>
=============================================================================
