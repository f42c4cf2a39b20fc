------------------------------ MODULE Executor ------------------------------
(***************************************************************************)
(* What dlib's thread_pool promises (threads/thread_pool_extension_        *)
(* abstract.h): each task that is given is run once, a thread that waits   *)
(* for tasks goes on only when they have finished, and the pool is closed  *)
(* only when everything it was given is done.                              *)
(***************************************************************************)
EXTENDS Naturals

CONSTANTS Threads, Tasks

VARIABLES
  given,     \* the tasks submitted so far
  runs,      \* how often each task has been begun
  finished,  \* the tasks that have been done
  waits,     \* the tasks each thread waits for
  closed     \* the pool takes no more tasks

Init ==
  /\ given = {} /\ finished = {} /\ closed = FALSE
  /\ runs = [t \in Tasks |-> 0]
  /\ waits = [th \in Threads |-> {}]

Give(t) ==
  /\ t \notin given /\ ~closed
  /\ given' = given \cup {t}
  /\ UNCHANGED <<runs, finished, waits, closed>>

Begin(t) ==
  /\ t \in given /\ runs[t] = 0
  /\ runs' = [runs EXCEPT ![t] = 1]
  /\ UNCHANGED <<given, finished, waits, closed>>

\* A task may be run in the call that gives it.
RunAtOnce(t) ==
  /\ t \notin given /\ ~closed
  /\ given' = given \cup {t}
  /\ runs' = [runs EXCEPT ![t] = 1]
  /\ UNCHANGED <<finished, waits, closed>>

Finish(t) ==
  /\ runs[t] = 1 /\ t \notin finished
  /\ finished' = finished \cup {t}
  /\ UNCHANGED <<given, runs, waits, closed>>

Await(th) ==
  /\ waits[th] = {}
  /\ \E S \in SUBSET given : waits' = [waits EXCEPT ![th] = S]
  /\ UNCHANGED <<given, runs, finished, closed>>

Resume(th) ==
  /\ waits[th] \subseteq finished
  /\ waits' = [waits EXCEPT ![th] = {}]
  /\ UNCHANGED <<given, runs, finished, closed>>

Close ==
  /\ given \subseteq finished
  /\ closed' = TRUE
  /\ UNCHANGED <<given, runs, finished, waits>>

Next ==
  \/ \E t \in Tasks : Give(t) \/ Begin(t) \/ RunAtOnce(t) \/ Finish(t)
  \/ \E th \in Threads : Await(th) \/ Resume(th)
  \/ Close

Spec == Init /\ [][Next]_<<given, runs, finished, waits, closed>>
=============================================================================
