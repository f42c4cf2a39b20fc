-------------------------------- MODULE Pipe --------------------------------
(***************************************************************************)
(* dlib's pipe, pipe/pipe_kernel_1.h: a queue between threads, built as a  *)
(* monitor with one mutex and three condition variables.                   *)
(*                                                                         *)
(* A thread leaves the mutex only by returning or by waiting, so an action *)
(* is what a call does from its beginning, or from a wake-up, to its next  *)
(* wait or its return.  A thread in a wait is in asleep; which condition   *)
(* variable it sleeps on follows from its call.  The code knows the others *)
(* only by its three counters, which every call counts up and down again,  *)
(* and so do the actions: the sets of threads are those that a broadcast   *)
(* reaches.  Waits may end without a signal, as threads_kernel_abstract.h  *)
(* warns.                                                                  *)
(***************************************************************************)
EXTENDS Integers, FiniteSets

CONSTANTS
  Threads,
  Items,
  MaxSize,      \* pipe_max_size
  Nums          \* the arguments given to wait_for_num_blocked_dequeues

ASSUME PipeAssumption ==
  /\ IsFiniteSet(Threads)
  /\ MaxSize \in Nat /\ Nums \subseteq Nat

VARIABLES
  pipe_size, first, last, data,
  dequeue_waiters, enqueue_waiters, unblock_sig_waiters,
  enabled, enqueue_enabled, dequeue_enabled,
  op,           \* the call each thread is in
  asleep,       \* the threads in a wait
  timedOut,     \* the threads whose wait has ended by its timeout
  item,         \* the object each thread passes by reference
  num,          \* the argument of wait_for_num_blocked_dequeues
  destroyed     \* data has been deleted

slots   == <<pipe_size, first, last, data>>
flags   == <<enabled, enqueue_enabled, dequeue_enabled>>
callers == <<op, asleep, timedOut, item, num>>
waiters == <<dequeue_waiters, enqueue_waiters, unblock_sig_waiters>>
vars    == <<slots, waiters, flags, callers, destroyed>>

EnqueueCalls == {"enqueue", "enqueue_or_timeout"}
DequeueCalls == {"dequeue", "dequeue_or_timeout"}
TimedCalls   == {"enqueue_or_timeout", "dequeue_or_timeout"}
\* The second wait of an enqueue, for its item to be taken.
Handoffs     == {"handoff", "handoff_or_timeout"}
HandoffOf(call) == IF call = "enqueue" THEN "handoff" ELSE "handoff_or_timeout"
Calls == EnqueueCalls \cup DequeueCalls \cup Handoffs \cup
         {"wait_until_empty", "wait_for_num", "destroy"}

Slots == 0 .. (IF MaxSize > 0 THEN MaxSize ELSE 1) - 1

In(calls) == {t \in Threads : op[t] \in calls}

\* Those who wait on dequeue_sig, on enqueue_sig and on unblock_sig, if asleep.
Dequeuers  == In(DequeueCalls)
Enqueuers  == In(EnqueueCalls \cup Handoffs \cup {"wait_until_empty"})
Unblockers == In({"wait_for_num", "destroy"})

Init ==
  /\ pipe_size = 0 /\ first = 1 /\ last = 1 /\ data \in [Slots -> Items]
  /\ dequeue_waiters = 0 /\ enqueue_waiters = 0 /\ unblock_sig_waiters = 0
  /\ enabled = TRUE /\ enqueue_enabled = TRUE /\ dequeue_enabled = TRUE
  /\ op = [t \in Threads |-> "none"] /\ asleep = {} /\ timedOut = {}
  /\ item \in [Threads -> Items] /\ num = [t \in Threads |-> 0]
  /\ destroyed = FALSE
-----------------------------------------------------------------------------
\* Thread t has the mutex: it makes this call, or goes on with it after a wait.
\* Nobody makes a call of an object that is being destroyed.
Enters(t) == op[t] = "none" /\ In({"destroy"}) = {} /\ ~destroyed
Resumes(t, call) == op[t] = call /\ t \notin asleep
Runs(t, call) == Enters(t) \/ Resumes(t, call)

\* What the thread does in the end: wait, with those it has woken awake, or return.
Sleeps(t, call, woken) ==
  /\ op' = [op EXCEPT ![t] = call]
  /\ asleep' = (asleep \ woken) \cup {t}
Returns(t, woken) ==
  /\ op' = [op EXCEPT ![t] = "none"]
  /\ asleep' = asleep \ woken
  /\ timedOut' = timedOut \ {t}

\* A counter goes up when a call begins and down again when it ends.
TimeoutTwice(t, counter) ==           \* mutant: a timeout counts down twice
  (IF op[t] = "none" THEN counter + 1 ELSE counter)
    - (IF t \in timedOut THEN 2 ELSE 1)
Entered(t, counter) == IF op[t] = "none" THEN counter + 1 ELSE counter
Left(t, counter) == Entered(t, counter) - 1

\* A broadcast that is made only if the counter says that somebody is there.
IfAny(counter, sleepers) == IF counter > 0 THEN sleepers ELSE {}

\* A signal wakes one sleeper, if there is any.
SignalLost(sleepers) == {{}}          \* mutant: nobody is woken
Signal(sleepers) == IF sleepers = {} THEN {{}} ELSE {{t} : t \in sleepers}

\* exchange(item, data[i])
Copies(t, i) ==                       \* mutant: the object stays the caller's too
  /\ data' = [data EXCEPT ![i] = item[t]]
  /\ UNCHANGED item
Exchange(t, i) ==
  /\ data' = [data EXCEPT ![i] = item[t]]
  /\ item' = [item EXCEPT ![t] = data[i]]

\* The caller does as it likes with its own object.
Own(t) ==
  /\ op[t] = "none"
  /\ \E v \in Items : item' = [item EXCEPT ![t] = v]
  /\ UNCHANGED <<slots, waiters, flags, op, asleep, timedOut, num, destroyed>>
-----------------------------------------------------------------------------
(* enqueue and enqueue_or_timeout.                                         *)

Full == pipe_size = MaxSize
Offered == MaxSize = 0 /\ first = 0 /\ last = 0
\* Without room an item is placed only for a dequeue to take it on the spot.
CanHandOff(call) ==
  MaxSize = 0 /\ first = 1 /\ (call = "enqueue_or_timeout" => dequeue_waiters > 0)

EnqueueMustWait(call) ==
  Full /\ enabled /\ enqueue_enabled /\ ~CanHandOff(call)

EnqueueWaits(t, call) ==
  /\ t \notin timedOut /\ EnqueueMustWait(call)
  /\ enqueue_waiters' = Entered(t, enqueue_waiters)
  /\ Sleeps(t, call, {})
  /\ UNCHANGED <<slots, timedOut, item>>

\* It is disabled, or out of time: at once with a timeout of zero.
EnqueueFails(t, call) ==
  /\ ~enabled \/ ~enqueue_enabled \/ t \in timedOut
       \/ (Enters(t) /\ call \in TimedCalls /\ EnqueueMustWait(call))
  /\ enqueue_waiters' = Left(t, enqueue_waiters)
  /\ Returns(t, Unblockers)
  /\ UNCHANGED <<slots, item>>

LastOnly == (last + 1) % MaxSize      \* mutant: an empty pipe is not restarted
NextLast == IF pipe_size = 0 THEN 0 ELSE (last + 1) % MaxSize

EnqueuePuts(t, call) ==
  /\ t \notin timedOut /\ enabled /\ enqueue_enabled
  /\ ~EnqueueMustWait(call)
  /\ first' = IF pipe_size = 0 THEN 0 ELSE first
  /\ last' = NextLast
  /\ Exchange(t, NextLast)
  /\ \E woken \in Signal(asleep \cap IfAny(dequeue_waiters, Dequeuers)) :
       IF MaxSize > 0
       THEN /\ pipe_size' = pipe_size + 1
            /\ enqueue_waiters' = Left(t, enqueue_waiters)
            /\ Returns(t, woken)
       ELSE /\ enqueue_waiters' = Entered(t, enqueue_waiters)
            /\ Sleeps(t, HandoffOf(call), woken)
            /\ UNCHANGED <<pipe_size, timedOut>>

Enqueue(t, call) ==
  /\ Runs(t, call)
  /\ EnqueueWaits(t, call) \/ EnqueueFails(t, call) \/ EnqueuePuts(t, call)
  /\ UNCHANGED <<dequeue_waiters, unblock_sig_waiters, flags, num, destroyed>>

\* The wait for the item to be taken; it has no timeout.
HandoffWaits(t) ==
  /\ last = 0 /\ enabled /\ enqueue_enabled
  /\ Sleeps(t, op[t], {})
  /\ UNCHANGED <<slots, enqueue_waiters, timedOut, item>>

HandoffWithdraws(t) ==
  /\ last = 0 /\ ~(enabled /\ enqueue_enabled)
  /\ first' = 1 /\ last' = 1
  /\ Exchange(t, 0)
  /\ enqueue_waiters' = Left(t, enqueue_waiters)
  /\ Returns(t, IfAny(unblock_sig_waiters, Unblockers))
  /\ UNCHANGED pipe_size

\* This call is itself counted among the enqueue_waiters.
WakesNext ==
  IfAny(enqueue_waiters - 1, Enqueuers) \cup
  IF enabled THEN {} ELSE IfAny(unblock_sig_waiters, Unblockers)

HandoffDone(t) ==
  /\ last # 0
  /\ first' = 1 /\ last' = 1
  /\ enqueue_waiters' = Left(t, enqueue_waiters)
  /\ Returns(t, WakesNext)
  /\ UNCHANGED <<pipe_size, data, item>>

Handoff(t) ==
  /\ \E call \in Handoffs : Resumes(t, call)
  /\ HandoffWaits(t) \/ HandoffWithdraws(t) \/ HandoffDone(t)
  /\ UNCHANGED <<dequeue_waiters, unblock_sig_waiters, flags, num, destroyed>>
-----------------------------------------------------------------------------
(* dequeue and dequeue_or_timeout.                                         *)

DequeueMustWait ==
  pipe_size = 0 /\ enabled /\ dequeue_enabled /\ ~Offered

\* A dequeue that finds the pipe empty tells those who wait for that.
ToldByDequeue(t) ==
  IF Enters(t) /\ pipe_size = 0
  THEN IfAny(enqueue_waiters, Enqueuers) \cup
       IfAny(unblock_sig_waiters, Unblockers)
  ELSE {}

DequeueWaits(t, call) ==
  /\ t \notin timedOut /\ DequeueMustWait
  /\ dequeue_waiters' = Entered(t, dequeue_waiters)
  /\ Sleeps(t, call, ToldByDequeue(t))
  /\ UNCHANGED <<slots, timedOut, item>>

DequeueFails(t, call) ==
  /\ ~enabled \/ ~dequeue_enabled \/ t \in timedOut
       \/ (Enters(t) /\ call \in TimedCalls /\ DequeueMustWait)
  /\ dequeue_waiters' = Left(t, dequeue_waiters)
  /\ Returns(t, ToldByDequeue(t) \cup Unblockers)
  /\ UNCHANGED <<slots, item>>

\* The room made may be for any of those who wait for it.
NoneByTaking(t) == ToldByDequeue(t)   \* mutant: nobody is told of the room
WokenByTaking(t) == ToldByDequeue(t) \cup IfAny(enqueue_waiters, Enqueuers)

DequeueTakes(t, call) ==
  /\ t \notin timedOut /\ enabled /\ dequeue_enabled
  /\ ~DequeueMustWait
  /\ Exchange(t, first)
  /\ IF MaxSize > 0
     THEN /\ first' = (first + 1) % MaxSize /\ pipe_size' = pipe_size - 1
          /\ UNCHANGED last
     ELSE last' = 1 /\ UNCHANGED <<first, pipe_size>>
  /\ dequeue_waiters' = Left(t, dequeue_waiters)
  /\ Returns(t, WokenByTaking(t))

Dequeue(t, call) ==
  /\ Runs(t, call)
  /\ DequeueWaits(t, call) \/ DequeueFails(t, call) \/ DequeueTakes(t, call)
  /\ UNCHANGED <<enqueue_waiters, unblock_sig_waiters, flags, num, destroyed>>
-----------------------------------------------------------------------------
(* The calls that wait for the others.                                     *)

\* Told of the end only because the destructor may be waiting for it.
NeverTold == {}                       \* mutant: the last one out says nothing
ToldIfDisabled == IF enabled THEN {} ELSE Unblockers

EmptyMustWait == pipe_size > 0 /\ enabled /\ dequeue_enabled

WaitUntilEmpty(t) ==
  /\ Runs(t, "wait_until_empty")
  /\ IF EmptyMustWait
     THEN /\ enqueue_waiters' = Entered(t, enqueue_waiters)
          /\ Sleeps(t, "wait_until_empty", {}) /\ UNCHANGED timedOut
     ELSE /\ enqueue_waiters' = Left(t, enqueue_waiters)
          /\ Returns(t, ToldIfDisabled)
  /\ UNCHANGED <<slots, dequeue_waiters, unblock_sig_waiters, flags, item, num,
                 destroyed>>

NumMustWait(n) ==
  /\ dequeue_waiters < n \/ pipe_size # 0
  /\ enabled /\ dequeue_enabled

WaitForNum(t, n) ==
  /\ (Enters(t) /\ n \in Nums) \/ (Resumes(t, "wait_for_num") /\ n = num[t])
  /\ IF NumMustWait(n)
     THEN /\ unblock_sig_waiters' = Entered(t, unblock_sig_waiters)
          /\ Sleeps(t, "wait_for_num", {}) /\ UNCHANGED timedOut
     ELSE /\ unblock_sig_waiters' = Left(t, unblock_sig_waiters)
          /\ Returns(t, ToldIfDisabled)
  /\ num' = [num EXCEPT ![t] = IF NumMustWait(n) THEN n ELSE 0]
  /\ UNCHANGED <<slots, dequeue_waiters, enqueue_waiters, flags, item, destroyed>>

\* The destructor disables the pipe and waits for every other call to return.
Remaining(t) ==
  dequeue_waiters > 0 \/ enqueue_waiters > 0
    \/ Entered(t, unblock_sig_waiters) > 1

Destroy(t) ==
  /\ Runs(t, "destroy")
  /\ enabled' = FALSE
  /\ LET woken == IF Enters(t) THEN asleep ELSE {}
     IN  IF Remaining(t)
         THEN /\ unblock_sig_waiters' = Entered(t, unblock_sig_waiters)
              /\ Sleeps(t, "destroy", woken) /\ UNCHANGED <<timedOut, destroyed>>
         ELSE /\ unblock_sig_waiters' = Left(t, unblock_sig_waiters)
              /\ Returns(t, woken) /\ destroyed' = TRUE
  /\ UNCHANGED <<slots, dequeue_waiters, enqueue_waiters, enqueue_enabled,
                 dequeue_enabled, item, num>>
-----------------------------------------------------------------------------
(* The calls that never wait.  Any thread may make them.                   *)

Usable == In({"destroy"}) = {} /\ ~destroyed

Empty ==
  /\ Usable
  /\ pipe_size' = 0
  /\ asleep' = asleep \ IfAny(enqueue_waiters, Enqueuers)
  /\ UNCHANGED <<first, last, data, waiters, flags, op, timedOut, item, num,
                 destroyed>>

SetsFlags(on, enq, deq, woken) ==
  /\ Usable
  /\ enabled' = on /\ enqueue_enabled' = enq /\ dequeue_enabled' = deq
  /\ asleep' = asleep \ woken
  /\ UNCHANGED <<slots, waiters, op, timedOut, item, num, destroyed>>

ForgetsDequeues == Enqueuers \cup Unblockers      \* mutant: one broadcast less
WokenByDisable == Enqueuers \cup Dequeuers \cup Unblockers

Enable  == SetsFlags(TRUE, enqueue_enabled, dequeue_enabled, {})
Disable == SetsFlags(FALSE, enqueue_enabled, dequeue_enabled, WokenByDisable)
EnableEnqueue  == SetsFlags(enabled, TRUE, dequeue_enabled, {})
DisableEnqueue == SetsFlags(enabled, FALSE, dequeue_enabled, Enqueuers)
EnableDequeue  == SetsFlags(enabled, enqueue_enabled, TRUE, {})
DisableDequeue == SetsFlags(enabled, enqueue_enabled, FALSE, Dequeuers)

\* A wait ends by its timeout, while nobody has woken the thread, or for no reason.
TimesOut(t) ==
  /\ t \in asleep /\ op[t] \in TimedCalls
  /\ asleep' = asleep \ {t} /\ timedOut' = timedOut \cup {t}
  /\ UNCHANGED <<slots, waiters, flags, op, item, num, destroyed>>

WakesUp(t) ==
  /\ t \in asleep
  /\ asleep' = asleep \ {t}
  /\ UNCHANGED <<slots, waiters, flags, op, timedOut, item, num, destroyed>>
-----------------------------------------------------------------------------
Call(t) ==
  \/ \E call \in EnqueueCalls : Enqueue(t, call)
  \/ Handoff(t)
  \/ \E call \in DequeueCalls : Dequeue(t, call)
  \/ WaitUntilEmpty(t)
  \/ \E n \in Nums \cup {num[t]} : WaitForNum(t, n)
  \/ Destroy(t)

Control == \/ Empty \/ Enable \/ Disable \/ EnableEnqueue \/ DisableEnqueue
           \/ EnableDequeue \/ DisableDequeue

Step == \/ \E t \in Threads : Call(t) \/ Own(t) \/ TimesOut(t) \/ WakesUp(t)
        \/ Control

Gone == destroyed /\ UNCHANGED vars

Next == Step \/ Gone

Spec == Init /\ [][Next]_vars

\* A thread that is awake inside a call gets the mutex in the end.  Nothing is
\* assumed of threads outside, of timeouts and of wake-ups without a reason.
Goes(t) == op[t] # "none" /\ Call(t)
FairSpec == Spec /\ \A t \in Threads : WF_vars(Goes(t))
-----------------------------------------------------------------------------
(* Properties.                                                             *)

TypeOK ==
  /\ pipe_size \in Nat /\ first \in Nat /\ last \in Nat
  /\ data \in [Slots -> Items] /\ item \in [Threads -> Items]
  /\ dequeue_waiters \in Nat /\ enqueue_waiters \in Nat
  /\ unblock_sig_waiters \in Nat
  /\ enabled \in BOOLEAN /\ enqueue_enabled \in BOOLEAN
  /\ dequeue_enabled \in BOOLEAN /\ destroyed \in BOOLEAN
  /\ op \in [Threads -> Calls \cup {"none"}]
  /\ asleep \subseteq Threads /\ timedOut \subseteq Threads
  /\ num \in [Threads -> Nat]

\* The CONVENTION of the class.  Indices left over from a pipe that ran empty are
\* never relied on, and a pipe without room holds one item at most, that of the
\* one enqueue waiting for it to be taken.
Convention ==
  /\ pipe_size <= MaxSize
  /\ pipe_size > 0 => /\ first < MaxSize
                      /\ last = (first + pipe_size - 1) % MaxSize
  /\ In(Handoffs) # {} => MaxSize = 0
  /\ MaxSize = 0 =>
       /\ <<first, last>> \in {<<1, 1>>, <<0, 0>>, <<0, 1>>}
       /\ first = 0 <=> In(Handoffs) # {}
       /\ \A s, t \in In(Handoffs) : s = t

Inside == {t \in Threads : op[t] # "none"}

\* The wait of thread t is one that its call still has reason for.
WaitStands(t) ==
  /\ op[t] \in EnqueueCalls => EnqueueMustWait(op[t])
  /\ op[t] \in Handoffs => last = 0 /\ enabled /\ enqueue_enabled
  /\ op[t] \in DequeueCalls => enabled /\ dequeue_enabled
  /\ op[t] = "wait_until_empty" => pipe_size > 0 /\ enabled
  /\ op[t] = "wait_for_num" => enabled
  /\ op[t] = "destroy" => ~enabled /\ Inside # {t}

\* No call sleeps on while what it waits for is there: those who are woken by
\* broadcast find out in time, whoever else is awake and whatever was changed
\* back in between.  The destructor is told by the last call to leave.
NobodyOversleeps == \A t \in asleep : WaitStands(t)

\* An enqueue wakes one dequeue and no more.  As long as one sleeps, those awake
\* are enough for what there is to take, although a dequeue that never slept may
\* take the item first, and those whose time ran out asleep take nothing.
DequeuersSuffice ==
  asleep \cap Dequeuers # {} =>
    pipe_size + (IF Offered THEN 1 ELSE 0)
      <= Cardinality(Dequeuers \ (asleep \cup timedOut))

\* The pipe is a first in first out queue: items are taken in the order they were
\* put, none is lost or duplicated by the exchanges, a call that fails leaves its
\* object alone, and without room each object goes from hand to hand.
Queue == [i \in 1 .. pipe_size |-> data[(first + i - 1) % MaxSize]]
Held  == [t \in Threads |-> IF op[t] \in Handoffs /\ last = 0 THEN data[0]
                                                            ELSE item[t]]

Fifo == INSTANCE BoundedFifo WITH Capacity <- MaxSize, queue <- Queue,
                                  item <- Held, calling <- Inside

ImplementsFifo == Fifo!Spec

\* The destructor has only the counters to go by, which every path of every call
\* has to count up and down again: still no thread is inside, awake or asleep, when
\* the memory is released.
DestroyedEmpty == destroyed => Inside = {} /\ asleep = {}

\* The destructor gets everybody out, whatever they were waiting for.
DestructorEnds == (\E t \in Threads : op[t] = "destroy") ~> destroyed

\* disable() ends every call that blocks or will block, until enable().
DisableReleases ==
  \A t \in Threads : (op[t] # "none" /\ ~enabled) ~> (op[t] = "none" \/ enabled)

\* A pipe without room: an item offered from hand to hand is taken, or withdrawn,
\* if somebody is there who wants one.
Stuck == Offered /\ Dequeuers # {}
ItemsTaken == Stuck ~> ~Stuck
=============================================================================
