----------------------------- MODULE PipeProofs -----------------------------
(***************************************************************************)
(* Proofs about dlib's pipe, for any number of threads and any size: it is *)
(* a bounded queue, nobody oversleeps, and whoever is inside when it is    *)
(* disabled or destroyed gets out.                                         *)
(***************************************************************************)
EXTENDS Pipe, FiniteSetTheorems, SequenceTheorems, TLAPS

\* The arithmetic of the circular buffer: an index is at most one turn ahead.
LEMMA Wrap ==
  ASSUME NEW M \in Nat \ {0}, NEW n \in Nat, n < 2 * M
  PROVE  n % M = IF n < M THEN n ELSE n - M
  BY SMT

\* The counters count the threads that are inside.
Counted ==
  /\ dequeue_waiters = Cardinality(Dequeuers)
  /\ enqueue_waiters = Cardinality(Enqueuers)
  /\ unblock_sig_waiters = Cardinality(Unblockers)

IInv == TypeOK /\ Convention /\ Counted

\* A thread more or less in some calls counts one more or less.
LEMMA CountIn ==
  ASSUME NEW calls, NEW t \in Threads, NEW c, op \in [Threads -> Calls \cup {"none"}],
         op' = [op EXCEPT ![t] = c]
  PROVE  /\ Cardinality(In(calls)) \in Nat
         /\ Cardinality(In(calls)') =
              Cardinality(In(calls)) + (IF c \in calls THEN 1 ELSE 0)
                                     - (IF op[t] \in calls THEN 1 ELSE 0)
  <1>1. IsFiniteSet(In(calls))
    BY PipeAssumption, FS_Subset DEF In
  <1>2. Cardinality(In(calls)) \in Nat
    BY <1>1, FS_CardinalityType
  <1>3. /\ c \in calls => In(calls)' = In(calls) \cup {t}
        /\ c \notin calls => In(calls)' = In(calls) \ {t}
        /\ t \in In(calls) <=> op[t] \in calls
    BY DEF In
  <1>4. CASE c \in calls
    <2>1. Cardinality(In(calls) \cup {t}) =
            IF t \in In(calls) THEN Cardinality(In(calls)) ELSE Cardinality(In(calls)) + 1
      BY <1>1, FS_AddElement
    <2>2. Cardinality(In(calls)') =
            IF op[t] \in calls THEN Cardinality(In(calls)) ELSE Cardinality(In(calls)) + 1
      BY <1>3, <1>4, <2>1
    <2> QED
      BY <1>2, <1>4, <2>2
  <1>5. CASE c \notin calls
    <2>1. Cardinality(In(calls) \ {t}) =
            IF t \in In(calls) THEN Cardinality(In(calls)) - 1 ELSE Cardinality(In(calls))
      BY <1>1, FS_RemoveElement
    <2>2. Cardinality(In(calls)') =
            IF op[t] \in calls THEN Cardinality(In(calls)) - 1 ELSE Cardinality(In(calls))
      BY <1>3, <1>5, <2>1
    <2> QED
      BY <1>2, <1>5, <2>2
  <1> QED
    BY <1>4, <1>5, <1>2

LEMMA CallCounts ==
  ASSUME IInv, NEW t \in Threads, Call(t)
  PROVE  Counted'
  <1> DEFINE EnqueueSide == EnqueueCalls \cup Handoffs \cup {"wait_until_empty"}
             UnblockSide == {"wait_for_num", "destroy"}
             Moved(counter, calls, c) == counter + (IF c \in calls THEN 1 ELSE 0)
                                                 - (IF op[t] \in calls THEN 1 ELSE 0)
  <1>1. op \in [Threads -> Calls \cup {"none"}] /\ Counted
    BY DEF IInv, TypeOK
  <1>2. ASSUME NEW c, op' = [op EXCEPT ![t] = c],
               dequeue_waiters' = Moved(dequeue_waiters, DequeueCalls, c),
               enqueue_waiters' = Moved(enqueue_waiters, EnqueueSide, c),
               unblock_sig_waiters' = Moved(unblock_sig_waiters, UnblockSide, c)
        PROVE  Counted'
    <2>1. Cardinality(In(DequeueCalls)') = dequeue_waiters'
      BY <1>1, <1>2, CountIn DEF Counted, Dequeuers
    <2>2. Cardinality(In(EnqueueSide)') = enqueue_waiters'
      BY <1>1, <1>2, CountIn DEF Counted, Enqueuers
    <2>3. Cardinality(In(UnblockSide)') = unblock_sig_waiters'
      BY <1>1, <1>2, CountIn DEF Counted, Unblockers
    <2> QED
      BY <2>1, <2>2, <2>3 DEF Counted, Dequeuers, Enqueuers, Unblockers
  <1>3. dequeue_waiters \in Nat /\ enqueue_waiters \in Nat /\ unblock_sig_waiters \in Nat
    BY DEF IInv, TypeOK
  <1> HIDE DEF EnqueueSide, UnblockSide
  <1>4. ASSUME NEW call \in EnqueueCalls, Enqueue(t, call) PROVE Counted'
    <2>1. op[t] \in {"none", call} /\ call \in {"enqueue", "enqueue_or_timeout"}
      BY <1>4 DEF Enqueue, Runs, Enters, Resumes, EnqueueCalls
    <2>2. PICK c \in {call, "none", HandoffOf(call)} :
            /\ op' = [op EXCEPT ![t] = c]
            /\ enqueue_waiters' = IF c = "none" THEN Left(t, enqueue_waiters)
                                  ELSE Entered(t, enqueue_waiters)
            /\ UNCHANGED <<dequeue_waiters, unblock_sig_waiters>>
      BY <1>4, <2>1 DEF Enqueue, EnqueueWaits, EnqueueFails, EnqueuePuts, Sleeps, Returns,
        HandoffOf
    <2>3. /\ c \in EnqueueSide <=> c # "none"
          /\ c \notin DequeueCalls /\ c \notin UnblockSide
          /\ op[t] \in EnqueueSide <=> op[t] # "none"
          /\ op[t] \notin DequeueCalls /\ op[t] \notin UnblockSide
      BY <2>1, <2>2 DEF EnqueueSide, UnblockSide, DequeueCalls, EnqueueCalls, Handoffs,
        HandoffOf
    <2>4. /\ dequeue_waiters' = Moved(dequeue_waiters, DequeueCalls, c)
          /\ enqueue_waiters' = Moved(enqueue_waiters, EnqueueSide, c)
          /\ unblock_sig_waiters' = Moved(unblock_sig_waiters, UnblockSide, c)
      BY <1>3, <2>2, <2>3 DEF Entered, Left
    <2> QED
      BY <1>2, <2>2, <2>4
  <1>5. CASE Handoff(t)
    <2>1. op[t] \in {"handoff", "handoff_or_timeout"}
      BY <1>5 DEF Handoff, Resumes, Handoffs
    <2>2. PICK c \in {op[t], "none"} :
            /\ op' = [op EXCEPT ![t] = c]
            /\ enqueue_waiters' = IF c = "none" THEN enqueue_waiters - 1 ELSE enqueue_waiters
            /\ UNCHANGED <<dequeue_waiters, unblock_sig_waiters>>
      BY <1>5, <2>1 DEF Handoff, HandoffWaits, HandoffWithdraws, HandoffDone, Sleeps, Returns,
        Entered, Left
    <2>3. /\ c \in EnqueueSide <=> c # "none"
          /\ c \notin DequeueCalls /\ c \notin UnblockSide
          /\ op[t] \in EnqueueSide
          /\ op[t] \notin DequeueCalls /\ op[t] \notin UnblockSide
      BY <2>1, <2>2 DEF EnqueueSide, UnblockSide, DequeueCalls, EnqueueCalls, Handoffs
    <2>4. /\ dequeue_waiters' = Moved(dequeue_waiters, DequeueCalls, c)
          /\ enqueue_waiters' = Moved(enqueue_waiters, EnqueueSide, c)
          /\ unblock_sig_waiters' = Moved(unblock_sig_waiters, UnblockSide, c)
      BY <1>3, <2>2, <2>3
    <2> QED
      BY <1>2, <2>2, <2>4
  <1>6. ASSUME NEW call \in DequeueCalls, Dequeue(t, call) PROVE Counted'
    <2>1. op[t] \in {"none", call} /\ call \in {"dequeue", "dequeue_or_timeout"}
      BY <1>6 DEF Dequeue, Runs, Enters, Resumes, DequeueCalls
    <2>2. PICK c \in {call, "none"} :
            /\ op' = [op EXCEPT ![t] = c]
            /\ dequeue_waiters' = IF c = "none" THEN Left(t, dequeue_waiters)
                                  ELSE Entered(t, dequeue_waiters)
            /\ UNCHANGED <<enqueue_waiters, unblock_sig_waiters>>
      BY <1>6, <2>1 DEF Dequeue, DequeueWaits, DequeueFails, DequeueTakes, Sleeps, Returns
    <2>3. /\ c \in DequeueCalls <=> c # "none"
          /\ c \notin EnqueueSide /\ c \notin UnblockSide
          /\ op[t] \in DequeueCalls <=> op[t] # "none"
          /\ op[t] \notin EnqueueSide /\ op[t] \notin UnblockSide
      BY <2>1, <2>2 DEF EnqueueSide, UnblockSide, DequeueCalls, EnqueueCalls, Handoffs
    <2>4. /\ dequeue_waiters' = Moved(dequeue_waiters, DequeueCalls, c)
          /\ enqueue_waiters' = Moved(enqueue_waiters, EnqueueSide, c)
          /\ unblock_sig_waiters' = Moved(unblock_sig_waiters, UnblockSide, c)
      BY <1>3, <2>2, <2>3 DEF Entered, Left
    <2> QED
      BY <1>2, <2>2, <2>4
  <1>7. CASE WaitUntilEmpty(t)
    <2>1. op[t] \in {"none", "wait_until_empty"}
      BY <1>7 DEF WaitUntilEmpty, Runs, Enters, Resumes
    <2>2. PICK c \in {"wait_until_empty", "none"} :
            /\ op' = [op EXCEPT ![t] = c]
            /\ enqueue_waiters' = IF c = "none" THEN Left(t, enqueue_waiters)
                                  ELSE Entered(t, enqueue_waiters)
            /\ UNCHANGED <<dequeue_waiters, unblock_sig_waiters>>
      BY <1>7 DEF WaitUntilEmpty, Sleeps, Returns
    <2>3. /\ c \in EnqueueSide <=> c # "none"
          /\ c \notin DequeueCalls /\ c \notin UnblockSide
          /\ op[t] \in EnqueueSide <=> op[t] # "none"
          /\ op[t] \notin DequeueCalls /\ op[t] \notin UnblockSide
      BY <2>1, <2>2 DEF EnqueueSide, UnblockSide, DequeueCalls, EnqueueCalls, Handoffs
    <2>4. /\ dequeue_waiters' = Moved(dequeue_waiters, DequeueCalls, c)
          /\ enqueue_waiters' = Moved(enqueue_waiters, EnqueueSide, c)
          /\ unblock_sig_waiters' = Moved(unblock_sig_waiters, UnblockSide, c)
      BY <1>3, <2>2, <2>3 DEF Entered, Left
    <2> QED
      BY <1>2, <2>2, <2>4
  <1>8. ASSUME Destroy(t) \/ \E n \in Nums \cup {num[t]} : WaitForNum(t, n)
        PROVE  Counted'
    <2>1. op[t] \in {"none", "wait_for_num", "destroy"}
      BY <1>8 DEF Destroy, WaitForNum, Runs, Enters, Resumes
    <2>2. PICK c \in {"wait_for_num", "destroy", "none"} :
            /\ op' = [op EXCEPT ![t] = c]
            /\ unblock_sig_waiters' = IF c = "none" THEN Left(t, unblock_sig_waiters)
                                      ELSE Entered(t, unblock_sig_waiters)
            /\ UNCHANGED <<dequeue_waiters, enqueue_waiters>>
      BY <1>8 DEF Destroy, WaitForNum, Sleeps, Returns
    <2>3. /\ c \in UnblockSide <=> c # "none"
          /\ c \notin DequeueCalls /\ c \notin EnqueueSide
          /\ op[t] \in UnblockSide <=> op[t] # "none"
          /\ op[t] \notin DequeueCalls /\ op[t] \notin EnqueueSide
      BY <2>1, <2>2 DEF EnqueueSide, UnblockSide, DequeueCalls, EnqueueCalls, Handoffs
    <2>4. /\ dequeue_waiters' = Moved(dequeue_waiters, DequeueCalls, c)
          /\ enqueue_waiters' = Moved(enqueue_waiters, EnqueueSide, c)
          /\ unblock_sig_waiters' = Moved(unblock_sig_waiters, UnblockSide, c)
      BY <1>3, <2>2, <2>3 DEF Entered, Left
    <2> QED
      BY <1>2, <2>2, <2>4
  <1> QED
    BY <1>4, <1>5, <1>6, <1>7, <1>8 DEF Call

LEMMA CountsKept ==
  ASSUME IInv, [Next]_vars
  PROVE  Counted'
  <1>1. ASSUME UNCHANGED <<op, waiters>> PROVE Counted'
    BY <1>1 DEF IInv, Counted, Dequeuers, Enqueuers, Unblockers, In, waiters
  <1>2. CASE Control \/ (\E t \in Threads : Own(t) \/ TimesOut(t) \/ WakesUp(t))
             \/ UNCHANGED vars
    <2>1. UNCHANGED <<op, waiters>>
      BY <1>2 DEF Control, Empty, Enable, Disable, EnableEnqueue, DisableEnqueue,
        EnableDequeue, DisableDequeue, SetsFlags, Own, TimesOut, WakesUp, vars, callers
    <2> QED
      BY <1>1, <2>1
  <1> QED
    BY <1>2, CallCounts DEF Next, Step, Gone

LEMMA CountersNext ==
  ASSUME Counted'
  PROVE  /\ dequeue_waiters' \in Nat /\ enqueue_waiters' \in Nat
         /\ unblock_sig_waiters' \in Nat
  <1>1. \A S \in SUBSET Threads : Cardinality(S) \in Nat
    BY PipeAssumption, FS_Subset, FS_CardinalityType
  <1>2. /\ Dequeuers' \in SUBSET Threads /\ Enqueuers' \in SUBSET Threads
        /\ Unblockers' \in SUBSET Threads
    BY DEF Dequeuers, Enqueuers, Unblockers, In
  <1> QED
    BY <1>1, <1>2 DEF Counted

\* So what the code asks a counter tells who is there.
LEMMA CountersTell ==
  ASSUME IInv
  PROVE  /\ IfAny(dequeue_waiters, Dequeuers) = Dequeuers
         /\ IfAny(enqueue_waiters, Enqueuers) = Enqueuers
         /\ IfAny(unblock_sig_waiters, Unblockers) = Unblockers
  <1>1. ASSUME NEW S \in SUBSET Threads PROVE IfAny(Cardinality(S), S) = S
    <2>1. IsFiniteSet(S)
      BY <1>1, PipeAssumption, FS_Subset
    <2>2. Cardinality(S) \in Nat /\ (Cardinality(S) = 0 <=> S = {})
      BY <2>1, FS_CardinalityType, FS_EmptySet
    <2> QED
      BY <2>2 DEF IfAny
  <1>2. /\ Dequeuers \in SUBSET Threads /\ Enqueuers \in SUBSET Threads
        /\ Unblockers \in SUBSET Threads
    BY DEF Dequeuers, Enqueuers, Unblockers, In
  <1> QED
    BY <1>1, <1>2 DEF IInv, Counted

\* The destructor that is not alone finds out.
LEMMA DestructorCounts ==
  ASSUME IInv, NEW t \in Threads, op[t] \in {"none", "destroy"}
  PROVE  Remaining(t) <=> \E r \in Threads \ {t} : op[r] # "none"
  <1> DEFINE EnqueueSide == EnqueueCalls \cup Handoffs \cup {"wait_until_empty"}
  <1>1. \A S \in SUBSET Threads :
          IsFiniteSet(S) /\ Cardinality(S) \in Nat /\ (Cardinality(S) = 0 <=> S = {})
    BY PipeAssumption, FS_Subset, FS_CardinalityType, FS_EmptySet
  <1>2. /\ Dequeuers \in SUBSET Threads /\ Enqueuers \in SUBSET Threads
        /\ Unblockers \in SUBSET Threads
    BY DEF Dequeuers, Enqueuers, Unblockers, In
  <1>3. /\ dequeue_waiters > 0 <=> Dequeuers # {}
        /\ enqueue_waiters > 0 <=> Enqueuers # {}
    BY <1>1, <1>2 DEF IInv, Counted
  <1>4. Entered(t, unblock_sig_waiters) > 1 <=> Unblockers \ {t} # {}
    <2>1. Cardinality(Unblockers \ {t}) =
            IF t \in Unblockers THEN Cardinality(Unblockers) - 1 ELSE Cardinality(Unblockers)
      BY <1>1, <1>2, FS_RemoveElement
    <2>2. Unblockers \ {t} \in SUBSET Threads
      BY <1>2
    <2>3. /\ Cardinality(Unblockers \ {t}) \in Nat /\ Cardinality(Unblockers) \in Nat
          /\ Cardinality(Unblockers \ {t}) = 0 <=> Unblockers \ {t} = {}
      BY <1>1, <1>2, <2>2
    <2>4. t \in Unblockers <=> op[t] # "none"
      BY DEF Unblockers, In
    <2> QED
      BY <2>1, <2>3, <2>4 DEF Entered, IInv, Counted
  <1>5. t \notin Dequeuers /\ t \notin Enqueuers
    BY DEF Dequeuers, Enqueuers, In, DequeueCalls, EnqueueCalls, Handoffs
  <1>6. \A r \in Threads : op[r] # "none" <=> r \in Dequeuers \cup Enqueuers \cup Unblockers
    BY DEF IInv, TypeOK, Calls, Dequeuers, Enqueuers, Unblockers, In, DequeueCalls,
      EnqueueCalls, Handoffs
  <1> QED
    BY <1>2, <1>3, <1>4, <1>5, <1>6 DEF Remaining

\* Both ends of the queue are slots of the buffer when they are used.
LEMMA SlotsUsed ==
  ASSUME IInv
  PROVE  /\ NextLast \in Slots
         /\ pipe_size > 0 => first \in Slots
         /\ MaxSize = 0 => pipe_size = 0 /\ NextLast = 0 /\ 0 \in Slots
  <1>1. MaxSize \in Nat /\ pipe_size \in Nat /\ first \in Nat /\ last \in Nat
    BY PipeAssumption DEF IInv, TypeOK
  <1>2. pipe_size <= MaxSize
    BY DEF IInv, Convention
  <1>3. CASE pipe_size = 0
    BY <1>1, <1>2, <1>3 DEF NextLast, Slots
  <1>4. CASE pipe_size > 0
    <2>1. first < MaxSize /\ last = (first + pipe_size - 1) % MaxSize
      BY <1>4 DEF IInv, Convention
    <2>2. (last + 1) % MaxSize \in 0 .. MaxSize - 1
      BY <1>1, <1>2, <1>4 DEF IInv, Convention
    <2> QED
      BY <1>1, <1>2, <1>4, <2>1, <2>2 DEF NextLast, Slots
  <1> QED
    BY <1>1, <1>3, <1>4

LEMMA ExchangeType ==
  ASSUME TypeOK, NEW t \in Threads, NEW i \in Slots, Exchange(t, i)
  PROVE  data' \in [Slots -> Items] /\ item' \in [Threads -> Items]
  BY DEF TypeOK, Exchange

\* The index after the next one put, and after the next one taken.
LEMMA PutIndex ==
  ASSUME IInv, MaxSize > 0, pipe_size < MaxSize
  PROVE  NextLast = ((IF pipe_size = 0 THEN 0 ELSE first) + pipe_size) % MaxSize
  <1>1. MaxSize \in Nat \ {0} /\ pipe_size \in Nat /\ first \in Nat /\ last \in Nat
    BY PipeAssumption DEF IInv, TypeOK
  <1>2. CASE pipe_size = 0
    BY <1>1, <1>2, Wrap DEF NextLast
  <1>3. CASE pipe_size > 0
    <2>1. first < MaxSize /\ last = (first + pipe_size - 1) % MaxSize
      BY <1>3 DEF IInv, Convention
    <2>2. last = IF first + pipe_size - 1 < MaxSize THEN first + pipe_size - 1
                 ELSE first + pipe_size - 1 - MaxSize
      BY <1>1, <1>3, <2>1, Wrap
    <2>3. (last + 1) % MaxSize = IF last + 1 < MaxSize THEN last + 1
                                 ELSE last + 1 - MaxSize
      BY <1>1, <1>3, <2>1, <2>2, Wrap
    <2>4. (first + pipe_size) % MaxSize =
            IF first + pipe_size < MaxSize THEN first + pipe_size
            ELSE first + pipe_size - MaxSize
      BY <1>1, <1>3, <2>1, Wrap
    <2> QED
      BY <1>1, <1>3, <2>1, <2>2, <2>3, <2>4 DEF NextLast
  <1> QED
    BY <1>1, <1>2, <1>3

LEMMA TakeIndex ==
  ASSUME IInv, MaxSize > 0, pipe_size > 0, NEW i \in 1 .. pipe_size - 1
  PROVE  /\ (first + 1) % MaxSize \in Nat /\ (first + 1) % MaxSize < MaxSize
         /\ (((first + 1) % MaxSize) + i - 1) % MaxSize = (first + i) % MaxSize
  <1>1. MaxSize \in Nat \ {0} /\ pipe_size \in Nat /\ first \in Nat
    BY PipeAssumption DEF IInv, TypeOK
  <1>2. first < MaxSize /\ pipe_size <= MaxSize
    BY DEF IInv, Convention
  <1>3. (first + 1) % MaxSize = IF first + 1 < MaxSize THEN first + 1
                                ELSE first + 1 - MaxSize
    BY <1>1, <1>2, Wrap
  <1>4. (first + i) % MaxSize = IF first + i < MaxSize THEN first + i
                                ELSE first + i - MaxSize
    BY <1>1, <1>2, Wrap
  <1>5. CASE first + 1 < MaxSize
    BY <1>1, <1>3, <1>5
  <1>6. CASE first + 1 = MaxSize
    <2>1. (first + 1) % MaxSize = 0
      BY <1>1, <1>3, <1>6
    <2>2. (first + i) % MaxSize = i - 1
      BY <1>1, <1>2, <1>4, <1>6
    <2>3. (i - 1) % MaxSize = i - 1
      BY <1>1, <1>2, Wrap
    <2> QED
      BY <1>1, <2>1, <2>2, <2>3
  <1> QED
    BY <1>1, <1>2, <1>5, <1>6
-----------------------------------------------------------------------------
(* One lemma for each call: it keeps the types and the convention.         *)

LEMMA EnqueueKeeps ==
  ASSUME IInv, Counted', NEW t \in Threads, NEW call \in EnqueueCalls, Enqueue(t, call)
  PROVE  TypeOK' /\ Convention'
  <1> USE PipeAssumption
  <1>1. op[t] = "none" \/ op[t] = call
    BY DEF Enqueue, Runs, Enters, Resumes
  <1>2. op[t] \notin Handoffs
    BY <1>1 DEF EnqueueCalls, Handoffs
  <1>3. CASE EnqueueWaits(t, call) \/ EnqueueFails(t, call)
    <2>1. TypeOK'
      BY CountersNext, <1>3 DEF IInv, TypeOK, Enqueue, EnqueueWaits, EnqueueFails, Sleeps,
                  Returns, Calls, flags, slots
    <2>2. In(Handoffs)' = In(Handoffs)
      BY <1>2, <1>3 DEF IInv, TypeOK, EnqueueWaits, EnqueueFails, Sleeps,
                        Returns, In, Handoffs, EnqueueCalls
    <2>3. UNCHANGED slots
      BY <1>3 DEF EnqueueWaits, EnqueueFails
    <2> QED
      BY <2>1, <2>2, <2>3 DEF IInv, Convention, slots
  <1>4. CASE EnqueuePuts(t, call)
    <2>1. PICK woken \in Signal(asleep \cap IfAny(dequeue_waiters, Dequeuers)) :
            /\ MaxSize > 0 => pipe_size' = pipe_size + 1 /\ Returns(t, woken)
            /\ ~(MaxSize > 0) => /\ Sleeps(t, HandoffOf(call), woken)
                                /\ UNCHANGED <<pipe_size, timedOut>>
      BY <1>4 DEF EnqueuePuts
    <2>2. /\ first' = IF pipe_size = 0 THEN 0 ELSE first
          /\ last' = NextLast
          /\ UNCHANGED <<flags, num, destroyed>>
      BY <1>4 DEF EnqueuePuts, Enqueue
    <2>3. NextLast \in Slots /\ (MaxSize = 0 => pipe_size = 0 /\ NextLast = 0)
      BY SlotsUsed
    <2>4. data' \in [Slots -> Items] /\ item' \in [Threads -> Items]
      BY <1>4, <2>3, ExchangeType DEF EnqueuePuts, IInv
    <2>5. NextLast \in Nat
      BY <2>3 DEF Slots
    <2>6. CASE MaxSize > 0
      <3>6. pipe_size' = pipe_size + 1 /\ op' = [op EXCEPT ![t] = "none"]
            /\ asleep' \subseteq Threads /\ timedOut' \subseteq Threads
        BY <2>1, <2>6 DEF Returns, IInv, TypeOK
      <3>7. pipe_size' \in Nat /\ first' \in Nat /\ last' \in Nat
        BY <2>2, <2>5, <3>6 DEF IInv, TypeOK
      <3>1. TypeOK'
        BY CountersNext, <2>2, <2>4, <3>6, <3>7 DEF IInv, TypeOK, flags
      <3>2. pipe_size < MaxSize
        BY <1>4, <2>6 DEF EnqueuePuts, EnqueueMustWait, Full, CanHandOff, IInv,
                          TypeOK, Convention
      <3>3. last' = (first' + pipe_size' - 1) % MaxSize
        <4>1. last' = ((IF pipe_size = 0 THEN 0 ELSE first) + pipe_size) % MaxSize
          BY <2>2, <2>6, <3>2, PutIndex
        <4> QED
          BY <2>1, <2>2, <2>6, <4>1 DEF IInv, TypeOK
      <3>4. first' < MaxSize
        BY <2>2, <2>6 DEF IInv, TypeOK, Convention
      <3>5. In(Handoffs)' = {}
        <4>1. In(Handoffs) = {}
          BY <2>6 DEF IInv, Convention
        <4> QED
          BY <3>6, <4>1 DEF In, IInv, TypeOK, Handoffs
      <3>8. pipe_size' <= MaxSize
        BY <3>2, <3>6 DEF IInv, TypeOK
      <3> QED
        BY <2>6, <3>1, <3>3, <3>4, <3>5, <3>8 DEF IInv, Convention
    <2>7. CASE MaxSize = 0
      <3>1. op' = [op EXCEPT ![t] = HandoffOf(call)] /\ HandoffOf(call) \in Handoffs
        BY <2>1, <2>7 DEF Sleeps, HandoffOf, Handoffs
      <3>6. asleep' \subseteq Threads /\ timedOut' = timedOut
        BY <2>1, <2>7 DEF Sleeps, IInv, TypeOK
      <3>5. first' = 0 /\ last' = 0 /\ pipe_size' = 0
        BY <2>1, <2>2, <2>3, <2>7
      <3>7. op' \in [Threads -> Calls \cup {"none"}]
        BY <3>1 DEF IInv, TypeOK, Calls
      <3>2. TypeOK'
        BY CountersNext, <2>2, <2>4, <3>5, <3>6, <3>7 DEF IInv, TypeOK, flags
      <3>3. In(Handoffs) = {}
        BY <1>4, <2>3, <2>7 DEF EnqueuePuts, EnqueueMustWait, Full, CanHandOff,
                                IInv, Convention
      <3>4. In(Handoffs)' = {t}
        BY <3>1, <3>3 DEF In, IInv, TypeOK
      <3>8. \A r, s \in In(Handoffs)' : r = s
        BY <3>4
      <3> QED
        BY <2>7, <3>2, <3>4, <3>5, <3>8 DEF IInv, Convention
    <2> QED
      BY <2>6, <2>7
  <1> QED
    BY <1>3, <1>4 DEF Enqueue

LEMMA HandoffKeeps ==
  ASSUME IInv, Counted', NEW t \in Threads, Handoff(t)
  PROVE  TypeOK' /\ Convention'
  <1> USE PipeAssumption
  <1>1. t \in In(Handoffs) /\ op[t] \in Handoffs
    BY DEF Handoff, Resumes, In
  <1>2. MaxSize = 0 => In(Handoffs) = {t} /\ first = 0
    BY <1>1 DEF IInv, Convention
  <1>3. CASE HandoffWaits(t)
    <2>1. op' = op
      BY <1>3 DEF HandoffWaits, Sleeps, IInv, TypeOK
    <2> QED
      BY <1>3, <2>1 DEF Handoff, HandoffWaits, Sleeps, IInv, TypeOK, Convention,
                        In, slots, flags
  <1>4. CASE HandoffWithdraws(t) \/ HandoffDone(t)
    <2>1. op' = [op EXCEPT ![t] = "none"]
      BY <1>4 DEF HandoffWithdraws, HandoffDone, Returns
    <2>2. 0 \in Slots
      BY DEF Slots
    <2>3. data' \in [Slots -> Items] /\ item' \in [Threads -> Items]
      BY <1>4, <2>2, ExchangeType DEF HandoffWithdraws, HandoffDone, IInv, TypeOK
    <2>5. first' = 1 /\ last' = 1 /\ pipe_size' = pipe_size
      BY <1>4 DEF HandoffWithdraws, HandoffDone
    <2>8. asleep' \subseteq Threads /\ timedOut' \subseteq Threads
      BY <1>4 DEF HandoffWithdraws, HandoffDone, Returns, IInv, TypeOK
    <2>4. TypeOK'
      BY CountersNext, <2>1, <2>3, <2>5, <2>8 DEF Handoff, IInv, TypeOK, flags
    <2>6. MaxSize = 0 => In(Handoffs)' = {}
      BY <1>2, <2>1 DEF In, IInv, TypeOK, Handoffs
    <2>7. MaxSize = 0
      BY <1>1 DEF IInv, Convention
    <2> QED
      BY <2>4, <2>5, <2>6, <2>7 DEF IInv, TypeOK, Convention
  <1> QED
    BY <1>3, <1>4 DEF Handoff

LEMMA DequeueKeeps ==
  ASSUME IInv, Counted', NEW t \in Threads, NEW call \in DequeueCalls, Dequeue(t, call)
  PROVE  TypeOK' /\ Convention'
  <1> USE PipeAssumption
  <1>1. op[t] = "none" \/ op[t] = call
    BY DEF Dequeue, Runs, Enters, Resumes
  <1>2. op[t] \notin Handoffs
    BY <1>1 DEF DequeueCalls, Handoffs
  <1>3. op' \in [Threads -> Calls \cup {"none"}] /\ op'[t] \notin Handoffs
        /\ \A s \in Threads \ {t} : op'[s] = op[s]
    BY DEF Dequeue, DequeueWaits, DequeueFails, DequeueTakes, Sleeps, Returns,
           IInv, TypeOK, Calls, DequeueCalls, Handoffs
  <1>4. In(Handoffs)' = In(Handoffs)
    BY <1>2, <1>3 DEF In
  <1>5. asleep' \subseteq Threads /\ timedOut' \subseteq Threads
    BY DEF Dequeue, DequeueWaits, DequeueFails, DequeueTakes, Sleeps, Returns,
           IInv, TypeOK
  <1>6. CASE UNCHANGED <<slots, item>>
    <2>1. TypeOK'
      BY CountersNext, <1>3, <1>5, <1>6 DEF IInv, TypeOK, Dequeue, flags, slots
    <2> QED
      BY <1>4, <1>6, <2>1 DEF IInv, Convention, slots
  <1>7. CASE DequeueTakes(t, call)
    <2>1. MaxSize \in Nat /\ pipe_size \in Nat
      BY DEF IInv, TypeOK
    <2>2. CASE MaxSize > 0
      <3>1. pipe_size > 0
        BY <1>7, <2>1, <2>2 DEF DequeueTakes, DequeueMustWait, Offered
      <3>2. first \in Slots /\ first < MaxSize
        BY <3>1, SlotsUsed DEF IInv, Convention
      <3>3. first' = (first + 1) % MaxSize /\ pipe_size' = pipe_size - 1
            /\ last' = last
        BY <1>7, <2>2 DEF DequeueTakes
      <3>4. data' \in [Slots -> Items] /\ item' \in [Threads -> Items]
        BY <1>7, <3>2, ExchangeType DEF DequeueTakes, IInv
      <3>5. first' \in Nat /\ first' < MaxSize
        BY <2>1, <2>2, <3>2, <3>3, Wrap DEF IInv, TypeOK
      <3>6. TypeOK'
        BY CountersNext, <1>3, <1>5, <3>1, <3>3, <3>4, <3>5 DEF IInv, TypeOK, Dequeue, flags
      <3>7. pipe_size' > 0 => last' = (first' + pipe_size' - 1) % MaxSize
        <4> SUFFICES ASSUME pipe_size' > 0
                     PROVE  last' = (first' + pipe_size' - 1) % MaxSize
          OBVIOUS
        <4>1. pipe_size - 1 \in 1 .. pipe_size - 1
          BY <2>1, <3>1, <3>3
        <4>2. (first' + (pipe_size - 1) - 1) % MaxSize
                = (first + (pipe_size - 1)) % MaxSize
          BY <2>2, <3>1, <3>3, <4>1, TakeIndex
        <4>3. last = (first + pipe_size - 1) % MaxSize
          BY <3>1 DEF IInv, Convention
        <4>4. first + (pipe_size - 1) = first + pipe_size - 1
          BY <2>1 DEF IInv, TypeOK
        <4> QED
          BY <3>3, <4>2, <4>3, <4>4
      <3>8. pipe_size' <= MaxSize
        BY <2>1, <3>3 DEF IInv, Convention
      <3> QED
        BY <1>4, <2>2, <3>5, <3>6, <3>7, <3>8 DEF IInv, Convention
    <2>3. CASE MaxSize = 0
      <3>1. pipe_size = 0 /\ first = 0 /\ last = 0
        BY <1>7, <2>1, <2>3
           DEF DequeueTakes, DequeueMustWait, Offered, IInv, Convention
      <3>2. first' = 0 /\ last' = 1 /\ pipe_size' = 0
        BY <1>7, <2>3, <3>1 DEF DequeueTakes
      <3>3. first \in Slots
        BY <2>3, <3>1, SlotsUsed
      <3>4. data' \in [Slots -> Items] /\ item' \in [Threads -> Items]
        BY <1>7, <3>3, ExchangeType DEF DequeueTakes, IInv
      <3>5. TypeOK'
        BY CountersNext, <1>3, <1>5, <3>2, <3>4 DEF IInv, TypeOK, Dequeue, flags
      <3> QED
        BY <1>4, <2>3, <3>1, <3>2, <3>5 DEF IInv, Convention
    <2> QED
      BY <2>1, <2>2, <2>3
  <1> QED
    BY <1>6, <1>7 DEF Dequeue, DequeueWaits, DequeueFails

\* The calls that touch neither the buffer nor anybody's object.
LEMMA OthersKeep ==
  ASSUME IInv, Counted', NEW t \in Threads,
         WaitUntilEmpty(t) \/ (\E n \in Nums \cup {num[t]} : WaitForNum(t, n))
           \/ Destroy(t)
  PROVE  TypeOK' /\ Convention'
  <1> USE PipeAssumption
  <1>1. UNCHANGED <<slots, item>>
    BY DEF WaitUntilEmpty, WaitForNum, Destroy
  <1>2. op[t] \notin Handoffs
    BY DEF WaitUntilEmpty, WaitForNum, Destroy, Runs, Enters, Resumes, Handoffs
  <1>3. op' \in [Threads -> Calls \cup {"none"}] /\ op'[t] \notin Handoffs
        /\ \A s \in Threads \ {t} : op'[s] = op[s]
    BY DEF WaitUntilEmpty, WaitForNum, Destroy, Sleeps, Returns,
           IInv, TypeOK, Calls, Handoffs
  <1>4. In(Handoffs)' = In(Handoffs)
    BY <1>2, <1>3 DEF In
  <1>5. asleep' \subseteq Threads /\ timedOut' \subseteq Threads
    BY DEF WaitUntilEmpty, WaitForNum, Destroy, Sleeps, Returns, IInv, TypeOK
  <1>6. /\ enabled' \in BOOLEAN /\ enqueue_enabled' \in BOOLEAN
        /\ dequeue_enabled' \in BOOLEAN /\ destroyed' \in BOOLEAN
    BY DEF WaitUntilEmpty, WaitForNum, Destroy, IInv, TypeOK, flags
  <1>7. num' \in [Threads -> Nat]
    BY DEF WaitUntilEmpty, WaitForNum, Destroy, IInv, TypeOK
  <1>8. TypeOK'
    BY CountersNext, <1>1, <1>3, <1>5, <1>6, <1>7 DEF IInv, TypeOK, slots
  <1> QED
    BY <1>1, <1>4, <1>8 DEF IInv, Convention, slots

LEMMA ControlKeeps ==
  ASSUME IInv, Counted', Control
  PROVE  TypeOK' /\ Convention'
  <1> USE PipeAssumption
  <1>1. op' = op /\ In(Handoffs)' = In(Handoffs)
    BY DEF Control, Empty, Enable, Disable, EnableEnqueue, DisableEnqueue,
           EnableDequeue, DisableDequeue, SetsFlags, In
  <1>2. asleep' \subseteq Threads
    BY DEF Control, Empty, Enable, Disable, EnableEnqueue, DisableEnqueue,
           EnableDequeue, DisableDequeue, SetsFlags, IInv, TypeOK
  <1>3. UNCHANGED <<first, last, data, timedOut, item, num, destroyed>>
    BY DEF Control, Empty, Enable, Disable, EnableEnqueue, DisableEnqueue,
           EnableDequeue, DisableDequeue, SetsFlags, slots
  <1>4. pipe_size' = pipe_size \/ pipe_size' = 0
    BY DEF Control, Empty, Enable, Disable, EnableEnqueue, DisableEnqueue,
           EnableDequeue, DisableDequeue, SetsFlags, slots
  <1>5. /\ enabled' \in BOOLEAN /\ enqueue_enabled' \in BOOLEAN
        /\ dequeue_enabled' \in BOOLEAN
    BY DEF Control, Empty, Enable, Disable, EnableEnqueue, DisableEnqueue,
           EnableDequeue, DisableDequeue, SetsFlags, flags, IInv, TypeOK
  <1>6. TypeOK'
    BY CountersNext, <1>1, <1>2, <1>3, <1>4, <1>5 DEF IInv, TypeOK
  <1> QED
    BY <1>1, <1>3, <1>4, <1>6 DEF IInv, Convention

LEMMA ThreadsKeep ==
  ASSUME IInv, Counted', NEW t \in Threads, Own(t) \/ TimesOut(t) \/ WakesUp(t)
  PROVE  TypeOK' /\ Convention'
  <1>1. UNCHANGED <<slots, flags, op, num, destroyed>>
    BY DEF Own, TimesOut, WakesUp
  <1>2. asleep' \subseteq Threads /\ timedOut' \subseteq Threads
    BY DEF Own, TimesOut, WakesUp, IInv, TypeOK
  <1>3. item' \in [Threads -> Items]
    BY DEF Own, TimesOut, WakesUp, IInv, TypeOK
  <1>4. TypeOK'
    BY CountersNext, <1>1, <1>2, <1>3 DEF IInv, TypeOK, slots, flags
  <1> QED
    BY <1>1, <1>4 DEF IInv, Convention, slots, In

LEMMA InitIInv == ASSUME Init PROVE IInv
  <1>1. TypeOK
    BY DEF Init, TypeOK
  <1>2. In(Handoffs) = {}
    BY DEF Init, In, Handoffs
  <1>3. Counted
    BY FS_EmptySet DEF Init, Counted, Dequeuers, Enqueuers, Unblockers, In, DequeueCalls,
      EnqueueCalls, Handoffs
  <1> QED
    BY <1>1, <1>2, <1>3, PipeAssumption DEF Init, IInv, Convention

LEMMA NextIInv == ASSUME IInv, [Next]_vars PROVE IInv'
  <1>0. Counted'
    BY CountsKept
  <1>1. CASE Control
    BY <1>0, <1>1, ControlKeeps DEF IInv
  <1>2. ASSUME NEW t \in Threads, Own(t) \/ TimesOut(t) \/ WakesUp(t) PROVE IInv'
    BY <1>0, <1>2, ThreadsKeep DEF IInv
  <1>3. ASSUME NEW t \in Threads, Call(t) PROVE TypeOK' /\ Convention'
    BY <1>0, <1>3, EnqueueKeeps, HandoffKeeps, DequeueKeeps, OthersKeep DEF Call
  <1>4. CASE UNCHANGED vars
    <2>1. TypeOK'
      BY <1>4 DEF IInv, TypeOK, vars, slots, waiters, flags, callers
    <2> QED
      BY <1>0, <1>4, <2>1 DEF IInv, Convention, vars, slots, callers, In
  <1> QED
    BY <1>0, <1>1, <1>2, <1>3, <1>4 DEF Next, Step, Gone, IInv

\* Every variable keeps its type and the CONVENTION of the class holds, for any
\* number of threads and any maximum size: no index left over from a pipe that
\* ran empty is used, and the buffer never holds more than fits.
THEOREM ConventionCorrect == Spec => [](TypeOK /\ Convention)
  <1>1. Init => IInv
    BY InitIInv
  <1>2. IInv /\ [Next]_vars => IInv'
    BY NextIInv
  <1> QED
    BY <1>1, <1>2, PTL DEF Spec, IInv
-----------------------------------------------------------------------------
(* Nobody oversleeps.                                                      *)

\* A destructor that has begun has disabled the pipe for good, and only a thread
\* inside a call sleeps.
Destroying == In({"destroy"}) # {} \/ destroyed
Sleepers   == asleep \subseteq In(Calls)


\* WaitStands, but for the destructor.
CallStands(t) ==
  /\ op[t] \in EnqueueCalls => EnqueueMustWait(op[t])
  /\ op[t] \in Handoffs => last = 0 /\ enabled /\ enqueue_enabled
  /\ op[t] \in DequeueCalls => enabled /\ dequeue_enabled
  /\ op[t] = "wait_until_empty" => pipe_size > 0 /\ enabled
  /\ op[t] = "wait_for_num" => enabled
CallsStand == \A t \in asleep : CallStands(t)

AInv == /\ IInv
        /\ Destroying => ~enabled
        /\ Sleepers
        /\ CallsStand

LEMMA EnqueueTells ==
  ASSUME AInv, NEW t \in Threads, NEW call \in EnqueueCalls, Enqueue(t, call),
         NEW s \in asleep'
  PROVE  CallStands(s)'
  <1> USE PipeAssumption
  <1>0. /\ pipe_size \in Nat /\ MaxSize \in Nat /\ pipe_size <= MaxSize
        /\ UNCHANGED <<flags, dequeue_waiters>> /\ op \in [Threads -> Calls \cup {"none"}]
        /\ s \in Threads /\ call \in {"enqueue", "enqueue_or_timeout"}
        /\ op[t] \in {"none", call}
    BY DEF AInv, IInv, TypeOK, Convention, Enqueue, EnqueueWaits, EnqueueFails,
           EnqueuePuts, Sleeps, Returns, EnqueueCalls, Runs, Enters, Resumes
  <1>1. CASE EnqueueWaits(t, call)
    <2>1. op' = [op EXCEPT ![t] = call] /\ asleep' = asleep \cup {t}
          /\ UNCHANGED slots /\ EnqueueMustWait(call)
      BY <1>1 DEF EnqueueWaits, Sleeps
    <2>3. \A c : EnqueueMustWait(c)' = EnqueueMustWait(c)
      BY <1>0, <2>1 DEF EnqueueMustWait, CanHandOff, Full, slots, flags
    <2>4. CASE s = t
      BY <1>0, <2>1, <2>3, <2>4 DEF CallStands, EnqueueCalls, Handoffs, DequeueCalls
    <2>5. CASE s # t
      <3>1. op'[s] = op[s] /\ CallStands(s)
        BY <1>0, <2>1, <2>5 DEF AInv, CallsStand
      <3> QED
        BY <1>0, <2>1, <2>3, <3>1 DEF CallStands, slots, flags
    <2> QED
      BY <2>4, <2>5
  <1>2. CASE EnqueueFails(t, call)
    <2>1. op' = [op EXCEPT ![t] = "none"] /\ asleep' \subseteq asleep
          /\ UNCHANGED slots
      BY <1>2 DEF EnqueueFails, Returns
    <2>3. \A c : EnqueueMustWait(c)' = EnqueueMustWait(c)
      BY <1>0, <2>1 DEF EnqueueMustWait, CanHandOff, Full, slots, flags
    <2>4. s = t => op'[s] = "none"
      BY <1>0, <2>1
    <2>5. s # t => op'[s] = op[s]
      BY <1>0, <2>1
    <2>6. CallStands(s)
      BY <2>1 DEF AInv, CallsStand
    <2> QED
      BY <1>0, <2>1, <2>3, <2>4, <2>5, <2>6
         DEF CallStands, slots, flags, EnqueueCalls, Handoffs, DequeueCalls
  <1>3. CASE EnqueuePuts(t, call)
    <2>1. PICK woken \in Signal(asleep \cap IfAny(dequeue_waiters, Dequeuers)) :
            /\ MaxSize > 0 => pipe_size' = pipe_size + 1 /\ Returns(t, woken)
            /\ ~(MaxSize > 0) => /\ Sleeps(t, HandoffOf(call), woken)
                                /\ UNCHANGED <<pipe_size, timedOut>>
      BY <1>3 DEF EnqueuePuts
    <2>2. enabled /\ enqueue_enabled /\ ~EnqueueMustWait(call)
      BY <1>3 DEF EnqueuePuts
    <2>3. CASE MaxSize > 0
      <3>1. pipe_size' = pipe_size + 1 /\ op' = [op EXCEPT ![t] = "none"]
            /\ asleep' \subseteq asleep
        BY <2>1, <2>3 DEF Returns
      <3>2. CallStands(s)
        BY <3>1 DEF AInv, CallsStand
      <3>3. pipe_size # MaxSize
        BY <2>2, <2>3 DEF EnqueueMustWait, Full, CanHandOff
      <3>4. op[s] \notin EnqueueCalls /\ op[s] \notin Handoffs
        <4>1. op[s] \notin EnqueueCalls
          BY <3>2, <3>3 DEF CallStands, EnqueueMustWait, Full
        <4>2. op[s] \notin Handoffs
          BY <1>0, <2>3 DEF AInv, IInv, Convention, In
        <4> QED
          BY <4>1, <4>2
      <3>5. op'[s] \in {op[s], "none"}
        BY <1>0, <3>1
      <3> QED
        BY <1>0, <3>1, <3>2, <3>4, <3>5
           DEF CallStands, flags, EnqueueCalls, Handoffs, DequeueCalls
    <2>4. CASE MaxSize = 0
      <3>1. /\ op' = [op EXCEPT ![t] = HandoffOf(call)]
            /\ asleep' \subseteq asleep \cup {t} /\ pipe_size' = 0
        BY <1>0, <2>1, <2>4 DEF Sleeps
      <3>2. first' = 0 /\ last' = 0
        BY <1>0, <1>3, <2>4 DEF EnqueuePuts, NextLast
      <3>3. CASE s = t
        <4>1. op'[s] \in Handoffs
          BY <1>0, <3>1, <3>3 DEF HandoffOf, Handoffs
        <4> QED
          BY <1>0, <2>2, <3>2, <4>1
             DEF CallStands, flags, EnqueueCalls, Handoffs, DequeueCalls
      <3>4. CASE s # t
        <4>1. op'[s] = op[s] /\ CallStands(s) /\ s \in asleep
          BY <1>0, <3>1, <3>4 DEF AInv, CallsStand
        <4>2. op[s] \in EnqueueCalls => EnqueueMustWait(op[s])'
          BY <1>0, <2>2, <2>4, <3>1, <3>2, <4>1
             DEF EnqueueMustWait, Full, CanHandOff, flags
        <4> QED
          BY <1>0, <2>4, <3>1, <3>2, <4>1, <4>2 DEF CallStands, flags
      <3> QED
        BY <3>3, <3>4
    <2> QED
      BY <1>0, <2>3, <2>4
  <1> QED
    BY <1>1, <1>2, <1>3 DEF Enqueue

\* An enqueue that is told of its item tells the others, if there are any.
LEMMA HandoffTellsNext ==
  ASSUME IInv, Sleepers, NEW t \in Threads, op[t] \in Handoffs, t \notin asleep
  PROVE  asleep \cap Enqueuers \subseteq WakesNext
  <1> SUFFICES ASSUME NEW s \in asleep \cap Enqueuers PROVE enqueue_waiters > 1
    BY DEF WakesNext, IfAny, IInv, TypeOK
  <1>1. t \in Enqueuers /\ Enqueuers \in SUBSET Threads
    BY DEF Enqueuers, In
  <1>2. IsFiniteSet(Enqueuers) /\ IsFiniteSet({s, t})
    BY <1>1, PipeAssumption, FS_Subset
  <1>3. Cardinality({s, t}) = 2
    <2>1. IsFiniteSet({t}) /\ Cardinality({t}) = 1
      BY FS_Singleton
    <2>2. Cardinality({t} \cup {s}) = Cardinality({t}) + 1
      BY <2>1, FS_AddElement
    <2> QED
      BY <2>1, <2>2
  <1>4. Cardinality({s, t}) <= Cardinality(Enqueuers)
    BY <1>1, <1>2, FS_Subset
  <1> QED
    BY <1>3, <1>4 DEF IInv, Counted, TypeOK

LEMMA HandoffTells ==
  ASSUME AInv, NEW t \in Threads, Handoff(t), NEW s \in asleep'
  PROVE  CallStands(s)'
  <1> USE PipeAssumption
  <1>0. /\ pipe_size = 0 /\ MaxSize = 0 /\ UNCHANGED <<flags, pipe_size, dequeue_waiters>>
        /\ op \in [Threads -> Calls \cup {"none"}]
        /\ s \in Threads /\ op[t] \in Handoffs
    <2>1. op[t] \in Handoffs /\ t \in In(Handoffs)
      BY DEF Handoff, Resumes, In
    <2> QED
      BY <2>1 DEF AInv, IInv, TypeOK, Convention, Handoff, HandoffWaits,
                  HandoffWithdraws, HandoffDone, Sleeps, Returns, slots
  <1>1. CASE HandoffWaits(t)
    <2>1. op' = op /\ asleep' = asleep \cup {t} /\ UNCHANGED slots
          /\ last = 0 /\ enabled /\ enqueue_enabled
      BY <1>0, <1>1 DEF HandoffWaits, Sleeps
    <2>2. \A c : EnqueueMustWait(c)' = EnqueueMustWait(c)
      BY <1>0, <2>1 DEF EnqueueMustWait, CanHandOff, Full, slots, flags
    <2>3. s # t => CallStands(s)
      BY <2>1 DEF AInv, CallsStand
    <2> QED
      BY <1>0, <2>1, <2>2, <2>3
         DEF CallStands, slots, flags, EnqueueCalls, Handoffs, DequeueCalls
  <1>2. CASE HandoffWithdraws(t)
    <2>1. /\ op' = [op EXCEPT ![t] = "none"] /\ asleep' \subseteq asleep
          /\ ~(enabled /\ enqueue_enabled)
      BY <1>2 DEF HandoffWithdraws, Returns
    <2>2. CallStands(s)
      BY <2>1 DEF AInv, CallsStand
    <2>3. op[s] \notin EnqueueCalls /\ op[s] \notin Handoffs
      BY <2>1, <2>2 DEF CallStands, EnqueueMustWait
    <2>4. op'[s] \in {op[s], "none"}
      BY <1>0, <2>1
    <2> QED
      BY <1>0, <2>2, <2>3, <2>4
         DEF CallStands, flags, EnqueueCalls, Handoffs, DequeueCalls
  <1>3. CASE HandoffDone(t)
    <2>1. op' = [op EXCEPT ![t] = "none"] /\ asleep' = asleep \ WakesNext
      BY <1>3 DEF HandoffDone, Returns
    <2>2. CallStands(s) /\ s \notin Enqueuers
      <3>1. CallStands(s)
        BY <2>1 DEF AInv, CallsStand
      <3>2. asleep \cap Enqueuers \subseteq WakesNext
        BY <1>0, HandoffTellsNext DEF AInv, Handoff, Resumes
      <3> QED
        BY <2>1, <3>1, <3>2
    <2>3. op[s] \notin EnqueueCalls /\ op[s] \notin Handoffs
      BY <1>0, <2>2 DEF Enqueuers, In
    <2>4. op'[s] \in {op[s], "none"}
      BY <1>0, <2>1
    <2> QED
      BY <1>0, <2>2, <2>3, <2>4
         DEF CallStands, flags, EnqueueCalls, Handoffs, DequeueCalls
  <1> QED
    BY <1>1, <1>2, <1>3 DEF Handoff

LEMMA DequeueTells ==
  ASSUME AInv, NEW t \in Threads, NEW call \in DequeueCalls, Dequeue(t, call),
         NEW s \in asleep'
  PROVE  CallStands(s)'
  <1> USE PipeAssumption
  <1>0. /\ pipe_size \in Nat /\ MaxSize \in Nat
        /\ UNCHANGED flags /\ op \in [Threads -> Calls \cup {"none"}]
        /\ s \in Threads /\ call \in {"dequeue", "dequeue_or_timeout"}
        /\ (op[t] = "none" /\ Enters(t)) \/ op[t] = call
    BY DEF AInv, IInv, TypeOK, Dequeue, DequeueWaits, DequeueFails,
           DequeueTakes, Sleeps, Returns, DequeueCalls, Runs, Enters, Resumes
  <1>1. CASE DequeueWaits(t, call)
    <2>1. /\ op' = [op EXCEPT ![t] = call] /\ UNCHANGED slots
          /\ asleep' = (asleep \ ToldByDequeue(t)) \cup {t}
          /\ pipe_size = 0 /\ enabled /\ dequeue_enabled
      BY <1>1 DEF DequeueWaits, Sleeps, DequeueMustWait
    <2>2. CASE s = t
      BY <1>0, <2>1, <2>2
         DEF CallStands, flags, EnqueueCalls, Handoffs, DequeueCalls
    <2>3. CASE s # t
      <3>1. op'[s] = op[s] /\ CallStands(s) /\ s \in asleep \ ToldByDequeue(t)
        BY <1>0, <2>1, <2>3 DEF AInv, CallsStand
      <3>2. op[s] \in EnqueueCalls => EnqueueMustWait(op[s])'
        <4>1. CASE Enters(t)
          BY <1>0, <2>1, <3>1, <4>1, CountersTell DEF ToldByDequeue, Enqueuers, In, AInv
        <4>2. CASE op[t] = call
          <5>1. dequeue_waiters' = dequeue_waiters
            BY <1>0, <1>1, <4>2 DEF DequeueWaits, Entered, DequeueCalls
          <5> QED
            BY <1>0, <2>1, <3>1, <5>1
               DEF CallStands, EnqueueMustWait, Full, CanHandOff, flags, slots
        <4> QED
          BY <1>0, <4>1, <4>2
      <3> QED
        BY <1>0, <2>1, <3>1, <3>2 DEF CallStands, flags, slots
    <2> QED
      BY <2>2, <2>3
  <1>2. CASE DequeueFails(t, call)
    <2>1. /\ op' = [op EXCEPT ![t] = "none"] /\ UNCHANGED slots
          /\ asleep' \subseteq asleep
      BY <1>2 DEF DequeueFails, Returns
    <2>2. dequeue_waiters \in Nat /\ dequeue_waiters' \in Int
          /\ dequeue_waiters' <= dequeue_waiters
      BY <1>0, <1>2 DEF DequeueFails, Entered, Left, Enters, AInv, IInv, TypeOK,
        DequeueCalls
    <2>3. CallStands(s)
      BY <2>1 DEF AInv, CallsStand
    <2>4. op'[s] \in {op[s], "none"}
      BY <1>0, <2>1
    <2>5. op[s] \in EnqueueCalls => EnqueueMustWait(op[s])'
      BY <1>0, <2>1, <2>2, <2>3
         DEF CallStands, EnqueueMustWait, Full, CanHandOff, flags, slots
    <2> QED
      BY <1>0, <2>1, <2>3, <2>4, <2>5
         DEF CallStands, flags, slots, EnqueueCalls, Handoffs, DequeueCalls
  <1>3. CASE DequeueTakes(t, call)
    <2>1. /\ op' = [op EXCEPT ![t] = "none"]
          /\ asleep' = asleep \ WokenByTaking(t)
      BY <1>3 DEF DequeueTakes, Returns
    <2>2. CallStands(s) /\ s \notin Enqueuers
      BY <2>1, CountersTell DEF AInv, CallsStand, WokenByTaking
    <2>3. op[s] \notin EnqueueCalls \cup Handoffs \cup {"wait_until_empty"}
      BY <1>0, <2>2 DEF Enqueuers, In
    <2>4. op'[s] \in {op[s], "none"}
      BY <1>0, <2>1
    <2> QED
      BY <1>0, <2>2, <2>3, <2>4
         DEF CallStands, flags, EnqueueCalls, Handoffs, DequeueCalls
  <1> QED
    BY <1>1, <1>2, <1>3 DEF Dequeue

LEMMA OthersTell ==
  ASSUME AInv, NEW t \in Threads,
         WaitUntilEmpty(t) \/ (\E n \in Nums \cup {num[t]} : WaitForNum(t, n))
           \/ Destroy(t),
         NEW s \in asleep'
  PROVE  CallStands(s)'
  <1> USE PipeAssumption
  <1>0. /\ op \in [Threads -> Calls \cup {"none"}] /\ s \in Threads
        /\ UNCHANGED slots /\ op[t] \notin DequeueCalls
        /\ op'[t] \in {"none", "wait_until_empty", "wait_for_num", "destroy"}
        /\ \A r \in Threads \ {t} : op'[r] = op[r]
    BY DEF AInv, IInv, TypeOK, WaitUntilEmpty, WaitForNum, Destroy, Sleeps,
           Returns, Runs, Enters, Resumes, DequeueCalls
  <1>1. dequeue_waiters' = dequeue_waiters
    BY DEF WaitUntilEmpty, WaitForNum, Destroy
  <1>2. CASE Destroy(t)
    <2>1. CASE Enters(t)
      <3>1. s = t /\ op'[t] \in {"destroy", "none"}
        BY <1>0, <1>2, <2>1 DEF Destroy, Sleeps, Returns
      <3> QED
        BY <3>1 DEF CallStands, EnqueueCalls, Handoffs, DequeueCalls
    <2>2. CASE Resumes(t, "destroy")
      <3>1. ~enabled /\ UNCHANGED flags
        BY <1>2, <2>2 DEF AInv, Destroying, In, Resumes, Destroy, flags, IInv, TypeOK
      <3>2. asleep' \subseteq asleep \cup {t} /\ op'[t] \in {"destroy", "none"}
        BY <1>0, <1>2, <2>2 DEF Destroy, Sleeps, Returns
      <3>3. s # t => op'[s] = op[s] /\ CallStands(s)
        BY <1>0, <3>2 DEF AInv, CallsStand
      <3>4. \A c : EnqueueMustWait(c)' = EnqueueMustWait(c)
        BY <1>0, <1>1, <3>1 DEF EnqueueMustWait, CanHandOff, Full, slots, flags
      <3> QED
        BY <1>0, <3>1, <3>2, <3>3, <3>4
           DEF CallStands, flags, slots, EnqueueCalls, Handoffs, DequeueCalls
    <2> QED
      BY <1>2, <2>1, <2>2 DEF Destroy, Runs
  <1>3. CASE ~Destroy(t)
    <2>1. UNCHANGED flags
      BY <1>3 DEF WaitUntilEmpty, WaitForNum
    <2>2. \A c : EnqueueMustWait(c)' = EnqueueMustWait(c)
      BY <1>0, <1>1, <2>1 DEF EnqueueMustWait, CanHandOff, Full, slots, flags
    <2>3. asleep' \subseteq asleep \cup {t}
      BY <1>3 DEF WaitUntilEmpty, WaitForNum, Sleeps, Returns
    <2>4. s # t => op'[s] = op[s] /\ CallStands(s)
      BY <1>0, <2>3 DEF AInv, CallsStand
    <2>5. s = t /\ op'[t] = "wait_until_empty" => pipe_size > 0 /\ enabled
      <3>1. CASE WaitUntilEmpty(t)
        BY <1>0, <3>1 DEF WaitUntilEmpty, EmptyMustWait, Sleeps, Returns
      <3>2. CASE \E n \in Nums \cup {num[t]} : WaitForNum(t, n)
        BY <1>0, <3>2 DEF WaitForNum, Sleeps, Returns
      <3> QED
        BY <1>3, <3>1, <3>2
    <2>6. s = t /\ op'[t] = "wait_for_num" => enabled
      <3>1. CASE WaitUntilEmpty(t)
        BY <1>0, <3>1 DEF WaitUntilEmpty, Sleeps, Returns
      <3>2. CASE \E n \in Nums \cup {num[t]} : WaitForNum(t, n)
        BY <1>0, <3>2 DEF WaitForNum, NumMustWait, Sleeps, Returns
      <3> QED
        BY <1>3, <3>1, <3>2
    <2> QED
      BY <1>0, <2>1, <2>2, <2>3, <2>4, <2>5, <2>6
         DEF CallStands, flags, slots, EnqueueCalls, Handoffs, DequeueCalls
  <1> QED
    BY <1>2, <1>3

LEMMA ControlTells ==
  ASSUME AInv, Control, NEW s \in asleep'
  PROVE  CallStands(s)'
  <1>0. op' = op /\ s \in asleep /\ s \in Threads 
        /\ UNCHANGED <<first, last, dequeue_waiters>>
    BY DEF Control, Empty, Enable, Disable, EnableEnqueue, DisableEnqueue,
           EnableDequeue, DisableDequeue, SetsFlags, waiters, slots,
           AInv, IInv, TypeOK
  <1>1. CallStands(s)
    BY <1>0 DEF AInv, CallsStand
  <1>2. CASE Empty \/ DisableEnqueue
    <2>1. s \notin Enqueuers /\ UNCHANGED <<enabled, dequeue_enabled>>
      BY <1>2, CountersTell DEF Empty, DisableEnqueue, SetsFlags, flags, AInv
    <2>2. op[s] \notin EnqueueCalls \cup Handoffs \cup {"wait_until_empty"}
      BY <1>0, <2>1 DEF Enqueuers, In
    <2> QED
      BY <1>0, <1>1, <2>1, <2>2 DEF CallStands
  <1>3. CASE Enable \/ EnableEnqueue \/ EnableDequeue
    <2>1. /\ pipe_size' = pipe_size /\ enabled => enabled'
          /\ enqueue_enabled => enqueue_enabled'
          /\ dequeue_enabled => dequeue_enabled'
      BY <1>3 DEF Enable, EnableEnqueue, EnableDequeue, SetsFlags, slots
    <2>2. pipe_size' = pipe_size
      BY <1>3 DEF Enable, EnableEnqueue, EnableDequeue, SetsFlags, slots
    <2>3. op[s] \in EnqueueCalls => EnqueueMustWait(op[s])'
      BY <1>0, <1>1, <2>1, <2>2 DEF CallStands, EnqueueMustWait, Full, CanHandOff
    <2> QED
      BY <1>0, <1>1, <2>1, <2>2, <2>3 DEF CallStands
  <1>4. CASE Disable
    <2>1. s \notin Enqueuers \cup Dequeuers \cup Unblockers
      BY <1>4 DEF Disable, SetsFlags, WokenByDisable
    <2>2. op[s] \notin Calls
      BY <1>0, <2>1 DEF Enqueuers, Dequeuers, Unblockers, In, Calls
    <2> QED
      BY <1>0, <2>2 DEF AInv, Sleepers, In
  <1>5. CASE DisableDequeue
    <2>1. s \notin Dequeuers /\ UNCHANGED <<slots, enabled, enqueue_enabled>>
      BY <1>5 DEF DisableDequeue, SetsFlags
    <2>2. op[s] \notin DequeueCalls
      BY <1>0, <2>1 DEF Dequeuers, In
    <2>3. op[s] \in EnqueueCalls => EnqueueMustWait(op[s])'
      BY <1>0, <1>1, <2>1
         DEF CallStands, EnqueueMustWait, Full, CanHandOff, slots
    <2> QED
      BY <1>0, <1>1, <2>1, <2>2, <2>3 DEF CallStands, slots
  <1> QED
    BY <1>2, <1>3, <1>4, <1>5 DEF Control

LEMMA ThreadsTell ==
  ASSUME AInv, NEW t \in Threads, Own(t) \/ TimesOut(t) \/ WakesUp(t),
         NEW s \in asleep'
  PROVE  CallStands(s)'
  <1>1. UNCHANGED <<slots, flags, op, waiters>> /\ s \in asleep
    BY DEF Own, TimesOut, WakesUp
  <1>2. CallStands(s)
    BY <1>1 DEF AInv, CallsStand
  <1> QED
    BY <1>1, <1>2 DEF CallStands, EnqueueMustWait, Full, CanHandOff, slots, flags,
      waiters

\* Who sleeps, and what a destructor that has begun implies.
LEMMA SleepersStay ==
  ASSUME AInv, [Next]_vars
  PROVE  Sleepers'
  <1>1. op \in [Threads -> Calls \cup {"none"}] /\ asleep \subseteq Threads
    BY DEF AInv, IInv, TypeOK
  <1>2. ASSUME NEW t \in Threads, Call(t) PROVE Sleepers'
    <2>1. PICK call : /\ call \in Calls /\ \A r \in Threads \ {t} : op'[r] = op[r]
                      /\ \/ op'[t] = call /\ asleep' \subseteq asleep \cup {t}
                         \/ /\ op'[t] = "none" /\ asleep' \subseteq asleep
                            /\ t \notin asleep
      <3>1. t \notin asleep
        BY <1>1, <1>2 DEF Call, Enqueue, Handoff, Dequeue, WaitUntilEmpty,
             WaitForNum, Destroy, Runs, Enters, Resumes, AInv, Sleepers, In, Calls,
             EnqueueCalls, DequeueCalls, Handoffs
      <3>2. ASSUME NEW call \in EnqueueCalls, Enqueue(t, call)
            PROVE  \E c \in Calls : /\ \A r \in Threads \ {t} : op'[r] = op[r]
                                    /\ \/ op'[t] = c /\ asleep' \subseteq asleep \cup {t}
                                       \/ op'[t] = "none" /\ asleep' \subseteq asleep
        BY <1>1, <3>2 DEF Enqueue, EnqueueWaits, EnqueueFails, EnqueuePuts, Sleeps,
             Returns, HandoffOf, Handoffs, Calls
      <3>3. ASSUME Handoff(t)
            PROVE  \E c \in Calls : /\ \A r \in Threads \ {t} : op'[r] = op[r]
                                    /\ \/ op'[t] = c /\ asleep' \subseteq asleep \cup {t}
                                       \/ op'[t] = "none" /\ asleep' \subseteq asleep
        BY <1>1, <3>3 DEF Handoff, HandoffWaits, HandoffWithdraws, HandoffDone,
             Sleeps, Returns, Resumes, Calls
      <3>4. ASSUME NEW call \in DequeueCalls, Dequeue(t, call)
            PROVE  \E c \in Calls : /\ \A r \in Threads \ {t} : op'[r] = op[r]
                                    /\ \/ op'[t] = c /\ asleep' \subseteq asleep \cup {t}
                                       \/ op'[t] = "none" /\ asleep' \subseteq asleep
        BY <1>1, <3>4 DEF Dequeue, DequeueWaits, DequeueFails, DequeueTakes,
             Sleeps, Returns, Calls
      <3>5. ASSUME WaitUntilEmpty(t) \/ Destroy(t)
                     \/ \E n \in Nums \cup {num[t]} : WaitForNum(t, n)
            PROVE  \E c \in Calls : /\ \A r \in Threads \ {t} : op'[r] = op[r]
                                    /\ \/ op'[t] = c /\ asleep' \subseteq asleep \cup {t}
                                       \/ op'[t] = "none" /\ asleep' \subseteq asleep
        BY <1>1, <3>5 DEF WaitUntilEmpty, WaitForNum, Destroy, Sleeps, Returns, Calls
      <3> QED
        BY <1>2, <3>1, <3>2, <3>3, <3>4, <3>5 DEF Call
    <2> QED
      BY <1>1, <2>1 DEF AInv, Sleepers, In
  <1>3. ASSUME op' = op, asleep' \subseteq asleep PROVE Sleepers'
    BY <1>3 DEF AInv, Sleepers, In
  <1>4. CASE Control
    BY <1>3, <1>4 DEF Control, Empty, Enable, Disable, EnableEnqueue,
         DisableEnqueue, EnableDequeue, DisableDequeue, SetsFlags
  <1>5. ASSUME NEW t \in Threads, Own(t) \/ TimesOut(t) \/ WakesUp(t) PROVE Sleepers'
    BY <1>3, <1>5 DEF Own, TimesOut, WakesUp
  <1>6. CASE UNCHANGED vars
    BY <1>3, <1>6 DEF vars, callers
  <1> QED
    BY <1>2, <1>4, <1>5, <1>6 DEF Next, Step, Gone

LEMMA DestroyingStays ==
  ASSUME AInv, [Next]_vars
  PROVE  (Destroying => ~enabled)'
  <1>0. op \in [Threads -> Calls \cup {"none"}]
    BY DEF AInv, IInv, TypeOK
  <1>1. ASSUME NEW t \in Threads, Destroy(t) PROVE ~enabled'
    BY <1>1 DEF Destroy, AInv, IInv, TypeOK
  <1>2. ASSUME NEW t \in Threads, Call(t), ~Destroy(t)
        PROVE  UNCHANGED <<flags, destroyed>> /\ In({"destroy"})' \subseteq In({"destroy"})
    <2>1. UNCHANGED <<flags, destroyed>>
      BY <1>2 DEF Call, Enqueue, Handoff, Dequeue, WaitUntilEmpty, WaitForNum
    <2>2. op'[t] # "destroy" /\ \A r \in Threads \ {t} : op'[r] = op[r]
      <3>1. ASSUME NEW call \in EnqueueCalls, Enqueue(t, call)
            PROVE  op'[t] # "destroy" /\ \A r \in Threads \ {t} : op'[r] = op[r]
        BY <1>0, <3>1 DEF Enqueue, EnqueueWaits, EnqueueFails, EnqueuePuts, Sleeps,
             Returns, HandoffOf, EnqueueCalls
      <3>2. ASSUME Handoff(t)
            PROVE  op'[t] # "destroy" /\ \A r \in Threads \ {t} : op'[r] = op[r]
        BY <1>0, <3>2 DEF Handoff, HandoffWaits, HandoffWithdraws, HandoffDone,
             Sleeps, Returns, Resumes, Handoffs
      <3>3. ASSUME NEW call \in DequeueCalls, Dequeue(t, call)
            PROVE  op'[t] # "destroy" /\ \A r \in Threads \ {t} : op'[r] = op[r]
        BY <1>0, <3>3 DEF Dequeue, DequeueWaits, DequeueFails, DequeueTakes,
             Sleeps, Returns, DequeueCalls
      <3>4. ASSUME WaitUntilEmpty(t) \/ \E n \in Nums \cup {num[t]} : WaitForNum(t, n)
            PROVE  op'[t] # "destroy" /\ \A r \in Threads \ {t} : op'[r] = op[r]
        BY <1>0, <3>4 DEF WaitUntilEmpty, WaitForNum, Sleeps, Returns
      <3> QED
        BY <1>2, <3>1, <3>2, <3>3, <3>4 DEF Call
    <2> QED
      BY <2>1, <2>2 DEF In
  <1>3. CASE Control
    BY <1>3 DEF Control, Empty, Enable, Disable, EnableEnqueue, DisableEnqueue,
         EnableDequeue, DisableDequeue, SetsFlags, Usable, Destroying, In
  <1>4. ASSUME NEW t \in Threads, Own(t) \/ TimesOut(t) \/ WakesUp(t)
        PROVE  UNCHANGED <<flags, destroyed, op>>
    BY <1>4 DEF Own, TimesOut, WakesUp
  <1>5. CASE UNCHANGED vars
    BY <1>5 DEF vars, flags, callers, AInv, Destroying, In
  <1>6. ASSUME UNCHANGED <<flags, destroyed>>, In({"destroy"})' \subseteq In({"destroy"})
        PROVE  (Destroying => ~enabled)'
    BY <1>6 DEF AInv, Destroying, flags
  <1>7. ASSUME NEW t \in Threads, Call(t) PROVE (Destroying => ~enabled)'
    BY <1>1, <1>2, <1>6, <1>7
  <1>8. ASSUME NEW t \in Threads, Own(t) \/ TimesOut(t) \/ WakesUp(t)
        PROVE  (Destroying => ~enabled)'
    BY <1>4, <1>6, <1>8 DEF In
  <1> QED
    BY <1>3, <1>5, <1>7, <1>8 DEF Next, Step, Gone

LEMMA NextAInv == ASSUME AInv, [Next]_vars PROVE AInv'
  <1>1. IInv'
    BY NextIInv DEF AInv
  <1>2. ASSUME NEW s \in asleep' PROVE CallStands(s)'
    <2>1. CASE Control
      BY <1>2, <2>1, ControlTells
    <2>2. ASSUME NEW t \in Threads, Own(t) \/ TimesOut(t) \/ WakesUp(t)
          PROVE  CallStands(s)'
      BY <1>2, <2>2, ThreadsTell
    <2>3. ASSUME NEW t \in Threads, Call(t) PROVE CallStands(s)'
      BY <1>2, <2>3, EnqueueTells, HandoffTells, DequeueTells, OthersTell DEF Call
    <2>4. CASE UNCHANGED vars
      BY <1>2, <2>4 DEF AInv, CallsStand, CallStands, EnqueueMustWait, Full,
           CanHandOff, vars, slots, flags, waiters, callers
    <2> QED
      BY <2>1, <2>2, <2>3, <2>4 DEF Next, Step, Gone
  <1> QED
    BY <1>1, <1>2, SleepersStay, DestroyingStays DEF AInv, CallsStand

\* Who leaves a pipe that is being destroyed tells the destructor.
LEMMA LeaversTell ==
  ASSUME AInv, ~enabled, NEW t \in Threads, Call(t), op'[t] = "none", op[t] # "none",
         NEW s \in asleep, op[s] = "destroy", s # t
  PROVE  s \notin asleep'
  <1>0. s \in Unblockers /\ s \in Threads /\ ~Enters(t)
        /\ op \in [Threads -> Calls \cup {"none"}]
    BY DEF AInv, IInv, TypeOK, Unblockers, In, Enters
  <1>1. ASSUME NEW call \in EnqueueCalls, Enqueue(t, call) PROVE s \notin asleep'
    <2>1. EnqueueFails(t, call)
      <3>1. ~EnqueueWaits(t, call)
        BY <1>0 DEF EnqueueWaits, Sleeps, EnqueueCalls
      <3> QED
        BY <1>1, <3>1 DEF Enqueue, EnqueuePuts
    <2> QED
      BY <1>0, <2>1 DEF EnqueueFails, Returns
  <1>2. CASE Handoff(t)
    <2>1. ~HandoffWaits(t)
      BY DEF HandoffWaits
    <2> QED
      BY <1>0, <1>2, <2>1, CountersTell DEF Handoff, HandoffWithdraws, HandoffDone,
        WakesNext, Returns, AInv
  <1>3. ASSUME NEW call \in DequeueCalls, Dequeue(t, call) PROVE s \notin asleep'
    <2>1. DequeueFails(t, call)
      <3>1. ~DequeueWaits(t, call)
        BY DEF DequeueWaits, DequeueMustWait
      <3> QED
        BY <1>3, <3>1 DEF Dequeue, DequeueTakes
    <2> QED
      BY <1>0, <2>1 DEF DequeueFails, Returns
  <1>4. CASE WaitUntilEmpty(t)
    BY <1>0, <1>4 DEF WaitUntilEmpty, EmptyMustWait, Returns, ToldIfDisabled
  <1>5. ASSUME NEW n \in Nums \cup {num[t]}, WaitForNum(t, n) PROVE s \notin asleep'
    BY <1>0, <1>5 DEF WaitForNum, NumMustWait, Returns, ToldIfDisabled
  <1>6. ~Destroy(t)
    <2> SUFFICES ASSUME Destroy(t) PROVE FALSE
      OBVIOUS
    <2>1. Remaining(t)
      <3>1. op[t] = "destroy"
        BY DEF Destroy, Runs, Enters, Resumes
      <3> QED
        BY <1>0, <3>1, DestructorCounts DEF AInv
    <2>2. op' = [op EXCEPT ![t] = "destroy"]
      BY <2>1 DEF Destroy, Sleeps
    <2> QED
      BY <1>0, <2>2
  <1> QED
    BY <1>1, <1>2, <1>3, <1>4, <1>5, <1>6 DEF Call

\* What one call does to those in the others.
LEMMA CallMoves ==
  ASSUME AInv, NEW t \in Threads, Call(t)
  PROVE  /\ \A r \in Threads \ {t} : op'[r] = op[r]
         /\ asleep' \subseteq asleep \cup {t}
         /\ op'[t] = "destroy" => Destroy(t)
  <1>0. op \in [Threads -> Calls \cup {"none"}]
    BY DEF AInv, IInv, TypeOK
  <1> DEFINE Moves == /\ \A r \in Threads \ {t} : op'[r] = op[r]
                      /\ asleep' \subseteq asleep \cup {t}
                      /\ op'[t] = "destroy" => Destroy(t)
  <1>1. ASSUME NEW call \in EnqueueCalls, Enqueue(t, call) PROVE Moves
    BY <1>0, <1>1 DEF Enqueue, EnqueueWaits, EnqueueFails, EnqueuePuts, Sleeps, Returns,
      HandoffOf, EnqueueCalls
  <1>2. CASE Handoff(t)
    BY <1>0, <1>2 DEF Handoff, HandoffWaits, HandoffWithdraws, HandoffDone, Sleeps, Returns,
      Resumes, Handoffs
  <1>3. ASSUME NEW call \in DequeueCalls, Dequeue(t, call) PROVE Moves
    BY <1>0, <1>3 DEF Dequeue, DequeueWaits, DequeueFails, DequeueTakes, Sleeps, Returns,
      DequeueCalls
  <1>4. CASE WaitUntilEmpty(t) \/ (\E n \in Nums \cup {num[t]} : WaitForNum(t, n)) \/ Destroy(t)
    BY <1>0, <1>4 DEF WaitUntilEmpty, WaitForNum, Destroy, Sleeps, Returns
  <1> QED
    BY <1>1, <1>2, <1>3, <1>4 DEF Call

\* The destructor sleeps only while another call is inside.
DestructorStands ==
  \A s \in asleep : op[s] = "destroy" => \E r \in Threads \ {s} : op[r] # "none"
OneDestructor == \A s, t \in In({"destroy"}) : s = t

LEMMA DestructorStays ==
  ASSUME AInv, DestructorStands, OneDestructor, [Next]_vars
  PROVE  DestructorStands' /\ OneDestructor'
  <1>0. op \in [Threads -> Calls \cup {"none"}] /\ asleep \subseteq Threads
    BY DEF AInv, IInv, TypeOK
  <1>1. ASSUME op' = op, asleep' \subseteq asleep
        PROVE  DestructorStands' /\ OneDestructor'
    BY <1>1 DEF DestructorStands, OneDestructor, In
  <1>2. CASE Control \/ (\E t \in Threads : Own(t) \/ TimesOut(t) \/ WakesUp(t))
             \/ UNCHANGED vars
    <2>1. op' = op /\ asleep' \subseteq asleep
      BY <1>2 DEF Control, Empty, Enable, Disable, EnableEnqueue, DisableEnqueue,
        EnableDequeue, DisableDequeue, SetsFlags, Own, TimesOut, WakesUp, vars, callers
    <2> QED
      BY <1>1, <2>1
  <1>3. ASSUME NEW t \in Threads, Call(t) PROVE DestructorStands' /\ OneDestructor'
    <2>1. /\ \A r \in Threads \ {t} : op'[r] = op[r]
          /\ asleep' \subseteq asleep \cup {t}
          /\ op'[t] = "destroy" => Destroy(t)
      BY <1>3, CallMoves
    <2>2. ASSUME Destroy(t), op[t] # "destroy" PROVE In({"destroy"}) = {}
      BY <2>2 DEF Destroy, Runs, Resumes, Enters
    <2>3. OneDestructor'
      BY <2>1, <2>2 DEF OneDestructor, In
    <2>4. ASSUME NEW s \in asleep', op'[s] = "destroy"
          PROVE  \E r \in Threads \ {s} : op'[r] # "none"
      <3>1. s \in Threads
        BY <1>0, <2>1, <2>4
      <3>2. CASE s = t
        <4>1. Destroy(t)
          BY <2>1, <2>4, <3>2
        <4>2. Remaining(t) /\ op[t] \in {"none", "destroy"}
          <5>1. ~(op' = [op EXCEPT ![t] = "none"])
            BY <1>0, <2>4, <3>2
          <5> QED
            BY <4>1, <5>1 DEF Destroy, Returns, Runs, Enters, Resumes
        <4>3. PICK r \in Threads \ {t} : op[r] # "none"
          BY <4>2, DestructorCounts DEF AInv
        <4> QED
          BY <2>1, <3>2, <4>3
      <3>3. CASE s # t
        <4>1. op[s] = "destroy" /\ s \in asleep
          BY <2>1, <2>4, <3>1, <3>3
        <4>2. ~enabled /\ In({"destroy"}) # {}
          BY <3>1, <4>1 DEF AInv, Destroying, In
        <4>3. op[t] # "none"
          BY <1>3, <4>2 DEF Call, Enqueue, Handoff, Dequeue, WaitUntilEmpty, WaitForNum,
            Destroy, Runs, Enters, Resumes, EnqueueCalls, Handoffs, DequeueCalls
        <4>4. op'[t] # "none"
          BY <1>3, <2>4, <3>3, <4>1, <4>2, <4>3, LeaversTell
        <4> QED
          BY <3>3, <4>4
      <3> QED
        BY <3>2, <3>3
    <2> QED
      BY <2>3, <2>4 DEF DestructorStands
  <1> QED
    BY <1>2, <1>3 DEF Next, Step, Gone

BInv == AInv /\ DestructorStands /\ OneDestructor

LEMMA InitBInv == Init => BInv
BY InitIInv DEF Init, BInv, AInv, Destroying, Sleepers, CallsStand, DestructorStands,
  OneDestructor, In

LEMMA NextBInv == BInv /\ [Next]_vars => BInv'
BY NextAInv, DestructorStays DEF BInv

\* No wait outlasts its reason, for any number of threads and any maximum size:
\* every enqueue, every handoff, every enabled wait and the destructor are woken by the
\* step that ends what they wait for.
THEOREM NobodyOversleepsCorrect == Spec => []NobodyOversleeps
  <1>1. BInv => NobodyOversleeps
    <2> SUFFICES ASSUME BInv, NEW t \in asleep PROVE WaitStands(t)
      BY DEF NobodyOversleeps
    <2>1. CallStands(t) /\ t \in Threads /\ op \in [Threads -> Calls \cup {"none"}]
      BY DEF BInv, AInv, CallsStand, IInv, TypeOK
    <2>2. ASSUME op[t] = "destroy" PROVE ~enabled /\ Inside # {t}
      <3>1. ~enabled
        BY <2>1, <2>2 DEF BInv, AInv, Destroying, In
      <3>2. PICK r \in Threads \ {t} : op[r] # "none"
        BY <2>2 DEF BInv, DestructorStands
      <3>3. r \in Inside /\ r # t
        BY <3>2 DEF Inside
      <3> QED
        BY <3>1, <3>3
    <2> QED
      BY <2>1, <2>2 DEF CallStands, WaitStands
  <1> QED
    BY <1>1, InitBInv, NextBInv, PTL DEF Spec

\* disable() and the destructor leave nobody behind: in a pipe that is disabled, nobody
\* sleeps but a destructor, and there is a thread awake inside that has still to leave.
DisabledMovesOn ==
  asleep # {} /\ ~enabled =>
    /\ \A t \in asleep : op[t] = "destroy"
    /\ \E t \in Threads \ asleep : op[t] # "none"

THEOREM DisabledPipeMovesOn == Spec => []DisabledMovesOn
  <1>1. BInv => DisabledMovesOn
    <2> SUFFICES ASSUME BInv, ~enabled, NEW s \in asleep
                 PROVE  /\ \A t \in asleep : op[t] = "destroy"
                        /\ \E t \in Threads \ asleep : op[t] # "none"
      BY DEF DisabledMovesOn
    <2>1. \A t \in asleep : op[t] = "destroy" /\ t \in Threads
      BY DEF BInv, AInv, CallsStand, CallStands, Sleepers, In, Calls, EnqueueMustWait
    <2>2. PICK r \in Threads \ {s} : op[r] # "none"
      BY <2>1 DEF BInv, DestructorStands
    <2>3. r \notin asleep
      BY <2>1, <2>2 DEF BInv, OneDestructor, In
    <2> QED
      BY <2>1, <2>2, <2>3
  <1> QED
    BY <1>1, InitBInv, NextBInv, PTL DEF Spec

\* The destructor, which asks only the three counters, frees the buffer when no thread
\* is inside any more, asleep or about to wake up: on every path of every call, time-outs
\* and withdrawn items included, the counters have counted it in and out again.
THEOREM DestroyedEmptyCorrect == Spec => []DestroyedEmpty
  <1>1. Init => AInv /\ DestroyedEmpty
    BY InitIInv DEF Init, AInv, Destroying, Sleepers, CallsStand, In,
                    DestroyedEmpty
  <1>2. ASSUME AInv, DestroyedEmpty, [Next]_vars PROVE DestroyedEmpty'
    <2>0. op \in [Threads -> Calls \cup {"none"}]
      BY <1>2 DEF AInv, IInv, TypeOK
    <2>1. CASE destroyed
      <3>1. \A t \in Threads : op[t] = "none"
        BY <1>2, <2>0, <2>1 DEF DestroyedEmpty, Inside
      <3>2. op' = op /\ destroyed' = destroyed /\ asleep' \subseteq asleep
        BY <1>2, <2>1, <3>1
           DEF Next, Step, Gone, Call, Control, Own, TimesOut, WakesUp, Empty, Enable,
               Disable, EnableEnqueue, DisableEnqueue, EnableDequeue, DisableDequeue,
               SetsFlags, Usable, Enqueue, Handoff, Dequeue, WaitUntilEmpty,
               WaitForNum, Destroy, Runs, Enters, Resumes, vars, callers,
               EnqueueCalls, DequeueCalls, Handoffs
      <3> QED
        BY <1>2, <2>1, <3>2 DEF DestroyedEmpty, Inside
    <2>2. CASE ~destroyed /\ destroyed'
      <3>1. PICK t \in Threads : Destroy(t)
        BY <1>2, <2>2
           DEF Next, Step, Gone, Call, Control, Own, TimesOut, WakesUp, Empty, Enable,
               Disable, EnableEnqueue, DisableEnqueue, EnableDequeue, DisableDequeue,
               SetsFlags, Enqueue, Handoff, Dequeue, WaitUntilEmpty, WaitForNum, vars
      <3>2. /\ ~Remaining(t) /\ op[t] \in {"none", "destroy"}
            /\ op' = [op EXCEPT ![t] = "none"]
        BY <2>2, <3>1 DEF Destroy, Returns, Runs, Enters, Resumes
      <3>3. \A r \in Threads \ {t} : op[r] = "none"
        BY <1>2, <3>2, DestructorCounts DEF AInv
      <3>4. Inside' = {}
        BY <2>0, <3>2, <3>3 DEF Inside
      <3>5. Sleepers'
        BY <1>2, SleepersStay
      <3> QED
        BY <3>4, <3>5 DEF DestroyedEmpty, Sleepers, Inside, In, Calls, EnqueueCalls,
          DequeueCalls, Handoffs
    <2> QED
      BY <2>1, <2>2 DEF DestroyedEmpty
  <1>3. AInv /\ [Next]_vars => AInv'
    BY NextAInv
  <1> QED
    BY <1>1, <1>2, <1>3, PTL DEF Spec
-----------------------------------------------------------------------------
(* One signal for one item is enough.                                      *)

Awake == Dequeuers \ (asleep \cup timedOut)
ToTake == pipe_size + (IF Offered THEN 1 ELSE 0)

\* A thread out of time is awake and on its way out of the call.
TimeoutsEnd == \A t \in timedOut : op[t] \in TimedCalls /\ t \notin asleep

DInv == AInv /\ TimeoutsEnd /\ DequeuersSuffice

LEMMA AwakeCounted ==
  ASSUME IInv
  PROVE  IsFiniteSet(Awake) /\ Cardinality(Awake) \in Nat /\ ToTake \in Nat
  <1>1. Awake \subseteq Threads
    BY DEF Awake, Dequeuers, In
  <1>2. IsFiniteSet(Awake)
    BY <1>1, FS_Subset, PipeAssumption
  <1> QED
    BY <1>2, FS_CardinalityType DEF IInv, TypeOK, ToTake

LEMMA AwakeCountedNext ==
  ASSUME IInv'
  PROVE  IsFiniteSet(Awake') /\ Cardinality(Awake') \in Nat /\ ToTake' \in Nat
  <1>1. Awake' \subseteq Threads
    BY DEF Awake, Dequeuers, In
  <1>2. IsFiniteSet(Awake')
    BY <1>1, FS_Subset, PipeAssumption
  <1>3. pipe_size' \in Nat
    BY DEF IInv, TypeOK
  <1>4. PICK d \in Nat : ToTake' = pipe_size' + d
    BY DEF ToTake
  <1>5. \A m, n \in Nat : m + n \in Nat
    OBVIOUS
  <1>6. ToTake' \in Nat
    BY <1>3, <1>4, <1>5
  <1> QED
    BY <1>2, <1>6, FS_CardinalityType

\* Most steps add nothing to take and send no dequeue to sleep or away.
LEMMA EnoughStay ==
  ASSUME DInv, IInv', ToTake' <= ToTake, Awake \subseteq Awake',
         asleep' \cap Dequeuers' \subseteq asleep \cap Dequeuers
  PROVE  DequeuersSuffice'
  <1>1. IsFiniteSet(Awake') /\ Cardinality(Awake') \in Nat /\ ToTake' \in Nat
    BY AwakeCountedNext
  <1>2. Cardinality(Awake) <= Cardinality(Awake')
    BY <1>1, FS_Subset
  <1>3. IInv
    BY DEF DInv, AInv
  <1>4. asleep \cap Dequeuers # {} => ToTake <= Cardinality(Awake)
    BY DEF DInv, DequeuersSuffice, ToTake, Awake
  <1>5. asleep' \cap Dequeuers' # {} => ToTake' <= Cardinality(Awake')
    BY <1>1, <1>2, <1>3, <1>4, AwakeCounted
  <1> QED
    BY <1>5 DEF DequeuersSuffice, ToTake, Awake

\* A dequeue that sleeps finds its wait justified, so nothing is disabled.
LEMMA AsleepEnabled ==
  ASSUME DInv, asleep \cap Dequeuers # {}
  PROVE  enabled /\ dequeue_enabled
  BY DEF DInv, AInv, CallsStand, CallStands, Dequeuers, In

LEMMA EnqueueSuffices ==
  ASSUME DInv, IInv', NEW t \in Threads, NEW call \in EnqueueCalls, Enqueue(t, call)
  PROVE  TimeoutsEnd' /\ DequeuersSuffice'
  <1>1. /\ op \in [Threads -> Calls \cup {"none"}] /\ asleep \subseteq Threads
        /\ timedOut \subseteq Threads
        /\ op[t] \notin DequeueCalls \cup Handoffs
        /\ call \in EnqueueCalls /\ call \notin DequeueCalls
    BY DEF DInv, AInv, IInv, TypeOK, Enqueue, Runs, Enters, Resumes, EnqueueCalls,
           DequeueCalls, Handoffs
  <1>2. CASE EnqueueWaits(t, call)
    <2>1. /\ t \notin timedOut /\ op' = [op EXCEPT ![t] = call]
          /\ asleep' = asleep \cup {t} /\ UNCHANGED <<slots, timedOut>>
      BY <1>2 DEF EnqueueWaits, Sleeps
    <2>2. TimeoutsEnd'
      BY <1>1, <2>1 DEF DInv, TimeoutsEnd
    <2>3. /\ Dequeuers' = Dequeuers /\ Awake \subseteq Awake'
          /\ asleep' \cap Dequeuers' \subseteq asleep \cap Dequeuers
      BY <1>1, <2>1 DEF Dequeuers, In, Awake
    <2>4. ToTake' = ToTake
      BY <2>1 DEF ToTake, Offered, slots
    <2> QED
      BY <2>2, <2>3, <2>4, EnoughStay, AwakeCounted DEF DInv, AInv
  <1>3. CASE EnqueueFails(t, call)
    <2>1. /\ op' = [op EXCEPT ![t] = "none"] /\ asleep' = asleep \ Unblockers
          /\ timedOut' = timedOut \ {t} /\ UNCHANGED slots
      BY <1>3 DEF EnqueueFails, Returns
    <2>2. TimeoutsEnd'
      BY <1>1, <2>1 DEF DInv, TimeoutsEnd
    <2>3. /\ Dequeuers' = Dequeuers /\ Awake \subseteq Awake'
          /\ asleep' \cap Dequeuers' \subseteq asleep \cap Dequeuers
      BY <1>1, <2>1 DEF Dequeuers, In, Awake, DequeueCalls
    <2>4. ToTake' = ToTake
      BY <2>1 DEF ToTake, Offered, slots
    <2> QED
      BY <2>2, <2>3, <2>4, EnoughStay, AwakeCounted DEF DInv, AInv
  <1>4. CASE EnqueuePuts(t, call)
    <2>1. PICK woken \in Signal(asleep \cap IfAny(dequeue_waiters, Dequeuers)) :
            /\ asleep' = asleep \ woken \/ asleep' = (asleep \ woken) \cup {t}
            /\ timedOut' = timedOut /\ t \notin timedOut
            /\ \E c \in Handoffs \cup {"none"} : op' = [op EXCEPT ![t] = c]
      BY <1>4 DEF EnqueuePuts, Returns, Sleeps, HandoffOf, Handoffs
    <2>2. /\ op'[t] \in Handoffs \cup {"none"}
          /\ \A s \in Threads \ {t} : op'[s] = op[s]
      BY <1>1, <2>1
    <2>3. TimeoutsEnd'
      BY <1>1, <2>1, <2>2 DEF DInv, TimeoutsEnd
    <2>4. Dequeuers' = Dequeuers /\ t \notin Dequeuers
      BY <1>1, <2>2 DEF Dequeuers, In, DequeueCalls, Handoffs
    <2>5. ToTake' <= ToTake + 1
      <3>1. CASE MaxSize > 0
        BY <1>4, <3>1, PipeAssumption
           DEF EnqueuePuts, ToTake, Offered, DInv, AInv, IInv, TypeOK
      <3>2. CASE MaxSize = 0
        BY <1>4, <3>2 DEF EnqueuePuts, ToTake, Offered, DInv, AInv, IInv, TypeOK
      <3> QED
        BY <3>1, <3>2, PipeAssumption
    <2>6. ASSUME NEW d, d \in asleep' \cap Dequeuers'
          PROVE  ToTake' <= Cardinality(Awake')
      <3>1. d \in asleep \cap Dequeuers
        BY <2>1, <2>4, <2>6
      <3>2. PICK s \in asleep \cap Dequeuers : woken = {s}
        BY <2>1, <3>1, CountersTell DEF Signal, DInv, AInv
      <3>3. s \notin Awake /\ Awake' = Awake \cup {s}
        BY <2>1, <2>4, <3>2 DEF Awake, DInv, TimeoutsEnd
      <3>4. Cardinality(Awake') = Cardinality(Awake) + 1
        BY <3>3, AwakeCounted, FS_AddElement DEF DInv, AInv
      <3>5. ToTake <= Cardinality(Awake)
        BY <3>1 DEF DInv, DequeuersSuffice, ToTake, Awake
      <3>6. ToTake' \in Nat
        BY AwakeCountedNext
      <3> QED
        BY <2>5, <3>4, <3>5, <3>6, AwakeCounted DEF DInv, AInv
    <2> QED
      BY <2>3, <2>6 DEF DequeuersSuffice, ToTake, Awake
  <1> QED
    BY <1>2, <1>3, <1>4 DEF Enqueue

LEMMA DequeueSuffices ==
  ASSUME DInv, IInv', NEW t \in Threads, NEW call \in DequeueCalls, Dequeue(t, call)
  PROVE  TimeoutsEnd' /\ DequeuersSuffice'
  <1>1. /\ op \in [Threads -> Calls \cup {"none"}] /\ asleep \subseteq Threads
        /\ timedOut \subseteq Threads /\ pipe_size \in Nat
        /\ Enters(t) \/ (op[t] = call /\ t \notin asleep)
        /\ Enters(t) => op[t] = "none"
    BY DEF DInv, AInv, IInv, TypeOK, Dequeue, Runs, Enters, Resumes
  <1>2. CASE DequeueWaits(t, call)
    <2>1. /\ t \notin timedOut /\ op' = [op EXCEPT ![t] = call] /\ DequeueMustWait
          /\ asleep' = (asleep \ ToldByDequeue(t)) \cup {t} /\ UNCHANGED <<slots, timedOut>>
      BY <1>2 DEF DequeueWaits, Sleeps
    <2>2. TimeoutsEnd'
      BY <1>1, <2>1 DEF DInv, TimeoutsEnd
    <2>3. ToTake' = 0
      BY <2>1 DEF DequeueMustWait, ToTake, Offered, slots
    <2> QED
      BY <2>2, <2>3, AwakeCountedNext DEF DequeuersSuffice, ToTake, Awake
  <1>3. CASE DequeueFails(t, call)
    <2>1. /\ op' = [op EXCEPT ![t] = "none"] /\ asleep' \subseteq asleep
          /\ timedOut' = timedOut \ {t} /\ UNCHANGED <<slots, flags>>
      BY <1>3 DEF DequeueFails, Returns, Dequeue
    <2>2. TimeoutsEnd'
      BY <1>1, <2>1 DEF DInv, TimeoutsEnd
    <2>3. Dequeuers' = Dequeuers \ {t}
      BY <1>1, <2>1 DEF Dequeuers, In, DequeueCalls
    <2>4. asleep' \cap Dequeuers' \subseteq asleep \cap Dequeuers
      BY <2>1, <2>3
    <2>5. ToTake' = ToTake
      BY <2>1 DEF ToTake, Offered, slots
    <2>6. CASE asleep \cap Dequeuers = {}
      BY <2>2, <2>4, <2>6 DEF DequeuersSuffice
    <2>7. CASE t \in timedOut \/ Enters(t)
      <3>1. Awake \subseteq Awake'
        BY <1>1, <2>1, <2>3, <2>7 DEF Awake, Dequeuers, In, DequeueCalls
      <3> QED
        BY <2>2, <2>4, <2>5, <3>1, EnoughStay, AwakeCounted DEF DInv, AInv
    <2> QED
      BY <1>3, <2>6, <2>7, AsleepEnabled DEF DequeueFails
  <1>4. CASE DequeueTakes(t, call)
    <2>1. /\ op' = [op EXCEPT ![t] = "none"] /\ asleep' \subseteq asleep
          /\ t \notin timedOut /\ timedOut' = timedOut
      BY <1>4 DEF DequeueTakes, Returns
    <2>2. TimeoutsEnd'
      BY <1>1, <2>1 DEF DInv, TimeoutsEnd
    <2>3. Dequeuers' = Dequeuers \ {t}
      BY <1>1, <2>1 DEF Dequeuers, In, DequeueCalls
    <2>4. asleep' \cap Dequeuers' \subseteq asleep \cap Dequeuers
      BY <2>1, <2>3
    <2>5. ToTake' = ToTake - 1
      <3>1. CASE MaxSize > 0
        BY <1>1, <1>4, <3>1
           DEF DequeueTakes, DequeueMustWait, ToTake, Offered, DInv, AInv, IInv, TypeOK
      <3>2. CASE MaxSize = 0
        <4>1. pipe_size = 0 /\ Offered
          BY <1>1, <1>4, <3>2
             DEF DequeueTakes, DequeueMustWait, DInv, AInv, IInv, Convention
        <4> QED
          BY <1>4, <3>2, <4>1 DEF DequeueTakes, ToTake, Offered
      <3> QED
        BY <3>1, <3>2, PipeAssumption
    <2>6. Awake \ {t} \subseteq Awake'
      BY <2>1, <2>3 DEF Awake
    <2>7. IsFiniteSet(Awake') /\ Cardinality(Awake') \in Nat /\ ToTake' \in Nat
      BY AwakeCountedNext
    <2>8. Cardinality(Awake) - 1 <= Cardinality(Awake')
      <3>1. Cardinality(Awake \ {t}) <= Cardinality(Awake')
        BY <2>6, <2>7, FS_Subset
      <3>2. \/ Cardinality(Awake \ {t}) = Cardinality(Awake) - 1
            \/ Awake \ {t} = Awake
        BY AwakeCounted, FS_RemoveElement DEF DInv, AInv
      <3>3. Cardinality(Awake \ {t}) \in Nat
        BY AwakeCounted, FS_RemoveElement, FS_CardinalityType DEF DInv, AInv
      <3> QED
        BY <2>7, <3>1, <3>2, <3>3, AwakeCounted DEF DInv, AInv
    <2>9. ASSUME asleep' \cap Dequeuers' # {} PROVE ToTake' <= Cardinality(Awake')
      <3>1. ToTake <= Cardinality(Awake)
        BY <2>4, <2>9 DEF DInv, DequeuersSuffice, ToTake, Awake
      <3> QED
        BY <2>5, <2>7, <2>8, <3>1, AwakeCounted DEF DInv, AInv
    <2> QED
      BY <2>2, <2>9 DEF DequeuersSuffice, ToTake, Awake
  <1> QED
    BY <1>2, <1>3, <1>4 DEF Dequeue

\* The rest neither puts nor takes an item, and leaves the dequeues to themselves.
LEMMA OthersSuffice ==
  ASSUME DInv, IInv', NEW t \in Threads,
         Handoff(t) \/ WaitUntilEmpty(t) \/ Destroy(t)
           \/ \E n \in Nums \cup {num[t]} : WaitForNum(t, n)
  PROVE  TimeoutsEnd' /\ DequeuersSuffice'
  <1>1. /\ op \in [Threads -> Calls \cup {"none"}] /\ asleep \subseteq Threads
        /\ timedOut \subseteq Threads /\ IInv
    BY DEF DInv, AInv, IInv, TypeOK
  <1> DEFINE Mine == Handoffs \cup {"none", "wait_until_empty", "wait_for_num", "destroy"}
  <1>2. /\ op[t] \in Mine /\ op'[t] \in Mine
        /\ \A s \in Threads \ {t} : op'[s] = op[s]
        /\ timedOut' \subseteq timedOut
        /\ asleep' \subseteq asleep \cup {t}
    <2>1. op[t] \in Mine
      BY DEF Handoff, WaitUntilEmpty, Destroy, WaitForNum, Runs, Enters, Resumes, Handoffs
    <2>2. PICK c \in Mine : op' = [op EXCEPT ![t] = c]
      BY <2>1 DEF Handoff, HandoffWaits, HandoffWithdraws, HandoffDone, WaitUntilEmpty,
             Destroy, WaitForNum, Sleeps, Returns
    <2>3. timedOut' \subseteq timedOut /\ asleep' \subseteq asleep \cup {t}
      BY DEF Handoff, HandoffWaits, HandoffWithdraws, HandoffDone, WaitUntilEmpty,
             Destroy, WaitForNum, Sleeps, Returns
    <2> QED
      BY <1>1, <2>1, <2>2, <2>3
  <1>3. t \notin timedOut
    BY <1>2 DEF DInv, TimeoutsEnd, TimedCalls, Handoffs
  <1>4. TimeoutsEnd'
    BY <1>1, <1>2, <1>3 DEF DInv, TimeoutsEnd
  <1>5. Dequeuers' = Dequeuers /\ t \notin Dequeuers
    BY <1>1, <1>2 DEF Dequeuers, In, DequeueCalls, Handoffs
  <1>6. /\ Awake \subseteq Awake'
        /\ asleep' \cap Dequeuers' \subseteq asleep \cap Dequeuers
    BY <1>2, <1>5 DEF Awake
  <1>7. ToTake' <= ToTake
    <2>1. UNCHANGED slots \/ (pipe_size' = pipe_size /\ last' = 1)
      BY DEF Handoff, HandoffWaits, HandoffWithdraws, HandoffDone, WaitUntilEmpty,
             Destroy, WaitForNum
    <2>2. pipe_size \in Nat
      BY <1>1 DEF IInv, TypeOK
    <2>3. UNCHANGED slots => ToTake' = ToTake
      BY DEF ToTake, Offered, slots
    <2>4. pipe_size' = pipe_size /\ last' = 1 => ToTake' = pipe_size
      BY <2>2 DEF ToTake, Offered
    <2>5. ToTake = pipe_size \/ ToTake = pipe_size + 1
      BY <2>2 DEF ToTake
    <2> QED
      BY <2>1, <2>2, <2>3, <2>4, <2>5
  <1> QED
    BY <1>4, <1>6, <1>7, EnoughStay

LEMMA FreeSuffices ==
  ASSUME DInv, IInv',
         Control \/ UNCHANGED vars
           \/ \E t \in Threads : Own(t) \/ TimesOut(t) \/ WakesUp(t)
  PROVE  TimeoutsEnd' /\ DequeuersSuffice'
  <1>1. op' = op /\ asleep' \subseteq asleep
        /\ \/ UNCHANGED timedOut
           \/ \E t \in asleep : /\ op[t] \in TimedCalls /\ asleep' = asleep \ {t}
                                /\ timedOut' = timedOut \cup {t}
    BY DEF Control, Empty, Enable, Disable, EnableEnqueue, DisableEnqueue, EnableDequeue,
           DisableDequeue, SetsFlags, Own, TimesOut, WakesUp, vars, callers
  <1>2. TimeoutsEnd'
    BY <1>1 DEF DInv, TimeoutsEnd
  <1>3. Dequeuers' = Dequeuers /\ Awake \subseteq Awake'
    BY <1>1 DEF Dequeuers, In, Awake
  <1>4. ToTake' <= ToTake
    <2>1. UNCHANGED slots \/ (pipe_size' = 0 /\ first' = first /\ last' = last)
      BY DEF Control, Empty, Enable, Disable, EnableEnqueue, DisableEnqueue,
             EnableDequeue, DisableDequeue, SetsFlags, Own, TimesOut, WakesUp, vars
    <2>2. pipe_size \in Nat
      BY DEF DInv, AInv, IInv, TypeOK
    <2>3. UNCHANGED slots => ToTake' = ToTake
      BY DEF ToTake, Offered, slots
    <2>4. ASSUME pipe_size' = 0, first' = first, last' = last
          PROVE  ToTake' = ToTake - pipe_size
      BY <2>2, <2>4 DEF ToTake, Offered
    <2>5. ToTake = pipe_size \/ ToTake = pipe_size + 1
      BY <2>2 DEF ToTake
    <2> QED
      BY <2>1, <2>2, <2>3, <2>4, <2>5
  <1> QED
    BY <1>1, <1>2, <1>3, <1>4, EnoughStay

\* An enqueue may wake one dequeue and no more: for any number of threads, whoever
\* is faster and whichever sleeper's time runs out, as long as a dequeue sleeps those
\* awake are enough for what there is to take.
THEOREM DequeuersSufficeCorrect == Spec => []DequeuersSuffice
  <1>1. Init => DInv
    <2> SUFFICES ASSUME Init PROVE DInv
      OBVIOUS
    <2>1. AInv
      BY InitIInv DEF Init, AInv, Destroying, Sleepers, CallsStand, In
    <2> QED
      BY <2>1 DEF Init, DInv, TimeoutsEnd, DequeuersSuffice
  <1>2. DInv /\ [Next]_vars => DInv'
    <2> SUFFICES ASSUME DInv, [Next]_vars PROVE DInv'
      OBVIOUS
    <2>1. AInv' /\ IInv'
      BY NextAInv, NextIInv DEF DInv, AInv
    <2>2. TimeoutsEnd' /\ DequeuersSuffice'
      BY <2>1, EnqueueSuffices, DequeueSuffices, OthersSuffice, FreeSuffices
         DEF Next, Step, Gone, Call
    <2> QED
      BY <2>1, <2>2 DEF DInv
  <1>3. DInv => DequeuersSuffice
    BY DEF DInv
  <1> QED
    BY <1>1, <1>2, <1>3, PTL DEF Spec
-----------------------------------------------------------------------------
(* The pipe is a first in first out queue.                                 *)

LEMMA IndexInjective ==
  ASSUME NEW M \in Nat \ {0}, NEW f \in 0 .. M - 1,
         NEW i \in 0 .. M - 1, NEW j \in 0 .. M - 1, i # j
  PROVE  (f + i) % M # (f + j) % M
  <1>1. ASSUME NEW k \in 0 .. M - 1
        PROVE  (f + k) % M = IF f + k < M THEN f + k ELSE f + k - M
    <2> DEFINE n == f + k
    <2>1. n \in Nat /\ n < 2 * M
      OBVIOUS
    <2> HIDE DEF n
    <2>2. n % M = IF n < M THEN n ELSE n - M
      BY <2>1, Wrap
    <2> QED
      BY <2>2 DEF n
  <1> QED
    BY <1>1

LEMMA QueueType ==
  ASSUME IInv
  PROVE  Queue \in Seq(Items) /\ Len(Queue) = pipe_size
  <1>1. pipe_size \in Nat /\ MaxSize \in Nat
    BY PipeAssumption DEF IInv, TypeOK
  <1>2. ASSUME NEW i \in 1 .. pipe_size
        PROVE  data[(first + i - 1) % MaxSize] \in Items
    <2>1. MaxSize > 0 /\ first \in Nat
      BY <1>1, <1>2 DEF IInv, TypeOK, Convention
    <2>2. (first + i - 1) % MaxSize \in 0 .. MaxSize - 1
      BY <1>1, <2>1
    <2> QED
      BY <1>1, <2>1, <2>2 DEF IInv, TypeOK, Slots
  <1> QED
    BY <1>1, <1>2 DEF Queue

LEMMA QueuePut ==
  ASSUME IInv, NEW t \in Threads, NEW call \in EnqueueCalls,
         EnqueuePuts(t, call), MaxSize > 0
  PROVE  Queue' = Append(Queue, item[t]) /\ Len(Queue) < MaxSize
  <1>1. MaxSize \in Nat \ {0} /\ pipe_size \in Nat /\ first \in Nat
    BY PipeAssumption DEF IInv, TypeOK
  <1>2. pipe_size < MaxSize
    BY <1>1 DEF EnqueuePuts, EnqueueMustWait, Full, CanHandOff, IInv, Convention
  <1>3. /\ first' = IF pipe_size = 0 THEN 0 ELSE first
        /\ pipe_size' = pipe_size + 1
        /\ data' = [data EXCEPT ![NextLast] = item[t]]
    BY DEF EnqueuePuts, Exchange
  <1>4. NextLast = (first' + pipe_size) % MaxSize
    BY <1>2, <1>3, PutIndex
  <1>5. NextLast \in Slots /\ data \in [Slots -> Items] /\ item[t] \in Items
    BY SlotsUsed DEF IInv, TypeOK
  <1>6. first' \in 0 .. MaxSize - 1
    BY <1>1, <1>3 DEF IInv, Convention
  <1>7. ASSUME NEW i \in 1 .. pipe_size
        PROVE  data'[(first' + i - 1) % MaxSize] = data[(first + i - 1) % MaxSize]
    <2>1. first' = first
      BY <1>3, <1>7
    <2>2. (first + i - 1) % MaxSize # NextLast
      <3>1. (first + (i - 1)) % MaxSize # (first + pipe_size) % MaxSize
        BY <1>1, <1>2, <1>6, <2>1, IndexInjective
      <3> QED
        BY <1>1, <1>4, <2>1, <3>1
    <2>3. (first + i - 1) % MaxSize \in Slots
      BY <1>1 DEF Slots
    <2> QED
      BY <1>3, <1>5, <2>1, <2>2, <2>3
  <1>8. data'[(first' + (pipe_size + 1) - 1) % MaxSize] = item[t]
    <2>1. first' + (pipe_size + 1) - 1 = first' + pipe_size
      BY <1>1, <1>6
    <2> QED
      BY <1>3, <1>4, <1>5, <2>1
  <1>9. Queue' = [i \in 1 .. pipe_size + 1 |->
                    data'[(first' + i - 1) % MaxSize]]
    BY <1>3 DEF Queue
  <1>10. Queue = [i \in 1 .. pipe_size |-> data[(first + i - 1) % MaxSize]]
    BY DEF Queue
  <1>11. Queue \in Seq(Items) /\ Len(Queue) = pipe_size
    BY QueueType
  <1>12. Append(Queue, item[t])
           = [i \in 1 .. pipe_size + 1 |->
                IF i = pipe_size + 1 THEN item[t] ELSE Queue[i]]
    BY <1>1, <1>5, <1>11
  <1>13. ASSUME NEW i \in 1 .. pipe_size + 1
         PROVE  data'[(first' + i - 1) % MaxSize]
                  = IF i = pipe_size + 1 THEN item[t] ELSE Queue[i]
    <2>1. CASE i = pipe_size + 1
      BY <1>8, <2>1
    <2>2. CASE i \in 1 .. pipe_size
      BY <1>1, <1>7, <1>10, <2>2
    <2> QED
      BY <1>1, <2>1, <2>2
  <1> QED
    BY <1>2, <1>9, <1>11, <1>12, <1>13

LEMMA QueueTake ==
  ASSUME IInv, NEW t \in Threads, NEW call \in DequeueCalls,
         DequeueTakes(t, call), MaxSize > 0
  PROVE  /\ Queue # << >> /\ Queue' = Tail(Queue)
         /\ item' = [item EXCEPT ![t] = Head(Queue)]
  <1>1. MaxSize \in Nat \ {0} /\ pipe_size \in Nat /\ first \in Nat
    BY PipeAssumption DEF IInv, TypeOK
  <1>2. pipe_size > 0 /\ first < MaxSize /\ pipe_size <= MaxSize
    BY <1>1 DEF DequeueTakes, DequeueMustWait, Offered, IInv, Convention
  <1>3. /\ first' = (first + 1) % MaxSize /\ pipe_size' = pipe_size - 1
        /\ data' = [data EXCEPT ![first] = item[t]]
        /\ item' = [item EXCEPT ![t] = data[first]]
    BY DEF DequeueTakes, Exchange
  <1>4. Queue \in Seq(Items) /\ Len(Queue) = pipe_size
    BY QueueType
  <1>5. Queue[1] = data[first]
    <2>1. (first + 1 - 1) % MaxSize = first
      BY <1>1, <1>2, Wrap
    <2> QED
      BY <1>1, <1>2, <2>1 DEF Queue
  <1>6. ASSUME NEW i \in 1 .. pipe_size - 1
        PROVE  data'[(first' + i - 1) % MaxSize] = Queue[i + 1]
    <2>1. (first' + i - 1) % MaxSize = (first + i) % MaxSize
      BY <1>2, <1>3, TakeIndex
    <2>2. (first + i) % MaxSize # (first + 0) % MaxSize
      BY <1>1, <1>2, IndexInjective
    <2>3. (first + 0) % MaxSize = first
      BY <1>1, <1>2, Wrap
    <2>4. (first + i) % MaxSize \in Slots
      BY <1>1 DEF Slots
    <2>5. data'[(first + i) % MaxSize] = data[(first + i) % MaxSize]
      BY <1>3, <2>2, <2>3, <2>4 DEF IInv, TypeOK
    <2>6. Queue[i + 1] = data[(first + (i + 1) - 1) % MaxSize]
      BY <1>1 DEF Queue
    <2>7. first + (i + 1) - 1 = first + i
      BY <1>1
    <2> QED
      BY <2>1, <2>5, <2>6, <2>7
  <1>7. Queue' = [i \in 1 .. pipe_size - 1 |-> data'[(first' + i - 1) % MaxSize]]
    BY <1>3 DEF Queue
  <1>8. /\ Tail(Queue) \in Seq(Items) /\ Len(Tail(Queue)) = pipe_size - 1
        /\ \A i \in 1 .. pipe_size - 1 : Tail(Queue)[i] = Queue[i + 1]
    BY <1>1, <1>2, <1>4, HeadTailProperties
  <1>9. Queue' = Tail(Queue)
    <2>1. ASSUME NEW i \in 1 .. pipe_size - 1
          PROVE  data'[(first' + i - 1) % MaxSize] \in Items
      <3>1. Queue[i + 1] \in Items
        BY <1>1, <1>4, ElementOfSeq
      <3> QED
        BY <1>6, <3>1
    <2>2. Queue' \in Seq(Items) /\ Len(Queue') = pipe_size - 1
      BY <1>1, <1>2, <1>7, <2>1
    <2>3. \A i \in 1 .. pipe_size - 1 : Queue'[i] = Tail(Queue)[i]
      BY <1>1, <1>2, <1>6, <1>7, <1>8
    <2> QED
      BY <1>8, <2>2, <2>3, SeqEqual
  <1>10. Queue # << >> /\ Head(Queue) = Queue[1]
    BY <1>1, <1>2, <1>4
  <1> QED
    BY <1>3, <1>5, <1>9, <1>10

LEMMA HeldType ==
  ASSUME IInv
  PROVE  /\ Held \in [Threads -> Items]
         /\ In(Handoffs) = {} => Held = item
  <1>1. 0 \in Slots
    BY PipeAssumption DEF Slots
  <1> QED
    BY <1>1 DEF Held, IInv, TypeOK, In

LEMMA NothingMoved ==
  ASSUME IInv, UNCHANGED <<slots, item>>, In(Handoffs)' = In(Handoffs)
  PROVE  UNCHANGED <<Queue, Held>>
  <1>1. \A t \in Threads : op'[t] \in Handoffs <=> op[t] \in Handoffs
    BY DEF In
  <1> QED
    BY <1>1 DEF Queue, Held, slots

\* For the queue, a step of a call that moves no item blocks or ends it.
LEMMA CallMovesOn ==
  ASSUME IInv, NEW t \in Threads, NEW call, op' = [op EXCEPT ![t] = call],
         UNCHANGED <<Queue, Held>>
  PROVE  [Fifo!Next]_<<Queue, Held, Inside>>
  <1>1. CASE call = "none"
    <2>1. Inside' = Inside \ {t}
      BY <1>1 DEF Inside, IInv, TypeOK
    <2> QED
      BY <2>1 DEF Fifo!Next, Fifo!Ends
  <1>2. CASE call # "none"
    <2>1. Inside' = Inside \cup {t}
      BY <1>2 DEF Inside, IInv, TypeOK
    <2> QED
      BY <2>1 DEF Fifo!Next, Fifo!Blocks
  <1> QED
    BY <1>1, <1>2

\* A call that takes effect and returns.
LEMMA CallReturned ==
  ASSUME IInv, NEW t \in Threads, op' = [op EXCEPT ![t] = "none"]
  PROVE  Inside' = Inside \ {t}
  BY DEF Inside, IInv, TypeOK

LEMMA NoRoomNoQueue ==
  ASSUME IInv, MaxSize = 0
  PROVE  Queue = << >>
  BY DEF Queue, IInv, TypeOK, Convention

\* Only an enqueue without room and the end of its wait change who hands over.
LEMMA HandoffsChange ==
  ASSUME IInv, NEW t \in Threads, op[t] \notin Handoffs,
         NEW call \in (Calls \ Handoffs) \cup {"none"},
         op' = [op EXCEPT ![t] = call]
  PROVE  In(Handoffs)' = In(Handoffs)
  <1>1. call \notin Handoffs
    BY DEF Handoffs
  <1> QED
    BY <1>1 DEF In, IInv, TypeOK

LEMMA EnqueueIsFifo ==
  ASSUME IInv, IInv', NEW t \in Threads, NEW call \in EnqueueCalls,
         Enqueue(t, call)
  PROVE  [Fifo!Next]_<<Queue, Held, Inside>>
  <1>1. op[t] \notin Handoffs /\ call \in (Calls \ Handoffs) \cup {"none"}
    BY DEF Enqueue, Runs, Enters, Resumes, EnqueueCalls, Handoffs, Calls
  <1>2. CASE EnqueueWaits(t, call) \/ EnqueueFails(t, call)
    <2>1. /\ UNCHANGED <<slots, item>>
          /\ op' = [op EXCEPT ![t] = call] \/ op' = [op EXCEPT ![t] = "none"]
      BY <1>2 DEF EnqueueWaits, EnqueueFails, Sleeps, Returns
    <2>2. In(Handoffs)' = In(Handoffs)
      BY <1>1, <2>1, HandoffsChange
    <2>3. UNCHANGED <<Queue, Held>>
      BY <2>1, <2>2, NothingMoved
    <2> QED
      BY <2>1, <2>3, CallMovesOn
  <1>3. CASE EnqueuePuts(t, call) /\ MaxSize > 0
    <2>1. Queue' = Append(Queue, item[t]) /\ Len(Queue) < MaxSize
      BY <1>3, QueuePut
    <2>2. In(Handoffs) = {} /\ In(Handoffs)' = {}
      BY <1>3, PipeAssumption DEF IInv, Convention
    <2>3. Held = item /\ Held' = item'
      <3>1. In(Handoffs)' = {}
        BY <2>2
      <3>2. Held' = item'
        BY <3>1 DEF Held, In, IInv, TypeOK
      <3> QED
        BY <2>2, <3>2, HeldType
    <2>4. item' = [item EXCEPT ![t] = data[NextLast]] /\ data[NextLast] \in Items
      BY <1>3, SlotsUsed DEF EnqueuePuts, Exchange, IInv, TypeOK
    <2>6. Inside' = Inside \ {t}
      <3>1. op' = [op EXCEPT ![t] = "none"]
        BY <1>3 DEF EnqueuePuts, Returns
      <3> QED
        BY <3>1, CallReturned
    <2>5. Fifo!Put(t)
      BY <2>1, <2>3, <2>4, <2>6 DEF Fifo!Put
    <2> QED
      BY <2>5 DEF Fifo!Next
  <1>4. CASE EnqueuePuts(t, call) /\ MaxSize = 0
    <2>1. Queue = << >> /\ Queue' = << >>
      <3>1. Queue' = << >>
        BY <1>4 DEF Queue, IInv, TypeOK, Convention
      <3> QED
        BY <1>4, <3>1, NoRoomNoQueue
    <2>2. NextLast = 0 /\ 0 \in Slots
      BY <1>4, SlotsUsed
    <2>3. last' = 0 /\ data'[0] = item[t] /\ item' = [item EXCEPT ![t] = data[0]]
      BY <1>4, <2>2 DEF EnqueuePuts, Exchange, IInv, TypeOK
    <2>4. op' = [op EXCEPT ![t] = HandoffOf(call)] /\ HandoffOf(call) \in Handoffs
      BY <1>4 DEF EnqueuePuts, Sleeps, HandoffOf, Handoffs
    <2>5. In(Handoffs) = {}
      BY <1>4, SlotsUsed
         DEF EnqueuePuts, EnqueueMustWait, Full, CanHandOff, IInv, Convention
    <2>6. Held = item
      BY <2>5, HeldType
    <2>7. ASSUME NEW r \in Threads PROVE Held'[r] = item[r]
      BY <2>3, <2>4, <2>5, <2>7 DEF Held, In, IInv, TypeOK
    <2>8. Held' = [r \in Threads |-> item[r]]
      BY <2>7 DEF Held
    <2>9. item = [r \in Threads |-> item[r]]
      BY DEF IInv, TypeOK
    <2>10. UNCHANGED <<Queue, Held>>
      BY <2>1, <2>6, <2>8, <2>9
    <2> QED
      BY <2>4, <2>10, CallMovesOn
  <1>5. MaxSize > 0 \/ MaxSize = 0
    BY PipeAssumption
  <1> QED
    BY <1>2, <1>3, <1>4, <1>5 DEF Enqueue

LEMMA HandoffIsFifo ==
  ASSUME IInv, IInv', NEW t \in Threads, Handoff(t)
  PROVE  [Fifo!Next]_<<Queue, Held, Inside>>
  <1>1. t \in In(Handoffs) /\ op[t] \in Handoffs
    BY DEF Handoff, Resumes, In
  <1>2. MaxSize = 0 /\ In(Handoffs) = {t}
    BY <1>1 DEF IInv, Convention
  <1>3. Queue = << >> /\ Queue' = << >>
    <2>1. Queue' = << >>
      BY <1>2 DEF Queue, IInv, TypeOK, Convention
    <2> QED
      BY <1>2, <2>1, NoRoomNoQueue
  <1>4. CASE HandoffWaits(t)
    <2>1. op' = op
      BY <1>4 DEF HandoffWaits, Sleeps, IInv, TypeOK
    <2> QED
      BY <1>4, <2>1, NothingMoved DEF HandoffWaits, In, Inside
  <1>5. CASE HandoffWithdraws(t) \/ HandoffDone(t)
    <2>1. op' = [op EXCEPT ![t] = "none"] /\ last' = 1
      BY <1>5 DEF HandoffWithdraws, HandoffDone, Returns
    <2>2. item' = [item EXCEPT ![t] = Held[t]]
      BY <1>1, <1>5 DEF HandoffWithdraws, HandoffDone, Exchange, Held, IInv, TypeOK
    <2>3. ASSUME NEW r \in Threads PROVE Held'[r] = Held[r]
      BY <1>2, <2>1, <2>2, <2>3 DEF Held, In, IInv, TypeOK
    <2>4. UNCHANGED <<Queue, Held>>
      BY <1>3, <2>3 DEF Held
    <2> QED
      BY <2>1, <2>4, CallMovesOn
  <1> QED
    BY <1>4, <1>5 DEF Handoff

LEMMA DequeueIsFifo ==
  ASSUME IInv, IInv', NEW t \in Threads, NEW call \in DequeueCalls,
         Dequeue(t, call)
  PROVE  [Fifo!Next]_<<Queue, Held, Inside>>
  <1>1. op[t] \notin Handoffs /\ call \in (Calls \ Handoffs) \cup {"none"}
    BY DEF Dequeue, Runs, Enters, Resumes, DequeueCalls, Handoffs, Calls
  <1>2. /\ op' = [op EXCEPT ![t] = call] \/ op' = [op EXCEPT ![t] = "none"]
        /\ DequeueTakes(t, call) \/ UNCHANGED <<slots, item>>
    BY DEF Dequeue, DequeueWaits, DequeueFails, DequeueTakes, Sleeps, Returns
  <1>3. In(Handoffs)' = In(Handoffs)
    BY <1>1, <1>2, HandoffsChange
  <1>4. CASE UNCHANGED <<slots, item>>
    <2>1. UNCHANGED <<Queue, Held>>
      BY <1>3, <1>4, NothingMoved
    <2> QED
      BY <1>2, <2>1, CallMovesOn
  <1>5. CASE DequeueTakes(t, call) /\ MaxSize > 0
    <2>1. /\ Queue # << >> /\ Queue' = Tail(Queue)
          /\ item' = [item EXCEPT ![t] = Head(Queue)]
      BY <1>5, QueueTake
    <2>2. In(Handoffs) = {}
      BY <1>5, PipeAssumption DEF IInv, Convention
    <2>3. Held = item /\ Held' = item'
      <3>1. In(Handoffs)' = {}
        BY <1>3, <2>2
      <3>2. Held' = item'
        BY <3>1 DEF Held, In, IInv, TypeOK
      <3> QED
        BY <2>2, <3>2, HeldType
    <2>4. Inside' = Inside \ {t}
      BY <1>5, CallReturned DEF DequeueTakes, Returns
    <2>5. Fifo!Take(t)
      BY <2>1, <2>3, <2>4 DEF Fifo!Take
    <2> QED
      BY <2>5 DEF Fifo!Next
  <1>6. CASE DequeueTakes(t, call) /\ MaxSize = 0
    <2>1. Queue = << >> /\ Queue' = << >>
      <3>1. Queue' = << >>
        BY <1>6 DEF Queue, IInv, TypeOK, Convention
      <3> QED
        BY <1>6, <3>1, NoRoomNoQueue
    <2>2. Offered /\ first = 0 /\ last = 0
      BY <1>6, SlotsUsed DEF DequeueTakes, DequeueMustWait, Offered
    <2>3. PICK s \in Threads : In(Handoffs) = {s} /\ op[s] \in Handoffs
      <3>1. PICK s \in Threads : op[s] \in Handoffs
        BY <1>6, <2>2 DEF IInv, Convention, In
      <3> QED
        BY <1>6, <3>1 DEF IInv, Convention, In
    <2>4. s # t
      BY <1>1, <2>3
    <2>5. /\ item' = [item EXCEPT ![t] = data[0]] /\ last' = 1
          /\ \A r \in Threads : op'[r] \in Handoffs => r = s
      BY <1>3, <1>6, <2>2, <2>3 DEF DequeueTakes, Exchange, In
    <2>6. Held[s] = data[0] /\ \A r \in Threads \ {s} : Held[r] = item[r]
      BY <2>2, <2>3 DEF Held, In
    <2>7. Held' = [r \in Threads |-> item'[r]]
      BY <2>5 DEF Held
    <2>8. Held' = [Held EXCEPT ![t] = Held[s], ![s] = item[s]]
      BY <2>4, <2>5, <2>6, <2>7, HeldType DEF IInv, TypeOK
    <2>9. item[s] \in Items
      BY DEF IInv, TypeOK
    <2>10. Inside' = Inside \ {t}
      BY <1>6, CallReturned DEF DequeueTakes, Returns
    <2>11. s \in Inside
      BY <2>3 DEF Inside, Handoffs
    <2>12. Fifo!Pass(s, t)
      BY <1>6, <2>1, <2>4, <2>8, <2>9, <2>10, <2>11 DEF Fifo!Pass
    <2> QED
      BY <2>12 DEF Fifo!Next
  <1>7. MaxSize > 0 \/ MaxSize = 0
    BY PipeAssumption
  <1> QED
    BY <1>2, <1>4, <1>5, <1>6, <1>7

\* Every other step leaves the items where they are, but Own and empty().
LEMMA OthersAreFifo ==
  ASSUME IInv, NEW t \in Threads,
         Own(t) \/ WaitUntilEmpty(t) \/ (\E n \in Nums \cup {num[t]} : WaitForNum(t, n))
           \/ Destroy(t) \/ TimesOut(t) \/ WakesUp(t)
  PROVE  [Fifo!Next]_<<Queue, Held, Inside>>
  <1>1. CASE Own(t)
    <2>1. PICK v \in Items : item' = [item EXCEPT ![t] = v]
      BY <1>1 DEF Own
    <2>2. op' = op /\ UNCHANGED slots /\ op[t] \notin Handoffs
      BY <1>1 DEF Own, Handoffs
    <2>3. Held' = [Held EXCEPT ![t] = v]
      BY <2>1, <2>2 DEF Held, slots, IInv, TypeOK
    <2>4. Queue' = Queue
      BY <2>2 DEF Queue, slots
    <2>6. t \notin Inside /\ Inside' = Inside
      BY <1>1, <2>2 DEF Own, Inside
    <2>5. Fifo!Own(t)
      BY <2>3, <2>4, <2>6 DEF Fifo!Own
    <2> QED
      BY <2>5 DEF Fifo!Next
  <1>2. CASE TimesOut(t) \/ WakesUp(t)
    BY <1>2, NothingMoved DEF TimesOut, WakesUp, In, Inside
  <1>3. CASE WaitUntilEmpty(t) \/ (\E n \in Nums \cup {num[t]} : WaitForNum(t, n))
               \/ Destroy(t)
    <2>1. /\ UNCHANGED <<slots, item>>
          /\ op[t] \in {"none", "wait_until_empty", "wait_for_num", "destroy"}
          /\ \E call \in {"none", "wait_until_empty", "wait_for_num", "destroy"} :
               op' = [op EXCEPT ![t] = call]
      BY <1>3 DEF WaitUntilEmpty, WaitForNum, Destroy, Sleeps, Returns, Runs,
                  Enters, Resumes
    <2>2. PICK call \in {"none", "wait_until_empty", "wait_for_num", "destroy"} :
            op' = [op EXCEPT ![t] = call]
      BY <2>1
    <2>3. op[t] \notin Handoffs /\ call \in (Calls \ Handoffs) \cup {"none"}
      BY <2>1 DEF Handoffs, Calls
    <2>4. In(Handoffs)' = In(Handoffs)
      BY <2>2, <2>3, HandoffsChange
    <2>5. UNCHANGED <<Queue, Held>>
      BY <2>1, <2>4, NothingMoved
    <2> QED
      BY <2>2, <2>5, CallMovesOn
  <1> QED
    BY <1>1, <1>2, <1>3

LEMMA ControlIsFifo ==
  ASSUME IInv, Control
  PROVE  [Fifo!Next]_<<Queue, Held, Inside>>
  <1>1. CASE Empty
    <2>1. Queue' = << >>
      BY <1>1 DEF Empty, Queue
    <2>2. Held' = Held /\ Inside' = Inside
      BY <1>1 DEF Empty, Held, Inside
    <2> QED
      BY <2>1, <2>2 DEF Fifo!Next, Fifo!Clear
  <1>2. CASE ~Empty
    <2>1. UNCHANGED <<slots, item, op>>
      BY <1>2 DEF Control, Enable, Disable, EnableEnqueue, DisableEnqueue,
                  EnableDequeue, DisableDequeue, SetsFlags
    <2> QED
      BY <2>1, NothingMoved DEF In, Inside
  <1> QED
    BY <1>1, <1>2

\* Under any number of threads, of any size and with none, the buffer, its two
\* indices and the hand-over through one slot implement a first in first out queue.
THEOREM FifoCorrect == Spec => ImplementsFifo
  <1>1. Init => Fifo!Init
    <2> SUFFICES ASSUME Init PROVE Fifo!Init
      OBVIOUS
    <2>1. IInv
      BY InitIInv
    <2>2. Queue = << >>
      BY DEF Init, Queue
    <2>3. In(Handoffs) = {}
      BY DEF Init, In, Handoffs
    <2> QED
      BY <2>1, <2>2, <2>3, HeldType DEF Init, Fifo!Init, Inside
  <1>2. IInv /\ IInv' /\ [Next]_vars => [Fifo!Next]_<<Queue, Held, Inside>>
    <2> SUFFICES ASSUME IInv, IInv', [Next]_vars
                 PROVE  [Fifo!Next]_<<Queue, Held, Inside>>
      OBVIOUS
    <2>1. CASE UNCHANGED vars
      BY <2>1, NothingMoved DEF vars, slots, callers, In, Inside
    <2>2. CASE Control
      BY <2>2, ControlIsFifo
    <2>3. ASSUME NEW t \in Threads, NEW call \in EnqueueCalls, Enqueue(t, call)
          PROVE  [Fifo!Next]_<<Queue, Held, Inside>>
      BY <2>3, EnqueueIsFifo
    <2>4. ASSUME NEW t \in Threads, NEW call \in DequeueCalls, Dequeue(t, call)
          PROVE  [Fifo!Next]_<<Queue, Held, Inside>>
      BY <2>4, DequeueIsFifo
    <2>5. ASSUME NEW t \in Threads, Handoff(t)
          PROVE  [Fifo!Next]_<<Queue, Held, Inside>>
      BY <2>5, HandoffIsFifo
    <2>6. ASSUME NEW t \in Threads,
                 Own(t) \/ WaitUntilEmpty(t)
                   \/ (\E n \in Nums \cup {num[t]} : WaitForNum(t, n))
                   \/ Destroy(t) \/ TimesOut(t) \/ WakesUp(t)
          PROVE  [Fifo!Next]_<<Queue, Held, Inside>>
      BY <2>6, OthersAreFifo
    <2> QED
      BY <2>1, <2>2, <2>3, <2>4, <2>5, <2>6 DEF Next, Step, Gone, Call
  <1>3. Init /\ [][Next]_vars => []IInv
    BY InitIInv, NextIInv, PTL
  <1> QED
    BY <1>1, <1>2, <1>3, PTL DEF Spec, ImplementsFifo, Fifo!Spec
=============================================================================
