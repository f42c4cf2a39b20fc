------------------------ MODULE ReadWriteMutexProofs ------------------------
(***************************************************************************)
(* Proofs about dlib's read_write_mutex, for any number of clients and     *)
(* locks.  There is one writer at most however the mutex is used; that no  *)
(* reader is beside it holds if unlock_readonly() is called only to give   *)
(* back a lock, and so does that the clients never wait for one another    *)
(* only.                                                                   *)
(***************************************************************************)
EXTENDS ReadWriteMutex, FiniteSetTheorems, TLAPS

\* The one who collects, and what a write lock means for the counter.
OneCollector ==
  /\ \A c, d \in Clients : op[c] = "collect" /\ op[d] = "collect" => c = d
  /\ write_lock_in_progress <=> \E c \in Clients : op[c] = "collect"

WriterTakesAll ==
  /\ write_lock_active <=> writers # {}
  /\ write_lock_active =>
       /\ available_locks = 0
       /\ \A c \in Clients : op[c] = "collect" => locks_obtained[c] = 0

IInv == TypeOK /\ OneCollector /\ WriterTakesAll /\ OneWriter /\ NobodyOversleeps

LEMMA InitIInv == ASSUME Init PROVE IInv
  <1>1. TypeOK
    BY MutexAssumption DEF Init, TypeOK
  <1>2. OneCollector /\ WriterTakesAll /\ OneWriter /\ NobodyOversleeps
    BY DEF Init, OneCollector, WriterTakesAll, OneWriter, NobodyOversleeps
  <1> QED
    BY <1>1, <1>2 DEF IInv

LEMMA CallsOf ==
  ASSUME TypeOK, NEW c \in Clients, Enters(c) \/ (\E call : Resumes(c, call))
  PROVE  calls' \in [Clients -> Nat] /\ extra' = extra
  BY DEF TypeOK, Enters, Resumes

\* A step of lock() that collects: n locks, counting those it had.
LEMMA CollectsKeeps ==
  ASSUME IInv, NEW c \in Clients, NEW n \in Nat, Collects(c, n),
         calls' \in [Clients -> Nat], extra' = extra,
         \/ op[c] # "collect" /\ ~write_lock_in_progress /\ n = available_locks
         \/ op[c] = "collect" /\ n = locks_obtained[c] + available_locks
  PROVE  IInv'
  <1>1. \A d \in Clients : op[d] = "collect" => d = c
    BY DEF IInv, OneCollector
  <1>2. write_lock_active => n = 0
    BY DEF IInv, WriterTakesAll, TypeOK
  <1>3. CASE AllObtained(n)
    <2>1. n = max_locks /\ ~write_lock_active /\ writers = {}
      BY <1>2, <1>3, MutexAssumption DEF AllObtained, IInv, WriterTakesAll
    <2>2. /\ op' = [op EXCEPT ![c] = "none"] /\ asleep' = asleep
          /\ writers' = {c} /\ write_lock_active' = TRUE
          /\ write_lock_in_progress' = FALSE /\ available_locks' = 0
          /\ locks_obtained' = [locks_obtained EXCEPT ![c] = 0]
          /\ readers' = readers
      BY <1>3, <2>1 DEF Collects, NoneRemain, Returns
    <2>3. TypeOK'
      BY <2>2 DEF IInv, TypeOK
    <2>4. OneCollector' /\ WriterTakesAll' /\ OneWriter'
      BY <1>1, <2>2 DEF IInv, TypeOK, OneCollector, WriterTakesAll, OneWriter
    <2>5. NobodyOversleeps'
      BY <2>2 DEF IInv, TypeOK, NobodyOversleeps, WaitStands
    <2> QED
      BY <2>3, <2>4, <2>5 DEF IInv
  <1>4. CASE ~AllObtained(n)
    <2>1. /\ op' = [op EXCEPT ![c] = "collect"] /\ asleep' = asleep \cup {c}
          /\ writers' = writers /\ write_lock_active' = write_lock_active
          /\ write_lock_in_progress' = TRUE /\ available_locks' = 0
          /\ locks_obtained' = [locks_obtained EXCEPT ![c] = n]
          /\ readers' = readers
      BY <1>4 DEF Collects, NoneRemain, Sleeps
    <2>2. TypeOK'
      BY <2>1 DEF IInv, TypeOK, Calls
    <2>3. OneCollector'
      BY <1>1, <2>1 DEF IInv, TypeOK, OneCollector
    <2>4. WriterTakesAll' /\ OneWriter'
      BY <1>1, <1>2, <2>1 DEF IInv, TypeOK, WriterTakesAll, OneWriter
    <2>5. NobodyOversleeps'
      BY <2>1 DEF IInv, TypeOK, NobodyOversleeps, WaitStands
    <2> QED
      BY <2>2, <2>3, <2>4, <2>5 DEF IInv
  <1> QED
    BY <1>3, <1>4

LEMMA LockKeeps ==
  ASSUME IInv, NEW c \in Clients, lock(c)
  PROVE  IInv'
  <1>1. calls' \in [Clients -> Nat] /\ extra' = extra
    BY CallsOf DEF lock, IInv
  <1>2. CASE AnotherCollects /\ Sleeps(c, "lock")
               /\ UNCHANGED <<locks, locks_obtained, readers, writers>>
               /\ (Enters(c) \/ Resumes(c, "lock"))
    <2>1. op[c] # "collect" /\ op' = [op EXCEPT ![c] = "lock"]
          /\ asleep' = asleep \cup {c} /\ write_lock_in_progress
      BY <1>2 DEF Sleeps, Enters, Resumes, AnotherCollects
    <2>2. TypeOK'
      BY <1>1, <1>2, <2>1 DEF IInv, TypeOK, Calls, locks
    <2>3. OneCollector' /\ WriterTakesAll' /\ OneWriter'
      BY <1>2, <2>1 DEF IInv, TypeOK, OneCollector, WriterTakesAll, OneWriter, locks
    <2>4. NobodyOversleeps'
      BY <1>2, <2>1 DEF IInv, TypeOK, NobodyOversleeps, WaitStands, locks
    <2> QED
      BY <2>2, <2>3, <2>4 DEF IInv
  <1>3. CASE (Enters(c) \/ Resumes(c, "lock")) /\ ~AnotherCollects
               /\ Collects(c, available_locks)
    BY <1>1, <1>3, CollectsKeeps DEF Enters, Resumes, AnotherCollects, IInv, TypeOK
  <1>4. CASE Resumes(c, "collect")
               /\ Collects(c, locks_obtained[c] + available_locks)
    <2>1. locks_obtained[c] + available_locks \in Nat
      BY DEF IInv, TypeOK
    <2> QED
      BY <1>1, <1>4, <2>1, CollectsKeeps DEF Resumes
  <1> QED
    BY <1>2, <1>3, <1>4 DEF lock

LEMMA UnlockKeeps ==
  ASSUME IInv, NEW c \in Clients, unlock(c)
  PROVE  IInv'
  <1>1. write_lock_active /\ writers = {c}
    BY DEF unlock, IInv, WriterTakesAll, OneWriter, TypeOK
  <1>2. /\ available_locks' = max_locks /\ write_lock_active' = FALSE
        /\ asleep' = {} /\ writers' = {}
        /\ UNCHANGED <<write_lock_in_progress, op, locks_obtained, readers, calls,
                       extra>>
    BY <1>1 DEF unlock
  <1> QED
    BY <1>2, MutexAssumption
       DEF IInv, TypeOK, OneCollector, WriterTakesAll, OneWriter, NobodyOversleeps

LEMMA LockReadonlyKeeps ==
  ASSUME IInv, NEW c \in Clients, lock_readonly(c)
  PROVE  IInv'
  <1>1. calls' \in [Clients -> Nat] /\ extra' = extra
    BY CallsOf DEF lock_readonly, IInv
  <1>2. op[c] # "collect"
    BY DEF lock_readonly, Enters, Resumes
  <1>3. UNCHANGED <<write_lock_in_progress, write_lock_active, locks_obtained,
                    writers>>
    BY DEF lock_readonly
  <1>4. CASE available_locks = 0
    <2>1. /\ op' = [op EXCEPT ![c] = "lock_readonly"] /\ asleep' = asleep \cup {c}
          /\ available_locks' = available_locks /\ readers' = readers
      BY <1>4 DEF lock_readonly, Sleeps, NoneLeft
    <2>2. TypeOK'
      BY <1>1, <1>3, <2>1 DEF IInv, TypeOK, Calls
    <2>3. OneCollector' /\ WriterTakesAll' /\ OneWriter'
      BY <1>2, <1>3, <2>1 DEF IInv, TypeOK, OneCollector, WriterTakesAll, OneWriter
    <2>4. NobodyOversleeps'
      BY <1>3, <1>4, <2>1 DEF IInv, TypeOK, NobodyOversleeps, WaitStands
    <2> QED
      BY <2>2, <2>3, <2>4 DEF IInv
  <1>5. CASE available_locks # 0
    <2>1. /\ op' = [op EXCEPT ![c] = "none"] /\ asleep' = asleep
          /\ available_locks' = available_locks - 1 /\ readers' = readers \cup {c}
      BY <1>5 DEF lock_readonly, Returns, NoneLeft, OneTaken
    <2>2. available_locks - 1 \in Nat /\ ~write_lock_active
      BY <1>5 DEF IInv, TypeOK, WriterTakesAll
    <2>3. TypeOK'
      BY <1>1, <1>3, <2>1, <2>2 DEF IInv, TypeOK
    <2>4. OneCollector' /\ WriterTakesAll' /\ OneWriter'
      BY <1>2, <1>3, <2>1, <2>2
         DEF IInv, TypeOK, OneCollector, WriterTakesAll, OneWriter
    <2>5. NobodyOversleeps'
      BY <1>3, <1>5, <2>1 DEF IInv, TypeOK, NobodyOversleeps, WaitStands
    <2> QED
      BY <2>3, <2>4, <2>5 DEF IInv
  <1> QED
    BY <1>4, <1>5

\* Giving a readonly lock back, whether there is one or not.
LEMMA FreeReadonlyKeeps ==
  ASSUME IInv, FreeReadonly, readers' \subseteq readers, extra' \in Nat,
         UNCHANGED <<write_lock_in_progress, write_lock_active, op, locks_obtained,
                     writers, calls>>
  PROVE  IInv'
  <1>1. CASE LockToFree
    <2>1. available_locks' = available_locks + 1 /\ ~write_lock_active
      BY <1>1 DEF FreeReadonly, LockToFree
    <2>2. asleep' \subseteq asleep /\ (asleep' = {} \/ available_locks # 0)
      BY <1>1 DEF FreeReadonly, SomebodyListens, IInv, TypeOK
    <2>3. TypeOK' /\ OneCollector' /\ WriterTakesAll' /\ OneWriter'
      BY <2>1, <2>2 DEF IInv, TypeOK, OneCollector, WriterTakesAll, OneWriter
    <2>4. NobodyOversleeps'
      BY <2>1, <2>2 DEF IInv, TypeOK, NobodyOversleeps, WaitStands
    <2> QED
      BY <2>3, <2>4 DEF IInv
  <1>2. CASE ~LockToFree
    BY <1>2 DEF FreeReadonly, IInv, TypeOK, OneCollector, WriterTakesAll, OneWriter,
                NobodyOversleeps, WaitStands
  <1> QED
    BY <1>1, <1>2

LEMMA NextIInv == ASSUME IInv, [NextUnpaired]_vars PROVE IInv'
  <1>1. ASSUME NEW c \in Clients, lock(c) \/ lock_readonly(c) \/ unlock(c)
        PROVE  IInv'
    BY <1>1, LockKeeps, LockReadonlyKeeps, UnlockKeeps
  <1>2. ASSUME NEW c \in Clients, unlock_readonly(c) PROVE IInv'
    <2>1. extra' \in Nat
      BY <1>2 DEF unlock_readonly, IInv, TypeOK
    <2> QED
      BY <1>2, <2>1, FreeReadonlyKeeps DEF unlock_readonly
  <1>3. CASE unlock_without_lock
    <2>1. extra' \in Nat
      BY <1>3 DEF unlock_without_lock, IInv, TypeOK
    <2> QED
      BY <1>3, <2>1, FreeReadonlyKeeps DEF unlock_without_lock
  <1>4. ASSUME NEW c \in Clients, WakesUp(c) PROVE IInv'
    BY <1>4 DEF WakesUp, IInv, TypeOK, OneCollector, WriterTakesAll, OneWriter,
                NobodyOversleeps, WaitStands, locks
  <1>5. CASE Done \/ UNCHANGED vars
    BY <1>5 DEF Done, vars, locks, IInv, TypeOK, OneCollector, WriterTakesAll,
                OneWriter, NobodyOversleeps, WaitStands
  <1> QED
    BY <1>1, <1>2, <1>3, <1>4, <1>5 DEF NextUnpaired, Next, Unlocks

LEMMA StepIInv == ASSUME IInv, [Next]_vars PROVE IInv'
  BY NextIInv DEF NextUnpaired

\* There is one writer at most, for any number of clients and locks.
THEOREM OneWriterCorrect == Spec => []OneWriter
  <1>1. Init => IInv
    BY InitIInv
  <1>2. IInv /\ [Next]_vars => IInv'
    BY StepIInv
  <1>3. IInv => OneWriter
    BY DEF IInv
  <1> QED
    BY <1>1, <1>2, <1>3, PTL DEF Spec

\* No client sleeps on when its turn has come or there is a lock for it.
THEOREM NobodyOversleepsCorrect == Spec => []NobodyOversleeps
  <1>1. Init => IInv
    BY InitIInv
  <1>2. IInv /\ [Next]_vars => IInv'
    BY StepIInv
  <1>3. IInv => NobodyOversleeps
    BY DEF IInv
  <1> QED
    BY <1>1, <1>2, <1>3, PTL DEF Spec

\* Both hold even if unlock_readonly() is called without a readonly lock.
THEOREM UnpairedCorrect == SpecUnpaired => [](OneWriter /\ NobodyOversleeps)
  <1>1. Init => IInv
    BY InitIInv
  <1>2. IInv /\ [NextUnpaired]_vars => IInv'
    BY NextIInv
  <1>3. IInv => OneWriter /\ NobodyOversleeps
    BY DEF IInv
  <1> QED
    BY <1>1, <1>2, <1>3, PTL DEF SpecUnpaired
-----------------------------------------------------------------------------
(* The accounting of the locks, which needs that only locks that are there *)
(* are given back.                                                         *)

\* A lock is available, with a reader, with the collector, or all are with a writer.
Accounts ==
  /\ IsFiniteSet(readers)
  /\ \A c \in Clients : op[c] # "none" => c \notin readers
  /\ write_lock_active => readers = {}
  /\ ~write_lock_active =>
       /\ ~write_lock_in_progress =>
            available_locks + Cardinality(readers) = max_locks
       /\ \A c \in Clients : op[c] = "collect" =>
            locks_obtained[c] + available_locks + Cardinality(readers) = max_locks

LEMMA InitAccounts == ASSUME Init PROVE Accounts
  BY MutexAssumption, FS_EmptySet DEF Init, Accounts

LEMMA CollectsAccounts ==
  ASSUME IInv, Accounts, NEW c \in Clients, NEW n \in Nat, Collects(c, n),
         extra' = extra, c \notin readers,
         \/ op[c] # "collect" /\ ~write_lock_in_progress /\ n = available_locks
         \/ op[c] = "collect" /\ n = locks_obtained[c] + available_locks
  PROVE  Accounts'
  <1>1. \A d \in Clients : op[d] = "collect" => d = c
    BY DEF IInv, OneCollector
  <1>2. Cardinality(readers) \in Nat /\ (Cardinality(readers) = 0 <=> readers = {})
    BY FS_CardinalityType, FS_EmptySet DEF Accounts
  <1>3. write_lock_active => n = 0
    BY DEF IInv, WriterTakesAll, TypeOK
  <1>4. ~write_lock_active => n + Cardinality(readers) = max_locks
    BY <1>2 DEF Accounts, IInv, TypeOK
  <1>5. /\ readers' = readers /\ available_locks' = 0
        /\ locks_obtained' = [locks_obtained EXCEPT ![c] = IF AllObtained(n) THEN 0
                                                           ELSE n]
        /\ write_lock_in_progress' = ~AllObtained(n)
    BY DEF Collects, NoneRemain
  <1>6. CASE AllObtained(n)
    <2>1. readers = {}
      BY <1>2, <1>3, <1>4, <1>6, MutexAssumption DEF AllObtained
    <2>2. write_lock_active' = TRUE
      BY <1>6 DEF Collects
    <2> QED
      BY <1>5, <2>1, <2>2 DEF Accounts
  <1>7. CASE ~AllObtained(n)
    <2>1. write_lock_active' = write_lock_active /\ op' = [op EXCEPT ![c] = "collect"]
      BY <1>7 DEF Collects, Sleeps
    <2>2. \A d \in Clients : op'[d] = "collect" <=> d = c
      BY <1>1, <2>1 DEF IInv, TypeOK
    <2>3. locks_obtained'[c] = n
      BY <1>5, <1>7 DEF IInv, TypeOK
    <2>4. \A d \in Clients : op'[d] # "none" => d \notin readers'
      BY <1>5, <2>1 DEF Accounts, IInv, TypeOK
    <2>5. ~write_lock_active' =>
            \A d \in Clients : op'[d] = "collect" =>
              locks_obtained'[d] + available_locks' + Cardinality(readers')
                = max_locks
      BY <1>2, <1>4, <1>5, <2>1, <2>2, <2>3
    <2> QED
      BY <1>5, <1>7, <2>1, <2>4, <2>5 DEF Accounts
  <1> QED
    BY <1>6, <1>7

LEMMA LockAccounts ==
  ASSUME IInv, Accounts, NEW c \in Clients, lock(c)
  PROVE  Accounts'
  <1>1. c \notin readers /\ extra' = extra
    BY DEF lock, Enters, Resumes, Accounts
  <1>2. CASE Sleeps(c, "lock") /\ UNCHANGED <<locks, locks_obtained, readers, writers>>
               /\ (Enters(c) \/ Resumes(c, "lock"))
    <2>1. op' = [op EXCEPT ![c] = "lock"]
      BY <1>2 DEF Sleeps
    <2> QED
      BY <1>1, <1>2, <2>1 DEF Accounts, IInv, TypeOK, locks
  <1>3. CASE (Enters(c) \/ Resumes(c, "lock")) /\ ~AnotherCollects
               /\ Collects(c, available_locks)
    BY <1>1, <1>3, CollectsAccounts DEF Enters, Resumes, AnotherCollects, IInv, TypeOK
  <1>4. CASE Resumes(c, "collect")
               /\ Collects(c, locks_obtained[c] + available_locks)
    <2>1. locks_obtained[c] + available_locks \in Nat
      BY DEF IInv, TypeOK
    <2> QED
      BY <1>1, <1>4, <2>1, CollectsAccounts DEF Resumes
  <1> QED
    BY <1>2, <1>3, <1>4 DEF lock

LEMMA UnlockAccounts ==
  ASSUME IInv, Accounts, NEW c \in Clients, unlock(c)
  PROVE  Accounts'
  <1>1. write_lock_active /\ readers = {} /\ Cardinality(readers) = 0
    BY FS_EmptySet DEF unlock, IInv, WriterTakesAll, Accounts
  <1>2. /\ available_locks' = max_locks /\ write_lock_active' = FALSE
        /\ UNCHANGED <<write_lock_in_progress, op, locks_obtained, readers, extra>>
    BY <1>1 DEF unlock
  <1>3. \A d \in Clients : op[d] = "collect" => locks_obtained[d] = 0
    BY <1>1 DEF IInv, WriterTakesAll
  <1> QED
    BY <1>1, <1>2, <1>3, MutexAssumption DEF Accounts

LEMMA LockReadonlyAccounts ==
  ASSUME IInv, Accounts, NEW c \in Clients, lock_readonly(c)
  PROVE  Accounts'
  <1>1. c \notin readers /\ extra' = extra /\ op[c] # "collect"
    BY DEF lock_readonly, Enters, Resumes, Accounts
  <1>2. UNCHANGED <<write_lock_in_progress, write_lock_active, locks_obtained>>
    BY DEF lock_readonly
  <1>3. CASE available_locks = 0
    <2>1. /\ op' = [op EXCEPT ![c] = "lock_readonly"]
          /\ available_locks' = available_locks /\ readers' = readers
      BY <1>3 DEF lock_readonly, Sleeps, NoneLeft
    <2> QED
      BY <1>1, <1>2, <2>1 DEF Accounts, IInv, TypeOK
  <1>4. CASE available_locks # 0
    <2>1. /\ op' = [op EXCEPT ![c] = "none"]
          /\ available_locks' = available_locks - 1 /\ readers' = readers \cup {c}
      BY <1>4 DEF lock_readonly, Returns, NoneLeft, OneTaken
    <2>2. ~write_lock_active
      BY <1>4 DEF IInv, WriterTakesAll
    <2>3. /\ IsFiniteSet(readers') /\ Cardinality(readers) \in Nat
          /\ Cardinality(readers') = Cardinality(readers) + 1
      BY <1>1, <2>1, FS_AddElement, FS_CardinalityType DEF Accounts
    <2>4. \A d \in Clients : op'[d] # "none" => d \notin readers'
      BY <2>1 DEF Accounts, IInv, TypeOK
    <2>5. \A d \in Clients : op'[d] = "collect" => op[d] = "collect"
      BY <2>1 DEF IInv, TypeOK
    <2>6. available_locks - 1 + (Cardinality(readers) + 1)
            = available_locks + Cardinality(readers)
      BY <2>3 DEF IInv, TypeOK
    <2>7. ~write_lock_in_progress' => available_locks' + Cardinality(readers') = max_locks
      BY <1>2, <2>1, <2>2, <2>3, <2>6 DEF Accounts
    <2>8. ASSUME NEW d \in Clients, op'[d] = "collect"
          PROVE  locks_obtained'[d] + available_locks' + Cardinality(readers') = max_locks
      <3>1. locks_obtained[d] + available_locks + Cardinality(readers) = max_locks
        BY <2>2, <2>5, <2>8 DEF Accounts
      <3>2. locks_obtained[d] \in Nat /\ available_locks \in Nat
        BY DEF IInv, TypeOK
      <3> QED
        BY <1>2, <2>1, <2>3, <3>1, <3>2, MutexAssumption
    <2> QED
      BY <1>2, <2>2, <2>3, <2>4, <2>7, <2>8 DEF Accounts
  <1> QED
    BY <1>3, <1>4

LEMMA UnlockReadonlyAccounts ==
  ASSUME IInv, Accounts, NEW c \in Clients, unlock_readonly(c)
  PROVE  Accounts'
  <1>1. c \in readers /\ readers' = readers \ {c}
        /\ UNCHANGED <<write_lock_in_progress, write_lock_active, op,
                       locks_obtained, extra>>
    BY DEF unlock_readonly
  <1>2. ~write_lock_active
    BY <1>1 DEF Accounts
  <1>3. /\ IsFiniteSet(readers') /\ Cardinality(readers) \in Nat
        /\ Cardinality(readers') = Cardinality(readers) - 1
        /\ Cardinality(readers') \in Nat
    BY <1>1, FS_RemoveElement, FS_CardinalityType DEF Accounts
  <1>4. available_locks # max_locks
    BY <1>2, <1>3, MutexAssumption DEF Accounts, IInv, TypeOK, OneCollector
  <1>5. available_locks' = available_locks + 1
    BY <1>2, <1>4 DEF unlock_readonly, FreeReadonly, LockToFree
  <1>6. \A d \in Clients : op'[d] # "none" => d \notin readers'
    BY <1>1 DEF Accounts
  <1>7. ~write_lock_in_progress' => available_locks' + Cardinality(readers') = max_locks
    BY <1>1, <1>2, <1>3, <1>5 DEF Accounts, IInv, TypeOK
  <1>8. ASSUME NEW d \in Clients, op'[d] = "collect"
        PROVE  locks_obtained'[d] + available_locks' + Cardinality(readers') = max_locks
    <2>1. locks_obtained[d] + available_locks + Cardinality(readers) = max_locks
      BY <1>1, <1>2, <1>8 DEF Accounts
    <2>2. locks_obtained[d] \in Nat /\ available_locks \in Nat
      BY DEF IInv, TypeOK
    <2> QED
      BY <1>1, <1>3, <1>5, <2>1, <2>2, MutexAssumption
  <1> QED
    BY <1>1, <1>2, <1>3, <1>6, <1>7, <1>8 DEF Accounts

LEMMA NextAccounts ==
  ASSUME IInv, Accounts, [Next]_vars
  PROVE  Accounts'
  <1>1. ASSUME NEW c \in Clients, lock(c) \/ lock_readonly(c) \/ unlock(c)
               \/ unlock_readonly(c)
        PROVE  Accounts'
    BY <1>1, LockAccounts, LockReadonlyAccounts, UnlockAccounts,
       UnlockReadonlyAccounts
  <1>2. ASSUME NEW c \in Clients, WakesUp(c) PROVE Accounts'
    BY <1>2 DEF WakesUp, Accounts, locks
  <1>3. CASE Done \/ UNCHANGED vars
    BY <1>3 DEF Done, vars, locks, Accounts
  <1> QED
    BY <1>1, <1>2, <1>3 DEF Next, Unlocks

\* While the write lock is obtained no thread has a readonly lock, for any number of
\* clients and locks, if no readonly lock is given back that is not there.
THEOREM NoReaderCorrect == Spec => []NoReaderBesideWriter
  <1>1. Init => IInv /\ Accounts
    BY InitIInv, InitAccounts
  <1>2. IInv /\ Accounts /\ [Next]_vars => IInv' /\ Accounts'
    BY StepIInv, NextAccounts
  <1>3. IInv /\ Accounts => NoReaderBesideWriter
    BY DEF IInv, Accounts, WriterTakesAll, NoReaderBesideWriter
  <1> QED
    BY <1>1, <1>2, <1>3, PTL DEF Spec

\* The mutex gives out no more readonly locks than it has.
THEOREM AtMostMaxLocksCorrect == Spec => []AtMostMaxLocks
  <1>1. Init => IInv /\ Accounts
    BY InitIInv, InitAccounts
  <1>2. IInv /\ Accounts /\ [Next]_vars => IInv' /\ Accounts'
    BY StepIInv, NextAccounts
  <1>3. IInv /\ Accounts => AtMostMaxLocks
    <2> SUFFICES ASSUME IInv, Accounts PROVE AtMostMaxLocks
      OBVIOUS
    <2>1. Cardinality(readers) \in Nat /\ (readers = {} => Cardinality(readers) = 0)
      BY FS_CardinalityType, FS_EmptySet DEF Accounts
    <2> QED
      BY <2>1, MutexAssumption DEF AtMostMaxLocks, Accounts, IInv, TypeOK, OneCollector
  <1> QED
    BY <1>1, <1>2, <1>3, PTL DEF Spec

\* Whoever sleeps is in a call, and who collects has not got all of the locks.
SleepInCalls ==
  /\ \A c \in asleep : op[c] \in Calls
  /\ \A c \in Clients : op[c] = "collect" => locks_obtained[c] < max_locks

LEMMA SleepStays ==
  ASSUME IInv, Accounts, SleepInCalls, [Next]_vars
  PROVE  SleepInCalls'
  <1>0. /\ op \in [Clients -> Calls \cup {"none"}] /\ asleep \subseteq Clients
        /\ available_locks \in Nat /\ max_locks \in Nat \ {0}
        /\ locks_obtained \in [Clients -> Nat]
    BY MutexAssumption DEF IInv, TypeOK
  <1>a. \A c \in Clients : Enters(c) \/ (\E call : Resumes(c, call)) => c \notin asleep
    BY DEF Enters, Resumes, SleepInCalls, Calls
  <1>1. ASSUME NEW c \in Clients \ asleep, NEW n \in Nat, n <= max_locks, Collects(c, n)
        PROVE  SleepInCalls'
    BY <1>0, <1>1 DEF Collects, AllObtained, Sleeps, Returns, SleepInCalls, Calls
  <1>2. ASSUME NEW c \in Clients, lock(c) PROVE SleepInCalls'
    <2>1. CASE Sleeps(c, "lock") /\ UNCHANGED locks_obtained
      BY <1>0, <2>1 DEF Sleeps, SleepInCalls, Calls
    <2>2. CASE (Enters(c) \/ Resumes(c, "lock")) /\ ~AnotherCollects
               /\ Collects(c, available_locks)
      <3>1. available_locks <= max_locks
        <4>1. Cardinality(readers) \in Nat
          BY FS_CardinalityType DEF Accounts
        <4> QED
          BY <1>0, <2>2, <4>1 DEF AnotherCollects, Accounts, IInv, WriterTakesAll
      <3> QED
        BY <1>0, <1>a, <1>1, <2>2, <3>1
    <2>3. CASE Resumes(c, "collect") /\ Collects(c, locks_obtained[c] + available_locks)
      <3>1. locks_obtained[c] + available_locks <= max_locks
        <4>1. Cardinality(readers) \in Nat /\ op[c] = "collect"
          BY <2>3, FS_CardinalityType DEF Accounts, Resumes
        <4> QED
          BY <1>0, <4>1 DEF Accounts, IInv, WriterTakesAll
      <3> QED
        BY <1>0, <1>a, <1>1, <2>3, <3>1
    <2> QED
      BY <1>2, <2>1, <2>2, <2>3 DEF lock
  <1>3. ASSUME NEW c \in Clients, lock_readonly(c) PROVE SleepInCalls'
    <2>1. c \notin asleep
      BY <1>3, <1>a DEF lock_readonly
    <2>2. CASE Sleeps(c, "lock_readonly")
      BY <1>0, <1>3, <2>2 DEF lock_readonly, Sleeps, SleepInCalls, Calls
    <2>3. CASE Returns(c)
      BY <1>0, <1>3, <2>1, <2>3 DEF lock_readonly, Returns, SleepInCalls
    <2> QED
      BY <1>3, <2>2, <2>3 DEF lock_readonly
  <1>4. ASSUME op' = op, locks_obtained' = locks_obtained, asleep' \subseteq asleep
        PROVE  SleepInCalls'
    BY <1>4 DEF SleepInCalls
  <1>5. ASSUME NEW c \in Clients, Unlocks(c) \/ WakesUp(c) PROVE SleepInCalls'
    BY <1>4, <1>5 DEF Unlocks, unlock, unlock_readonly, FreeReadonly, WakesUp
  <1>6. CASE Done \/ UNCHANGED vars
    BY <1>4, <1>6 DEF Done, vars
  <1> QED
    BY <1>2, <1>3, <1>5, <1>6 DEF Next

\* Those who wait for locks never wait for one another only: as long as somebody sleeps,
\* there is a lock to be given back, or somebody inside a call is awake to go on.
SomebodyToWaitFor ==
  asleep # {} => \/ readers \cup writers # {}
                 \/ \E c \in Clients \ asleep : op[c] # "none"

THEOREM SleepersWaitForALock == Spec => []SomebodyToWaitFor
  <1>1. Init => IInv /\ Accounts /\ SleepInCalls
    BY InitIInv, InitAccounts DEF Init, SleepInCalls
  <1>2. IInv /\ Accounts /\ SleepInCalls /\ [Next]_vars => IInv' /\ Accounts' /\ SleepInCalls'
    BY StepIInv, NextAccounts, SleepStays
  <1>3. IInv /\ Accounts /\ SleepInCalls => SomebodyToWaitFor
    <2> SUFFICES ASSUME IInv, Accounts, SleepInCalls, NEW s \in asleep,
                        readers \cup writers = {},
                        \A c \in Clients \ asleep : op[c] = "none"
                 PROVE  FALSE
      BY DEF SomebodyToWaitFor
    <2>1. /\ Cardinality(readers) = 0 /\ ~write_lock_active
          /\ available_locks \in Nat /\ max_locks \in Nat \ {0}
          /\ \A c \in Clients : locks_obtained[c] \in Nat
      BY FS_EmptySet, MutexAssumption DEF IInv, TypeOK, WriterTakesAll
    <2>2. CASE write_lock_in_progress
      <3>1. PICK c \in Clients : op[c] = "collect"
        BY <2>2 DEF IInv, OneCollector
      <3>2. c \in asleep /\ available_locks = 0
        BY <3>1 DEF IInv, NobodyOversleeps, WaitStands
      <3>3. locks_obtained[c] + available_locks + Cardinality(readers) = max_locks
        BY <2>1, <3>1 DEF Accounts
      <3>4. locks_obtained[c] < max_locks
        BY <3>1 DEF SleepInCalls
      <3> QED
        BY <2>1, <3>2, <3>3, <3>4
    <2>3. CASE ~write_lock_in_progress
      <3>1. available_locks = max_locks
        BY <2>1, <2>3 DEF Accounts
      <3>2. op[s] \in Calls
        BY DEF SleepInCalls
      <3> QED
        BY <2>1, <2>3, <3>1, <3>2 DEF IInv, NobodyOversleeps, WaitStands, Calls
    <2> QED
      BY <2>2, <2>3
  <1> QED
    BY <1>1, <1>2, <1>3, PTL DEF Spec
=============================================================================
