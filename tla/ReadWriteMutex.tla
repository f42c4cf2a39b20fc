--------------------------- MODULE ReadWriteMutex ---------------------------
(***************************************************************************)
(* dlib's read_write_mutex, threads/read_write_mutex_extension.h: a number *)
(* of readonly locks, all of which a write lock takes.  It is a monitor    *)
(* with one condition variable that everybody waits on, so an action is    *)
(* what a call does up to its next wait or its return.                     *)
(*                                                                         *)
(* A client is whoever makes one call or holds one lock: a thread with     *)
(* several readonly locks is several clients.                              *)
(***************************************************************************)
EXTENDS Integers, FiniteSets

CONSTANTS
  Clients,
  max_locks,
  MaxCalls,      \* bound: the locks each client takes
  MaxExtra       \* bound: the calls of unlock_readonly() without a readonly lock

ASSUME MutexAssumption ==
  /\ IsFiniteSet(Clients)
  /\ max_locks \in Nat \ {0}
  /\ MaxCalls \in Nat /\ MaxExtra \in Nat

VARIABLES
  available_locks, write_lock_in_progress, write_lock_active,
  op,              \* the call each client is in
  locks_obtained,  \* the local variable of a lock() that collects
  asleep,          \* the clients in a wait
  readers,         \* the clients with a readonly lock
  writers,         \* the clients with a write lock
  calls,           \* the number of locks each client has asked for
  extra            \* the number of unlock_readonly() without a readonly lock

locks == <<available_locks, write_lock_in_progress, write_lock_active>>
vars  == <<locks, op, locks_obtained, asleep, readers, writers, calls, extra>>

\* lock() waits in two places: for its turn, then for the locks it collects.
Calls == {"lock", "collect", "lock_readonly"}

Init ==
  /\ available_locks = max_locks
  /\ write_lock_in_progress = FALSE /\ write_lock_active = FALSE
  /\ op = [c \in Clients |-> "none"] /\ asleep = {}
  /\ locks_obtained = [c \in Clients |-> 0]
  /\ readers = {} /\ writers = {}
  /\ calls = [c \in Clients |-> 0] /\ extra = 0
-----------------------------------------------------------------------------
Enters(c) ==
  /\ op[c] = "none" /\ c \notin readers \cup writers /\ calls[c] < MaxCalls
  /\ calls' = [calls EXCEPT ![c] = @ + 1] /\ UNCHANGED extra
Resumes(c, call) ==
  op[c] = call /\ c \notin asleep /\ UNCHANGED <<calls, extra>>

Sleeps(c, call) ==
  /\ op' = [op EXCEPT ![c] = call]
  /\ asleep' = asleep \cup {c}
Returns(c) == op' = [op EXCEPT ![c] = "none"] /\ UNCHANGED asleep

\* Takes what locks there are, and has the write lock if these are all.
AllButOne(n)   == n + 1 >= max_locks     \* mutant: one too few
AllObtained(n) == n = max_locks
StillThere == available_locks       \* mutant: they are not taken
NoneRemain == 0
Collects(c, n) ==
  /\ available_locks' = NoneRemain
  /\ locks_obtained' = [locks_obtained EXCEPT ![c] = IF AllObtained(n) THEN 0 ELSE n]
  /\ write_lock_in_progress' = ~AllObtained(n)
  /\ IF AllObtained(n)
     THEN /\ write_lock_active' = TRUE
          /\ writers' = writers \cup {c}
          /\ Returns(c)
     ELSE Sleeps(c, "collect") /\ UNCHANGED <<write_lock_active, writers>>
  /\ UNCHANGED readers

NobodyInTheWay == FALSE             \* mutant: does not wait for its turn
AnotherCollects == write_lock_in_progress

lock(c) ==
  \/ /\ Enters(c) \/ Resumes(c, "lock")
     /\ AnotherCollects
     /\ Sleeps(c, "lock")
     /\ UNCHANGED <<locks, locks_obtained, readers, writers>>
  \/ /\ Enters(c) \/ Resumes(c, "lock")
     /\ ~AnotherCollects
     /\ Collects(c, available_locks)
  \/ Resumes(c, "collect") /\ Collects(c, locks_obtained[c] + available_locks)

\* Everybody waits on the same condition variable.
unlock(c) ==
  /\ c \in writers
  /\ writers' = writers \ {c}
  /\ IF write_lock_active
     THEN /\ available_locks' = max_locks
          /\ write_lock_active' = FALSE
          /\ asleep' = {}
     ELSE UNCHANGED <<available_locks, write_lock_active, asleep>>
  /\ UNCHANGED <<write_lock_in_progress, op, locks_obtained, readers, calls, extra>>

NoneLeft  == available_locks = 0
NoneTaken == available_locks        \* mutant: the lock is not counted
OneTaken  == available_locks - 1

lock_readonly(c) ==
  /\ Enters(c) \/ Resumes(c, "lock_readonly")
  /\ IF NoneLeft
     THEN Sleeps(c, "lock_readonly") /\ UNCHANGED <<available_locks, readers>>
     ELSE /\ available_locks' = OneTaken
          /\ readers' = readers \cup {c}
          /\ Returns(c)
  /\ UNCHANGED <<write_lock_in_progress, write_lock_active, locks_obtained, writers>>

OnlyCollectors(n) == write_lock_in_progress  \* mutant: readers are not told
SomebodyListens(n) == n = 1 \/ write_lock_in_progress

LockToFree == available_locks # max_locks /\ ~write_lock_active

FreeReadonly ==
  IF LockToFree
  THEN /\ available_locks' = available_locks + 1
       /\ asleep' = IF SomebodyListens(available_locks + 1) THEN {} ELSE asleep
  ELSE UNCHANGED <<available_locks, asleep>>

unlock_readonly(c) ==
  /\ c \in readers
  /\ readers' = readers \ {c}
  /\ FreeReadonly
  /\ UNCHANGED <<write_lock_in_progress, write_lock_active, op, locks_obtained,
                 writers, calls, extra>>

\* The call when there is no readonly lock at all.
unlock_without_lock ==
  /\ extra < MaxExtra /\ readers = {}
  /\ extra' = extra + 1
  /\ FreeReadonly
  /\ UNCHANGED <<write_lock_in_progress, write_lock_active, op, locks_obtained,
                 readers, writers, calls>>

WakesUp(c) ==
  /\ c \in asleep /\ asleep' = asleep \ {c}
  /\ UNCHANGED <<locks, op, locks_obtained, readers, writers, calls, extra>>
-----------------------------------------------------------------------------
Unlocks(c) == unlock(c) \/ unlock_readonly(c)

\* Nobody has a lock or asks for one any more.
Done ==
  /\ \A c \in Clients : op[c] = "none" /\ calls[c] = MaxCalls
  /\ readers \cup writers = {}
  /\ UNCHANGED vars

Next ==
  \/ \E c \in Clients : lock(c) \/ lock_readonly(c) \/ Unlocks(c) \/ WakesUp(c)
  \/ Done

Spec == Init /\ [][Next]_vars

\* The use the documentation of unlock_readonly() allows for as well.
NextUnpaired == Next \/ unlock_without_lock
SpecUnpaired == Init /\ [][NextUnpaired]_vars

\* A client that is awake inside a call goes on, and a lock is given back.
Goes(c) == op[c] # "none" /\ (lock(c) \/ lock_readonly(c))
FairSpec == Spec /\ \A c \in Clients : WF_vars(Goes(c)) /\ WF_vars(Unlocks(c))
-----------------------------------------------------------------------------
(* Properties.                                                             *)

TypeOK ==
  /\ available_locks \in Nat /\ locks_obtained \in [Clients -> Nat]
  /\ write_lock_in_progress \in BOOLEAN /\ write_lock_active \in BOOLEAN
  /\ op \in [Clients -> Calls \cup {"none"}]
  /\ asleep \subseteq Clients
  /\ readers \subseteq Clients /\ writers \subseteq Clients
  /\ calls \in [Clients -> Nat] /\ extra \in Nat

\* Only a single thread has a write lock.
OneWriter == \A c, d \in writers : c = d

\* While the write lock is obtained no other threads are allowed to have readonly
\* locks.
NoReaderBesideWriter == writers # {} => readers = {}

\* There are never more readonly locks than the mutex allows for.
AtMostMaxLocks == Cardinality(readers) <= max_locks

\* The wait of client c is one that its call still has reason for.
WaitStands(c) ==
  /\ op[c] = "lock" => write_lock_in_progress \/ write_lock_active
  /\ op[c] \in {"collect", "lock_readonly"} => available_locks = 0

\* Nobody sleeps on while there is what it waits for.  A finished collection tells
\* nobody, which is right only because its write lock keeps everybody waiting.
NobodyOversleeps == \A c \in asleep : WaitStands(c)

\* As long as locks are given back and no new calls come without end, every call
\* gets its lock, whatever readers have overtaken a collecting writer.
EverybodyServed == \A c \in Clients : op[c] # "none" ~> op[c] = "none"
=============================================================================
