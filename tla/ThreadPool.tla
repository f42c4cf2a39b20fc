----------------------------- MODULE ThreadPool -----------------------------
(***************************************************************************)
(* dlib's thread_pool, threads/thread_pool_extension.h and .cpp.  One mutex *)
(* protects everything, so an action is what a thread does from getting it *)
(* to its next wait, to its return, or to running a task.                  *)
(*                                                                         *)
(* What a task does is up to its author: it may add tasks, wait for those  *)
(* it has added, or for all of its thread, and ends when those it has      *)
(* added have finished, as the tasks of parallel_for do.  Clients are the  *)
(* threads outside; they need not wait for anything.                       *)
(***************************************************************************)
EXTENDS Integers, FiniteSets, Sequences

CONSTANTS
  Clients,
  Workers,       \* the threads of the pool
  Tasks,         \* bound: each is added once; numbered in the order of the calls
  None

ASSUME PoolAssumption ==
  /\ IsFiniteSet(Workers)
  /\ Clients \cap Workers = {} /\ (Clients \cup Workers) \cap Tasks = {}
  /\ Tasks \subseteq Nat /\ None \notin Clients \cup Workers \cup Tasks

Threads == Clients \cup Workers
N       == Cardinality(Workers)
Slots   == 0 .. N - 1

VARIABLES
  task_id, thread_id, is_being_processed, next_task_id,
  bfp,               \* these five are the fields of tasks[i]
  worker_thread_ids,
  we_are_destructing,
  call,              \* the call or the place in thread() each thread is in
  arg,               \* the task that is added or waited for
  idx,               \* the local variable of thread()
  stack,             \* the tasks each thread runs, each within the one before
  asleep,            \* the threads in a wait
  handle,            \* the id that the call adding each task has returned
  giver,             \* the client or the task that has added each task
  runs, finished     \* how often each task was begun; the tasks done

tasks   == <<task_id, thread_id, is_being_processed, next_task_id, bfp>>
history == <<handle, giver, runs, finished>>
vars    == <<tasks, worker_thread_ids, we_are_destructing, call, arg, idx, stack,
             asleep, history>>

Init ==
  /\ task_id = [i \in Slots |-> 0] /\ next_task_id = [i \in Slots |-> 2]
  /\ thread_id = [i \in Slots |-> None] /\ bfp = [i \in Slots |-> None]
  /\ is_being_processed = [i \in Slots |-> FALSE]
  /\ worker_thread_ids = {} /\ we_are_destructing = FALSE
  /\ call = [th \in Threads |-> IF th \in Workers THEN "start" ELSE "none"]
  /\ arg = [th \in Threads |-> None] /\ idx = [w \in Workers |-> 0]
  /\ stack = [th \in Threads |-> << >>] /\ asleep = {}
  /\ handle = [t \in Tasks |-> 0] /\ giver = [t \in Tasks |-> None]
  /\ runs = [t \in Tasks |-> 0] /\ finished = {}
-----------------------------------------------------------------------------
is_empty(i) == task_id[i] = 0
is_ready(i) == ~is_being_processed[i] /\ ~is_empty(i)

find_empty_task_slot == {i \in Slots : is_empty(i) /\ \A j \in 0 .. i - 1 : ~is_empty(j)}
find_ready_task      == {i \in Slots : is_ready(i) /\ \A j \in 0 .. i - 1 : ~is_ready(j)}

AlwaysTheSame(i)     == 2 * N + i     \* mutant: next_task_id is not advanced
make_next_task_id(i) == next_task_id[i] * N + i
task_id_to_index(id) == id % N

is_worker_thread(th) == th \in worker_thread_ids \/ N = 0

\* Those who sleep on task_ready_signaler and on task_done_signaler.
Lookers == {th \in asleep : call[th] = "look"}
Others  == asleep \ Lookers

NobodyWoken(sleepers) == {{}}         \* mutant: the signal is forgotten
Signal(sleepers) == IF sleepers = {} THEN {{}} ELSE {{th} : th \in sleepers}

\* A thread outside of the pool, or a task, makes a call.
Enters(th) == call[th] = "none" /\ (th \in Workers => stack[th] # << >>)
Resumes(th, c) == call[th] = c /\ th \notin asleep

Sleeps(th, c, t) ==
  /\ call' = [call EXCEPT ![th] = c]
  /\ arg' = [arg EXCEPT ![th] = t]
  /\ asleep' = asleep \cup {th}
Returns(th) ==
  /\ call' = [call EXCEPT ![th] = "none"]
  /\ arg' = [arg EXCEPT ![th] = None]

\* The task that thread th runs, or the thread itself.
Current(th) == IF stack[th] = << >> THEN th ELSE stack[th][Len(stack[th])]
Push(th, t) == stack' = [stack EXCEPT ![th] = Append(@, t)]
Pop(th) == stack' = [stack EXCEPT ![th] = SubSeq(@, 1, Len(@) - 1)]
-----------------------------------------------------------------------------
(* The threads of the pool.                                                *)

Register(w) ==
  /\ call[w] = "start"
  /\ call' = [call EXCEPT ![w] = "look"]
  /\ worker_thread_ids' = worker_thread_ids \cup {w}
  /\ UNCHANGED <<tasks, we_are_destructing, arg, idx, stack, asleep, history>>

NotMarked(i) == UNCHANGED is_being_processed     \* mutant: it stays ready
Marked(i) == is_being_processed' = [is_being_processed EXCEPT ![i] = TRUE]

TakesTask(w) ==
  /\ ~we_are_destructing
  /\ \E i \in find_ready_task :
       /\ Marked(i)
       /\ idx' = [idx EXCEPT ![w] = i]
       /\ Push(w, bfp[i])
       /\ runs' = [runs EXCEPT ![bfp[i]] = @ + 1]
  /\ call' = [call EXCEPT ![w] = "none"]
  /\ UNCHANGED <<task_id, thread_id, next_task_id, bfp, asleep, handle, finished>>

FindsNone(w) ==
  /\ ~we_are_destructing /\ find_ready_task = {}
  /\ asleep' = asleep \cup {w}
  /\ UNCHANGED <<tasks, call, idx, stack, handle, runs, finished>>

Leaves(w) ==
  /\ we_are_destructing
  /\ call' = [call EXCEPT ![w] = "left"]
  /\ UNCHANGED <<tasks, idx, stack, asleep, handle, runs, finished>>

Look(w) ==
  /\ Resumes(w, "look")
  /\ TakesTask(w) \/ FindsNone(w) \/ Leaves(w)
  /\ UNCHANGED <<worker_thread_ids, we_are_destructing, arg, giver>>

\* The end of a task run where it was added: the call returns the id 1.
EndsInline(th) ==
  /\ th \in Clients \/ Len(stack[th]) > 1
  /\ handle' = [handle EXCEPT ![Current(th)] = 1]
  /\ UNCHANGED <<tasks, call, asleep>>

OneOnly == {Others \ s : s \in Signal(Others)}   \* mutant: a signal, no broadcast
AllTold == {{}}

EndsInSlot(w) ==
  /\ w \in Workers /\ Len(stack[w]) = 1
  /\ is_being_processed' = [is_being_processed EXCEPT ![idx[w]] = FALSE]
  /\ task_id' = [task_id EXCEPT ![idx[w]] = 0]
  /\ bfp' = [bfp EXCEPT ![idx[w]] = None]
  /\ \E left \in AllTold : asleep' = Lookers \cup left
  /\ call' = [call EXCEPT ![w] = "look"]
  /\ UNCHANGED <<thread_id, next_task_id, handle>>

Joined(t) == \A s \in Tasks : giver[s] = t => s \in finished

EndTask(th) ==
  /\ call[th] = "none" /\ stack[th] # << >>
  /\ Joined(Current(th))
  /\ EndsInline(th) \/ EndsInSlot(th)
  /\ Pop(th)
  /\ finished' = finished \cup {Current(th)}
  /\ UNCHANGED <<worker_thread_ids, we_are_destructing, arg, idx, giver, runs>>
-----------------------------------------------------------------------------
(* add_task.                                                               *)

Destructors == {c \in Clients : call[c] \in {"shutdown", "join"}}
CanAdd(th) == th \in Workers \/ (Destructors = {} /\ ~we_are_destructing)
Called == {t \in Tasks : \/ giver[t] # None
                       \/ \E th \in Threads : call[th] = "add" /\ arg[th] = t}
Fresh(t) == t \notin Called /\ \A s \in Tasks : s < t => s \in Called

Submits(th, t) ==
  /\ \E i \in find_empty_task_slot :
       /\ thread_id' = [thread_id EXCEPT ![i] = th]
       /\ task_id' = [task_id EXCEPT ![i] = make_next_task_id(i)]
       /\ next_task_id' = [next_task_id EXCEPT ![i] = @ + 1]
       /\ bfp' = [bfp EXCEPT ![i] = t]
       /\ handle' = [handle EXCEPT ![t] = make_next_task_id(i)]
  /\ giver' = [giver EXCEPT ![t] = Current(th)]
  /\ \E woken \in Signal(Lookers) : asleep' = asleep \ woken
  /\ Returns(th)
  /\ UNCHANGED <<is_being_processed, stack, runs>>

NeverInline(th) == TRUE               \* mutant: a worker waits like anybody
MustWaitForSlot(th) == ~is_worker_thread(th)

RunsInline(th, t) ==
  /\ find_empty_task_slot = {} /\ ~MustWaitForSlot(th)
  /\ giver' = [giver EXCEPT ![t] = Current(th)]
  /\ Push(th, t)
  /\ runs' = [runs EXCEPT ![t] = @ + 1]
  /\ UNCHANGED <<tasks, call, arg, asleep, handle>>

WaitsForSlot(th, t) ==
  /\ find_empty_task_slot = {}
  /\ Enters(th) => MustWaitForSlot(th)
  /\ Sleeps(th, "add", t)
  /\ UNCHANGED <<tasks, stack, handle, giver, runs>>

AddTask(th, t) ==
  /\ \/ Enters(th) /\ CanAdd(th) /\ Fresh(t)
     \/ Resumes(th, "add") /\ t = arg[th]
  /\ \/ Submits(th, t)
     \/ Enters(th) /\ RunsInline(th, t)
     \/ WaitsForSlot(th, t)
  /\ UNCHANGED <<worker_thread_ids, we_are_destructing, idx, finished>>
-----------------------------------------------------------------------------
(* The calls that wait for tasks.                                          *)

IsPending(t) ==
  N > 0 /\ task_id[task_id_to_index(handle[t])] = handle[t]

\* Clients know of every task; a task waits for those it has added.
wait_for_task(th, t) ==
  /\ \/ Enters(th) /\ handle[t] # 0
                   /\ (th \in Workers => giver[t] = Current(th))
     \/ Resumes(th, "wait") /\ t = arg[th]
  /\ IF IsPending(t) THEN Sleeps(th, "wait", t)
                     ELSE Returns(th) /\ UNCHANGED asleep
  /\ UNCHANGED <<tasks, worker_thread_ids, we_are_destructing, idx, stack, history>>

OwnReady(th) ==                       \* mutant: those begun do not count
  {i \in Slots : is_ready(i) /\ thread_id[i] = th}
OwnTasks(th) == {i \in Slots : ~is_empty(i) /\ thread_id[i] = th}

wait_for_all_tasks(th) ==
  /\ (Enters(th) /\ CanAdd(th)) \/ Resumes(th, "wait_all")
  /\ IF OwnTasks(th) # {} THEN Sleeps(th, "wait_all", None)
                          ELSE Returns(th) /\ UNCHANGED asleep
  /\ UNCHANGED <<tasks, worker_thread_ids, we_are_destructing, idx, stack, history>>

Pending == {i \in Slots : ~is_empty(i)}

\* The destructor of thread_pool, which nobody else uses any more except to wait
\* for the task of a future.
shutdown_pool(c) ==
  /\ \/ /\ Enters(c) /\ stack[c] = << >>
        /\ \A d \in Clients : call[d] \in {"none", "wait"} /\ stack[d] = << >>
     \/ Resumes(c, "shutdown")
  /\ IF Pending # {}
     THEN Sleeps(c, "shutdown", None) /\ UNCHANGED we_are_destructing
     ELSE /\ we_are_destructing' = TRUE
          /\ call' = [call EXCEPT ![c] = "join"]
          /\ asleep' = asleep \ Lookers
          /\ UNCHANGED arg
  /\ UNCHANGED <<tasks, worker_thread_ids, idx, stack, history>>

Join(c) ==
  /\ call[c] = "join" /\ \A w \in Workers : call[w] = "left"
  /\ Returns(c)
  /\ UNCHANGED <<tasks, worker_thread_ids, we_are_destructing, idx, stack, asleep,
                 history>>

WakesUp(th) ==
  /\ th \in asleep /\ asleep' = asleep \ {th}
  /\ UNCHANGED <<tasks, worker_thread_ids, we_are_destructing, call, arg, idx, stack,
                 history>>
-----------------------------------------------------------------------------
Calls(th) ==
  \/ \E t \in Tasks : AddTask(th, t) \/ wait_for_task(th, t)
  \/ wait_for_all_tasks(th)

Next ==
  \/ \E w \in Workers : Register(w) \/ Look(w)
  \/ \E c \in Clients : shutdown_pool(c) \/ Join(c)
  \/ \E th \in Threads : Calls(th) \/ EndTask(th) \/ WakesUp(th)

Spec == Init /\ [][Next]_vars

\* A thread that is awake inside a call goes on, and a task comes to its end.
Goes(th) ==
  \/ th \in Workers /\ (Register(th) \/ Look(th))
  \/ th \in Clients /\ call[th] # "none" /\ (shutdown_pool(th) \/ Join(th))
  \/ call[th] # "none" /\ Calls(th)
FairSpec == Spec /\ \A th \in Threads : WF_vars(Goes(th)) /\ WF_vars(EndTask(th))
-----------------------------------------------------------------------------
(* Properties.                                                             *)

given == {t \in Tasks : giver[t] # None}

TypeOK ==
  /\ task_id \in [Slots -> Nat] /\ next_task_id \in [Slots -> Nat]
  /\ thread_id \in [Slots -> Threads \cup {None}]
  /\ bfp \in [Slots -> Tasks \cup {None}]
  /\ is_being_processed \in [Slots -> BOOLEAN]
  /\ worker_thread_ids \subseteq Workers /\ we_are_destructing \in BOOLEAN
  /\ call \in [Threads -> {"start", "look", "left", "none", "add", "wait",
                           "wait_all", "shutdown", "join"}]
  /\ arg \in [Threads -> Tasks \cup {None}] /\ idx \in [Workers -> Nat]
  /\ stack \in [Threads -> Seq(Tasks)] /\ asleep \subseteq Threads
  /\ handle \in [Tasks -> Nat] /\ giver \in [Tasks -> Tasks \cup Clients \cup {None}]
  /\ runs \in [Tasks -> Nat] /\ finished \subseteq Tasks

\* A task in a slot is signalled to one worker.  Whoever else looks, and whatever
\* wakes up for no reason, there are as many workers looking for a task as there
\* are tasks to find.
ReadyOnes == {i \in Slots : is_ready(i)}
Searching == {w \in Workers : call[w] \in {"start", "look"} /\ w \notin asleep}
WorkersSuffice == Cardinality(ReadyOnes) <= Cardinality(Searching)

\* The tasks that thread th waits for, by what the documentation of its call says.
GivenBy(th) == {t \in given : giver[t] = th \/ \E k \in 1 .. Len(stack[th]) :
                                                 stack[th][k] = giver[t]}
OnStack(th) == {stack[th][k] : k \in 1 .. Len(stack[th])}
Awaited(th) ==
  IF call[th] = "wait" THEN {arg[th]}
  ELSE IF call[th] = "wait_all" THEN GivenBy(th) \ OnStack(th)
  ELSE IF call[th] = "shutdown" THEN given
  ELSE {}

\* What a wait finds in the slots is how things stand, so that it neither returns at
\* once with its task undone nor goes to sleep for one that is done: the id that
\* add_task() has returned is in its slot until the task is done and never again,
\* and a thread to which no slot belongs has nothing undone but what it is running.
SlotsTellTheTruth ==
  /\ \A t \in Tasks : handle[t] # 0 => (IsPending(t) <=> t \notin finished)
  /\ \A th \in Threads :
       OwnTasks(th) = {} => GivenBy(th) \ OnStack(th) \subseteq finished

\* Nobody sleeps on when all it waits for is done, whatever tasks have moved into
\* the slots since; and nobody waits for a slot while one is empty.
NobodyOversleeps ==
  \A th \in asleep :
    /\ call[th] \in {"wait", "wait_all", "shutdown"} => ~(Awaited(th) \subseteq finished)
    /\ call[th] = "add" => find_empty_task_slot = {}

\* A thread by which a task comes nearer to its end: it is about to take one, its
\* task has nothing left to wait for, or what its task waits for has come.
Advances(th) ==
  \/ th \in Searching /\ ReadyOnes # {}
  \/ /\ stack[th] # << >> /\ th \notin asleep
     /\ \/ call[th] = "none" /\ Joined(Current(th))
        \/ call[th] = "wait" /\ ~IsPending(arg[th])
        \/ call[th] = "wait_all" /\ OwnTasks(th) = {}

\* Tasks that add tasks and wait for them, in slots as few as the threads, never
\* bring the pool to a stop in which each waits for another.
NeverStuck == given \subseteq finished \/ \E th \in Threads : Advances(th)

\* Each task is run once, a wait returns only when its tasks are done, and when the
\* pool is destructed all it was given is done.
E == INSTANCE Executor WITH
       waits  <- [th \in Threads |-> IF call[th] \in {"wait", "wait_all"}
                                     THEN Awaited(th) ELSE {}],
       closed <- we_are_destructing
ImplementsExecutor == E!Spec

\* Tasks may wait for tasks they have added themselves, with every thread of the
\* pool busy: each is run in the end, if need be by the one who adds it.
TasksFinish == \A t \in Tasks : t \in given ~> t \in finished

\* Every call returns, the destructor too.
CallsReturn ==
  \A th \in Threads : call[th] \in {"add", "wait", "wait_all", "shutdown", "join"}
                        ~> call[th] = "none"
=============================================================================
