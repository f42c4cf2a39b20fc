-------------------------- MODULE ThreadPoolProofs --------------------------
(***************************************************************************)
(* Proof that dlib's thread_pool implements Executor, for any number of    *)
(* clients, threads and tasks: each task is run once, a wait returns only  *)
(* when its tasks are done, and the destructor leaves nothing behind; that *)
(* nobody sleeps on for a task that is done or a slot that is empty, and a *)
(* wait never finds in the slots what is not so; that there are always as  *)
(* many workers looking as there are tasks ready; and that tasks which     *)
(* wait for tasks never bring the pool to a stop.                          *)
(***************************************************************************)
EXTENDS ThreadPool, FiniteSetTheorems, SequenceTheorems, WellFoundedInduction, TLAPS

Depths(th) == 1 .. Len(stack[th])
At(th, k) == stack[th][k]

StacksRun ==
  \A th \in Threads : \A k \in Depths(th) :
    At(th, k) \in given /\ At(th, k) \notin finished /\ runs[At(th, k)] = 1

StacksApart ==
  \A th1, th2 \in Threads : \A k1 \in Depths(th1), k2 \in Depths(th2) :
    At(th1, k1) = At(th2, k2) => th1 = th2 /\ k1 = k2

StacksNest ==
  \A th \in Threads : \A k \in Depths(th) :
    /\ k > 1 => giver[At(th, k)] = At(th, k - 1)
    /\ th \in Clients /\ k = 1 => giver[At(th, k)] = th
    /\ th \in Clients \/ k > 1 => handle[At(th, k)] = 0

\* What is in a slot.
SlotsHold ==
  \A i \in Slots : ~is_empty(i) =>
    /\ bfp[i] \in given /\ bfp[i] \notin finished
    /\ handle[bfp[i]] = task_id[i] /\ task_id[i] % N = i
    /\ thread_id[i] \in Threads
    /\ \/ giver[bfp[i]] = thread_id[i]
       \/ \E k \in Depths(thread_id[i]) : giver[bfp[i]] = At(thread_id[i], k)
    /\ ~is_being_processed[i] => runs[bfp[i]] = 0

WorkersHold ==
  /\ \A i \in Slots : is_being_processed[i] => ~is_empty(i)
  /\ \A w \in Workers : stack[w] # << >> =>
       /\ idx[w] \in Slots /\ is_being_processed[idx[w]]
       /\ bfp[idx[w]] = At(w, 1)
  /\ \A w \in Workers : call[w] \in {"start", "look", "left"} => stack[w] = << >>
  /\ \A w \in Workers : call[w] # "start" => w \in worker_thread_ids

\* Where a task is that has been given and is not done.
InSlot(t) == \E i \in Slots : ~is_empty(i) /\ bfp[i] = t
Inline(t) == \E th \in Threads : \E k \in Depths(th) :
               At(th, k) = t /\ (k > 1 \/ th \in Clients)
TasksKept ==
  \A t \in Tasks :
    /\ giver[t] = None => runs[t] = 0 /\ handle[t] = 0 /\ t \notin finished
    /\ giver[t] # None /\ t \notin finished => InSlot(t) \/ Inline(t)
    /\ handle[t] # 0 /\ t \notin finished => InSlot(t)

CallsSound ==
  /\ \A th \in Threads : call[th] = "add" =>
       th \in Clients /\ arg[th] \in Tasks /\ giver[arg[th]] = None
  /\ \A c, d \in Threads : call[c] = "add" /\ call[d] = "add" /\ arg[c] = arg[d] => c = d
  /\ \A th \in Threads : call[th] = "wait" => arg[th] \in Tasks /\ handle[arg[th]] # 0
  /\ \A c \in Clients : call[c] \notin {"start", "look", "left"}
  /\ \A w \in Workers : call[w] \notin {"shutdown", "join"}
  /\ \A i \in Slots : next_task_id[i] > 0

ShutdownSound ==
  /\ we_are_destructing \/ Destructors # {} =>
       \A c \in Clients : stack[c] = << >> /\ call[c] \notin {"add", "wait_all"}
  /\ we_are_destructing => \A i \in Slots : is_empty(i)

Parts == StacksRun /\ StacksApart /\ StacksNest /\ SlotsHold /\ WorkersHold
         /\ TasksKept /\ CallsSound /\ ShutdownSound

IInv == TypeOK /\ Parts
-----------------------------------------------------------------------------
(* What the operators of the model do.                                     *)

LEMMA NType == N \in Nat /\ Slots \subseteq Nat /\ (Slots # {} => N > 0)
  <1>1. N \in Nat
    BY PoolAssumption, FS_CardinalityType DEF N
  <1> QED
    BY <1>1 DEF Slots

\* The slot of an id is found again from the id.
LEMMA IdIndex ==
  ASSUME NEW m \in Nat \ {0}, NEW n \in Nat, NEW i \in 0 .. m - 1
  PROVE  n * m + i \in Nat /\ (n * m + i) % m = i
  <1> DEFINE a == n * m + i
             q == a \div m
             r == a % m
  <1>1. n * m \in Nat /\ a \in Nat
    OBVIOUS
  <1>2. q \in Int /\ r \in 0 .. m - 1 /\ a = m * q + r
    BY <1>1
  <1> HIDE DEF q, r
  <1>3. m * (n - q) = r - i
    BY <1>2
  <1>4. CASE n = q
    BY <1>1, <1>2, <1>4 DEF r
  <1>5. CASE n > q
    <2>1. PICK d \in Nat : n - q = d + 1
      BY <1>2, <1>5
    <2>2. m * (d + 1) = m * d + m /\ m * d >= 0
      BY <2>1
    <2> QED
      BY <1>2, <1>3, <2>1, <2>2
  <1>6. CASE n < q
    <2>1. PICK d \in Nat : q - n = d + 1
      BY <1>2, <1>6
    <2>2. m * (d + 1) = m * d + m /\ m * d >= 0
      BY <2>1
    <2>3. m * (q - n) = i - r
      BY <1>2
    <2> QED
      BY <1>2, <2>1, <2>2, <2>3
  <1> QED
    BY <1>2, <1>4, <1>5, <1>6

LEMMA PushStack ==
  ASSUME TypeOK, NEW th \in Threads, NEW t \in Tasks, Push(th, t)
  PROVE  /\ stack' \in [Threads -> Seq(Tasks)]
         /\ \A o \in Threads : o # th => stack'[o] = stack[o]
         /\ Len(stack[th]) \in Nat /\ Len(stack'[th]) = Len(stack[th]) + 1
         /\ \A k \in Depths(th) : stack'[th][k] = stack[th][k]
         /\ stack'[th][Len(stack[th]) + 1] = t
         /\ stack'[th] # << >>
  <1>1. stack[th] \in Seq(Tasks) /\ stack'[th] = Append(stack[th], t)
    BY DEF TypeOK, Push
  <1>2. /\ Len(stack[th]) \in Nat
        /\ Append(stack[th], t) \in Seq(Tasks)
        /\ Len(Append(stack[th], t)) = Len(stack[th]) + 1
        /\ \A k \in 1 .. Len(stack[th]) : Append(stack[th], t)[k] = stack[th][k]
        /\ Append(stack[th], t)[Len(stack[th]) + 1] = t
    BY <1>1, AppendProperties, LenProperties
  <1>3. stack'[th] # << >>
    BY <1>1, <1>2
  <1> QED
    BY <1>1, <1>2, <1>3 DEF TypeOK, Push, Depths

LEMMA PopStack ==
  ASSUME TypeOK, NEW th \in Threads, stack[th] # << >>, Pop(th)
  PROVE  /\ stack' \in [Threads -> Seq(Tasks)]
         /\ \A o \in Threads : o # th => stack'[o] = stack[o]
         /\ Len(stack[th]) \in Nat \ {0} /\ Len(stack'[th]) = Len(stack[th]) - 1
         /\ \A k \in 1 .. Len(stack[th]) - 1 : stack'[th][k] = stack[th][k]
         /\ Current(th) = stack[th][Len(stack[th])] /\ Current(th) \in Tasks
  <1>1. stack[th] \in Seq(Tasks)
        /\ stack'[th] = SubSeq(stack[th], 1, Len(stack[th]) - 1)
    BY DEF TypeOK, Pop
  <1>2. Len(stack[th]) \in Nat \ {0} /\ \A k \in 1 .. Len(stack[th]) : stack[th][k] \in Tasks
    BY <1>1, LenProperties, ElementOfSeq, EmptySeq
  <1>3. /\ SubSeq(stack[th], 1, Len(stack[th]) - 1) \in Seq(Tasks)
        /\ Len(SubSeq(stack[th], 1, Len(stack[th]) - 1)) = Len(stack[th]) - 1
        /\ \A k \in 1 .. Len(stack[th]) - 1 :
             SubSeq(stack[th], 1, Len(stack[th]) - 1)[k] = stack[th][k]
    BY <1>1, <1>2
  <1> QED
    BY <1>1, <1>2, <1>3 DEF TypeOK, Pop, Current

LEMMA StackType ==
  ASSUME TypeOK, NEW th \in Threads
  PROVE  /\ Len(stack[th]) \in Nat /\ (stack[th] = << >> <=> Len(stack[th]) = 0)
         /\ \A k \in Depths(th) : At(th, k) \in Tasks
  <1>1. stack[th] \in Seq(Tasks)
    BY DEF TypeOK
  <1> QED
    BY <1>1, LenProperties, ElementOfSeq, EmptySeq DEF Depths, At
-----------------------------------------------------------------------------
(* Steps that move neither tasks nor stacks.                               *)

Placed == <<tasks, idx, stack, history>>

LEMMA PlacedStays ==
  ASSUME IInv, UNCHANGED Placed
  PROVE  StacksRun' /\ StacksApart' /\ StacksNest' /\ SlotsHold' /\ TasksKept'
  <1>1. StacksRun' /\ StacksApart' /\ StacksNest'
    BY DEF IInv, Parts, Placed, history, StacksRun, StacksApart, StacksNest, Depths, At,
           given
  <1>2. SlotsHold'
    BY DEF IInv, Parts, Placed, tasks, history, SlotsHold, Depths, At, given, is_empty
  <1>3. TasksKept'
    BY DEF IInv, Parts, Placed, tasks, history, TasksKept, InSlot, Inline, Depths, At,
           is_empty
  <1> QED
    BY <1>1, <1>2, <1>3

LEMMA WorkersStay ==
  ASSUME IInv, UNCHANGED Placed, UNCHANGED worker_thread_ids,
         \A w \in Workers :
           /\ call'[w] \in {"start", "look", "left"} =>
                call[w] \in {"start", "look", "left"}
           /\ call'[w] # "start" => call[w] # "start"
  PROVE  WorkersHold'
  <1>1. /\ worker_thread_ids' = worker_thread_ids /\ stack' = stack /\ idx' = idx
        /\ is_being_processed' = is_being_processed /\ bfp' = bfp /\ task_id' = task_id
        /\ \A w \in Workers : /\ call[w] \in {"start", "look", "left"} => stack[w] = << >>
                              /\ call[w] # "start" => w \in worker_thread_ids
        /\ WorkersHold
    BY DEF IInv, Parts, Placed, tasks, WorkersHold
  <1>2. \A w \in Workers : /\ call'[w] \in {"start", "look", "left"} => stack'[w] = << >>
                           /\ call'[w] # "start" => w \in worker_thread_ids'
    BY <1>1
  <1>3. \A w \in Workers : stack'[w] # << >> =>
          /\ idx'[w] \in Slots /\ is_being_processed'[idx'[w]]
          /\ bfp'[idx'[w]] = stack'[w][1]
    BY <1>1 DEF WorkersHold, At
  <1>4. \A i \in Slots : is_being_processed'[i] => ~is_empty(i)'
    BY <1>1 DEF WorkersHold, is_empty
  <1> QED
    BY <1>2, <1>3, <1>4 DEF WorkersHold, At

\* The thread is not in one of the places of thread() before or after.
LEMMA CallKeeps ==
  ASSUME IInv, UNCHANGED Placed, NEW th \in Threads, NEW c,
         call' = [call EXCEPT ![th] = c], arg' \in [Threads -> Tasks \cup {None}],
         asleep' \subseteq Threads, we_are_destructing' \in BOOLEAN,
         c \in {"none", "add", "wait", "wait_all"}
           \/ (th \in Clients /\ c \in {"shutdown", "join"}),
         call[th] \notin {"start", "look", "left"},
         UNCHANGED worker_thread_ids,
         CallsSound', ShutdownSound'
  PROVE  IInv'
  <1>1. TypeOK'
    BY DEF IInv, TypeOK, Placed, tasks, history
  <1>2. WorkersHold'
    <2>1. \A w \in Workers : /\ call'[w] \in {"start", "look", "left"} =>
                                  call[w] \in {"start", "look", "left"}
                             /\ call'[w] # "start" => call[w] # "start"
      BY PoolAssumption DEF IInv, TypeOK, Threads
    <2> QED
      BY <2>1, WorkersStay
  <1> QED
    BY <1>1, <1>2, PlacedStays DEF IInv, Parts

LEMMA RegisterKeeps ==
  ASSUME IInv, NEW w \in Workers, Register(w)
  PROVE  IInv'
  <1>1. UNCHANGED Placed /\ w \in Threads
    BY DEF Register, Placed, Threads
  <1>2. TypeOK'
    BY <1>1 DEF Register, IInv, TypeOK, Placed, tasks, history
  <1>3. WorkersHold'
    BY <1>1 DEF Register, IInv, Parts, TypeOK, WorkersHold, Placed, tasks, history, At,
                is_empty
  <1>4. CallsSound' /\ ShutdownSound'
    BY <1>1, PoolAssumption
       DEF Register, IInv, Parts, TypeOK, CallsSound, ShutdownSound, Placed, tasks,
           history, Destructors, Threads, is_empty
  <1> QED
    BY <1>1, <1>2, <1>3, <1>4, PlacedStays DEF IInv, Parts

LEMMA IdleLookKeeps ==
  ASSUME IInv, NEW w \in Workers, Look(w), ~TakesTask(w)
  PROVE  IInv'
  <1>1. UNCHANGED Placed /\ w \in Threads /\ call[w] = "look"
    BY DEF Look, FindsNone, Leaves, Resumes, Placed, tasks, history, Threads
  <1>2. /\ call' = call \/ call' = [call EXCEPT ![w] = "left"]
        /\ asleep' \subseteq Threads
        /\ UNCHANGED <<worker_thread_ids, we_are_destructing, arg>>
    BY <1>1 DEF Look, FindsNone, Leaves, IInv, TypeOK
  <1>3. TypeOK'
    BY <1>1, <1>2 DEF IInv, TypeOK, Placed, tasks, history
  <1>4. WorkersHold'
    <2>1. \A v \in Workers : /\ call'[v] \in {"start", "look", "left"} =>
                                  call[v] \in {"start", "look", "left"}
                             /\ call'[v] # "start" => call[v] # "start"
      BY <1>1, <1>2 DEF IInv, TypeOK, Threads
    <2> QED
      BY <1>1, <1>2, <2>1, WorkersStay
  <1>5. CallsSound' /\ ShutdownSound'
    BY <1>1, <1>2, PoolAssumption
       DEF IInv, Parts, TypeOK, CallsSound, ShutdownSound, Placed, tasks,
           history, Destructors, Threads, is_empty
  <1> QED
    BY <1>1, <1>3, <1>4, <1>5, PlacedStays DEF IInv, Parts

\* What keeps CallsSound and ShutdownSound when a thread changes its call.
LEMMA CallSound ==
  ASSUME IInv, UNCHANGED Placed, NEW th \in Threads, NEW c, NEW t \in Tasks \cup {None},
         call' = [call EXCEPT ![th] = c], arg' = [arg EXCEPT ![th] = t],
         UNCHANGED we_are_destructing,
         c \in {"none", "wait", "wait_all"},
         call[th] \notin {"start", "look", "left", "shutdown", "join"}
           \/ c = "none",
         c = "wait" => t \in Tasks /\ handle[t] # 0,
         c = "wait_all" => th \in Workers \/ (Destructors = {} /\ ~we_are_destructing)
                           \/ call[th] = "wait_all"
  PROVE  CallsSound' /\ ShutdownSound'
  <1>1. CallsSound'
    BY PoolAssumption
       DEF IInv, Parts, TypeOK, CallsSound, Placed, tasks, history, Threads
  <1>2. Destructors' \subseteq Destructors
    BY DEF IInv, TypeOK, Destructors, Threads
  <1>3. ShutdownSound'
    BY <1>2, PoolAssumption
       DEF IInv, Parts, TypeOK, ShutdownSound, Placed, tasks, history, Threads, is_empty
  <1> QED
    BY <1>1, <1>3

LEMMA WaitKeeps ==
  ASSUME IInv, NEW th \in Threads, NEW t \in Tasks, wait_for_task(th, t)
  PROVE  IInv'
  <1>1. UNCHANGED Placed /\ UNCHANGED <<worker_thread_ids, we_are_destructing>>
    BY DEF wait_for_task, Placed
  <1>2. call[th] \in {"none", "wait"} /\ handle[t] # 0
    BY DEF wait_for_task, Enters, Resumes, IInv, Parts, CallsSound
  <1>3. PICK c \in {"none", "wait"}, a \in {t, None} :
          /\ call' = [call EXCEPT ![th] = c] /\ arg' = [arg EXCEPT ![th] = a]
          /\ asleep' \subseteq Threads
          /\ c = "wait" => a = t
    BY DEF wait_for_task, Sleeps, Returns, IInv, TypeOK
  <1>4. CallsSound' /\ ShutdownSound'
    BY <1>1, <1>2, <1>3, CallSound
  <1>5. arg' \in [Threads -> Tasks \cup {None}] /\ we_are_destructing' \in BOOLEAN
    BY <1>1, <1>3 DEF IInv, TypeOK
  <1> QED
    BY <1>1, <1>2, <1>3, <1>4, <1>5, CallKeeps

LEMMA WaitAllKeeps ==
  ASSUME IInv, NEW th \in Threads, wait_for_all_tasks(th)
  PROVE  IInv'
  <1>1. UNCHANGED Placed /\ UNCHANGED <<worker_thread_ids, we_are_destructing>>
    BY DEF wait_for_all_tasks, Placed
  <1>2. /\ call[th] \in {"none", "wait_all"}
        /\ \/ th \in Workers \/ (Destructors = {} /\ ~we_are_destructing)
           \/ call[th] = "wait_all"
    BY DEF wait_for_all_tasks, Enters, Resumes, CanAdd
  <1>3. PICK c \in {"none", "wait_all"} :
          /\ call' = [call EXCEPT ![th] = c] /\ arg' = [arg EXCEPT ![th] = None]
          /\ asleep' \subseteq Threads
    BY DEF wait_for_all_tasks, Sleeps, Returns, IInv, TypeOK
  <1>4. CallsSound' /\ ShutdownSound'
    BY <1>1, <1>2, <1>3, CallSound
  <1>5. arg' \in [Threads -> Tasks \cup {None}] /\ we_are_destructing' \in BOOLEAN
    BY <1>1, <1>3 DEF IInv, TypeOK
  <1> QED
    BY <1>1, <1>2, <1>3, <1>4, <1>5, CallKeeps

LEMMA JoinKeeps ==
  ASSUME IInv, NEW c \in Clients, Join(c)
  PROVE  IInv'
  <1>1. /\ UNCHANGED Placed /\ UNCHANGED <<worker_thread_ids, we_are_destructing, asleep>>
        /\ c \in Threads /\ call[c] = "join"
        /\ call' = [call EXCEPT ![c] = "none"] /\ arg' = [arg EXCEPT ![c] = None]
    BY DEF Join, Placed, Returns, Threads
  <1>2. CallsSound' /\ ShutdownSound'
    BY <1>1, CallSound
  <1>3. /\ arg' \in [Threads -> Tasks \cup {None}] /\ we_are_destructing' \in BOOLEAN
        /\ asleep' \subseteq Threads
    BY <1>1 DEF IInv, TypeOK
  <1> QED
    BY <1>1, <1>2, <1>3, CallKeeps

LEMMA WakesUpKeeps ==
  ASSUME IInv, NEW th \in Threads, WakesUp(th)
  PROVE  IInv'
  <1>1. /\ UNCHANGED Placed /\ asleep' \subseteq Threads
        /\ UNCHANGED <<worker_thread_ids, we_are_destructing, call, arg>>
    BY DEF WakesUp, Placed, IInv, TypeOK
  <1>2. TypeOK'
    BY <1>1 DEF IInv, TypeOK, Placed, tasks, history
  <1>3. WorkersHold'
    BY <1>1 DEF IInv, Parts, WorkersHold, Placed, tasks, history, At, is_empty
  <1>4. CallsSound' /\ ShutdownSound'
    BY <1>1 DEF IInv, Parts, CallsSound, ShutdownSound, Placed, tasks, history,
                Destructors, is_empty
  <1> QED
    BY <1>1, <1>2, <1>3, <1>4, PlacedStays DEF IInv, Parts

LEMMA ShutdownKeeps ==
  ASSUME IInv, NEW c \in Clients, shutdown_pool(c)
  PROVE  IInv'
  <1>1. /\ UNCHANGED Placed /\ UNCHANGED worker_thread_ids
        /\ c \in Threads /\ call[c] \in {"none", "shutdown"}
    BY DEF shutdown_pool, Enters, Resumes, Placed, Threads
  <1>2. \A d \in Clients : stack[d] = << >> /\ call[d] \notin {"add", "wait_all"}
    BY <1>1 DEF shutdown_pool, Enters, Resumes, IInv, Parts, ShutdownSound, Destructors
  <1>3. PICK n \in {"shutdown", "join"} :
          /\ call' = [call EXCEPT ![c] = n]
          /\ arg' \in [Threads -> Tasks \cup {None}] /\ asleep' \subseteq Threads
          /\ we_are_destructing' \in BOOLEAN
          /\ \A th \in Threads \ {c} : arg'[th] = arg[th]
          /\ we_are_destructing' => we_are_destructing \/ Pending = {}
    <2>1. CASE Pending # {}
      BY <1>1, <2>1 DEF shutdown_pool, Sleeps, IInv, TypeOK
    <2>2. CASE Pending = {}
      BY <1>1, <2>2 DEF shutdown_pool, Lookers, IInv, TypeOK
    <2> QED
      BY <2>1, <2>2
  <1>4. CallsSound'
    BY <1>1, <1>3, PoolAssumption
       DEF IInv, Parts, TypeOK, CallsSound, Placed, tasks, history, Threads
  <1>5. ShutdownSound'
    <2>1. \A d \in Clients : stack'[d] = << >> /\ call'[d] \notin {"add", "wait_all"}
      BY <1>1, <1>2, <1>3 DEF Placed, IInv, TypeOK, Threads
    <2>2. we_are_destructing' => \A i \in Slots : task_id[i] = 0
      BY <1>3 DEF Pending, is_empty, IInv, Parts, ShutdownSound
    <2> QED
      BY <1>1, <2>1, <2>2 DEF ShutdownSound, Placed, tasks, is_empty
  <1> QED
    BY <1>1, <1>3, <1>4, <1>5, CallKeeps

LEMMA WaitsForSlotKeeps ==
  ASSUME IInv, NEW th \in Threads, NEW t \in Tasks, AddTask(th, t), WaitsForSlot(th, t)
  PROVE  IInv'
  <1>1. /\ UNCHANGED Placed /\ UNCHANGED <<worker_thread_ids, we_are_destructing>>
        /\ call' = [call EXCEPT ![th] = "add"] /\ arg' = [arg EXCEPT ![th] = t]
        /\ asleep' \subseteq Threads
    BY DEF AddTask, WaitsForSlot, Sleeps, Placed, history, IInv, TypeOK
  <1>2. \/ call[th] = "add" /\ t = arg[th]
        \/ Enters(th) /\ CanAdd(th) /\ Fresh(t)
    BY DEF AddTask, Resumes
  <1>3. th \in Clients
    <2>1. CASE Enters(th)
      BY <2>1 DEF WaitsForSlot, MustWaitForSlot, is_worker_thread, Enters, IInv, Parts,
                  WorkersHold, Threads
    <2>2. CASE ~Enters(th)
      BY <2>2, <1>2 DEF IInv, Parts, CallsSound
    <2> QED
      BY <2>1, <2>2
  <1>4. giver[t] = None /\ \A d \in Threads : call[d] = "add" /\ arg[d] = t => d = th
    BY <1>2 DEF Fresh, Called, IInv, Parts, CallsSound
  <1>5. CallsSound'
    BY <1>1, <1>3, <1>4, PoolAssumption
       DEF IInv, Parts, TypeOK, CallsSound, Placed, tasks, history, Threads
  <1>6. Destructors = {} /\ ~we_are_destructing
    <2>1. CASE call[th] = "add"
      BY <2>1, <1>3 DEF IInv, Parts, ShutdownSound
    <2>2. CASE call[th] # "add"
      BY <2>2, <1>2, <1>3, PoolAssumption DEF CanAdd
    <2> QED
      BY <2>1, <2>2
  <1>7. Destructors' = {}
    BY <1>1, <1>6 DEF IInv, TypeOK, Destructors, Threads
  <1>8. ShutdownSound'
    BY <1>1, <1>6, <1>7 DEF ShutdownSound
  <1>9. call[th] \notin {"start", "look", "left"}
    BY <1>2 DEF Enters
  <1> QED
    BY <1>1, <1>3, <1>5, <1>8, <1>9, CallKeeps DEF IInv, TypeOK
-----------------------------------------------------------------------------
(* Steps that move a task.                                                 *)

LEMMA SlotUnique ==
  ASSUME IInv, NEW i \in Slots, NEW j \in Slots, ~is_empty(i), ~is_empty(j),
         bfp[i] = bfp[j]
  PROVE  i = j
  BY DEF IInv, Parts, SlotsHold

LEMMA TakesTaskKeeps ==
  ASSUME IInv, NEW w \in Workers, Look(w), TakesTask(w)
  PROVE  IInv'
  <1>1. PICK i \in Slots :
          /\ is_ready(i) /\ Marked(i) /\ idx' = [idx EXCEPT ![w] = i]
          /\ Push(w, bfp[i]) /\ runs' = [runs EXCEPT ![bfp[i]] = @ + 1]
    BY DEF TakesTask, find_ready_task
  <1> DEFINE t == bfp[i]
  <1>2. /\ w \in Threads /\ call[w] = "look" /\ call' = [call EXCEPT ![w] = "none"]
        /\ UNCHANGED <<task_id, thread_id, next_task_id, bfp, asleep, handle, finished>>
        /\ UNCHANGED <<worker_thread_ids, we_are_destructing, arg, giver>>
        /\ ~we_are_destructing /\ stack[w] = << >>
    BY DEF Look, TakesTask, Resumes, Threads, IInv, Parts, WorkersHold
  <1>3. /\ ~is_empty(i) /\ ~is_being_processed[i]
        /\ t \in given /\ t \in Tasks /\ t \notin finished /\ runs[t] = 0
    BY <1>1 DEF is_ready, IInv, Parts, SlotsHold, given
  <1>4. /\ stack' \in [Threads -> Seq(Tasks)]
        /\ \A o \in Threads : o # w => stack'[o] = stack[o]
        /\ Len(stack'[w]) = 1 /\ stack'[w][1] = t
        /\ stack'[w] # << >> /\ Len(stack[w]) = 0
    <2>1. TypeOK /\ Len(stack[w]) = 0 /\ Push(w, t)
      BY <1>1, <1>2, StackType DEF IInv
    <2>2. t \in Tasks
      BY <1>3
    <2> HIDE DEF t
    <2>3. /\ stack' \in [Threads -> Seq(Tasks)]
          /\ \A o \in Threads : o # w => stack'[o] = stack[o]
          /\ Len(stack'[w]) = Len(stack[w]) + 1 /\ stack'[w][Len(stack[w]) + 1] = t
          /\ stack'[w] # << >>
      BY <2>1, <2>2, <1>2, PushStack
    <2> QED
      BY <2>1, <2>3
  <1>5. \A u \in Tasks : runs'[u] = IF u = t THEN 1 ELSE runs[u]
    BY <1>1, <1>3 DEF IInv, TypeOK
  <1>6. \A o \in Threads : \A k \in Depths(o) : At(o, k) \in Tasks /\ At(o, k) # t
    BY <1>3, StackType DEF IInv, Parts, StacksRun
  <1> HIDE DEF t
  <1>8. TypeOK'
    <2>1. /\ runs' \in [Tasks -> Nat] /\ idx' \in [Workers -> Nat]
          /\ is_being_processed' \in [Slots -> BOOLEAN]
      BY <1>1, <1>3, NType DEF IInv, TypeOK, Marked, t
    <2>2. call' \in [Threads -> {"start", "look", "left", "none", "add", "wait",
                                "wait_all", "shutdown", "join"}]
      BY <1>2 DEF IInv, TypeOK
    <2> QED
      BY <2>1, <2>2, <1>2, <1>4 DEF IInv, TypeOK
  <1>9. StacksRun'
    <2>1. ASSUME NEW o \in Threads, NEW k \in 1 .. Len(stack'[o])
          PROVE  /\ giver'[stack'[o][k]] # None /\ stack'[o][k] \in Tasks
                 /\ stack'[o][k] \notin finished' /\ runs'[stack'[o][k]] = 1
      <3>1. CASE o = w
        BY <3>1, <1>2, <1>3, <1>4, <1>5 DEF given
      <3>2. CASE o # w
        <4>1. k \in Depths(o) /\ stack'[o][k] = At(o, k)
          BY <3>2, <1>4 DEF Depths, At
        <4>2. At(o, k) \in given /\ At(o, k) \notin finished /\ runs[At(o, k)] = 1
          BY <4>1 DEF IInv, Parts, StacksRun
        <4> QED
          BY <4>1, <4>2, <1>2, <1>5, <1>6 DEF given
      <3> QED
        BY <3>1, <3>2
    <2> QED
      BY <2>1 DEF StacksRun, Depths, At, given
  <1>10. StacksApart'
    <2>1. ASSUME NEW o1 \in Threads, NEW o2 \in Threads,
                 NEW k1 \in 1 .. Len(stack'[o1]), NEW k2 \in 1 .. Len(stack'[o2]),
                 stack'[o1][k1] = stack'[o2][k2]
          PROVE  o1 = o2 /\ k1 = k2
      <3>1. CASE o1 # w /\ o2 # w
        BY <3>1, <2>1, <1>4 DEF IInv, Parts, StacksApart, Depths, At
      <3>2. CASE o1 = w /\ o2 # w
        BY <3>2, <2>1, <1>4, <1>6 DEF Depths, At
      <3>3. CASE o1 # w /\ o2 = w
        BY <3>3, <2>1, <1>4, <1>6 DEF Depths, At
      <3>4. CASE o1 = w /\ o2 = w
        BY <3>4, <1>4
      <3> QED
        BY <3>1, <3>2, <3>3, <3>4
    <2> QED
      BY <2>1 DEF StacksApart, Depths, At
  <1>11. StacksNest'
    BY <1>2, <1>4, PoolAssumption DEF IInv, Parts, StacksNest, Depths, At
  <1>12. SlotsHold'
    <2>1. ASSUME NEW j \in Slots, task_id'[j] # 0
          PROVE  /\ bfp'[j] \in Tasks /\ giver'[bfp'[j]] # None /\ bfp'[j] \notin finished'
                 /\ handle'[bfp'[j]] = task_id'[j] /\ task_id'[j] % N = j
                 /\ thread_id'[j] \in Threads
                 /\ \/ giver'[bfp'[j]] = thread_id'[j]
                    \/ \E k \in 1 .. Len(stack'[thread_id'[j]]) :
                         giver'[bfp'[j]] = stack'[thread_id'[j]][k]
                 /\ ~is_being_processed'[j] => runs'[bfp'[j]] = 0
      <3>1. ~is_empty(j)
        BY <1>2, <2>1 DEF is_empty
      <3>2. /\ bfp[j] \in given /\ bfp[j] \notin finished
            /\ handle[bfp[j]] = task_id[j] /\ task_id[j] % N = j
            /\ thread_id[j] \in Threads
            /\ ~is_being_processed[j] => runs[bfp[j]] = 0
        BY <3>1 DEF IInv, Parts, SlotsHold
      <3>3. \/ giver[bfp[j]] = thread_id[j]
            \/ \E k \in Depths(thread_id[j]) : giver[bfp[j]] = At(thread_id[j], k)
        BY <3>1 DEF IInv, Parts, SlotsHold
      <3>4. \/ giver'[bfp'[j]] = thread_id'[j]
            \/ \E k \in 1 .. Len(stack'[thread_id'[j]]) :
                 giver'[bfp'[j]] = stack'[thread_id'[j]][k]
        BY <3>2, <3>3, <1>2, <1>4 DEF Depths, At
      <3>5. ~is_being_processed'[j] => runs'[bfp'[j]] = 0
        <4>1. SUFFICES ASSUME ~is_being_processed'[j] PROVE runs[bfp[j]] = 0 /\ bfp[j] # t
          BY <1>2, <1>5, <3>2 DEF given
        <4>2. j # i /\ ~is_being_processed[j]
          BY <4>1, <1>1 DEF Marked, IInv, TypeOK
        <4> QED
          BY <4>2, <3>1, <3>2, <1>3, SlotUnique DEF t
      <3> QED
        BY <3>2, <3>4, <3>5, <1>2 DEF given
    <2> QED
      BY <2>1 DEF SlotsHold, is_empty, given, Depths, At
  <1>13. WorkersHold'
    <2>1. \A j \in Slots : is_being_processed'[j] => task_id'[j] # 0
      BY <1>1, <1>2, <1>3 DEF Marked, IInv, TypeOK, Parts, WorkersHold, is_empty
    <2>2. ASSUME NEW v \in Workers, stack'[v] # << >>
          PROVE  idx'[v] \in Slots /\ is_being_processed'[idx'[v]]
                 /\ bfp'[idx'[v]] = stack'[v][1]
      <3>1. CASE v = w
        BY <3>1, <1>1, <1>2, <1>4 DEF Marked, IInv, TypeOK, t
      <3>2. CASE v # w
        <4>1. idx'[v] = idx[v] /\ stack'[v] = stack[v]
          BY <3>2, <1>1, <1>4 DEF IInv, TypeOK, Threads
        <4>2. idx[v] \in Slots /\ is_being_processed[idx[v]] /\ bfp[idx[v]] = stack[v][1]
          BY <4>1, <2>2 DEF IInv, Parts, WorkersHold, At
        <4> QED
          BY <4>1, <4>2, <1>1, <1>2 DEF Marked, IInv, TypeOK
      <3> QED
        BY <3>1, <3>2
    <2>3. \A v \in Workers : /\ call'[v] \in {"start", "look", "left"} => stack'[v] = << >>
                             /\ call'[v] # "start" => v \in worker_thread_ids'
      BY <1>2, <1>4 DEF IInv, TypeOK, Parts, WorkersHold, Threads
    <2> QED
      BY <2>1, <2>2, <2>3 DEF WorkersHold, is_empty, At
  <1>14. TasksKept'
    <2>1. ASSUME NEW u \in Tasks
          PROVE  /\ giver'[u] = None => runs'[u] = 0 /\ handle'[u] = 0 /\ u \notin finished'
                 /\ giver'[u] # None /\ u \notin finished' => InSlot(u)' \/ Inline(u)'
                 /\ handle'[u] # 0 /\ u \notin finished' => InSlot(u)'
      <3>1. InSlot(u)' <=> InSlot(u)
        BY <1>2 DEF InSlot, is_empty
      <3>2. Inline(u) => Inline(u)'
        BY <1>4 DEF Inline, Depths, At
      <3> QED
        BY <3>1, <3>2, <1>2, <1>3, <1>5 DEF IInv, Parts, TasksKept, given
    <2> QED
      BY <2>1 DEF TasksKept
  <1>15. CallsSound'
    BY <1>2, PoolAssumption DEF IInv, TypeOK, Parts, CallsSound, Threads
  <1>16. ShutdownSound'
    BY <1>2, <1>4, PoolAssumption
       DEF IInv, TypeOK, Parts, ShutdownSound, Destructors, Threads
  <1> QED
    BY <1>8, <1>9, <1>10, <1>11, <1>12, <1>13, <1>14, <1>15, <1>16 DEF IInv, Parts

LEMMA AddFacts ==
  ASSUME IInv, NEW th \in Threads, NEW t \in Tasks, AddTask(th, t)
  PROVE  /\ giver[t] = None /\ runs[t] = 0 /\ t \notin finished /\ handle[t] = 0
         /\ call[th] \in {"none", "add"} /\ (th \in Clients \/ stack[th] # << >>)
         /\ \A o \in Threads : call[o] = "add" /\ arg[o] = t => o = th
         /\ Current(th) \in Tasks \cup Clients
         /\ \/ stack[th] = << >> /\ Current(th) = th
            \/ /\ stack[th] # << >> /\ Len(stack[th]) \in Depths(th)
               /\ Current(th) = At(th, Len(stack[th]))
         /\ ~we_are_destructing /\ (th \in Clients => Destructors = {})
  <1>1. \/ Enters(th) /\ CanAdd(th) /\ Fresh(t)
        \/ call[th] = "add" /\ t = arg[th] /\ th \in Clients
    BY DEF AddTask, Resumes, IInv, Parts, CallsSound
  <1>2. giver[t] = None /\ \A o \in Threads : call[o] = "add" /\ arg[o] = t => o = th
    BY <1>1 DEF Fresh, Called, IInv, Parts, CallsSound
  <1>3. runs[t] = 0 /\ t \notin finished /\ handle[t] = 0
    BY <1>2 DEF IInv, Parts, TasksKept
  <1>4. call[th] \in {"none", "add"} /\ (th \in Clients \/ stack[th] # << >>)
    BY <1>1 DEF Enters, Threads
  <1>5. \/ stack[th] = << >> /\ Current(th) = th
        \/ /\ stack[th] # << >> /\ Len(stack[th]) \in Depths(th)
           /\ Current(th) = At(th, Len(stack[th])) /\ Current(th) \in Tasks
    <2>1. CASE stack[th] = << >>
      BY <2>1 DEF Current
    <2>2. CASE stack[th] # << >>
      <3>1. Len(stack[th]) \in Depths(th)
        BY <2>2, StackType DEF IInv, Depths
      <3> QED
        BY <2>2, <3>1, StackType DEF IInv, Current, At
    <2> QED
      BY <2>1, <2>2
  <1>6. Current(th) \in Tasks \cup Clients
    BY <1>4, <1>5
  <1>7. ~we_are_destructing /\ (th \in Clients => Destructors = {})
    <2>1. CASE th \in Clients
      BY <1>1, <2>1, PoolAssumption DEF CanAdd, IInv, Parts, ShutdownSound
    <2>2. CASE th \in Workers
      BY <1>4, <2>2, PoolAssumption DEF IInv, Parts, ShutdownSound, WorkersHold
    <2> QED
      BY <2>1, <2>2, PoolAssumption DEF Threads
  <1> QED
    BY <1>2, <1>3, <1>4, <1>5, <1>6, <1>7

LEMMA RunsInlineKeeps ==
  ASSUME IInv, NEW th \in Threads, NEW t \in Tasks,
         AddTask(th, t), Enters(th), RunsInline(th, t)
  PROVE  IInv'
  <1>1. /\ giver' = [giver EXCEPT ![t] = Current(th)] /\ Push(th, t)
        /\ runs' = [runs EXCEPT ![t] = @ + 1]
        /\ UNCHANGED <<tasks, call, arg, asleep, handle>>
        /\ UNCHANGED <<worker_thread_ids, we_are_destructing, idx, finished>>
    BY DEF AddTask, RunsInline
  <1>2. /\ giver[t] = None /\ runs[t] = 0 /\ t \notin finished /\ handle[t] = 0
        /\ th \in Clients \/ stack[th] # << >>
        /\ \A o \in Threads : call[o] = "add" /\ arg[o] = t => o = th
        /\ Current(th) \in Tasks \cup Clients
        /\ \/ stack[th] = << >> /\ Current(th) = th
           \/ /\ stack[th] # << >> /\ Len(stack[th]) \in Depths(th)
              /\ Current(th) = At(th, Len(stack[th]))
        /\ ~we_are_destructing /\ (th \in Clients => Destructors = {})
    BY AddFacts
  <1>3. call[th] = "none"
    BY DEF Enters
  <1> DEFINE n == Len(stack[th])
  <1>4. /\ stack' \in [Threads -> Seq(Tasks)]
        /\ \A o \in Threads : o # th => stack'[o] = stack[o]
        /\ n \in Nat /\ Len(stack'[th]) = n + 1
        /\ \A k \in Depths(th) : stack'[th][k] = stack[th][k]
        /\ stack'[th][n + 1] = t /\ stack'[th] # << >>
        /\ stack[th] = << >> <=> n = 0
    BY <1>1, PushStack, StackType DEF IInv
  <1>5. \A o \in Threads : \A k \in Depths(o) :
          At(o, k) \in Tasks /\ At(o, k) # t /\ stack'[o][k] = At(o, k)
    <2>1. ASSUME NEW o \in Threads, NEW k \in Depths(o)
          PROVE  At(o, k) \in Tasks /\ At(o, k) # t
      BY <1>2, StackType DEF IInv, Parts, StacksRun, given
    <2> QED
      BY <2>1, <1>4 DEF At
  <1>6. \A o \in Threads : \A k \in 1 .. Len(stack'[o]) :
          k \in Depths(o) \/ (o = th /\ k = n + 1)
    BY <1>4 DEF Depths
  <1>7. \A o \in Threads : \A k \in Depths(o) : k \in 1 .. Len(stack'[o])
    BY <1>4 DEF Depths
  <1>8. \A u \in Tasks : /\ u # t => runs'[u] = runs[u] /\ giver'[u] = giver[u]
                         /\ runs'[t] = 1 /\ giver'[t] = Current(th)
    BY <1>1, <1>2 DEF IInv, TypeOK
  <1>9. Current(th) # None
    BY <1>2, PoolAssumption
  <1> HIDE DEF n
  <1>10. TypeOK'
    <2>1. giver' \in [Tasks -> Tasks \cup Clients \cup {None}] /\ runs' \in [Tasks -> Nat]
      BY <1>1, <1>2 DEF IInv, TypeOK
    <2> QED
      BY <2>1, <1>1, <1>4 DEF IInv, TypeOK, tasks
  <1>11. StacksRun'
    <2>1. ASSUME NEW o \in Threads, NEW k \in 1 .. Len(stack'[o])
          PROVE  /\ giver'[stack'[o][k]] # None /\ stack'[o][k] \in Tasks
                 /\ stack'[o][k] \notin finished' /\ runs'[stack'[o][k]] = 1
      <3>1. CASE k \in Depths(o)
        <4>1. At(o, k) \in given /\ At(o, k) \notin finished /\ runs[At(o, k)] = 1
          BY <3>1 DEF IInv, Parts, StacksRun
        <4> QED
          BY <3>1, <4>1, <1>1, <1>5, <1>8 DEF given
      <3>2. CASE o = th /\ k = n + 1
        BY <3>2, <1>1, <1>2, <1>4, <1>8, <1>9
      <3> QED
        BY <3>1, <3>2, <1>6
    <2> QED
      BY <2>1 DEF StacksRun, Depths, At, given
  <1>12. StacksApart'
    <2>1. ASSUME NEW o1 \in Threads, NEW o2 \in Threads,
                 NEW k1 \in 1 .. Len(stack'[o1]), NEW k2 \in 1 .. Len(stack'[o2]),
                 stack'[o1][k1] = stack'[o2][k2]
          PROVE  o1 = o2 /\ k1 = k2
      <3>1. CASE k1 \in Depths(o1) /\ k2 \in Depths(o2)
        BY <3>1, <2>1, <1>5 DEF IInv, Parts, StacksApart
      <3>2. CASE ~(k1 \in Depths(o1)) /\ ~(k2 \in Depths(o2))
        BY <3>2, <1>6
      <3>3. CASE k1 \in Depths(o1) /\ ~(k2 \in Depths(o2))
        BY <3>3, <2>1, <1>4, <1>5, <1>6
      <3>4. CASE ~(k1 \in Depths(o1)) /\ k2 \in Depths(o2)
        BY <3>4, <2>1, <1>4, <1>5, <1>6
      <3> QED
        BY <3>1, <3>2, <3>3, <3>4
    <2> QED
      BY <2>1 DEF StacksApart, Depths, At
  <1>13. StacksNest'
    <2>1. ASSUME NEW o \in Threads, NEW k \in 1 .. Len(stack'[o])
          PROVE  /\ k > 1 => giver'[stack'[o][k]] = stack'[o][k - 1]
                 /\ o \in Clients /\ k = 1 => giver'[stack'[o][k]] = o
                 /\ o \in Clients \/ k > 1 => handle'[stack'[o][k]] = 0
      <3>1. CASE k \in Depths(o)
        <4>1. /\ k > 1 => giver[At(o, k)] = At(o, k - 1)
              /\ o \in Clients /\ k = 1 => giver[At(o, k)] = o
              /\ o \in Clients \/ k > 1 => handle[At(o, k)] = 0
          BY <3>1 DEF IInv, Parts, StacksNest
        <4>2. k > 1 => k - 1 \in Depths(o)
          BY <3>1, StackType DEF IInv, Depths
        <4> QED
          BY <3>1, <4>1, <4>2, <1>1, <1>5, <1>8
      <3>2. CASE o = th /\ k = n + 1
        <4>1. stack'[o][k] = t /\ giver'[t] = Current(th) /\ handle'[t] = 0
          BY <3>2, <1>1, <1>2, <1>4, <1>8
        <4>2. CASE n = 0
          BY <3>2, <4>1, <4>2, <1>2, <1>4
        <4>3. CASE n # 0
          <5>1. n \in Depths(th) /\ Current(th) = At(th, n)
            BY <4>3, <1>2, <1>4 DEF n
          <5>2. stack'[th][n] = At(th, n) /\ k - 1 = n /\ k # 1
            BY <5>1, <3>2, <4>3, <1>4, <1>5
          <5> QED
            BY <3>2, <4>1, <5>1, <5>2
        <4> QED
          BY <4>2, <4>3
      <3> QED
        BY <3>1, <3>2, <1>6
    <2> QED
      BY <2>1 DEF StacksNest, Depths, At
  <1>14. SlotsHold'
    <2>1. ASSUME NEW j \in Slots, task_id'[j] # 0
          PROVE  /\ bfp'[j] \in Tasks /\ giver'[bfp'[j]] # None /\ bfp'[j] \notin finished'
                 /\ handle'[bfp'[j]] = task_id'[j] /\ task_id'[j] % N = j
                 /\ thread_id'[j] \in Threads
                 /\ \/ giver'[bfp'[j]] = thread_id'[j]
                    \/ \E k \in 1 .. Len(stack'[thread_id'[j]]) :
                         giver'[bfp'[j]] = stack'[thread_id'[j]][k]
                 /\ ~is_being_processed'[j] => runs'[bfp'[j]] = 0
      <3>1. ~is_empty(j)
        BY <1>1, <2>1 DEF is_empty, tasks
      <3>2. /\ bfp[j] \in given /\ bfp[j] \notin finished
            /\ handle[bfp[j]] = task_id[j] /\ task_id[j] % N = j
            /\ thread_id[j] \in Threads
            /\ ~is_being_processed[j] => runs[bfp[j]] = 0
        BY <3>1 DEF IInv, Parts, SlotsHold
      <3>3. \/ giver[bfp[j]] = thread_id[j]
            \/ \E k \in Depths(thread_id[j]) : giver[bfp[j]] = At(thread_id[j], k)
        BY <3>1 DEF IInv, Parts, SlotsHold
      <3>4. bfp[j] # t /\ bfp[j] \in Tasks /\ giver'[bfp[j]] = giver[bfp[j]]
            /\ runs'[bfp[j]] = runs[bfp[j]]
        BY <3>2, <1>2, <1>8 DEF given
      <3>5. \/ giver[bfp[j]] = thread_id[j]
            \/ \E k \in 1 .. Len(stack'[thread_id[j]]) :
                 giver[bfp[j]] = stack'[thread_id[j]][k]
        BY <3>2, <3>3, <1>5, <1>7
      <3> QED
        BY <3>2, <3>4, <3>5, <1>1 DEF given, tasks
    <2> QED
      BY <2>1 DEF SlotsHold, is_empty, given, Depths, At
  <1>15. WorkersHold'
    <2>1. WorkersHold /\ UNCHANGED <<worker_thread_ids, call, idx, is_being_processed, bfp,
                                     task_id>>
      BY <1>1 DEF IInv, Parts, tasks
    <2>2. \A v \in Workers : stack'[v] # << >> => stack[v] # << >> /\ stack'[v][1] = At(v, 1)
      <3>1. \A v \in Workers : v # th => stack'[v] = stack[v]
        BY <1>4 DEF Threads
      <3>2. th \in Workers => stack[th] # << >> /\ stack'[th][1] = At(th, 1)
        <4>1. SUFFICES ASSUME th \in Workers PROVE stack[th] # << >> /\ 1 \in Depths(th)
          BY <1>5
        <4> QED
          BY <4>1, <1>2, <1>4, PoolAssumption DEF Depths, n
      <3> QED
        BY <3>1, <3>2 DEF At
    <2>3. \A v \in Workers : call'[v] \in {"start", "look", "left"} => stack'[v] = << >>
      BY <1>3, <1>4, <2>1 DEF WorkersHold, Threads
    <2> QED
      BY <2>1, <2>2, <2>3 DEF WorkersHold, is_empty, At
  <1>16. TasksKept'
    <2>1. ASSUME NEW u \in Tasks
          PROVE  /\ giver'[u] = None => runs'[u] = 0 /\ handle'[u] = 0 /\ u \notin finished'
                 /\ giver'[u] # None /\ u \notin finished' => InSlot(u)' \/ Inline(u)'
                 /\ handle'[u] # 0 /\ u \notin finished' => InSlot(u)'
      <3>1. InSlot(u)' <=> InSlot(u)
        BY <1>1 DEF InSlot, is_empty, tasks
      <3>2. Inline(u) => Inline(u)'
        BY <1>5, <1>7 DEF Inline, Depths, At
      <3>3. Inline(t)'
        <4>1. n + 1 \in 1 .. Len(stack'[th]) /\ stack'[th][n + 1] = t
              /\ (n + 1 > 1 \/ th \in Clients)
          BY <1>2, <1>4
        <4> QED
          BY <4>1 DEF Inline, Depths, At
      <3>4. CASE u = t
        BY <3>3, <3>4, <1>1, <1>2, <1>8, <1>9
      <3>5. CASE u # t
        BY <3>1, <3>2, <3>5, <1>1, <1>8 DEF IInv, Parts, TasksKept
      <3> QED
        BY <3>4, <3>5
    <2> QED
      BY <2>1 DEF TasksKept
  <1>17. CallsSound'
    <2>1. UNCHANGED <<call, arg, handle, next_task_id>>
      BY <1>1 DEF tasks
    <2>2. \A o \in Threads : call[o] = "add" => arg[o] # t
      BY <1>2, <1>3
    <2> QED
      BY <2>1, <2>2, <1>8 DEF IInv, Parts, CallsSound
  <1>18. ShutdownSound'
    BY <1>1, <1>2, <1>4 DEF IInv, Parts, ShutdownSound, Destructors, tasks, Threads
  <1> QED
    BY <1>10, <1>11, <1>12, <1>13, <1>14, <1>15, <1>16, <1>17, <1>18 DEF IInv, Parts

LEMMA SubmitsKeeps ==
  ASSUME IInv, NEW th \in Threads, NEW t \in Tasks, AddTask(th, t), Submits(th, t)
  PROVE  IInv'
  <1>1. PICK i \in Slots :
          /\ is_empty(i)
          /\ thread_id' = [thread_id EXCEPT ![i] = th]
          /\ task_id' = [task_id EXCEPT ![i] = make_next_task_id(i)]
          /\ next_task_id' = [next_task_id EXCEPT ![i] = @ + 1]
          /\ bfp' = [bfp EXCEPT ![i] = t]
          /\ handle' = [handle EXCEPT ![t] = make_next_task_id(i)]
    BY DEF Submits, find_empty_task_slot
  <1>2. /\ giver' = [giver EXCEPT ![t] = Current(th)]
        /\ call' = [call EXCEPT ![th] = "none"] /\ arg' = [arg EXCEPT ![th] = None]
        /\ asleep' \subseteq Threads
        /\ UNCHANGED <<is_being_processed, stack, runs>>
        /\ UNCHANGED <<worker_thread_ids, we_are_destructing, idx, finished>>
    BY DEF AddTask, Submits, Returns, IInv, TypeOK
  <1>3. /\ giver[t] = None /\ runs[t] = 0 /\ t \notin finished /\ handle[t] = 0
        /\ call[th] \in {"none", "add"} /\ (th \in Clients \/ stack[th] # << >>)
        /\ \A o \in Threads : call[o] = "add" /\ arg[o] = t => o = th
        /\ Current(th) \in Tasks \cup Clients
        /\ \/ stack[th] = << >> /\ Current(th) = th
           \/ /\ stack[th] # << >> /\ Len(stack[th]) \in Depths(th)
              /\ Current(th) = At(th, Len(stack[th]))
        /\ ~we_are_destructing /\ (th \in Clients => Destructors = {})
    BY AddFacts
  <1> DEFINE id == make_next_task_id(i)
  <1>4. id \in Nat /\ id # 0 /\ id % N = i
    <2>1. N \in Nat \ {0} /\ i \in 0 .. N - 1
      BY NType DEF Slots
    <2>2. next_task_id[i] \in Nat \ {0}
      BY DEF IInv, TypeOK, Parts, CallsSound
    <2>3. next_task_id[i] * N \in Nat \ {0}
      BY <2>1, <2>2
    <2>4. next_task_id[i] * N + i \in Nat /\ (next_task_id[i] * N + i) % N = i
      BY <2>1, <2>2, IdIndex
    <2>5. id = next_task_id[i] * N + i
      BY DEF make_next_task_id
    <2>6. id # 0
      BY <2>1, <2>3, <2>5
    <2> QED
      BY <2>4, <2>5, <2>6
  <1> HIDE DEF id
  <1>5. \A j \in Slots :
          /\ j # i => /\ task_id'[j] = task_id[j] /\ thread_id'[j] = thread_id[j]
                      /\ bfp'[j] = bfp[j]
          /\ task_id'[i] = id /\ thread_id'[i] = th /\ bfp'[i] = t
    BY <1>1 DEF IInv, TypeOK, id
  <1>6. \A u \in Tasks : /\ u # t => handle'[u] = handle[u] /\ giver'[u] = giver[u]
                         /\ handle'[t] = id /\ giver'[t] = Current(th)
    BY <1>1, <1>2 DEF IInv, TypeOK, id
  <1>7. Current(th) # None
    BY <1>3, PoolAssumption
  <1>8. \A o \in Threads : \A k \in Depths(o) : At(o, k) \in Tasks /\ At(o, k) # t
    BY <1>3, StackType DEF IInv, Parts, StacksRun, given
  <1>9. ~is_being_processed[i]
    BY <1>1 DEF IInv, Parts, WorkersHold
  <1>10. TypeOK'
    <2>1. /\ task_id' \in [Slots -> Nat] /\ next_task_id' \in [Slots -> Nat]
          /\ thread_id' \in [Slots -> Threads \cup {None}]
          /\ bfp' \in [Slots -> Tasks \cup {None}]
      BY <1>1, <1>4 DEF IInv, TypeOK, id
    <2>2. /\ handle' \in [Tasks -> Nat] /\ giver' \in [Tasks -> Tasks \cup Clients \cup {None}]
      BY <1>1, <1>2, <1>3, <1>4 DEF IInv, TypeOK, id
    <2>3. /\ call' \in [Threads -> {"start", "look", "left", "none", "add", "wait",
                                  "wait_all", "shutdown", "join"}]
          /\ arg' \in [Threads -> Tasks \cup {None}]
      BY <1>2 DEF IInv, TypeOK
    <2> QED
      BY <2>1, <2>2, <2>3, <1>2 DEF IInv, TypeOK
  <1>11. StacksRun'
    BY <1>2, <1>6, <1>8 DEF IInv, Parts, StacksRun, Depths, At, given
  <1>12. StacksApart'
    BY <1>2 DEF IInv, Parts, StacksApart, Depths, At
  <1>13. StacksNest'
    <2>1. ASSUME NEW o \in Threads, NEW k \in Depths(o)
          PROVE  /\ k > 1 => giver'[At(o, k)] = At(o, k - 1)
                 /\ o \in Clients /\ k = 1 => giver'[At(o, k)] = o
                 /\ o \in Clients \/ k > 1 => handle'[At(o, k)] = 0
      BY <1>6, <1>8 DEF IInv, Parts, StacksNest
    <2> QED
      BY <2>1, <1>2 DEF StacksNest, Depths, At
  <1>14. SlotsHold'
    <2>1. ASSUME NEW j \in Slots, task_id'[j] # 0
          PROVE  /\ bfp'[j] \in Tasks /\ giver'[bfp'[j]] # None /\ bfp'[j] \notin finished'
                 /\ handle'[bfp'[j]] = task_id'[j] /\ task_id'[j] % N = j
                 /\ thread_id'[j] \in Threads
                 /\ \/ giver'[bfp'[j]] = thread_id'[j]
                    \/ \E k \in 1 .. Len(stack'[thread_id'[j]]) :
                         giver'[bfp'[j]] = stack'[thread_id'[j]][k]
                 /\ ~is_being_processed'[j] => runs'[bfp'[j]] = 0
      <3>1. CASE j = i
        <4>1. bfp'[j] = t /\ task_id'[j] = id /\ thread_id'[j] = th
          BY <3>1, <1>5
        <4>2. \/ giver'[t] = th
              \/ \E k \in 1 .. Len(stack'[th]) : giver'[t] = stack'[th][k]
          BY <1>2, <1>3, <1>6 DEF Depths, At
        <4> QED
          BY <3>1, <4>1, <4>2, <1>2, <1>3, <1>4, <1>6, <1>7
      <3>2. CASE j # i
        <4>1. task_id'[j] = task_id[j] /\ thread_id'[j] = thread_id[j] /\ bfp'[j] = bfp[j]
          BY <3>2, <1>5
        <4>2. ~is_empty(j)
          BY <4>1, <2>1 DEF is_empty
        <4>3. /\ bfp[j] \in given /\ bfp[j] \notin finished
              /\ handle[bfp[j]] = task_id[j] /\ task_id[j] % N = j
              /\ thread_id[j] \in Threads
              /\ ~is_being_processed[j] => runs[bfp[j]] = 0
              /\ \/ giver[bfp[j]] = thread_id[j]
                 \/ \E k \in Depths(thread_id[j]) : giver[bfp[j]] = At(thread_id[j], k)
          BY <4>2 DEF IInv, Parts, SlotsHold
        <4>4. bfp[j] # t /\ bfp[j] \in Tasks /\ giver'[bfp[j]] = giver[bfp[j]]
              /\ handle'[bfp[j]] = handle[bfp[j]]
          BY <4>3, <1>3, <1>6 DEF given
        <4> QED
          BY <4>1, <4>3, <4>4, <1>2 DEF Depths, At, given
      <3> QED
        BY <3>1, <3>2
    <2> QED
      BY <2>1 DEF SlotsHold, is_empty, given, Depths, At
  <1>15. WorkersHold'
    <2>1. WorkersHold /\ UNCHANGED <<worker_thread_ids, stack, idx, is_being_processed>>
      BY <1>2 DEF IInv, Parts
    <2>2. \A j \in Slots : is_being_processed[j] =>
            task_id'[j] = task_id[j] /\ bfp'[j] = bfp[j]
      BY <1>5, <1>9
    <2>3. \A v \in Workers : call'[v] = call[v] \/ (v = th /\ call'[v] = "none")
      BY <1>2 DEF IInv, TypeOK, Threads
    <2>4. \A v \in Workers : /\ call'[v] \in {"start", "look", "left"} => stack'[v] = << >>
                             /\ call'[v] # "start" => v \in worker_thread_ids'
      BY <2>1, <2>3, <1>3 DEF WorkersHold
    <2>5. \A j \in Slots : is_being_processed'[j] => ~is_empty(j)'
      BY <2>1, <2>2 DEF WorkersHold, is_empty
    <2>6. \A v \in Workers : stack'[v] # << >> =>
            /\ idx'[v] \in Slots /\ is_being_processed'[idx'[v]]
            /\ bfp'[idx'[v]] = stack'[v][1]
      BY <2>1, <2>2 DEF WorkersHold, At
    <2> QED
      BY <2>4, <2>5, <2>6 DEF WorkersHold, At
  <1>16. TasksKept'
    <2>1. ASSUME NEW u \in Tasks
          PROVE  /\ giver'[u] = None => runs'[u] = 0 /\ handle'[u] = 0 /\ u \notin finished'
                 /\ giver'[u] # None /\ u \notin finished' => InSlot(u)' \/ Inline(u)'
                 /\ handle'[u] # 0 /\ u \notin finished' => InSlot(u)'
      <3>1. InSlot(u) => InSlot(u)'
        BY <1>1, <1>5 DEF InSlot, is_empty
      <3>2. Inline(u) <=> Inline(u)'
        BY <1>2 DEF Inline, Depths, At
      <3>3. InSlot(t)'
        BY <1>4, <1>5 DEF InSlot, is_empty
      <3>4. CASE u = t
        BY <3>3, <3>4, <1>6, <1>7
      <3>5. CASE u # t
        BY <3>1, <3>2, <3>5, <1>2, <1>6 DEF IInv, Parts, TasksKept
      <3> QED
        BY <3>4, <3>5
    <2> QED
      BY <2>1 DEF TasksKept
  <1>17. CallsSound'
    <2>1. \A o \in Threads : /\ o # th => call'[o] = call[o] /\ arg'[o] = arg[o]
                             /\ call'[th] = "none"
      BY <1>2 DEF IInv, TypeOK
    <2>2. \A o \in Threads : call'[o] = "add" =>
            o \in Clients /\ arg'[o] \in Tasks /\ giver'[arg'[o]] = None
      BY <2>1, <1>3, <1>6 DEF IInv, Parts, CallsSound
    <2>3. \A c, d \in Threads :
            call'[c] = "add" /\ call'[d] = "add" /\ arg'[c] = arg'[d] => c = d
      BY <2>1 DEF IInv, Parts, CallsSound
    <2>4. \A o \in Threads : call'[o] = "wait" => arg'[o] \in Tasks /\ handle'[arg'[o]] # 0
      BY <2>1, <1>4, <1>6 DEF IInv, Parts, CallsSound
    <2>5. /\ \A c \in Clients : call'[c] \notin {"start", "look", "left"}
          /\ \A w \in Workers : call'[w] \notin {"shutdown", "join"}
      BY <2>1 DEF IInv, Parts, CallsSound, Threads
    <2>6. \A j \in Slots : next_task_id'[j] > 0
      BY <1>1 DEF IInv, TypeOK, Parts, CallsSound
    <2> QED
      BY <2>2, <2>3, <2>4, <2>5, <2>6 DEF CallsSound
  <1>18. ShutdownSound'
    <2>1. CASE th \in Clients
      <3>1. Destructors' = {}
        BY <2>1, <1>2, <1>3 DEF Destructors, IInv, TypeOK, Threads
      <3> QED
        BY <3>1, <1>2, <1>3 DEF ShutdownSound
    <2>2. CASE th \in Workers
      <3>1. \A c \in Clients : call'[c] = call[c] /\ stack'[c] = stack[c]
        BY <2>2, <1>2, PoolAssumption DEF IInv, TypeOK, Threads
      <3>2. Destructors' = Destructors
        BY <3>1 DEF Destructors
      <3> QED
        BY <3>1, <3>2, <1>2, <1>3 DEF IInv, Parts, ShutdownSound
    <2> QED
      BY <2>1, <2>2 DEF Threads
  <1> QED
    BY <1>10, <1>11, <1>12, <1>13, <1>14, <1>15, <1>16, <1>17, <1>18 DEF IInv, Parts

\* What the end of a task does to the stacks, and what the task leaves behind.
LEMMA EndFacts ==
  ASSUME IInv, NEW th \in Threads, EndTask(th)
  PROVE  /\ stack[th] # << >> /\ Len(stack[th]) \in Depths(th)
         /\ Current(th) = At(th, Len(stack[th])) /\ Current(th) \in Tasks
         /\ Current(th) \in given /\ Current(th) \notin finished /\ runs[Current(th)] = 1
         /\ stack' \in [Threads -> Seq(Tasks)]
         /\ \A o \in Threads : o # th => stack'[o] = stack[o]
         /\ Len(stack'[th]) = Len(stack[th]) - 1
         /\ \A o \in Threads : \A k \in 1 .. Len(stack'[o]) :
              k \in Depths(o) /\ stack'[o][k] = At(o, k) /\ At(o, k) # Current(th)
         /\ \A o \in Threads : \A k \in Depths(o) :
              At(o, k) # Current(th) => k \in 1 .. Len(stack'[o])
         /\ \A s \in Tasks : giver[s] = Current(th) => s \in finished
         /\ finished' = finished \cup {Current(th)}
         /\ UNCHANGED <<worker_thread_ids, we_are_destructing, arg, idx, giver, runs>>
         /\ call[th] = "none"
         /\ StacksRun' /\ StacksApart'
  <1>1. /\ stack[th] # << >> /\ Pop(th) /\ TypeOK /\ call[th] = "none"
        /\ \A s \in Tasks : giver[s] = Current(th) => s \in finished
        /\ finished' = finished \cup {Current(th)}
        /\ UNCHANGED <<worker_thread_ids, we_are_destructing, arg, idx, giver, runs>>
    BY DEF EndTask, Joined, IInv
  <1> DEFINE n == Len(stack[th])
             t == Current(th)
  <1>2. /\ stack' \in [Threads -> Seq(Tasks)]
        /\ \A o \in Threads : o # th => stack'[o] = stack[o]
        /\ n \in Nat \ {0} /\ Len(stack'[th]) = n - 1
        /\ \A k \in 1 .. n - 1 : stack'[th][k] = At(th, k)
        /\ t = At(th, n) /\ t \in Tasks /\ n \in Depths(th)
    BY <1>1, PopStack DEF At, Depths
  <1>3. t \in given /\ t \notin finished /\ runs[t] = 1
    BY <1>2 DEF IInv, Parts, StacksRun
  <1>4. \A o \in Threads : \A k \in Depths(o) : At(o, k) = t => o = th /\ k = n
    BY <1>2 DEF IInv, Parts, StacksApart
  <1> HIDE DEF n, t
  <1>5. \A o \in Threads : \A k \in 1 .. Len(stack'[o]) :
          k \in Depths(o) /\ stack'[o][k] = At(o, k) /\ At(o, k) # t
    <2>1. SUFFICES ASSUME NEW o \in Threads, NEW k \in 1 .. Len(stack'[o])
                   PROVE  k \in Depths(o) /\ stack'[o][k] = At(o, k) /\ At(o, k) # t
      OBVIOUS
    <2>2. CASE o = th
      BY <2>1, <2>2, <1>2, <1>4 DEF Depths, n
    <2>3. CASE o # th
      BY <2>1, <2>3, <1>2, <1>4 DEF Depths, At
    <2> QED
      BY <2>2, <2>3
  <1>6. \A o \in Threads : \A k \in Depths(o) : At(o, k) # t => k \in 1 .. Len(stack'[o])
    BY <1>2 DEF Depths, n
  <1>7. StacksRun'
    <2>1. ASSUME NEW o \in Threads, NEW k \in 1 .. Len(stack'[o])
          PROVE  /\ giver'[stack'[o][k]] # None /\ stack'[o][k] \in Tasks
                 /\ stack'[o][k] \notin finished' /\ runs'[stack'[o][k]] = 1
      <3>1. At(o, k) \in given /\ At(o, k) \notin finished /\ runs[At(o, k)] = 1
        BY <1>5 DEF IInv, Parts, StacksRun
      <3> QED
        BY <3>1, <1>1, <1>5 DEF given, t
    <2> QED
      BY <2>1 DEF StacksRun, Depths, At, given
  <1>8. StacksApart'
    <2>1. \A o1, o2 \in Threads :
            \A k1 \in 1 .. Len(stack'[o1]), k2 \in 1 .. Len(stack'[o2]) :
              stack'[o1][k1] = stack'[o2][k2] => o1 = o2 /\ k1 = k2
      BY <1>5 DEF IInv, Parts, StacksApart
    <2> QED
      BY <2>1 DEF StacksApart, Depths, At
  <1> QED
    BY <1>1, <1>2, <1>3, <1>5, <1>6, <1>7, <1>8 DEF n, t

\* Slots and stacks that keep what they hold when the task t ends.
LEMMA EndSlots ==
  ASSUME IInv, NEW th \in Threads, EndTask(th), UNCHANGED thread_id,
         NEW j \in Slots, task_id'[j] # 0, task_id'[j] = task_id[j], bfp'[j] = bfp[j],
         is_being_processed'[j] = is_being_processed[j], bfp[j] # Current(th),
         \A u \in Tasks : u # Current(th) => handle'[u] = handle[u]
  PROVE  /\ bfp'[j] \in Tasks /\ giver'[bfp'[j]] # None /\ bfp'[j] \notin finished'
         /\ handle'[bfp'[j]] = task_id'[j] /\ task_id'[j] % N = j
         /\ thread_id'[j] \in Threads
         /\ \/ giver'[bfp'[j]] = thread_id'[j]
            \/ \E k \in 1 .. Len(stack'[thread_id'[j]]) :
                 giver'[bfp'[j]] = stack'[thread_id'[j]][k]
         /\ ~is_being_processed'[j] => runs'[bfp'[j]] = 0
  <1>1. ~is_empty(j)
    BY DEF is_empty
  <1>2. /\ bfp[j] \in given /\ bfp[j] \in Tasks /\ bfp[j] \notin finished
        /\ handle[bfp[j]] = task_id[j] /\ task_id[j] % N = j
        /\ thread_id[j] \in Threads
        /\ ~is_being_processed[j] => runs[bfp[j]] = 0
        /\ \/ giver[bfp[j]] = thread_id[j]
           \/ \E k \in Depths(thread_id[j]) : giver[bfp[j]] = At(thread_id[j], k)
    BY <1>1 DEF IInv, Parts, SlotsHold, given
  <1>3. giver[bfp[j]] # Current(th) /\ giver' = giver /\ runs' = runs
        /\ finished' = finished \cup {Current(th)}
    BY <1>2, EndFacts
  <1>4. \/ giver[bfp[j]] = thread_id[j]
        \/ \E k \in 1 .. Len(stack'[thread_id[j]]) : giver[bfp[j]] = stack'[thread_id[j]][k]
    <2>1. SUFFICES ASSUME giver[bfp[j]] # thread_id[j]
                   PROVE  \E k \in 1 .. Len(stack'[thread_id[j]]) :
                            giver[bfp[j]] = stack'[thread_id[j]][k]
      OBVIOUS
    <2>2. PICK k \in Depths(thread_id[j]) : giver[bfp[j]] = At(thread_id[j], k)
      BY <2>1, <1>2
    <2>3. k \in 1 .. Len(stack'[thread_id[j]])
      BY <2>2, <1>2, <1>3, EndFacts
    <2>4. stack'[thread_id[j]][k] = At(thread_id[j], k)
      BY <2>3, <1>2, EndFacts
    <2> QED
      BY <2>2, <2>3, <2>4
  <1> QED
    BY <1>2, <1>3, <1>4 DEF given

LEMMA EndStacksNest ==
  ASSUME IInv, NEW th \in Threads, EndTask(th),
         \A u \in Tasks : u # Current(th) => handle'[u] = handle[u]
  PROVE  StacksNest'
  <1>1. ASSUME NEW o \in Threads, NEW k \in 1 .. Len(stack'[o])
        PROVE  /\ k > 1 => giver'[stack'[o][k]] = stack'[o][k - 1]
               /\ o \in Clients /\ k = 1 => giver'[stack'[o][k]] = o
               /\ o \in Clients \/ k > 1 => handle'[stack'[o][k]] = 0
    <2>1. k \in Depths(o) /\ stack'[o][k] = At(o, k) /\ At(o, k) # Current(th)
          /\ giver' = giver
      BY EndFacts
    <2>2. At(o, k) \in Tasks
      BY <2>1, StackType DEF IInv
    <2>3. k > 1 => stack'[o][k - 1] = At(o, k - 1)
      <3>1. SUFFICES ASSUME k > 1 PROVE k - 1 \in 1 .. Len(stack'[o])
        BY EndFacts
      <3>2. stack'[o] \in Seq(Tasks)
        BY EndFacts
      <3> QED
        BY <3>1, <3>2, LenProperties
    <2>4. /\ k > 1 => giver[At(o, k)] = At(o, k - 1)
          /\ o \in Clients /\ k = 1 => giver[At(o, k)] = o
          /\ o \in Clients \/ k > 1 => handle[At(o, k)] = 0
      BY <2>1 DEF IInv, Parts, StacksNest
    <2> QED
      BY <2>1, <2>2, <2>3, <2>4
  <1> QED
    BY <1>1 DEF StacksNest, Depths, At

LEMMA EndsInlineKeeps ==
  ASSUME IInv, NEW th \in Threads, EndTask(th), EndsInline(th)
  PROVE  IInv'
  <1> DEFINE t == Current(th)
             n == Len(stack[th])
  <1>1. /\ stack[th] # << >> /\ n \in Depths(th)
        /\ t = At(th, n) /\ t \in Tasks
        /\ t \in given /\ t \notin finished /\ runs[t] = 1
        /\ stack' \in [Threads -> Seq(Tasks)]
        /\ \A o \in Threads : o # th => stack'[o] = stack[o]
        /\ Len(stack'[th]) = n - 1
        /\ \A o \in Threads : \A k \in 1 .. Len(stack'[o]) :
             k \in Depths(o) /\ stack'[o][k] = At(o, k) /\ At(o, k) # t
        /\ \A o \in Threads : \A k \in Depths(o) :
             At(o, k) # t => k \in 1 .. Len(stack'[o])
        /\ finished' = finished \cup {t}
        /\ UNCHANGED <<worker_thread_ids, we_are_destructing, arg, idx, giver, runs>>
        /\ call[th] = "none"
        /\ StacksRun' /\ StacksApart'
    BY EndFacts
  <1>2. /\ th \in Clients \/ n > 1
        /\ handle' = [handle EXCEPT ![t] = 1] /\ UNCHANGED <<tasks, call, asleep>>
    BY DEF EndsInline
  <1>3. \A u \in Tasks : u # t => handle'[u] = handle[u]
    BY <1>2 DEF IInv, TypeOK
  <1>4. StacksNest'
    BY <1>3, EndStacksNest
  <1>5. \A j \in Slots : ~is_empty(j) => bfp[j] # t
    <2>1. handle[t] = 0
      BY <1>1, <1>2 DEF IInv, Parts, StacksNest
    <2> QED
      BY <2>1 DEF IInv, Parts, SlotsHold, is_empty
  <1>6. SlotsHold'
    <2>1. ASSUME NEW j \in Slots, task_id'[j] # 0
          PROVE  /\ bfp'[j] \in Tasks /\ giver'[bfp'[j]] # None /\ bfp'[j] \notin finished'
                 /\ handle'[bfp'[j]] = task_id'[j] /\ task_id'[j] % N = j
                 /\ thread_id'[j] \in Threads
                 /\ \/ giver'[bfp'[j]] = thread_id'[j]
                    \/ \E k \in 1 .. Len(stack'[thread_id'[j]]) :
                         giver'[bfp'[j]] = stack'[thread_id'[j]][k]
                 /\ ~is_being_processed'[j] => runs'[bfp'[j]] = 0
      <3>1. task_id'[j] = task_id[j] /\ bfp'[j] = bfp[j] /\ UNCHANGED thread_id
            /\ is_being_processed'[j] = is_being_processed[j] /\ bfp[j] # t
        BY <2>1, <1>2, <1>5 DEF tasks, is_empty
      <3> QED
        BY <3>1, <2>1, <1>3, EndSlots
    <2> QED
      BY <2>1 DEF SlotsHold, is_empty, given, Depths, At
  <1> HIDE DEF t, n
  <1>7. TypeOK'
    <2>1. handle' \in [Tasks -> Nat] /\ finished' \subseteq Tasks
      BY <1>1, <1>2 DEF IInv, TypeOK
    <2> QED
      BY <2>1, <1>1, <1>2 DEF IInv, TypeOK, tasks
  <1>8. WorkersHold'
    <2>1. WorkersHold /\ UNCHANGED <<worker_thread_ids, call, idx, is_being_processed, bfp,
                                     task_id>>
      BY <1>1, <1>2 DEF IInv, Parts, tasks
    <2>2. \A v \in Workers : stack'[v] # << >> => stack[v] # << >> /\ stack'[v][1] = At(v, 1)
      <3>1. \A v \in Workers : v # th => stack'[v] = stack[v]
        BY <1>1 DEF Threads
      <3>2. th \in Workers => stack[th] # << >> /\ stack'[th][1] = At(th, 1)
        <4>1. SUFFICES ASSUME th \in Workers PROVE 1 \in 1 .. Len(stack'[th])
          BY <1>1
        <4> QED
          BY <4>1, <1>1, <1>2, PoolAssumption DEF Depths, n
      <3> QED
        BY <3>1, <3>2 DEF At
    <2>3. \A v \in Workers : call'[v] \in {"start", "look", "left"} => stack'[v] = << >>
      BY <1>1, <2>1 DEF WorkersHold, Threads
    <2> QED
      BY <2>1, <2>2, <2>3 DEF WorkersHold, is_empty, At
  <1>9. TasksKept'
    <2>1. ASSUME NEW u \in Tasks
          PROVE  /\ giver'[u] = None => runs'[u] = 0 /\ handle'[u] = 0 /\ u \notin finished'
                 /\ giver'[u] # None /\ u \notin finished' => InSlot(u)' \/ Inline(u)'
                 /\ handle'[u] # 0 /\ u \notin finished' => InSlot(u)'
      <3>1. InSlot(u)' <=> InSlot(u)
        BY <1>2 DEF InSlot, is_empty, tasks
      <3>2. u # t /\ Inline(u) => Inline(u)'
        <4>1. SUFFICES ASSUME u # t, Inline(u)
                       PROVE  \E o \in Threads : \E k \in 1 .. Len(stack'[o]) :
                                stack'[o][k] = u /\ (k > 1 \/ o \in Clients)
          BY DEF Inline, Depths, At
        <4>2. PICK o \in Threads :
                \E k \in Depths(o) : At(o, k) = u /\ (k > 1 \/ o \in Clients)
          BY <4>1 DEF Inline
        <4>3. PICK k \in Depths(o) : At(o, k) = u /\ (k > 1 \/ o \in Clients)
          BY <4>2
        <4>4. k \in 1 .. Len(stack'[o])
          BY <4>1, <4>3, <1>1
        <4>5. stack'[o][k] = u
          BY <4>3, <4>4, <1>1
        <4> QED
          BY <4>3, <4>4, <4>5
      <3>3. CASE u = t
        BY <3>3, <1>1 DEF given
      <3>4. CASE u # t
        BY <3>1, <3>2, <3>4, <1>1, <1>3 DEF IInv, Parts, TasksKept
      <3> QED
        BY <3>3, <3>4
    <2> QED
      BY <2>1 DEF TasksKept
  <1>10. CallsSound'
    <2>1. \A u \in Tasks : handle[u] # 0 => handle'[u] # 0
      BY <1>2 DEF IInv, TypeOK
    <2> QED
      BY <2>1, <1>1, <1>2 DEF IInv, Parts, CallsSound, tasks
  <1>11. ShutdownSound'
    <2>1. Destructors' = Destructors /\ UNCHANGED <<call, task_id, we_are_destructing>>
      BY <1>1, <1>2 DEF Destructors, tasks
    <2>2. \A c \in Clients : stack[c] = << >> => stack'[c] = << >>
      BY <1>1 DEF Threads
    <2> QED
      BY <2>1, <2>2 DEF IInv, Parts, ShutdownSound, is_empty
  <1> QED
    BY <1>1, <1>4, <1>6, <1>7, <1>8, <1>9, <1>10, <1>11 DEF IInv, Parts

LEMMA EndsInSlotKeeps ==
  ASSUME IInv, NEW w \in Threads, EndTask(w), EndsInSlot(w)
  PROVE  IInv'
  <1> DEFINE t == Current(w)
             i == idx[w]
  <1>1. /\ stack[w] # << >>
        /\ t = At(w, Len(stack[w])) /\ t \in Tasks
        /\ t \in given /\ t \notin finished /\ runs[t] = 1
        /\ stack' \in [Threads -> Seq(Tasks)]
        /\ \A o \in Threads : o # w => stack'[o] = stack[o]
        /\ Len(stack'[w]) = Len(stack[w]) - 1
        /\ \A o \in Threads : \A k \in 1 .. Len(stack'[o]) :
             k \in Depths(o) /\ stack'[o][k] = At(o, k) /\ At(o, k) # t
        /\ \A o \in Threads : \A k \in Depths(o) :
             At(o, k) # t => k \in 1 .. Len(stack'[o])
        /\ finished' = finished \cup {t}
        /\ UNCHANGED <<worker_thread_ids, we_are_destructing, arg, idx, giver, runs>>
        /\ call[w] = "none"
        /\ StacksRun' /\ StacksApart'
    BY EndFacts
  <1>2. /\ w \in Workers /\ Len(stack[w]) = 1
        /\ is_being_processed' = [is_being_processed EXCEPT ![i] = FALSE]
        /\ task_id' = [task_id EXCEPT ![i] = 0] /\ bfp' = [bfp EXCEPT ![i] = None]
        /\ call' = [call EXCEPT ![w] = "look"] /\ asleep' \subseteq Threads
        /\ UNCHANGED <<thread_id, next_task_id, handle>>
    BY DEF EndsInSlot, AllTold, Lookers, IInv, TypeOK
  <1>3. /\ i \in Slots /\ bfp[i] = t /\ ~is_empty(i)
        /\ \A v \in Workers : v # w /\ stack[v] # << >> => idx[v] # i
    <2>1. i \in Slots /\ bfp[i] = At(w, 1) /\ ~is_empty(i)
      BY <1>1, <1>2 DEF IInv, Parts, WorkersHold
    <2>2. ASSUME NEW v \in Workers, v # w, stack[v] # << >>, idx[v] = i PROVE FALSE
      <3>1. At(v, 1) = At(w, 1)
        BY <2>1, <2>2 DEF IInv, Parts, WorkersHold
      <3>2. 1 \in Depths(v) /\ 1 \in Depths(w) /\ v \in Threads
        BY <2>2, <1>2, StackType DEF IInv, Depths, Threads
      <3> QED
        BY <3>1, <3>2, <2>2 DEF IInv, Parts, StacksApart
    <2> QED
      BY <2>1, <2>2, <1>1, <1>2
  <1>4. StacksNest'
    BY <1>2, EndStacksNest
  <1>5. SlotsHold'
    <2>1. ASSUME NEW j \in Slots, task_id'[j] # 0
          PROVE  /\ bfp'[j] \in Tasks /\ giver'[bfp'[j]] # None /\ bfp'[j] \notin finished'
                 /\ handle'[bfp'[j]] = task_id'[j] /\ task_id'[j] % N = j
                 /\ thread_id'[j] \in Threads
                 /\ \/ giver'[bfp'[j]] = thread_id'[j]
                    \/ \E k \in 1 .. Len(stack'[thread_id'[j]]) :
                         giver'[bfp'[j]] = stack'[thread_id'[j]][k]
                 /\ ~is_being_processed'[j] => runs'[bfp'[j]] = 0
      <3>1. j # i
        BY <2>1, <1>2 DEF IInv, TypeOK
      <3>2. task_id'[j] = task_id[j] /\ bfp'[j] = bfp[j] /\ UNCHANGED thread_id
            /\ is_being_processed'[j] = is_being_processed[j]
        BY <3>1, <1>2 DEF IInv, TypeOK
      <3>3. bfp[j] # t
        BY <3>1, <3>2, <2>1, <1>3, SlotUnique DEF is_empty
      <3>4. \A u \in Tasks : u # Current(w) => handle'[u] = handle[u]
        BY <1>2
      <3> QED
        BY <3>2, <3>3, <3>4, <2>1, EndSlots
    <2> QED
      BY <2>1 DEF SlotsHold, is_empty, given, Depths, At
  <1> HIDE DEF t, i
  <1>6. TypeOK'
    <2>1. /\ is_being_processed' \in [Slots -> BOOLEAN] /\ task_id' \in [Slots -> Nat]
          /\ bfp' \in [Slots -> Tasks \cup {None}] /\ finished' \subseteq Tasks
          /\ call' \in [Threads -> {"start", "look", "left", "none", "add", "wait",
                                  "wait_all", "shutdown", "join"}]
      BY <1>1, <1>2 DEF IInv, TypeOK
    <2> QED
      BY <2>1, <1>1, <1>2 DEF IInv, TypeOK
  <1>7. stack'[w] = << >>
    <2>1. stack'[w] \in Seq(Tasks) /\ Len(stack'[w]) = 0
      BY <1>1, <1>2
    <2> QED
      BY <2>1, EmptySeq
  <1>8. WorkersHold'
    <2>1. \A j \in Slots : is_being_processed'[j] => task_id'[j] # 0
      BY <1>2, <1>3 DEF IInv, TypeOK, Parts, WorkersHold, is_empty
    <2>2. ASSUME NEW v \in Workers, stack'[v] # << >>
          PROVE  idx'[v] \in Slots /\ is_being_processed'[idx'[v]]
                 /\ bfp'[idx'[v]] = stack'[v][1]
      <3>1. v # w /\ v \in Threads
        BY <2>2, <1>7 DEF Threads
      <3>2. stack'[v] = stack[v] /\ idx'[v] = idx[v]
        BY <3>1, <1>1
      <3>3. idx[v] \in Slots /\ is_being_processed[idx[v]] /\ bfp[idx[v]] = stack[v][1]
            /\ idx[v] # i
        BY <3>1, <3>2, <2>2, <1>3 DEF IInv, Parts, WorkersHold, At
      <3> QED
        BY <3>2, <3>3, <1>2 DEF IInv, TypeOK
    <2>3. \A v \in Workers : /\ call'[v] \in {"start", "look", "left"} => stack'[v] = << >>
                             /\ call'[v] # "start" => v \in worker_thread_ids'
      <3>1. \A v \in Workers : v # w => call'[v] = call[v] /\ stack'[v] = stack[v]
        BY <1>1, <1>2 DEF IInv, TypeOK, Threads
      <3> QED
        BY <3>1, <1>1, <1>2, <1>7 DEF IInv, Parts, WorkersHold
    <2> QED
      BY <2>1, <2>2, <2>3 DEF WorkersHold, is_empty, At
  <1>9. TasksKept'
    <2>1. ASSUME NEW u \in Tasks
          PROVE  /\ giver'[u] = None => runs'[u] = 0 /\ handle'[u] = 0 /\ u \notin finished'
                 /\ giver'[u] # None /\ u \notin finished' => InSlot(u)' \/ Inline(u)'
                 /\ handle'[u] # 0 /\ u \notin finished' => InSlot(u)'
      <3>1. u # t /\ InSlot(u) => InSlot(u)'
        <4>1. SUFFICES ASSUME u # t, InSlot(u)
                       PROVE  \E j \in Slots : task_id'[j] # 0 /\ bfp'[j] = u
          BY DEF InSlot, is_empty
        <4>2. PICK j \in Slots : ~is_empty(j) /\ bfp[j] = u
          BY <4>1 DEF InSlot
        <4>3. task_id'[j] = task_id[j] /\ bfp'[j] = bfp[j]
          BY <4>1, <4>2, <1>2, <1>3 DEF IInv, TypeOK
        <4> QED
          BY <4>2, <4>3 DEF is_empty
      <3>2. u # t /\ Inline(u) => Inline(u)'
        <4>1. SUFFICES ASSUME u # t, Inline(u)
                       PROVE  \E o \in Threads : \E k \in 1 .. Len(stack'[o]) :
                                stack'[o][k] = u /\ (k > 1 \/ o \in Clients)
          BY DEF Inline, Depths, At
        <4>2. PICK o \in Threads :
                \E k \in Depths(o) : At(o, k) = u /\ (k > 1 \/ o \in Clients)
          BY <4>1 DEF Inline
        <4>3. PICK k \in Depths(o) : At(o, k) = u /\ (k > 1 \/ o \in Clients)
          BY <4>2
        <4>4. k \in 1 .. Len(stack'[o])
          BY <4>1, <4>3, <1>1
        <4>5. stack'[o][k] = u
          BY <4>3, <4>4, <1>1
        <4> QED
          BY <4>3, <4>4, <4>5
      <3>3. CASE u = t
        BY <3>3, <1>1 DEF given
      <3>4. CASE u # t
        BY <3>1, <3>2, <3>4, <1>1, <1>2 DEF IInv, Parts, TasksKept
      <3> QED
        BY <3>3, <3>4
    <2> QED
      BY <2>1 DEF TasksKept
  <1>10. \A o \in Threads : o # w => call'[o] = call[o]
    BY <1>2 DEF IInv, TypeOK
  <1>11. \A c \in Clients : c \in Threads /\ c # w
    BY <1>2, PoolAssumption DEF Threads
  <1>12. CallsSound'
    <2>1. call'[w] = "look"
      BY <1>2 DEF IInv, TypeOK
    <2>2. \A o \in Threads :
            o # w \/ call'[o] \notin {"add", "wait", "shutdown", "join"}
      BY <2>1
    <2>3. UNCHANGED <<arg, giver, handle, next_task_id>>
      BY <1>1, <1>2
    <2> QED
      BY <2>1, <2>2, <2>3, <1>10, <1>11 DEF IInv, Parts, CallsSound, Threads
  <1>13. ShutdownSound'
    <2>1. Destructors' = Destructors
      BY <1>10, <1>11 DEF Destructors
    <2>2. \A c \in Clients : call'[c] = call[c] /\ stack'[c] = stack[c]
      BY <1>1, <1>10, <1>11
    <2>3. ~we_are_destructing
      BY <1>3 DEF IInv, Parts, ShutdownSound
    <2> QED
      BY <2>1, <2>2, <2>3, <1>1 DEF IInv, Parts, ShutdownSound
  <1> QED
    BY <1>1, <1>4, <1>5, <1>6, <1>8, <1>9, <1>12, <1>13 DEF IInv, Parts
-----------------------------------------------------------------------------
(* The invariant.                                                          *)

LEMMA InitIInv == Init => IInv
  <1> SUFFICES ASSUME Init PROVE IInv
    OBVIOUS
  <1>1. \A th \in Threads : stack[th] = << >> /\ Len(stack[th]) = 0 /\ Depths(th) = {}
    BY EmptySeq DEF Init, Depths
  <1>2. TypeOK
    <2>1. stack \in [Threads -> Seq(Tasks)]
      BY EmptySeq DEF Init
    <2> QED
      BY <2>1, NType DEF Init, TypeOK
  <1>3. StacksRun /\ StacksApart /\ StacksNest
    BY <1>1 DEF StacksRun, StacksApart, StacksNest
  <1>4. SlotsHold /\ WorkersHold
    BY <1>1 DEF Init, SlotsHold, WorkersHold, is_empty, Threads
  <1>5. TasksKept
    BY DEF Init, TasksKept
  <1>6. CallsSound
    BY PoolAssumption DEF Init, CallsSound, Threads
  <1>7. ShutdownSound
    BY PoolAssumption DEF Init, ShutdownSound, Destructors, Threads
  <1> QED
    BY <1>2, <1>3, <1>4, <1>5, <1>6, <1>7 DEF IInv, Parts

LEMMA NextIInv == IInv /\ [Next]_vars => IInv'
  <1> SUFFICES ASSUME IInv, [Next]_vars PROVE IInv'
    OBVIOUS
  <1>1. ASSUME NEW w \in Workers, Register(w) PROVE IInv'
    BY <1>1, RegisterKeeps
  <1>2. ASSUME NEW w \in Workers, Look(w) PROVE IInv'
    BY <1>2, TakesTaskKeeps, IdleLookKeeps
  <1>3. ASSUME NEW c \in Clients, shutdown_pool(c) PROVE IInv'
    BY <1>3, ShutdownKeeps
  <1>4. ASSUME NEW c \in Clients, Join(c) PROVE IInv'
    BY <1>4, JoinKeeps
  <1>5. ASSUME NEW th \in Threads, NEW t \in Tasks, AddTask(th, t) PROVE IInv'
    <2>1. Submits(th, t) \/ (Enters(th) /\ RunsInline(th, t)) \/ WaitsForSlot(th, t)
      BY <1>5 DEF AddTask
    <2> QED
      BY <1>5, <2>1, SubmitsKeeps, RunsInlineKeeps, WaitsForSlotKeeps
  <1>6. ASSUME NEW th \in Threads, NEW t \in Tasks, wait_for_task(th, t) PROVE IInv'
    BY <1>6, WaitKeeps
  <1>7. ASSUME NEW th \in Threads, wait_for_all_tasks(th) PROVE IInv'
    BY <1>7, WaitAllKeeps
  <1>8. ASSUME NEW th \in Threads, EndTask(th) PROVE IInv'
    <2>1. EndsInline(th) \/ EndsInSlot(th)
      BY <1>8 DEF EndTask
    <2> QED
      BY <1>8, <2>1, EndsInlineKeeps, EndsInSlotKeeps
  <1>9. ASSUME NEW th \in Threads, WakesUp(th) PROVE IInv'
    BY <1>9, WakesUpKeeps
  <1>10. CASE UNCHANGED vars
    <2>1. /\ UNCHANGED Placed
          /\ UNCHANGED <<worker_thread_ids, we_are_destructing, call, arg, asleep>>
      BY <1>10 DEF vars, Placed
    <2>2. TypeOK'
      BY <2>1 DEF IInv, TypeOK, Placed, tasks, history
    <2>3. WorkersHold'
      BY <2>1, WorkersStay
    <2>4. CallsSound' /\ ShutdownSound'
      BY <2>1 DEF IInv, Parts, CallsSound, ShutdownSound, Placed, tasks, history,
                  Destructors, is_empty
    <2> QED
      BY <2>1, <2>2, <2>3, <2>4, PlacedStays DEF IInv, Parts
  <1> QED
    BY <1>1, <1>2, <1>3, <1>4, <1>5, <1>6, <1>7, <1>8, <1>9, <1>10 DEF Next, Calls

\* No task is lost, run twice or done while it is on a stack or in a slot.
THEOREM InvariantHolds == Spec => []IInv
  BY InitIInv, NextIInv, PTL DEF Spec

-----------------------------------------------------------------------------
(* What the slots tell those who ask for tasks that are not done.          *)

\* A task with an id is found under that id until it is done.
LEMMA UndoneIsPending ==
  ASSUME IInv, NEW t \in Tasks, handle[t] # 0, t \notin finished
  PROVE  IsPending(t)
  <1>1. PICK j \in Slots : ~is_empty(j) /\ bfp[j] = t
    BY DEF IInv, Parts, TasksKept, InSlot
  <1>2. task_id[j] = handle[t] /\ handle[t] % N = j
    BY <1>1 DEF IInv, Parts, SlotsHold
  <1> QED
    BY <1>2, NType DEF IsPending, task_id_to_index

\* A thread that owns no slot has nothing undone but what it is running itself.
LEMMA NothingOwed ==
  ASSUME IInv, NEW th \in Threads, OwnTasks(th) = {}
  PROVE  GivenBy(th) \ OnStack(th) \subseteq finished
  <1> SUFFICES ASSUME NEW u \in GivenBy(th), u \notin finished
               PROVE  u \in OnStack(th)
    OBVIOUS
  <1>1. /\ u \in Tasks /\ giver[u] # None
        /\ \/ giver[u] = th
           \/ \E k \in Depths(th) : At(th, k) = giver[u]
    BY DEF GivenBy, given, Depths, At
  <1>2. \A x \in Threads : \A k \in Depths(x) : At(x, k) \in Tasks
    BY StackType DEF IInv
  <1>3. Threads \cap Tasks = {}
    BY PoolAssumption DEF Threads
  <1>4. ~InSlot(u)
    <2>1. SUFFICES ASSUME InSlot(u) PROVE FALSE
      OBVIOUS
    <2>2. PICK j \in Slots : ~is_empty(j) /\ bfp[j] = u
      BY <2>1 DEF InSlot
    <2>3. /\ thread_id[j] \in Threads
          /\ \/ giver[u] = thread_id[j]
             \/ \E k \in Depths(thread_id[j]) : giver[u] = At(thread_id[j], k)
      BY <2>2 DEF IInv, Parts, SlotsHold
    <2>4. thread_id[j] # th
      BY <2>2 DEF OwnTasks
    <2> QED
      BY <2>3, <2>4, <1>1, <1>2, <1>3 DEF IInv, Parts, StacksApart
  <1>5. PICK o \in Threads :
          \E k \in Depths(o) : At(o, k) = u /\ (k > 1 \/ o \in Clients)
    BY <1>1, <1>4 DEF IInv, Parts, TasksKept, Inline
  <1>6. PICK k \in Depths(o) : At(o, k) = u /\ (k > 1 \/ o \in Clients)
    BY <1>5
  <1>7. o = th
    <2>1. CASE k > 1
      <3>1. giver[u] = At(o, k - 1) /\ k - 1 \in Depths(o)
        BY <1>6, <2>1, StackType DEF IInv, Parts, StacksNest, Depths
      <3> QED
        BY <3>1, <1>1, <1>2, <1>3 DEF IInv, Parts, StacksApart
    <2>2. CASE ~(k > 1)
      <3>1. k = 1 /\ giver[u] = o
        BY <1>6, <2>2, StackType DEF IInv, Parts, StacksNest, Depths
      <3> QED
        BY <3>1, <1>1, <1>2, <1>3
    <2> QED
      BY <2>1, <2>2
  <1> QED
    BY <1>6, <1>7 DEF OnStack, Depths, At
-----------------------------------------------------------------------------
(* The steps, seen as steps of Executor.                                   *)

Waiting == [th \in Threads |-> IF call[th] \in {"wait", "wait_all"}
                               THEN Awaited(th) ELSE {}]

LEMMA WaitingStays ==
  ASSUME UNCHANGED <<giver, stack>>,
         \A th \in Threads :
           \/ call'[th] = call[th] /\ arg'[th] = arg[th]
           \/ /\ call[th] \notin {"wait", "wait_all"}
              /\ call'[th] \notin {"wait", "wait_all"}
  PROVE  Waiting' = Waiting
  <1>1. \A th \in Threads : GivenBy(th)' = GivenBy(th) /\ OnStack(th)' = OnStack(th)
    BY DEF GivenBy, OnStack, given
  <1>2. \A th \in Threads : Waiting'[th] = Waiting[th]
    BY <1>1 DEF Waiting, Awaited
  <1> QED
    BY <1>2 DEF Waiting

\* The task t is given by the thread th; the others wait for what they waited for.
LEMMA WaitingStaysGiven ==
  ASSUME IInv, NEW th \in Threads, NEW t \in Tasks, AddTask(th, t),
         giver' = [giver EXCEPT ![t] = Current(th)],
         call'[th] \notin {"wait", "wait_all"},
         \A o \in Threads : o # th =>
           call'[o] = call[o] /\ arg'[o] = arg[o] /\ stack'[o] = stack[o]
  PROVE  Waiting' = Waiting
  <1>1. /\ giver[t] = None /\ call[th] \in {"none", "add"}
        /\ \/ Current(th) = th
           \/ /\ Len(stack[th]) \in Depths(th)
              /\ Current(th) = At(th, Len(stack[th]))
    BY AddFacts
  <1>2. giver'[t] = Current(th) /\ \A u \in Tasks : u # t => giver'[u] = giver[u]
    BY DEF IInv, TypeOK
  <1>3. ASSUME NEW o \in Threads, o # th
        PROVE  Current(th) # o /\ \A k \in Depths(o) : At(o, k) # Current(th)
    <2>1. \A x \in Threads : \A k \in Depths(x) : At(x, k) \in Tasks
      BY StackType DEF IInv
    <2>2. Threads \cap Tasks = {}
      BY PoolAssumption DEF Threads
    <2>3. CASE Current(th) = th
      BY <1>3, <2>1, <2>2, <2>3
    <2>4. CASE Len(stack[th]) \in Depths(th) /\ Current(th) = At(th, Len(stack[th]))
      BY <1>3, <2>1, <2>2, <2>4 DEF IInv, Parts, StacksApart
    <2> QED
      BY <1>1, <2>3, <2>4
  <1>4. ASSUME NEW o \in Threads, o # th
        PROVE  GivenBy(o)' = GivenBy(o) /\ OnStack(o)' = OnStack(o)
    <2>1. stack'[o] = stack[o]
      BY <1>4
    <2>2. ASSUME NEW u \in Tasks
          PROVE  u \in GivenBy(o)' <=> u \in GivenBy(o)
      <3>1. CASE u = t
        BY <3>1, <2>1, <1>1, <1>2, <1>3, <1>4 DEF GivenBy, given, Depths, At
      <3>2. CASE u # t
        BY <3>2, <2>1, <1>2 DEF GivenBy, given
      <3> QED
        BY <3>1, <3>2
    <2>3. GivenBy(o) \subseteq Tasks /\ GivenBy(o)' \subseteq Tasks
      BY DEF GivenBy, given
    <2> QED
      BY <2>1, <2>2, <2>3 DEF OnStack
  <1>5. ASSUME NEW o \in Threads PROVE Waiting'[o] = Waiting[o]
    <2>1. CASE o = th
      BY <2>1, <1>1 DEF Waiting
    <2>2. CASE o # th
      BY <2>2, <1>4 DEF Waiting, Awaited
    <2> QED
      BY <2>1, <2>2
  <1> QED
    BY <1>5 DEF Waiting

\* Executor sees nothing of the step.
Unseen == UNCHANGED <<given, runs, finished, Waiting, we_are_destructing>>

LEMMA WaitingStaysElsewhere ==
  ASSUME UNCHANGED <<giver, arg>>, NEW th \in Threads,
         call[th] \notin {"wait", "wait_all"}, call'[th] \notin {"wait", "wait_all"},
         \A o \in Threads : o # th => call'[o] = call[o] /\ stack'[o] = stack[o]
  PROVE  Waiting' = Waiting
  <1>1. \A o \in Threads : o # th => GivenBy(o)' = GivenBy(o) /\ OnStack(o)' = OnStack(o)
    BY DEF GivenBy, OnStack, given
  <1>2. \A o \in Threads : Waiting'[o] = Waiting[o]
    BY <1>1 DEF Waiting, Awaited
  <1> QED
    BY <1>2 DEF Waiting

LEMMA TakesTaskBegins ==
  ASSUME IInv, NEW w \in Workers, Look(w), TakesTask(w)
  PROVE  \E t \in Tasks :
           /\ t \in given /\ runs[t] = 0 /\ runs' = [runs EXCEPT ![t] = 1]
           /\ UNCHANGED <<given, finished, Waiting, we_are_destructing>>
  <1>1. PICK i \in Slots :
          /\ is_ready(i) /\ Push(w, bfp[i]) /\ runs' = [runs EXCEPT ![bfp[i]] = @ + 1]
    BY DEF TakesTask, find_ready_task
  <1>2. /\ call[w] = "look" /\ call' = [call EXCEPT ![w] = "none"] /\ w \in Threads
        /\ UNCHANGED <<finished, we_are_destructing, arg, giver>>
    BY DEF Look, TakesTask, Resumes, Threads
  <1>3. bfp[i] \in given /\ bfp[i] \in Tasks /\ runs[bfp[i]] = 0
    BY <1>1 DEF is_ready, IInv, Parts, SlotsHold, given
  <1>4. runs' = [runs EXCEPT ![bfp[i]] = 1]
    BY <1>1, <1>3 DEF IInv, TypeOK
  <1>5. Waiting' = Waiting
    <2>1. call'[w] = "none" /\ \A o \in Threads : o # w => call'[o] = call[o]
      BY <1>2 DEF IInv, TypeOK
    <2>2. \A o \in Threads : o # w => stack'[o] = stack[o]
      BY <1>1 DEF Push, IInv, TypeOK
    <2> QED
      BY <2>1, <2>2, <1>2, WaitingStaysElsewhere
  <1> QED
    BY <1>2, <1>3, <1>4, <1>5 DEF given

LEMMA EndTaskFinishes ==
  ASSUME IInv, NEW th \in Threads, EndTask(th)
  PROVE  \E t \in Tasks :
           /\ runs[t] = 1 /\ t \notin finished /\ finished' = finished \cup {t}
           /\ UNCHANGED <<given, runs, Waiting, we_are_destructing>>
  <1>1. /\ Current(th) \in Tasks /\ runs[Current(th)] = 1 /\ Current(th) \notin finished
        /\ finished' = finished \cup {Current(th)}
        /\ UNCHANGED <<we_are_destructing, arg, giver, runs>>
        /\ call[th] = "none" /\ \A o \in Threads : o # th => stack'[o] = stack[o]
    BY EndFacts
  <1>2. call'[th] \in {"none", "look"} /\ \A o \in Threads : o # th => call'[o] = call[o]
    BY <1>1 DEF EndTask, EndsInline, EndsInSlot, IInv, TypeOK
  <1>3. Waiting' = Waiting
    BY <1>1, <1>2, WaitingStaysElsewhere
  <1> QED
    BY <1>1, <1>3 DEF given

LEMMA AddTaskGives ==
  ASSUME IInv, NEW th \in Threads, NEW t \in Tasks, AddTask(th, t)
  PROVE  \/ /\ t \notin given /\ ~we_are_destructing /\ given' = given \cup {t}
            /\ UNCHANGED <<finished, Waiting, we_are_destructing>>
            /\ runs' = runs \/ runs' = [runs EXCEPT ![t] = 1]
         \/ Unseen
  <1>1. /\ giver[t] = None /\ runs[t] = 0 /\ call[th] \in {"none", "add"}
        /\ Current(th) \in Tasks \cup Clients /\ ~we_are_destructing
        /\ UNCHANGED <<we_are_destructing, finished>>
    BY AddFacts DEF AddTask
  <1>2. ASSUME giver' = [giver EXCEPT ![t] = Current(th)]
        PROVE  t \notin given /\ given' = given \cup {t}
    BY <1>1, <1>2, PoolAssumption DEF given, IInv, TypeOK
  <1>3. CASE Submits(th, t)
    <2>1. /\ giver' = [giver EXCEPT ![t] = Current(th)] /\ UNCHANGED <<stack, runs>>
          /\ call'[th] = "none"
          /\ \A o \in Threads : o # th => call'[o] = call[o] /\ arg'[o] = arg[o]
      BY <1>3 DEF Submits, Returns, IInv, TypeOK
    <2>2. Waiting' = Waiting
      BY <2>1, WaitingStaysGiven
    <2> QED
      BY <2>1, <2>2, <1>1, <1>2
  <1>4. CASE Enters(th) /\ RunsInline(th, t)
    <2>1. /\ giver' = [giver EXCEPT ![t] = Current(th)]
          /\ runs' = [runs EXCEPT ![t] = 1]
          /\ call'[th] = "none" /\ UNCHANGED <<call, arg>>
          /\ \A o \in Threads : o # th => stack'[o] = stack[o]
      BY <1>1, <1>4 DEF RunsInline, Enters, Push, IInv, TypeOK
    <2>2. Waiting' = Waiting
      BY <2>1, WaitingStaysGiven
    <2> QED
      BY <2>1, <2>2, <1>1, <1>2
  <1>5. CASE WaitsForSlot(th, t)
    <2>1. /\ call' = [call EXCEPT ![th] = "add"] /\ arg' = [arg EXCEPT ![th] = t]
          /\ UNCHANGED <<giver, stack, runs>>
      BY <1>5 DEF WaitsForSlot, Sleeps
    <2>2. Waiting' = Waiting
      <3>1. \A o \in Threads :
              \/ call'[o] = call[o] /\ arg'[o] = arg[o]
              \/ /\ call[o] \notin {"wait", "wait_all"}
                 /\ call'[o] \notin {"wait", "wait_all"}
        BY <2>1, <1>1 DEF IInv, TypeOK
      <3> QED
        BY <2>1, <3>1, WaitingStays
    <2> QED
      BY <2>1, <2>2, <1>1 DEF Unseen, given
  <1> QED
    BY <1>3, <1>4, <1>5 DEF AddTask

\* A wait: the thread waits for what it has been promised, or all of it is done.
Awaits(th) ==
  /\ Waiting[th] = {}
  /\ \E S \in SUBSET given : Waiting' = [Waiting EXCEPT ![th] = S]
  /\ UNCHANGED <<given, runs, finished, we_are_destructing>>
Proceeds(th) ==
  /\ Waiting[th] \subseteq finished
  /\ Waiting' = [Waiting EXCEPT ![th] = {}]
  /\ UNCHANGED <<given, runs, finished, we_are_destructing>>

\* A call that changes what one thread waits for.
LEMMA WaitingChanges ==
  ASSUME IInv, UNCHANGED <<giver, stack>>, NEW th \in Threads,
         \A o \in Threads : o # th => call'[o] = call[o] /\ arg'[o] = arg[o]
  PROVE  Waiting' = [Waiting EXCEPT ![th] = Waiting'[th]]
  <1>1. \A o \in Threads : GivenBy(o)' = GivenBy(o) /\ OnStack(o)' = OnStack(o)
    BY DEF GivenBy, OnStack, given
  <1>2. \A o \in Threads : o # th => Waiting'[o] = Waiting[o]
    BY <1>1 DEF Waiting, Awaited
  <1> QED
    BY <1>2 DEF Waiting

LEMMA WaitSteps ==
  ASSUME IInv, NEW th \in Threads, NEW t \in Tasks, wait_for_task(th, t)
  PROVE  Awaits(th) \/ Proceeds(th) \/ Unseen
  <1>1. /\ UNCHANGED <<giver, stack, runs, finished, we_are_destructing>>
        /\ call[th] \in {"none", "wait"} /\ handle[t] # 0
        /\ call[th] = "wait" => t = arg[th]
    BY DEF wait_for_task, history, Enters, Resumes, IInv, Parts, CallsSound
  <1>2. UNCHANGED given
    BY <1>1 DEF given
  <1>3. CASE IsPending(t)
    <2>1. /\ call'[th] = "wait" /\ arg'[th] = t
          /\ \A o \in Threads : o # th => call'[o] = call[o] /\ arg'[o] = arg[o]
      BY <1>3 DEF wait_for_task, Sleeps, IInv, TypeOK
    <2>2. CASE call[th] = "wait"
      <3>1. Waiting' = Waiting
        BY <2>1, <2>2, <1>1, WaitingStays
      <3> QED
        BY <3>1, <1>1, <1>2 DEF Unseen
    <2>3. CASE call[th] = "none"
      <3>1. Waiting[th] = {} /\ Waiting'[th] = {t} /\ {t} \in SUBSET given
        BY <2>1, <2>3, <1>1 DEF Waiting, Awaited, IInv, Parts, TasksKept, given
      <3>2. Waiting' = [Waiting EXCEPT ![th] = {t}]
        BY <3>1, <2>1, <1>1, WaitingChanges
      <3> QED
        BY <3>1, <3>2, <1>1, <1>2 DEF Awaits
    <2> QED
      BY <2>2, <2>3, <1>1
  <1>4. CASE ~IsPending(t)
    <2>1. /\ call'[th] = "none"
          /\ \A o \in Threads : o # th => call'[o] = call[o] /\ arg'[o] = arg[o]
      BY <1>4 DEF wait_for_task, Returns, IInv, TypeOK
    <2>2. CASE call[th] = "none"
      <3>1. Waiting' = Waiting
        BY <2>1, <2>2, <1>1, WaitingStays
      <3> QED
        BY <3>1, <1>1, <1>2 DEF Unseen
    <2>3. CASE call[th] = "wait"
      <3>1. t \in finished
        BY <1>1, <1>4, UndoneIsPending
      <3>2. Waiting[th] = {t} /\ Waiting'[th] = {}
        BY <2>1, <2>3, <1>1 DEF Waiting, Awaited
      <3>3. Waiting' = [Waiting EXCEPT ![th] = {}]
        BY <3>2, <2>1, <1>1, WaitingChanges
      <3> QED
        BY <3>1, <3>2, <3>3, <1>1, <1>2 DEF Proceeds
    <2> QED
      BY <2>2, <2>3, <1>1
  <1> QED
    BY <1>3, <1>4

LEMMA WaitAllSteps ==
  ASSUME IInv, NEW th \in Threads, wait_for_all_tasks(th)
  PROVE  Awaits(th) \/ Proceeds(th) \/ Unseen
  <1>1. /\ UNCHANGED <<giver, stack, runs, finished, we_are_destructing>>
        /\ call[th] \in {"none", "wait_all"}
    BY DEF wait_for_all_tasks, history, Enters, Resumes
  <1>2. UNCHANGED given /\ GivenBy(th)' = GivenBy(th) /\ OnStack(th)' = OnStack(th)
    BY <1>1 DEF given, GivenBy, OnStack
  <1>3. PICK c \in {"none", "wait_all"} :
          /\ call'[th] = c /\ (c = "wait_all" <=> OwnTasks(th) # {})
          /\ arg'[th] = None
          /\ \A o \in Threads : o # th => call'[o] = call[o] /\ arg'[o] = arg[o]
    BY DEF wait_for_all_tasks, Sleeps, Returns, IInv, TypeOK
  <1>4. Waiting' = [Waiting EXCEPT ![th] = Waiting'[th]]
    BY <1>1, <1>3, WaitingChanges
  <1>5. CASE call[th] = c
    <2>1. Waiting'[th] = Waiting[th]
      BY <1>2, <1>3, <1>5 DEF Waiting, Awaited
    <2>2. Waiting' = Waiting
      BY <2>1, <1>4 DEF Waiting
    <2> QED
      BY <2>2, <1>1, <1>2 DEF Unseen
  <1>6. CASE call[th] = "none" /\ c = "wait_all"
    <2>1. Waiting[th] = {} /\ Waiting'[th] = GivenBy(th) \ OnStack(th)
      BY <1>2, <1>3, <1>6 DEF Waiting, Awaited
    <2>2. GivenBy(th) \ OnStack(th) \in SUBSET given
      BY DEF GivenBy
    <2> QED
      BY <2>1, <2>2, <1>1, <1>2, <1>4 DEF Awaits
  <1>7. CASE call[th] = "wait_all" /\ c = "none"
    <2>1. Waiting[th] = GivenBy(th) \ OnStack(th) /\ Waiting'[th] = {}
      BY <1>3, <1>7 DEF Waiting, Awaited
    <2>2. GivenBy(th) \ OnStack(th) \subseteq finished
      BY <1>3, <1>7, NothingOwed
    <2>3. Waiting[th] \subseteq finished
      BY <2>1, <2>2
    <2> QED
      BY <2>1, <2>3, <1>1, <1>2, <1>4 DEF Proceeds
  <1> QED
    BY <1>1, <1>5, <1>6, <1>7

LEMMA ShutdownSteps ==
  ASSUME IInv, NEW c \in Clients, shutdown_pool(c)
  PROVE  \/ /\ given \subseteq finished /\ we_are_destructing' = TRUE
            /\ UNCHANGED <<given, runs, finished, Waiting>>
         \/ Unseen
  <1>1. /\ UNCHANGED <<giver, stack, runs, finished>>
        /\ c \in Threads /\ call[c] \in {"none", "shutdown"}
    BY DEF shutdown_pool, history, Enters, Resumes, Threads
  <1>2. /\ call'[c] \in {"shutdown", "join"}
        /\ \A o \in Threads : o # c => call'[o] = call[o] /\ arg'[o] = arg[o]
    <2>1. CASE Pending # {}
      BY <2>1, <1>1 DEF shutdown_pool, Sleeps, IInv, TypeOK
    <2>2. CASE Pending = {}
      BY <2>2, <1>1 DEF shutdown_pool, IInv, TypeOK
    <2> QED
      BY <2>1, <2>2
  <1>3. Waiting' = Waiting
    BY <1>1, <1>2, WaitingStays
  <1>4. CASE Pending # {}
    BY <1>4, <1>1, <1>3 DEF shutdown_pool, Unseen, given
  <1>5. CASE Pending = {}
    <2>1. \A d \in Clients : stack[d] = << >>
      BY <1>1 DEF shutdown_pool, Enters, Resumes, IInv, Parts, ShutdownSound, Destructors
    <2>2. \A i \in Slots : is_empty(i)
      BY <1>5 DEF Pending
    <2>3. \A w \in Workers : stack[w] = << >>
      BY <2>2 DEF IInv, Parts, WorkersHold
    <2>4. \A o \in Threads : Depths(o) = {}
      BY <2>1, <2>3, StackType DEF IInv, Depths, Threads
    <2>5. given \subseteq finished
      BY <2>2, <2>4 DEF IInv, Parts, TasksKept, InSlot, Inline, given
    <2> QED
      BY <2>5, <1>1, <1>3, <1>5 DEF shutdown_pool, given
  <1> QED
    BY <1>4, <1>5

LEMMA UnseenSteps ==
  ASSUME IInv, UNCHANGED <<giver, runs, finished, stack, we_are_destructing>>,
         \A th \in Threads :
           \/ call'[th] = call[th] /\ arg'[th] = arg[th]
           \/ /\ call[th] \notin {"wait", "wait_all"}
              /\ call'[th] \notin {"wait", "wait_all"}
  PROVE  Unseen
  BY WaitingStays DEF Unseen, given

Seen == <<given, runs, finished, Waiting, we_are_destructing>>

LEMMA StepOfExecutor ==
  ASSUME IInv, [Next]_vars
  PROVE  \/ Unseen
         \/ \E t \in Tasks : \/ E!Give(t) \/ E!Begin(t) \/ E!RunAtOnce(t) \/ E!Finish(t)
         \/ \E th \in Threads : E!Await(th) \/ E!Resume(th)
         \/ E!Close
  <1>1. ASSUME NEW w \in Workers, Register(w) PROVE Unseen
    <2>1. \A th \in Threads :
            \/ call'[th] = call[th] /\ arg'[th] = arg[th]
            \/ /\ call[th] \notin {"wait", "wait_all"}
               /\ call'[th] \notin {"wait", "wait_all"}
      BY <1>1 DEF Register, IInv, TypeOK, Threads
    <2> QED
      BY <1>1, <2>1, UnseenSteps DEF Register, history
  <1>2. ASSUME NEW w \in Workers, Look(w), TakesTask(w)
        PROVE  \E t \in Tasks : E!Begin(t)
    BY <1>2, TakesTaskBegins DEF E!Begin, Waiting
  <1>3. ASSUME NEW w \in Workers, Look(w), ~TakesTask(w) PROVE Unseen
    <2>1. /\ call[w] = "look" /\ (call' = call \/ call' = [call EXCEPT ![w] = "left"])
          /\ UNCHANGED <<arg, giver, runs, finished, stack, we_are_destructing>>
      BY <1>3 DEF Look, Resumes, FindsNone, Leaves
    <2>2. \A th \in Threads :
            \/ call'[th] = call[th] /\ arg'[th] = arg[th]
            \/ /\ call[th] \notin {"wait", "wait_all"}
               /\ call'[th] \notin {"wait", "wait_all"}
      BY <2>1 DEF IInv, TypeOK, Threads
    <2> QED
      BY <2>1, <2>2, UnseenSteps
  <1>4. ASSUME NEW c \in Clients, shutdown_pool(c) PROVE E!Close \/ Unseen
    BY <1>4, ShutdownSteps DEF E!Close, Waiting
  <1>5. ASSUME NEW c \in Clients, Join(c) PROVE Unseen
    <2>1. \A th \in Threads :
            \/ call'[th] = call[th] /\ arg'[th] = arg[th]
            \/ /\ call[th] \notin {"wait", "wait_all"}
               /\ call'[th] \notin {"wait", "wait_all"}
      BY <1>5 DEF Join, Returns, IInv, TypeOK, Threads
    <2> QED
      BY <1>5, <2>1, UnseenSteps DEF Join, history
  <1>6. ASSUME NEW th \in Threads, NEW t \in Tasks, AddTask(th, t)
        PROVE  E!Give(t) \/ E!RunAtOnce(t) \/ Unseen
    BY <1>6, AddTaskGives DEF E!Give, E!RunAtOnce, Waiting
  <1>7. ASSUME NEW th \in Threads, Awaits(th) \/ Proceeds(th)
        PROVE  E!Await(th) \/ E!Resume(th)
    BY <1>7 DEF Awaits, Proceeds, E!Await, E!Resume, Waiting
  <1>8. ASSUME NEW th \in Threads, NEW t \in Tasks, wait_for_task(th, t)
        PROVE  E!Await(th) \/ E!Resume(th) \/ Unseen
    BY <1>7, <1>8, WaitSteps
  <1>9. ASSUME NEW th \in Threads, wait_for_all_tasks(th)
        PROVE  E!Await(th) \/ E!Resume(th) \/ Unseen
    BY <1>7, <1>9, WaitAllSteps
  <1>10. ASSUME NEW th \in Threads, EndTask(th) PROVE \E t \in Tasks : E!Finish(t)
    BY <1>10, EndTaskFinishes DEF E!Finish, Waiting
  <1>11. ASSUME NEW th \in Threads, WakesUp(th) PROVE Unseen
    BY <1>11, UnseenSteps DEF WakesUp, history
  <1>12. CASE UNCHANGED vars
    BY <1>12, UnseenSteps DEF vars, history
  <1> QED
    BY <1>1, <1>2, <1>3, <1>4, <1>5, <1>6, <1>8, <1>9, <1>10, <1>11, <1>12
       DEF Next, Calls, Threads

\* The pool implements Executor, whatever the number of its threads, of the threads
\* that use it and of the tasks, and whatever the tasks add and wait for: each task
\* is run once, no wait returns before its tasks are done, and the destructor sees
\* everything done.
THEOREM PoolCorrect == Spec => ImplementsExecutor
  <1>1. Init => E!Init
    <2> SUFFICES ASSUME Init PROVE E!Init
      OBVIOUS
    <2>1. \A th \in Threads : call[th] \notin {"wait", "wait_all"}
      BY DEF Init
    <2> QED
      BY <2>1 DEF Init, E!Init, given
  <1>2. IInv /\ [Next]_vars => [E!Next]_Seen
    <2> SUFFICES ASSUME IInv, [Next]_vars PROVE [E!Next]_Seen
      OBVIOUS
    <2>1. CASE Unseen
      BY <2>1 DEF Unseen, Seen
    <2>2. CASE ~Unseen
      BY <2>2, StepOfExecutor DEF E!Next
    <2> QED
      BY <2>1, <2>2
  <1>3. [E!Next]_Seen => [E!Next]_<<given, runs, finished,
                          [th \in Threads |-> IF call[th] \in {"wait", "wait_all"}
                                              THEN Awaited(th) ELSE {}],
                          we_are_destructing>>
    BY DEF Seen, Waiting
  <1> QED
    BY <1>1, <1>2, <1>3, InvariantHolds, PTL DEF Spec, ImplementsExecutor, E!Spec

\* What the users of a pool go by, from what Executor promises: no task is begun twice,
\* one is done only after it was begun and begun only after it was added, and when the
\* pool is destructed none is left behind ...
EachTaskOnce ==
  /\ \A t \in Tasks : /\ runs[t] \in {0, 1}
                      /\ t \in finished => runs[t] = 1
                      /\ runs[t] = 1 => t \in given
  /\ we_are_destructing => given \subseteq finished

\* ... a wait ends only when all it waits for is done, and what is destructed takes no
\* task and begins none.
WaitsUntilDone ==
  /\ \A th \in Threads : Waiting[th] # {} /\ Waiting'[th] # Waiting[th] =>
                           Waiting[th] \subseteq finished
  /\ we_are_destructing => UNCHANGED <<given, runs, finished, we_are_destructing>>

LEMMA ExecutorKeeps ==
  ASSUME IInv, EachTaskOnce, [Next]_vars
  PROVE  EachTaskOnce' /\ WaitsUntilDone
  <1>0. runs \in [Tasks -> Nat] /\ finished \subseteq Tasks /\ given \subseteq Tasks
    BY DEF IInv, TypeOK, given
  <1>1. CASE Unseen
    BY <1>1 DEF Unseen, Waiting, EachTaskOnce, WaitsUntilDone
  <1>2. ASSUME NEW t \in Tasks, E!Give(t) PROVE EachTaskOnce' /\ WaitsUntilDone
    BY <1>0, <1>2 DEF E!Give, Waiting, EachTaskOnce, WaitsUntilDone
  <1>3. ASSUME NEW t \in Tasks, E!Begin(t) PROVE EachTaskOnce' /\ WaitsUntilDone
    BY <1>0, <1>3 DEF E!Begin, Waiting, EachTaskOnce, WaitsUntilDone
  <1>4. ASSUME NEW t \in Tasks, E!RunAtOnce(t) PROVE EachTaskOnce' /\ WaitsUntilDone
    BY <1>0, <1>4 DEF E!RunAtOnce, Waiting, EachTaskOnce, WaitsUntilDone
  <1>5. ASSUME NEW t \in Tasks, E!Finish(t) PROVE EachTaskOnce' /\ WaitsUntilDone
    BY <1>0, <1>5 DEF E!Finish, Waiting, EachTaskOnce, WaitsUntilDone
  <1>6. ASSUME NEW th \in Threads, E!Await(th) PROVE EachTaskOnce' /\ WaitsUntilDone
    BY <1>0, <1>6 DEF E!Await, Waiting, EachTaskOnce, WaitsUntilDone
  <1>7. ASSUME NEW th \in Threads, E!Resume(th) PROVE EachTaskOnce' /\ WaitsUntilDone
    BY <1>0, <1>7 DEF E!Resume, Waiting, EachTaskOnce, WaitsUntilDone
  <1>8. CASE E!Close
    BY <1>0, <1>8 DEF E!Close, Waiting, EachTaskOnce, WaitsUntilDone
  <1> QED
    BY <1>1, <1>2, <1>3, <1>4, <1>5, <1>6, <1>7, <1>8, StepOfExecutor

THEOREM PromisesKept == Spec => []EachTaskOnce /\ [][WaitsUntilDone]_vars
  <1>1. Init => EachTaskOnce
    BY DEF Init, EachTaskOnce, given
  <1>2. IInv /\ EachTaskOnce /\ [Next]_vars => EachTaskOnce' /\ WaitsUntilDone
    BY ExecutorKeeps
  <1> QED
    BY <1>1, <1>2, InvariantHolds, PTL DEF Spec
-----------------------------------------------------------------------------
(* Nobody oversleeps.                                                      *)

\* What whoever sleeps has seen is still so: every step that makes it untrue wakes
\* all the sleepers it may concern.
SleepSound ==
  \A th \in asleep :
    /\ call[th] \in {"look", "add", "wait", "wait_all", "shutdown"}
    /\ call[th] = "add" => find_empty_task_slot = {}
    /\ call[th] = "wait" => InSlot(arg[th])
    /\ call[th] = "wait_all" => OwnTasks(th) # {}
    /\ call[th] = "shutdown" => Pending # {}

\* No id is given out twice, so that the id of a slot says which task is in it.
HandlesApart ==
  /\ \A i \in Slots : next_task_id[i] >= 2 /\ task_id[i] # 1
  /\ \A t \in Tasks : handle[t] > 1 =>
       N > 0 /\ handle[t] < make_next_task_id(handle[t] % N)
  /\ \A t, u \in Tasks : handle[t] = handle[u] /\ handle[t] > 1 => t = u

\* Nobody runs a task that it has to wait for.
NotOwn ==
  \A i \in Slots : ~is_empty(i) =>
    \A k \in Depths(thread_id[i]) : At(thread_id[i], k) # bfp[i]

QInv == IInv /\ SleepSound /\ HandlesApart /\ NotOwn

LEMMA PendingInSlot ==
  ASSUME QInv, NEW t \in Tasks, handle[t] # 0, IsPending(t)
  PROVE  InSlot(t)
  <1>1. N \in Nat /\ N > 0 /\ handle[t] \in Nat
    BY NType DEF IsPending, QInv, IInv, TypeOK
  <1>2. PICK j \in Slots : task_id[j] = handle[t]
    <2>1. handle[t] % N \in Slots
      BY <1>1 DEF Slots
    <2> QED
      BY <2>1 DEF IsPending, task_id_to_index
  <1>3. handle[t] > 1 /\ ~is_empty(j)
    BY <1>1, <1>2 DEF QInv, HandlesApart, is_empty
  <1>4. bfp[j] \in Tasks /\ handle[bfp[j]] = handle[t]
    BY <1>2, <1>3 DEF QInv, IInv, Parts, SlotsHold, given
  <1> QED
    BY <1>3, <1>4 DEF QInv, HandlesApart, InSlot

\* A step that leaves the slots alone: those who sleep after it slept before, or
\* have just looked.
LEMMA SleepStays ==
  ASSUME QInv, UNCHANGED <<task_id, thread_id, bfp>>,
         \A th \in asleep' :
           \/ th \in asleep /\ call'[th] = call[th] /\ arg'[th] = arg[th]
           \/ call'[th] = "look"
           \/ call'[th] = "add" /\ find_empty_task_slot = {}
           \/ call'[th] = "wait" /\ InSlot(arg'[th])
           \/ call'[th] = "wait_all" /\ OwnTasks(th) # {}
           \/ call'[th] = "shutdown" /\ Pending # {}
  PROVE  SleepSound'
  <1>1. /\ find_empty_task_slot' = find_empty_task_slot
        /\ Pending' = Pending
        /\ \A th : OwnTasks(th)' = OwnTasks(th)
    BY DEF find_empty_task_slot, Pending, OwnTasks, is_empty
  <1>2. \A th : InSlot(arg[th])' <=> \E i \in Slots : task_id[i] # 0 /\ bfp[i] = arg'[th]
    BY DEF InSlot, is_empty
  <1>3. ASSUME NEW th \in asleep'
        PROVE  /\ call'[th] \in {"look", "add", "wait", "wait_all", "shutdown"}
               /\ call'[th] = "add" => find_empty_task_slot = {}
               /\ call'[th] = "wait" => \E i \in Slots : task_id[i] # 0 /\ bfp[i] = arg'[th]
               /\ call'[th] = "wait_all" => OwnTasks(th) # {}
               /\ call'[th] = "shutdown" => Pending # {}
    BY <1>3 DEF QInv, SleepSound, InSlot, is_empty
  <1> QED
    BY <1>1, <1>2, <1>3 DEF SleepSound

LEMMA SlotsStay ==
  ASSUME QInv, UNCHANGED <<tasks, stack, handle>>
  PROVE  HandlesApart' /\ NotOwn'
  <1>1. HandlesApart'
    BY DEF QInv, HandlesApart, tasks, make_next_task_id
  <1>2. NotOwn'
    BY DEF QInv, NotOwn, tasks, is_empty, Depths, At
  <1> QED
    BY <1>1, <1>2

\* Who has entered a call, or goes on in one, is awake.
LEMMA Awake ==
  ASSUME QInv, NEW th \in Threads,
         th \notin asleep \/ call[th] \in {"none", "start", "join", "left"}
  PROVE  th \notin asleep
  BY DEF QInv, SleepSound

LEMMA QuietSteps ==
  ASSUME QInv, NEW th \in Threads,
         \/ th \in Workers /\ (Register(th) \/ (Look(th) /\ ~TakesTask(th)))
         \/ th \in Clients /\ (shutdown_pool(th) \/ Join(th))
         \/ \E t \in Tasks : wait_for_task(th, t)
                              \/ (AddTask(th, t) /\ WaitsForSlot(th, t))
         \/ wait_for_all_tasks(th)
  PROVE  SleepSound' /\ HandlesApart' /\ NotOwn'
  <1>1. UNCHANGED <<tasks, stack, handle>>
    BY DEF Register, Look, FindsNone, Leaves, shutdown_pool, Join, wait_for_task, AddTask,
           WaitsForSlot, wait_for_all_tasks, history
  <1>2. th \notin asleep
    BY Awake DEF Register, Look, Resumes, Enters, shutdown_pool, Join, wait_for_task,
                 AddTask, wait_for_all_tasks
  <1>3. TypeOK
    BY DEF QInv, IInv
  <1>4. \A o \in asleep' : o # th => o \in asleep /\ call'[o] = call[o] /\ arg'[o] = arg[o]
    <2>1. ASSUME th \in Workers, Register(th) \/ (Look(th) /\ ~TakesTask(th))
          PROVE  \A o \in asleep' :
                   o # th => o \in asleep /\ call'[o] = call[o] /\ arg'[o] = arg[o]
      BY <2>1, <1>3 DEF Register, Look, FindsNone, Leaves, TypeOK
    <2>2. ASSUME th \in Clients, shutdown_pool(th)
          PROVE  \A o \in asleep' :
                   o # th => o \in asleep /\ call'[o] = call[o] /\ arg'[o] = arg[o]
      <3>1. CASE Pending # {}
        BY <2>2, <3>1, <1>3 DEF shutdown_pool, Sleeps, TypeOK
      <3>2. CASE Pending = {}
        BY <2>2, <3>2, <1>3 DEF shutdown_pool, TypeOK
      <3> QED
        BY <3>1, <3>2
    <2>3. ASSUME th \in Clients, Join(th)
          PROVE  \A o \in asleep' :
                   o # th => o \in asleep /\ call'[o] = call[o] /\ arg'[o] = arg[o]
      BY <2>3, <1>3 DEF Join, Returns, TypeOK
    <2>4. ASSUME NEW t \in Tasks,
                 wait_for_task(th, t) \/ (AddTask(th, t) /\ WaitsForSlot(th, t))
          PROVE  \A o \in asleep' :
                   o # th => o \in asleep /\ call'[o] = call[o] /\ arg'[o] = arg[o]
      BY <2>4, <1>3 DEF wait_for_task, WaitsForSlot, Sleeps, Returns, TypeOK
    <2>5. ASSUME wait_for_all_tasks(th)
          PROVE  \A o \in asleep' :
                   o # th => o \in asleep /\ call'[o] = call[o] /\ arg'[o] = arg[o]
      BY <2>5, <1>3 DEF wait_for_all_tasks, Sleeps, Returns, TypeOK
    <2> QED
      BY <2>1, <2>2, <2>3, <2>4, <2>5
  <1>5. th \in asleep' =>
           \/ call'[th] = "look"
           \/ call'[th] = "add" /\ find_empty_task_slot = {}
           \/ call'[th] = "wait" /\ InSlot(arg'[th])
           \/ call'[th] = "wait_all" /\ OwnTasks(th) # {}
           \/ call'[th] = "shutdown" /\ Pending # {}
    <2>1. ASSUME th \in Workers, Register(th) \/ (Look(th) /\ ~TakesTask(th))
          PROVE  th \in asleep' => call'[th] = "look"
      BY <2>1, <1>2 DEF Register, Look, Resumes, FindsNone, Leaves
    <2>2. ASSUME th \in Clients, shutdown_pool(th)
          PROVE  th \in asleep' => call'[th] = "shutdown" /\ Pending # {}
      BY <2>2, <1>2, <1>3 DEF shutdown_pool, Sleeps, TypeOK
    <2>3. ASSUME th \in Clients, Join(th) PROVE th \notin asleep'
      BY <2>3, <1>2 DEF Join
    <2>4. ASSUME NEW t \in Tasks, wait_for_task(th, t)
          PROVE  th \in asleep' => call'[th] = "wait" /\ InSlot(arg'[th])
      <3>1. handle[t] # 0
        BY <2>4 DEF wait_for_task, Enters, Resumes, QInv, IInv, Parts, CallsSound
      <3> QED
        BY <2>4, <3>1, <1>2, <1>3, PendingInSlot DEF wait_for_task, Sleeps, TypeOK
    <2>5. ASSUME NEW t \in Tasks, AddTask(th, t), WaitsForSlot(th, t)
          PROVE  call'[th] = "add" /\ find_empty_task_slot = {}
      BY <2>5, <1>3 DEF WaitsForSlot, Sleeps, TypeOK
    <2>6. ASSUME wait_for_all_tasks(th)
          PROVE  th \in asleep' => call'[th] = "wait_all" /\ OwnTasks(th) # {}
      BY <2>6, <1>2, <1>3 DEF wait_for_all_tasks, Sleeps, TypeOK
    <2> QED
      BY <2>1, <2>2, <2>3, <2>4, <2>5, <2>6
  <1>6. UNCHANGED <<task_id, thread_id, bfp>>
    BY <1>1 DEF tasks
  <1>7. SleepSound'
    BY <1>4, <1>5, <1>6, SleepStays
  <1> QED
    BY <1>1, <1>7, SlotsStay

LEMMA TakesTaskQuiet ==
  ASSUME QInv, NEW w \in Workers, Look(w), TakesTask(w)
  PROVE  SleepSound' /\ HandlesApart' /\ NotOwn'
  <1>1. PICK i \in Slots : is_ready(i) /\ Push(w, bfp[i])
    BY DEF TakesTask, find_ready_task
  <1>2. /\ w \notin asleep /\ call[w] = "look" /\ w \in Threads
        /\ UNCHANGED <<task_id, thread_id, next_task_id, bfp, asleep, handle, arg>>
        /\ call' = [call EXCEPT ![w] = "none"] /\ TypeOK
    BY DEF Look, Resumes, TakesTask, QInv, IInv, Threads
  <1>3. SleepSound'
    <2>1. \A th \in asleep' : th \in asleep /\ call'[th] = call[th] /\ arg'[th] = arg[th]
      BY <1>2 DEF TypeOK
    <2> QED
      BY <2>1, <1>2, SleepStays
  <1>4. HandlesApart'
    BY <1>2 DEF QInv, HandlesApart, make_next_task_id
  <1>5. bfp[i] \in Tasks /\ ~is_empty(i) /\ stack[w] = << >>
    BY <1>1, <1>2 DEF is_ready, QInv, IInv, Parts, SlotsHold, WorkersHold, given
  <1>6. /\ \A o \in Threads : o # w => stack'[o] = stack[o]
        /\ Len(stack'[w]) = 1 /\ stack'[w][1] = bfp[i]
    <2>1. Len(stack[w]) = 0
      BY <1>2, <1>5, StackType
    <2>2. /\ \A o \in Threads : o # w => stack'[o] = stack[o]
          /\ Len(stack'[w]) = Len(stack[w]) + 1
          /\ stack'[w][Len(stack[w]) + 1] = bfp[i]
      BY <1>1, <1>2, <1>5, PushStack
    <2> QED
      BY <2>1, <2>2
  <1>7. NotOwn'
    <2>1. ASSUME NEW j \in Slots, task_id[j] # 0, NEW k \in 1 .. Len(stack'[thread_id[j]])
          PROVE  stack'[thread_id[j]][k] # bfp[j]
      <3>1. /\ thread_id[j] \in Threads /\ bfp[j] \in Tasks
            /\ \/ giver[bfp[j]] = thread_id[j]
               \/ \E n \in Depths(thread_id[j]) : giver[bfp[j]] = At(thread_id[j], n)
        BY <2>1 DEF QInv, IInv, Parts, SlotsHold, is_empty, given
      <3>2. CASE thread_id[j] = w
        <4>1. Depths(w) = {}
          BY <1>2, <1>5, StackType DEF Depths
        <4>2. giver[bfp[j]] # w
          BY <1>2, <3>1, PoolAssumption DEF TypeOK
        <4>3. FALSE
          BY <3>1, <3>2, <4>1, <4>2
        <4> QED
          BY <4>3
      <3>3. CASE thread_id[j] # w
        BY <2>1, <3>1, <3>3, <1>6 DEF QInv, NotOwn, is_empty, Depths, At
      <3> QED
        BY <3>2, <3>3
    <2> QED
      BY <2>1, <1>2 DEF NotOwn, is_empty, Depths, At
  <1> QED
    BY <1>3, <1>4, <1>7

LEMMA EndTaskQuiet ==
  ASSUME QInv, NEW th \in Threads, EndTask(th)
  PROVE  SleepSound' /\ HandlesApart' /\ NotOwn'
  <1> USE DEF QInv
  <1>1. /\ Current(th) \in Tasks /\ Current(th) \notin finished /\ call[th] = "none"
        /\ stack[th] # << >> /\ UNCHANGED arg
        /\ Current(th) = At(th, Len(stack[th])) /\ Len(stack[th]) \in Depths(th)
        /\ \A o \in Threads : \A k \in 1 .. Len(stack'[o]) :
             k \in Depths(o) /\ stack'[o][k] = At(o, k)
    BY EndFacts
  <1>2. \A i \in Slots : task_id[i] # 0 => thread_id[i] \in Threads
    BY DEF IInv, Parts, SlotsHold, is_empty
  <1>3. ASSUME UNCHANGED thread_id,
               \A i \in Slots : task_id'[i] # 0 => task_id'[i] = task_id[i] /\ bfp'[i] = bfp[i]
        PROVE  NotOwn'
    <2>1. ASSUME NEW i \in Slots, task_id'[i] # 0, NEW k \in 1 .. Len(stack'[thread_id[i]])
          PROVE  stack'[thread_id[i]][k] # bfp'[i]
      BY <2>1, <1>1, <1>2, <1>3 DEF NotOwn, is_empty
    <2> QED
      BY <2>1, <1>3 DEF NotOwn, is_empty, Depths, At
  <1>4. CASE EndsInline(th)
    <2>1. handle' = [handle EXCEPT ![Current(th)] = 1] /\ UNCHANGED <<tasks, call, asleep>>
          /\ (th \in Clients \/ Len(stack[th]) > 1)
      BY <1>4 DEF EndsInline
    <2>2. handle[Current(th)] = 0
      BY <1>1, <2>1 DEF IInv, Parts, StacksNest
    <2>3. \A u \in Tasks : handle'[u] > 1 => handle'[u] = handle[u]
      BY <1>1, <2>1 DEF IInv, TypeOK
    <2>4. HandlesApart'
      <3>1. UNCHANGED <<next_task_id, task_id>>
        BY <2>1 DEF tasks
      <3>2. \A t \in Tasks : handle'[t] > 1 =>
              N > 0 /\ handle'[t] < next_task_id[handle'[t] % N] * N + (handle'[t] % N)
        BY <2>3 DEF HandlesApart, make_next_task_id
      <3>3. \A t, u \in Tasks : handle'[t] = handle'[u] /\ handle'[t] > 1 => t = u
        BY <2>3 DEF HandlesApart
      <3> QED
        BY <3>1, <3>2, <3>3 DEF HandlesApart, make_next_task_id
    <2>5. SleepSound'
      BY <1>1, <2>1, SleepStays DEF tasks
    <2> QED
      BY <2>1, <2>4, <2>5, <1>3 DEF tasks
  <1>5. CASE EndsInSlot(th)
    <2>1. /\ th \in Workers /\ asleep' = Lookers
          /\ task_id' = [task_id EXCEPT ![idx[th]] = 0]
          /\ bfp' = [bfp EXCEPT ![idx[th]] = None]
          /\ call' = [call EXCEPT ![th] = "look"]
          /\ UNCHANGED <<thread_id, next_task_id, handle>>
      BY <1>5 DEF EndsInSlot, AllTold
    <2>2. SleepSound'
      BY <2>1 DEF SleepSound, Lookers, IInv, TypeOK
    <2>3. \A i \in Slots : task_id'[i] # 0 => task_id'[i] = task_id[i] /\ bfp'[i] = bfp[i]
      BY <2>1 DEF IInv, TypeOK
    <2>4. HandlesApart'
      <3>1. \A i \in Slots : task_id'[i] # 1
        BY <2>3 DEF HandlesApart
      <3> QED
        BY <2>1, <3>1 DEF HandlesApart, make_next_task_id
    <2> QED
      BY <2>1, <2>2, <2>3, <2>4, <1>3
  <1> QED
    BY <1>4, <1>5 DEF EndTask

LEMMA RunsInlineQuiet ==
  ASSUME QInv, NEW th \in Threads, NEW t \in Tasks,
         AddTask(th, t), Enters(th), RunsInline(th, t)
  PROVE  SleepSound' /\ HandlesApart' /\ NotOwn'
  <1>1. UNCHANGED <<tasks, call, arg, asleep, handle>> /\ Push(th, t) /\ TypeOK
    BY DEF RunsInline, QInv, IInv
  <1>2. SleepSound'
    BY <1>1, SleepStays DEF tasks
  <1>3. HandlesApart'
    BY <1>1 DEF QInv, HandlesApart, make_next_task_id, tasks
  <1>4. giver[t] = None
    BY AddFacts DEF QInv
  <1>5. ASSUME NEW j \in Slots, task_id[j] # 0, NEW k \in 1 .. Len(stack'[thread_id[j]])
        PROVE  stack'[thread_id[j]][k] # bfp[j]
    <2>1. thread_id[j] \in Threads /\ giver[bfp[j]] # None
      BY <1>5 DEF QInv, IInv, Parts, SlotsHold, is_empty, given
    <2>2. k \in Depths(thread_id[j]) => At(thread_id[j], k) # bfp[j]
      BY <1>5 DEF QInv, NotOwn, is_empty
    <2>3. CASE thread_id[j] # th
      BY <2>1, <2>2, <2>3, <1>1, <1>5, PushStack DEF Depths, At
    <2>4. CASE thread_id[j] = th
      <3>1. /\ Len(stack[th]) \in Nat /\ Len(stack'[th]) = Len(stack[th]) + 1
            /\ \A n \in Depths(th) : stack'[th][n] = stack[th][n]
            /\ stack'[th][Len(stack[th]) + 1] = t
        BY <1>1, PushStack
      <3>2. k \in Depths(th) \/ k = Len(stack[th]) + 1
        BY <3>1, <2>4, <1>5 DEF Depths
      <3> QED
        BY <3>1, <3>2, <2>1, <2>2, <2>4, <1>4 DEF At
    <2> QED
      BY <2>3, <2>4
  <1>6. NotOwn'
    BY <1>1, <1>5 DEF NotOwn, is_empty, Depths, At, tasks
  <1> QED
    BY <1>2, <1>3, <1>6

LEMMA SubmitsQuiet ==
  ASSUME QInv, NEW th \in Threads, NEW t \in Tasks, AddTask(th, t), Submits(th, t)
  PROVE  SleepSound' /\ HandlesApart' /\ NotOwn'
  <1>1. PICK i \in Slots :
          /\ i \in find_empty_task_slot /\ is_empty(i)
          /\ thread_id' = [thread_id EXCEPT ![i] = th]
          /\ task_id' = [task_id EXCEPT ![i] = make_next_task_id(i)]
          /\ next_task_id' = [next_task_id EXCEPT ![i] = @ + 1]
          /\ bfp' = [bfp EXCEPT ![i] = t]
          /\ handle' = [handle EXCEPT ![t] = make_next_task_id(i)]
    BY DEF Submits, find_empty_task_slot
  <1>2. /\ call' = [call EXCEPT ![th] = "none"] /\ arg' = [arg EXCEPT ![th] = None]
        /\ asleep' \subseteq asleep /\ UNCHANGED stack /\ TypeOK
    BY DEF Submits, Returns, QInv, IInv
  <1>3. th \notin asleep
    BY Awake DEF AddTask, Enters, Resumes
  <1> DEFINE id == make_next_task_id(i)
  <1>4. /\ N \in Nat \ {0} /\ next_task_id[i] \in Nat /\ id = next_task_id[i] * N + i
        /\ id \in Nat /\ id > 1 /\ id % N = i
    <2>1. N \in Nat \ {0} /\ i \in 0 .. N - 1
      BY NType DEF Slots
    <2>2. next_task_id[i] \in Nat /\ next_task_id[i] >= 2
      BY <1>2 DEF TypeOK, QInv, HandlesApart
    <2>3. next_task_id[i] * N + i \in Nat /\ (next_task_id[i] * N + i) % N = i
      BY <2>1, <2>2, IdIndex
    <2>4. id = next_task_id[i] * N + i
      BY DEF make_next_task_id
    <2>5. next_task_id[i] * N >= 2
      <3>1. PICK m \in Nat : next_task_id[i] = m + 2
        BY <2>2
      <3>2. (m + 2) * N = m * N + 2 * N /\ m * N >= 0
        BY <2>1
      <3> QED
        BY <3>1, <3>2, <2>1
    <2>6. id > 1
      BY <2>1, <2>2, <2>3, <2>4, <2>5
    <2> QED
      BY <2>1, <2>2, <2>3, <2>4, <2>6
  <1> HIDE DEF id
  <1>5. \A j \in Slots :
          /\ j # i => /\ task_id'[j] = task_id[j] /\ thread_id'[j] = thread_id[j]
                      /\ bfp'[j] = bfp[j] /\ next_task_id'[j] = next_task_id[j]
          /\ task_id'[i] = id /\ thread_id'[i] = th /\ bfp'[i] = t
          /\ next_task_id'[i] = next_task_id[i] + 1
    BY <1>1, <1>2 DEF TypeOK, id
  <1>6. \A u \in Tasks : (u # t => handle'[u] = handle[u]) /\ handle'[t] = id
    BY <1>1, <1>2 DEF TypeOK, id
  <1>7. SleepSound'
    <2>1. \A o \in asleep' : o \in asleep /\ call'[o] = call[o] /\ arg'[o] = arg[o]
      BY <1>2, <1>3 DEF TypeOK
    <2>2. \A j \in Slots : task_id[j] # 0 =>
            task_id'[j] # 0 /\ bfp'[j] = bfp[j] /\ thread_id'[j] = thread_id[j]
      BY <1>1, <1>5 DEF is_empty
    <2>3. ASSUME NEW o \in asleep'
          PROVE  /\ call'[o] \in {"look", "add", "wait", "wait_all", "shutdown"}
                 /\ call'[o] # "add"
                 /\ call'[o] = "wait" => \E j \in Slots : task_id'[j] # 0 /\ bfp'[j] = arg'[o]
                 /\ call'[o] = "wait_all" =>
                      \E j \in Slots : task_id'[j] # 0 /\ thread_id'[j] = o
                 /\ call'[o] = "shutdown" => \E j \in Slots : task_id'[j] # 0
      <3>1. /\ call[o] \in {"look", "add", "wait", "wait_all", "shutdown"}
            /\ call[o] # "add"
            /\ call[o] = "wait" => \E j \in Slots : task_id[j] # 0 /\ bfp[j] = arg[o]
            /\ call[o] = "wait_all" => \E j \in Slots : task_id[j] # 0 /\ thread_id[j] = o
            /\ call[o] = "shutdown" => \E j \in Slots : task_id[j] # 0
        BY <2>1, <2>3, <1>1
           DEF QInv, SleepSound, InSlot, OwnTasks, Pending, is_empty
      <3> QED
        BY <2>1, <2>2, <3>1
    <2> QED
      BY <2>3 DEF SleepSound, InSlot, OwnTasks, Pending, is_empty
  <1>8. HandlesApart'
    <2>1. \A j \in Slots : next_task_id'[j] >= 2 /\ task_id'[j] # 1
      BY <1>2, <1>4, <1>5 DEF TypeOK, QInv, HandlesApart
    <2>2. (next_task_id[i] + 1) * N + i = id + N
      BY <1>1, <1>4 DEF Slots
    <2>3. ASSUME NEW u \in Tasks, handle'[u] > 1
          PROVE  handle'[u] < next_task_id'[handle'[u] % N] * N + (handle'[u] % N)
      <3>1. CASE u = t
        <4>1. handle'[u] = id /\ handle'[u] % N = i
          BY <3>1, <1>4, <1>6
        <4>2. next_task_id'[i] * N + i = id + N
          BY <1>5, <2>2
        <4> QED
          BY <4>1, <4>2, <1>4
      <3>2. CASE u # t
        <4> DEFINE j == handle[u] % N
        <4>1. handle'[u] = handle[u] /\ handle[u] \in Nat
          BY <3>2, <1>2, <1>6 DEF TypeOK
        <4>2. handle[u] < next_task_id[j] * N + j
          BY <4>1, <2>3 DEF QInv, HandlesApart, make_next_task_id
        <4>3. j \in Slots
          BY <4>1, <1>4 DEF Slots
        <4>4. CASE j # i
          BY <4>1, <4>2, <4>3, <4>4, <1>5
        <4>5. CASE j = i
          <5>1. handle[u] < id
            BY <4>2, <4>5, <1>4
          <5>2. next_task_id'[j] * N + j = id + N
            BY <4>5, <1>5, <2>2
          <5> QED
            BY <4>1, <5>1, <5>2, <1>4
        <4> QED
          BY <4>4, <4>5
      <3> QED
        BY <3>1, <3>2
    <2>4. \A u \in Tasks : u # t => handle[u] # id
      <3>1. SUFFICES ASSUME NEW u \in Tasks, handle[u] = id PROVE FALSE
        OBVIOUS
      <3>2. handle[u] < next_task_id[handle[u] % N] * N + (handle[u] % N)
        BY <3>1, <1>4 DEF QInv, HandlesApart, make_next_task_id
      <3>3. id < next_task_id[i] * N + i
        BY <3>1, <3>2, <1>4
      <3> QED
        BY <3>3, <1>4
    <2>5. \A u, v \in Tasks : handle'[u] = handle'[v] /\ handle'[u] > 1 => u = v
      BY <2>4, <1>6 DEF QInv, HandlesApart
    <2> QED
      BY <2>1, <2>3, <2>5, <1>4 DEF HandlesApart, make_next_task_id
  <1>9. NotOwn'
    <2>1. giver[t] = None
      BY AddFacts DEF QInv
    <2>2. \A o \in Threads : \A k \in Depths(o) : At(o, k) # t
      BY <2>1 DEF QInv, IInv, Parts, StacksRun, given
    <2>3. ASSUME NEW j \in Slots, task_id'[j] # 0, NEW k \in Depths(thread_id'[j])
          PROVE  At(thread_id'[j], k) # bfp'[j]
      BY <2>2, <2>3, <1>5 DEF QInv, NotOwn, is_empty
    <2> QED
      BY <2>3, <1>2 DEF NotOwn, is_empty, Depths, At
  <1> QED
    BY <1>7, <1>8, <1>9

LEMMA QInvInitially == Init => QInv
  <1> SUFFICES ASSUME Init PROVE QInv
    OBVIOUS
  <1>1. SleepSound
    BY DEF Init, SleepSound
  <1>2. HandlesApart
    BY DEF Init, HandlesApart
  <1>3. NotOwn
    BY DEF Init, NotOwn, is_empty
  <1> QED
    BY <1>1, <1>2, <1>3, InitIInv DEF QInv

LEMMA QInvKept == QInv /\ [Next]_vars => QInv'
  <1> SUFFICES ASSUME QInv, [Next]_vars PROVE SleepSound' /\ HandlesApart' /\ NotOwn'
    BY NextIInv DEF QInv
  <1>1. ASSUME NEW w \in Workers, Register(w) \/ Look(w)
        PROVE  SleepSound' /\ HandlesApart' /\ NotOwn'
    BY <1>1, QuietSteps, TakesTaskQuiet DEF Threads
  <1>2. ASSUME NEW c \in Clients, shutdown_pool(c) \/ Join(c)
        PROVE  SleepSound' /\ HandlesApart' /\ NotOwn'
    BY <1>2, QuietSteps DEF Threads
  <1>3. ASSUME NEW th \in Threads, NEW t \in Tasks, AddTask(th, t)
        PROVE  SleepSound' /\ HandlesApart' /\ NotOwn'
    <2>1. Submits(th, t) \/ (Enters(th) /\ RunsInline(th, t)) \/ WaitsForSlot(th, t)
      BY <1>3 DEF AddTask
    <2> QED
      BY <1>3, <2>1, SubmitsQuiet, RunsInlineQuiet, QuietSteps
  <1>4. ASSUME NEW th \in Threads, NEW t \in Tasks, wait_for_task(th, t)
        PROVE  SleepSound' /\ HandlesApart' /\ NotOwn'
    BY <1>4, QuietSteps
  <1>5. ASSUME NEW th \in Threads, wait_for_all_tasks(th)
        PROVE  SleepSound' /\ HandlesApart' /\ NotOwn'
    BY <1>5, QuietSteps
  <1>6. ASSUME NEW th \in Threads, EndTask(th)
        PROVE  SleepSound' /\ HandlesApart' /\ NotOwn'
    BY <1>6, EndTaskQuiet
  <1>7. ASSUME NEW th \in Threads, WakesUp(th)
        PROVE  SleepSound' /\ HandlesApart' /\ NotOwn'
    <2>1. UNCHANGED <<tasks, stack, handle, call, arg>> /\ asleep' \subseteq asleep
      BY <1>7 DEF WakesUp, history
    <2> QED
      BY <2>1, SleepStays, SlotsStay DEF tasks
  <1>8. CASE UNCHANGED vars
    <2>1. UNCHANGED <<tasks, stack, handle, call, arg, asleep>>
      BY <1>8 DEF vars, history
    <2> QED
      BY <2>1, SleepStays, SlotsStay DEF tasks
  <1> QED
    BY <1>1, <1>2, <1>3, <1>4, <1>5, <1>6, <1>7, <1>8 DEF Next, Calls

\* However many threads wait, and whatever tasks have moved into the slots since,
\* nobody sleeps on in add_task, wait_for_task, wait_for_all_tasks or the destructor
\* when what it waits for has come about.
THEOREM NobodyOversleepsCorrect == Spec => []NobodyOversleeps
  <1>1. QInv => NobodyOversleeps
    <2> SUFFICES ASSUME QInv, NEW th \in asleep
                 PROVE  /\ call[th] \in {"wait", "wait_all", "shutdown"} =>
                             ~(Awaited(th) \subseteq finished)
                        /\ call[th] = "add" => find_empty_task_slot = {}
      BY DEF NobodyOversleeps
    <2>1. \A i \in Slots : ~is_empty(i) => bfp[i] \in given /\ bfp[i] \notin finished
      BY DEF QInv, IInv, Parts, SlotsHold
    <2>2. CASE call[th] = "wait"
      <3>1. InSlot(arg[th])
        BY <2>2 DEF QInv, SleepSound
      <3> QED
        BY <2>1, <2>2, <3>1 DEF InSlot, Awaited
    <2>3. CASE call[th] = "wait_all"
      <3>1. PICK i \in Slots : ~is_empty(i) /\ thread_id[i] = th
        BY <2>3 DEF QInv, SleepSound, OwnTasks
      <3>2. bfp[i] \in GivenBy(th)
        <4>1. \/ giver[bfp[i]] = th
              \/ \E k \in Depths(th) : giver[bfp[i]] = At(th, k)
          BY <3>1 DEF QInv, IInv, Parts, SlotsHold
        <4> QED
          BY <2>1, <3>1, <4>1 DEF GivenBy, Depths, At
      <3>3. bfp[i] \notin OnStack(th)
        BY <3>1 DEF QInv, NotOwn, OnStack, Depths, At
      <3> QED
        BY <2>1, <2>3, <3>1, <3>2, <3>3 DEF Awaited
    <2>4. CASE call[th] = "shutdown"
      <3>1. PICK i \in Slots : ~is_empty(i)
        BY <2>4 DEF QInv, SleepSound, Pending
      <3> QED
        BY <2>1, <2>4, <3>1 DEF Awaited
    <2>5. CASE call[th] \notin {"wait", "wait_all", "shutdown"}
      BY <2>5 DEF QInv, SleepSound
    <2> QED
      BY <2>2, <2>3, <2>4, <2>5
  <1> QED
    BY <1>1, QInvInitially, QInvKept, PTL DEF Spec

\* Who asks the slots is told how things stand, however often they were reused: a wait
\* that returns at once has its tasks done, and one for a task that is done does not
\* sleep.
THEOREM SlotsTellTheTruthCorrect == Spec => []SlotsTellTheTruth
  <1>1. QInv => SlotsTellTheTruth
    <2> SUFFICES ASSUME QInv PROVE SlotsTellTheTruth
      OBVIOUS
    <2>1. ASSUME NEW t \in Tasks, handle[t] # 0
          PROVE  IsPending(t) <=> t \notin finished
      <3>1. ASSUME IsPending(t) PROVE t \notin finished
        <4>1. PICK j \in Slots : ~is_empty(j) /\ bfp[j] = t
          BY <2>1, <3>1, PendingInSlot DEF InSlot
        <4> QED
          BY <4>1 DEF QInv, IInv, Parts, SlotsHold
      <3> QED
        BY <2>1, <3>1, UndoneIsPending DEF QInv
    <2>2. ASSUME NEW th \in Threads, OwnTasks(th) = {}
          PROVE  GivenBy(th) \ OnStack(th) \subseteq finished
      BY <2>2, NothingOwed DEF QInv
    <2> QED
      BY <2>1, <2>2 DEF SlotsTellTheTruth
  <1> QED
    BY <1>1, QInvInitially, QInvKept, PTL DEF Spec
-----------------------------------------------------------------------------
(* There are always workers enough.                                        *)

Busy == {w \in Workers : stack[w] # << >>}
Processed == {i \in Slots : is_being_processed[i]}

\* A worker that does not look for a task runs one, or has left for good.
Employed ==
  \A w \in Workers :
    /\ call[w] \in {"start", "look", "left"} \/ stack[w] # << >>
    /\ call[w] = "left" => we_are_destructing

WInv == IInv /\ Employed /\ WorkersSuffice

LEMMA Smallest ==
  ASSUME NEW R \in SUBSET Nat, R # {}
  PROVE  \E j \in R : \A k \in R : j <= k
  <1> DEFINE L == OpToRel(<, Nat)
  <1>1. PICK j \in R : \A k \in R : ~(<<k, j>> \in L)
    BY NatLessThanWellFounded, WFMin
  <1>2. ASSUME NEW k \in R PROVE j <= k
    <2>1. k \in Nat /\ j \in Nat
      OBVIOUS
    <2>2. <<k, j>> \in L <=> k < j
      BY <2>1 DEF OpToRel
    <2>3. ~(k < j)
      BY <1>1, <2>2
    <2> QED
      BY <2>1, <2>3
  <1> QED
    BY <1>1, <1>2

LEMMA Counted ==
  /\ IsFiniteSet(Slots) /\ IsFiniteSet(Workers)
  /\ Cardinality(Slots) = N /\ Cardinality(Workers) = N
  /\ IsFiniteSet(ReadyOnes) /\ Cardinality(ReadyOnes) \in Nat
  /\ IsFiniteSet(Searching) /\ Cardinality(Searching) \in Nat
  <1>1. IsFiniteSet(Slots) /\ Cardinality(Slots) = N
    BY NType, FS_Interval DEF Slots
  <1>2. IsFiniteSet(Workers) /\ Cardinality(Workers) = N
    BY PoolAssumption DEF N
  <1>3. ReadyOnes \in SUBSET Slots /\ Searching \in SUBSET Workers
    BY DEF ReadyOnes, Searching
  <1>4. IsFiniteSet(ReadyOnes) /\ IsFiniteSet(Searching)
    BY <1>1, <1>2, <1>3, FS_Subset
  <1> QED
    BY <1>1, <1>2, <1>4, FS_CardinalityType

LEMMA CountedNext ==
  /\ IsFiniteSet(ReadyOnes') /\ Cardinality(ReadyOnes') \in Nat
  /\ IsFiniteSet(Searching') /\ Cardinality(Searching') \in Nat
  <1>1. ReadyOnes' \in SUBSET Slots /\ Searching' \in SUBSET Workers
    BY DEF ReadyOnes, Searching
  <1>2. IsFiniteSet(ReadyOnes') /\ IsFiniteSet(Searching')
    BY <1>1, Counted, FS_Subset
  <1> QED
    BY <1>2, FS_CardinalityType

\* Each busy worker has a slot of its own, so that those that are neither ready nor
\* empty are as many at least.
LEMMA BusyInSlots ==
  ASSUME IInv
  PROVE  /\ IsFiniteSet(Busy) /\ IsFiniteSet(Processed)
         /\ Cardinality(Busy) \in Nat /\ Cardinality(Processed) \in Nat
         /\ Cardinality(Busy) <= Cardinality(Processed)
  <1>1. IsFiniteSet(Busy) /\ IsFiniteSet(Processed)
    <2>1. Busy \in SUBSET Workers /\ Processed \in SUBSET Slots
      BY DEF Busy, Processed
    <2> QED
      BY <2>1, Counted, FS_Subset
  <1> DEFINE f == [w \in Busy |-> idx[w]]
  <1>2. f \in [Busy -> Processed]
    BY DEF Busy, Processed, IInv, Parts, WorkersHold
  <1>3. ASSUME NEW v \in Busy, NEW w \in Busy, f[v] = f[w] PROVE v = w
    <2>1. v \in Workers /\ w \in Workers /\ bfp[idx[v]] = At(v, 1) /\ bfp[idx[w]] = At(w, 1)
      BY DEF Busy, IInv, Parts, WorkersHold
    <2>2. 1 \in Depths(v) /\ 1 \in Depths(w)
      BY <2>1, StackType DEF Busy, Depths, IInv, Threads
    <2> QED
      BY <1>3, <2>1, <2>2 DEF IInv, Parts, StacksApart, Threads
  <1>4. Cardinality(Busy) <= Cardinality(Processed)
    <2>1. f \in Injection(Busy, Processed)
      BY <1>2, <1>3 DEF Injection, IsInjective
    <2> QED
      BY <1>1, <2>1, FS_Injection
  <1> QED
    BY <1>1, <1>4, FS_CardinalityType

\* While no worker sleeps, all those that are not busy search: with a slot empty,
\* there is one for the next task.
LEMMA RoomForOneMore ==
  ASSUME WInv, ~we_are_destructing, \A w \in Workers \cap asleep : call[w] # "look",
         \A w \in Workers : call[w] = "start" => w \notin asleep,
         NEW i \in Slots, is_empty(i)
  PROVE  Cardinality(ReadyOnes) + 1 <= Cardinality(Searching)
  <1>1. Workers \subseteq Searching \cup Busy
    BY DEF WInv, Employed, Searching, Busy
  <1>2. N <= Cardinality(Searching) + Cardinality(Busy)
    <2>1. IsFiniteSet(Searching \cup Busy)
          /\ Cardinality(Searching \cup Busy)
               = Cardinality(Searching) + Cardinality(Busy) - Cardinality(Searching \cap Busy)
      BY Counted, BusyInSlots, FS_Union DEF WInv
    <2>2. Cardinality(Workers) <= Cardinality(Searching \cup Busy)
      BY <1>1, <2>1, FS_Subset
    <2>3. Cardinality(Searching \cap Busy) \in Nat
      <3>1. Searching \cap Busy \in SUBSET Searching
        OBVIOUS
      <3>2. IsFiniteSet(Searching \cap Busy)
        BY <3>1, Counted, FS_Subset
      <3> QED
        BY <3>2, FS_CardinalityType
    <2> QED
      BY <2>1, <2>2, <2>3, Counted, BusyInSlots, NType DEF WInv
  <1>3. Cardinality(ReadyOnes) + Cardinality(Processed) <= N - 1
    <2>1. i \notin ReadyOnes /\ i \notin Processed
      BY DEF ReadyOnes, is_ready, Processed, WInv, IInv, Parts, WorkersHold
    <2>2. ReadyOnes \cup Processed \in SUBSET (Slots \ {i})
      BY <2>1 DEF ReadyOnes, Processed
    <2>3. IsFiniteSet(Slots \ {i}) /\ Cardinality(Slots \ {i}) = N - 1
      BY Counted, FS_RemoveElement
    <2>4. Cardinality(ReadyOnes \cup Processed) <= N - 1
      BY <2>2, <2>3, FS_Subset
    <2>5. ReadyOnes \cap Processed = {}
      BY DEF ReadyOnes, Processed, is_ready
    <2>6. Cardinality(ReadyOnes \cup Processed)
            = Cardinality(ReadyOnes) + Cardinality(Processed) - 0
      BY <2>5, Counted, BusyInSlots, FS_Union, FS_EmptySet DEF WInv
    <2> QED
      BY <2>4, <2>6, Counted, BusyInSlots DEF WInv
  <1> QED
    BY <1>2, <1>3, Counted, BusyInSlots, NType DEF WInv

LEMMA SearchersStay ==
  ASSUME WorkersSuffice, ReadyOnes' \subseteq ReadyOnes, Searching \subseteq Searching'
  PROVE  WorkersSuffice'
  <1>1. Cardinality(ReadyOnes') <= Cardinality(ReadyOnes)
    BY Counted, FS_Subset
  <1>2. Cardinality(Searching) <= Cardinality(Searching')
    BY CountedNext, FS_Subset
  <1> QED
    BY <1>1, <1>2, Counted, CountedNext DEF WorkersSuffice

\* Most steps neither make a task ready nor send a worker away.
LEMMA StaysEmployed ==
  ASSUME WInv, UNCHANGED <<is_being_processed, task_id, we_are_destructing, stack>>,
         \A w \in Workers : \/ call'[w] = call[w]
                            \/ call[w] = "start" /\ call'[w] = "look"
                            \/ stack[w] # << >> /\ call[w] \notin {"start", "look"}
                               /\ call'[w] # "left",
         \A w \in asleep' : w \in asleep \/ w \notin Searching
  PROVE  Employed' /\ WorkersSuffice'
  <1>1. Employed'
    BY DEF WInv, Employed
  <1>2. ReadyOnes' = ReadyOnes
    BY DEF ReadyOnes, is_ready, is_empty
  <1>3. Searching \subseteq Searching'
    BY DEF Searching
  <1> QED
    BY <1>1, <1>2, <1>3, SearchersStay DEF WInv

LEMMA CallsStayEmployed ==
  ASSUME WInv, NEW th \in Threads,
         \/ \E t \in Tasks : wait_for_task(th, t)
                              \/ (AddTask(th, t) /\ WaitsForSlot(th, t))
         \/ wait_for_all_tasks(th)
  PROVE  Employed' /\ WorkersSuffice'
  <1>1. /\ UNCHANGED <<is_being_processed, task_id, we_are_destructing, stack>>
        /\ asleep' \subseteq asleep \cup {th}
        /\ \E c \in {"none", "add", "wait", "wait_all"} : call' = [call EXCEPT ![th] = c]
    BY DEF wait_for_task, AddTask, WaitsForSlot, wait_for_all_tasks, Sleeps, Returns, tasks
  <1>2. call[th] \in {"none", "add", "wait", "wait_all"}
    BY DEF wait_for_task, AddTask, wait_for_all_tasks, Enters, Resumes
  <1>3. th \in Workers => stack[th] # << >>
    BY <1>2 DEF WInv, Employed
  <1>4. th \notin Searching
    BY <1>2 DEF Searching
  <1>5. call \in [Threads -> {"start", "look", "left", "none", "add", "wait",
                              "wait_all", "shutdown", "join"}]
    BY DEF WInv, IInv, TypeOK
  <1> QED
    BY <1>1, <1>2, <1>3, <1>4, <1>5, StaysEmployed

LEMMA WorkerStepsSuffice ==
  ASSUME WInv, NEW w \in Workers, Register(w) \/ Look(w)
  PROVE  Employed' /\ WorkersSuffice'
  <1>0. /\ call \in [Threads -> {"start", "look", "left", "none", "add", "wait",
                                 "wait_all", "shutdown", "join"}]
        /\ w \in Threads
    BY DEF WInv, IInv, TypeOK, Threads
  <1>1. CASE Register(w)
    <2>1. /\ UNCHANGED <<is_being_processed, task_id, we_are_destructing, stack, asleep>>
          /\ call[w] = "start" /\ call' = [call EXCEPT ![w] = "look"]
      BY <1>1 DEF Register, tasks
    <2> QED
      BY <1>0, <2>1, StaysEmployed
  <1>2. CASE Look(w) /\ TakesTask(w)
    <2>1. PICK i \in Slots : is_ready(i) /\ Marked(i) /\ Push(w, bfp[i])
      BY <1>2 DEF TakesTask, find_ready_task
    <2>2. /\ UNCHANGED <<task_id, asleep, we_are_destructing>>
          /\ call' = [call EXCEPT ![w] = "none"]
          /\ call[w] = "look" /\ w \notin asleep
      BY <1>2 DEF Look, Resumes, TakesTask
    <2>3. bfp[i] \in Tasks
      BY <2>1 DEF is_ready, WInv, IInv, Parts, SlotsHold, given
    <2>4. /\ \A o \in Threads : o # w => stack'[o] = stack[o]
          /\ stack'[w] # << >>
      BY <1>0, <2>1, <2>3, PushStack DEF WInv, IInv
    <2>5. Employed'
      BY <1>0, <2>2, <2>4 DEF WInv, Employed, Threads
    <2>6. ReadyOnes' = ReadyOnes \ {i} /\ i \in ReadyOnes
      BY <2>1, <2>2 DEF ReadyOnes, is_ready, is_empty, Marked, WInv, IInv, TypeOK
    <2>7. Searching' = Searching \ {w} /\ w \in Searching
      BY <1>0, <2>2 DEF Searching, Threads
    <2>8. /\ Cardinality(ReadyOnes') = Cardinality(ReadyOnes) - 1
          /\ Cardinality(Searching') = Cardinality(Searching) - 1
      BY <2>6, <2>7, Counted, FS_RemoveElement
    <2> QED
      BY <2>5, <2>8, Counted DEF WInv, WorkersSuffice
  <1>3. CASE Look(w) /\ (FindsNone(w) \/ Leaves(w))
    <2>1. /\ UNCHANGED <<is_being_processed, task_id, we_are_destructing, stack>>
          /\ call' = call \/ (call' = [call EXCEPT ![w] = "left"] /\ we_are_destructing)
      BY <1>3 DEF Look, FindsNone, Leaves, tasks
    <2>2. Employed'
      <3>1. CASE call' = call
        BY <2>1, <3>1 DEF WInv, Employed
      <3>2. CASE call' = [call EXCEPT ![w] = "left"] /\ we_are_destructing
        BY <1>0, <2>1, <3>2 DEF WInv, Employed
      <3> QED
        BY <2>1, <3>1, <3>2
    <2>3. ReadyOnes = {}
      <3>1. CASE FindsNone(w)
        <4>1. SUFFICES ASSUME NEW i \in Slots, is_ready(i) PROVE FALSE
          BY DEF ReadyOnes
        <4>2. PICK j \in Slots : is_ready(j) /\ \A k \in 0 .. j - 1 : ~is_ready(k)
          <5> DEFINE R == {k \in Nat : k \in Slots /\ is_ready(k)}
          <5>1. \E j \in R : \A k \in R : j <= k
            BY <4>1, NType, Smallest
          <5> QED
            BY <5>1, NType DEF Slots
        <4> QED
          BY <3>1, <4>2 DEF FindsNone, find_ready_task
      <3>2. CASE Leaves(w)
        BY <3>2 DEF Leaves, ReadyOnes, is_ready, WInv, IInv, Parts, ShutdownSound
      <3> QED
        BY <1>3, <3>1, <3>2
    <2>4. ReadyOnes' = {}
      BY <2>1, <2>3 DEF ReadyOnes, is_ready, is_empty
    <2> QED
      BY <2>2, <2>4, CountedNext, FS_EmptySet DEF WorkersSuffice
  <1> QED
    BY <1>1, <1>2, <1>3 DEF Look

LEMMA ClientStepsSuffice ==
  ASSUME WInv, NEW c \in Clients, shutdown_pool(c) \/ Join(c)
  PROVE  Employed' /\ WorkersSuffice'
  <1>1. /\ UNCHANGED <<is_being_processed, task_id, stack>>
        /\ \A w \in Workers : call'[w] = call[w]
        /\ asleep' \subseteq asleep \cup {c}
        /\ we_are_destructing => we_are_destructing'
    <2>1. \E a \in {"none", "shutdown", "join"} : call' = [call EXCEPT ![c] = a]
      BY DEF shutdown_pool, Join, Sleeps, Returns
    <2>2. \A w \in Workers : call'[w] = call[w]
      BY <2>1, PoolAssumption DEF WInv, IInv, TypeOK, Threads
    <2> QED
      BY <2>2 DEF shutdown_pool, Join, Sleeps, Returns, tasks
  <1>2. Employed'
    BY <1>1 DEF WInv, Employed
  <1>3. ReadyOnes' = ReadyOnes
    BY <1>1 DEF ReadyOnes, is_ready, is_empty
  <1>4. Searching \subseteq Searching'
    BY <1>1, PoolAssumption DEF Searching
  <1> QED
    BY <1>2, <1>3, <1>4, SearchersStay DEF WInv

LEMMA EndTaskSuffices ==
  ASSUME WInv, NEW th \in Threads, EndTask(th)
  PROVE  Employed' /\ WorkersSuffice'
  <1>0. /\ call \in [Threads -> {"start", "look", "left", "none", "add", "wait",
                                 "wait_all", "shutdown", "join"}]
        /\ call[th] = "none" /\ UNCHANGED we_are_destructing
        /\ \A o \in Threads : o # th => stack'[o] = stack[o]
        /\ Len(stack'[th]) = Len(stack[th]) - 1
    BY EndFacts DEF WInv, IInv, TypeOK, EndTask
  <1>1. CASE EndsInline(th)
    <2>1. UNCHANGED <<is_being_processed, task_id, call, asleep>>
      BY <1>1 DEF EndsInline, tasks
    <2>2. th \in Workers => stack'[th] # << >>
      <3>1. th \in Workers => Len(stack[th]) > 1
        BY <1>1, PoolAssumption DEF EndsInline
      <3>2. Len(stack[th]) \in Nat
        BY StackType DEF WInv, IInv
      <3> QED
        BY <1>0, <3>1, <3>2
    <2>3. Employed'
      BY <1>0, <2>1, <2>2 DEF WInv, Employed, Threads
    <2>4. ReadyOnes' = ReadyOnes /\ Searching' = Searching
      BY <2>1 DEF ReadyOnes, is_ready, is_empty, Searching
    <2> QED
      BY <2>3, <2>4, SearchersStay DEF WInv
  <1>2. CASE EndsInSlot(th)
    <2>1. /\ th \in Workers /\ call' = [call EXCEPT ![th] = "look"]
          /\ is_being_processed' = [is_being_processed EXCEPT ![idx[th]] = FALSE]
          /\ task_id' = [task_id EXCEPT ![idx[th]] = 0]
          /\ asleep' \subseteq asleep
      BY <1>2 DEF EndsInSlot, AllTold, Lookers
    <2>2. Employed'
      BY <1>0, <2>1 DEF WInv, Employed, Threads
    <2>3. ReadyOnes' \subseteq ReadyOnes
      BY <2>1 DEF ReadyOnes, is_ready, is_empty, WInv, IInv, TypeOK
    <2>4. Searching \subseteq Searching'
      BY <1>0, <2>1 DEF Searching, Threads
    <2> QED
      BY <2>2, <2>3, <2>4, SearchersStay DEF WInv
  <1> QED
    BY <1>1, <1>2 DEF EndTask

LEMMA AddTaskSuffices ==
  ASSUME WInv, SleepSound, NEW th \in Threads, NEW t \in Tasks, AddTask(th, t)
  PROVE  Employed' /\ WorkersSuffice'
  <1>0. /\ call \in [Threads -> {"start", "look", "left", "none", "add", "wait",
                                 "wait_all", "shutdown", "join"}]
        /\ asleep \subseteq Threads
        /\ call[th] \in {"none", "add"} /\ (th \in Workers => stack[th] # << >>)
        /\ ~we_are_destructing /\ UNCHANGED we_are_destructing
    BY AddFacts, PoolAssumption DEF WInv, IInv, TypeOK, AddTask
  <1>1. CASE Submits(th, t)
    <2>1. PICK i \in Slots : is_empty(i) /\ task_id' = [task_id EXCEPT ![i] = make_next_task_id(i)]
      BY <1>1 DEF Submits, find_empty_task_slot
    <2>2. PICK woken \in Signal(Lookers) : asleep' = asleep \ woken
      BY <1>1 DEF Submits
    <2>3. /\ UNCHANGED <<is_being_processed, stack>>
          /\ call' = [call EXCEPT ![th] = "none"]
      BY <1>1 DEF Submits, Returns
    <2>4. Employed'
      BY <1>0, <2>3 DEF WInv, Employed
    <2>5. ReadyOnes' \subseteq ReadyOnes \cup {i}
      BY <2>1, <2>3 DEF ReadyOnes, is_ready, is_empty, WInv, IInv, TypeOK
    <2>6. Searching \subseteq Searching'
      BY <1>0, <2>2, <2>3 DEF Searching
    <2>7. Cardinality(ReadyOnes') <= Cardinality(ReadyOnes) + 1
      <3>1. IsFiniteSet(ReadyOnes \cup {i})
            /\ Cardinality(ReadyOnes \cup {i}) <= Cardinality(ReadyOnes) + 1
        <4>1. \/ Cardinality(ReadyOnes \cup {i}) = Cardinality(ReadyOnes)
              \/ Cardinality(ReadyOnes \cup {i}) = Cardinality(ReadyOnes) + 1
          BY Counted, FS_AddElement
        <4> QED
          BY <4>1, Counted, FS_AddElement
      <3>2. Cardinality(ReadyOnes') <= Cardinality(ReadyOnes \cup {i})
        BY <2>5, <3>1, FS_Subset
      <3>3. Cardinality(ReadyOnes \cup {i}) \in Nat
        BY <3>1, FS_CardinalityType
      <3> QED
        BY <3>1, <3>2, <3>3, Counted, CountedNext
    <2>8. CASE Lookers = {}
      <3>1. \A w \in Workers \cap asleep : call[w] # "look"
        BY <2>8 DEF Lookers
      <3>2. \A w \in Workers : call[w] = "start" => w \notin asleep
        BY DEF SleepSound
      <3>3. Cardinality(ReadyOnes) + 1 <= Cardinality(Searching)
        BY <1>0, <2>1, <3>1, <3>2, RoomForOneMore
      <3>4. Cardinality(Searching) <= Cardinality(Searching')
        BY <2>6, CountedNext, FS_Subset
      <3> QED
        BY <2>4, <2>7, <3>3, <3>4, Counted, CountedNext DEF WorkersSuffice
    <2>9. CASE Lookers # {}
      <3>1. PICK w \in Lookers : woken = {w}
        BY <2>2, <2>9 DEF Signal
      <3>2. w \in asleep /\ call[w] = "look" /\ w \in Workers
        BY <1>0, <3>1 DEF Lookers, WInv, IInv, Parts, CallsSound, Threads
      <3>3. w \notin Searching /\ Searching \cup {w} \subseteq Searching'
        BY <1>0, <2>2, <2>3, <2>6, <3>1, <3>2 DEF Searching, Threads
      <3>4. /\ IsFiniteSet(Searching \cup {w})
            /\ Cardinality(Searching \cup {w}) = Cardinality(Searching) + 1
        BY <3>3, Counted, FS_AddElement
      <3>5. Cardinality(Searching \cup {w}) <= Cardinality(Searching')
        BY <3>3, CountedNext, FS_Subset
      <3> QED
        BY <2>4, <2>7, <3>4, <3>5, Counted, CountedNext DEF WInv, WorkersSuffice
    <2> QED
      BY <2>8, <2>9
  <1>2. CASE Enters(th) /\ RunsInline(th, t)
    <2>1. UNCHANGED <<is_being_processed, task_id, call, asleep>> /\ Push(th, t)
      BY <1>2 DEF RunsInline, tasks
    <2>2. /\ \A o \in Threads : o # th => stack'[o] = stack[o]
          /\ stack'[th] # << >>
      BY <2>1, PushStack DEF WInv, IInv
    <2>3. Employed'
      BY <1>0, <2>1, <2>2 DEF WInv, Employed, Threads
    <2>4. ReadyOnes' = ReadyOnes /\ Searching' = Searching
      BY <2>1 DEF ReadyOnes, is_ready, is_empty, Searching
    <2> QED
      BY <2>3, <2>4, SearchersStay DEF WInv
  <1>3. CASE WaitsForSlot(th, t)
    BY <1>3, CallsStayEmployed
  <1> QED
    BY <1>1, <1>2, <1>3 DEF AddTask

LEMMA WInvInitially == Init => WInv
  <1> SUFFICES ASSUME Init PROVE WInv
    OBVIOUS
  <1>1. ReadyOnes = {}
    BY DEF Init, ReadyOnes, is_ready, is_empty
  <1>2. WorkersSuffice
    BY <1>1, Counted, FS_EmptySet DEF WorkersSuffice
  <1>3. Employed
    BY DEF Init, Employed, Threads
  <1> QED
    BY <1>2, <1>3, InitIInv DEF WInv

LEMMA WInvKept == QInv /\ WInv /\ [Next]_vars => WInv'
  <1> SUFFICES ASSUME QInv, WInv, [Next]_vars PROVE Employed' /\ WorkersSuffice'
    BY NextIInv DEF WInv
  <1>1. SleepSound
    BY DEF QInv
  <1>2. ASSUME NEW th \in Threads, WakesUp(th) PROVE Employed' /\ WorkersSuffice'
    <2>1. /\ UNCHANGED <<is_being_processed, task_id, we_are_destructing, stack, call>>
          /\ asleep' \subseteq asleep
      BY <1>2 DEF WakesUp, tasks
    <2> QED
      BY <2>1, StaysEmployed
  <1>3. CASE UNCHANGED vars
    <2>1. UNCHANGED <<is_being_processed, task_id, we_are_destructing, stack, call, asleep>>
      BY <1>3 DEF vars, tasks
    <2> QED
      BY <2>1, StaysEmployed
  <1> QED
    BY <1>1, <1>2, <1>3, WorkerStepsSuffice, ClientStepsSuffice, EndTaskSuffices,
       AddTaskSuffices, CallsStayEmployed DEF Next, Calls

\* A task is signalled to one worker only: for any number of threads, whichever of
\* them comes first, there are always as many workers that look, or are about to, as
\* there are tasks that wait to be taken.
THEOREM WorkersSufficeCorrect == Spec => []WorkersSuffice
  <1>1. WInv => WorkersSuffice
    BY DEF WInv
  <1> QED
    BY <1>1, WInvInitially, WInvKept, QInvInitially, QInvKept, PTL DEF Spec
-----------------------------------------------------------------------------
(* The pool is never stuck.                                                *)

\* Tasks are numbered in the order of the calls, so that each is later than the one
\* that adds it.
GiverFirst == \A t \in Tasks : giver[t] \in Tasks => giver[t] < t
CalledInOrder == \A t \in Called : \A s \in Tasks : s < t => s \in Called

\* Only where there are no workers does a client run tasks, and nobody adds a task
\* while it runs one and waits for a slot.
ClientsRun == \A c \in Clients : stack[c] # << >> => N = 0
AddersIdle == \A th \in Threads : call[th] = "add" => stack[th] = << >>

\* A task waits for one that it has added.
WaitsForOwn == \A w \in Workers : call[w] = "wait" => giver[arg[w]] = Current(w)

\* Whatever is being processed has its worker.
Manned == \A i \in Slots : is_being_processed[i] =>
            \E w \in Workers : stack[w] # << >> /\ idx[w] = i

OrderParts == /\ GiverFirst /\ CalledInOrder /\ ClientsRun /\ AddersIdle
              /\ WaitsForOwn /\ Manned

LEMMA CalledStays ==
  ASSUME UNCHANGED giver,
         \A th \in Threads : call'[th] = "add" => call[th] = "add" /\ arg'[th] = arg[th],
         \A th \in Threads : call[th] = "add" => call'[th] = "add" /\ arg'[th] = arg[th]
  PROVE  Called' = Called
BY DEF Called

\* The steps of those who call, wait and wake up, which move neither task nor stack.
LEMMA OrderStays ==
  ASSUME IInv, OrderParts,
         UNCHANGED <<stack, idx, is_being_processed, giver>>,
         \A th \in Threads : call'[th] = "add" => call[th] = "add" /\ arg'[th] = arg[th],
         \A th \in Threads : call[th] = "add" => call'[th] = "add" /\ arg'[th] = arg[th],
         \A w \in Workers : call'[w] = "wait" =>
            \/ call[w] = "wait" /\ arg'[w] = arg[w]
            \/ giver[arg'[w]] = Current(w)
  PROVE  OrderParts'
  <1>1. Called' = Called
    BY CalledStays
  <1>2. GiverFirst' /\ CalledInOrder'
    BY <1>1 DEF OrderParts, GiverFirst, CalledInOrder
  <1>3. ClientsRun' /\ AddersIdle' /\ Manned'
    BY DEF OrderParts, ClientsRun, AddersIdle, Manned
  <1>4. \A w \in Workers : Current(w)' = Current(w)
    BY DEF Current
  <1>5. WaitsForOwn'
    BY <1>4 DEF OrderParts, WaitsForOwn
  <1> QED
    BY <1>2, <1>3, <1>5 DEF OrderParts

LEMMA QuietOrder ==
  ASSUME IInv, OrderParts, NEW th \in Threads,
         \/ th \in Workers /\ (Register(th) \/ (Look(th) /\ ~TakesTask(th)))
         \/ th \in Clients /\ (shutdown_pool(th) \/ Join(th))
         \/ \E t \in Tasks : wait_for_task(th, t)
         \/ wait_for_all_tasks(th) \/ WakesUp(th)
  PROVE  OrderParts'
  <1> USE DEF IInv, TypeOK, Threads
  <1>0. th \in Threads
    OBVIOUS
  <1>1. CASE th \in Workers /\ (Register(th) \/ (Look(th) /\ ~TakesTask(th)))
    <2>1. /\ UNCHANGED <<stack, idx, is_being_processed, giver, arg>>
          /\ call[th] \in {"start", "look"}
          /\ \E c \in {"look", "left"} : call' = call \/ call' = [call EXCEPT ![th] = c]
      BY <1>1 DEF Register, Look, FindsNone, Leaves, Resumes, tasks, history
    <2> QED
      BY <2>1, OrderStays
  <1>2. CASE th \in Clients /\ (shutdown_pool(th) \/ Join(th))
    <2>1. /\ UNCHANGED <<stack, idx, is_being_processed, giver>>
          /\ call[th] \in {"none", "shutdown", "join"}
          /\ \E c \in {"none", "shutdown", "join"} : call' = [call EXCEPT ![th] = c]
          /\ \/ UNCHANGED arg
             \/ arg' = [arg EXCEPT ![th] = None]
      BY <1>2 DEF shutdown_pool, Join, Enters, Resumes, Sleeps, Returns, tasks, history
    <2> QED
      BY <2>1, OrderStays, PoolAssumption
  <1>3. ASSUME NEW t \in Tasks, wait_for_task(th, t) PROVE OrderParts'
    <2>1. /\ UNCHANGED <<stack, idx, is_being_processed, giver>>
          /\ call[th] \in {"none", "wait"}
          /\ \/ call' = [call EXCEPT ![th] = "none"] /\ arg' = [arg EXCEPT ![th] = None]
             \/ call' = [call EXCEPT ![th] = "wait"] /\ arg' = [arg EXCEPT ![th] = t]
          /\ \/ call[th] = "wait" /\ t = arg[th]
             \/ th \in Workers => giver[t] = Current(th)
      BY <1>3 DEF wait_for_task, Enters, Resumes, Sleeps, Returns, tasks, history
    <2> QED
      BY <2>1, OrderStays
  <1>4. CASE wait_for_all_tasks(th)
    <2>1. /\ UNCHANGED <<stack, idx, is_being_processed, giver>>
          /\ call[th] \in {"none", "wait_all"}
          /\ \E c \in {"none", "wait_all"} : call' = [call EXCEPT ![th] = c]
          /\ arg' = [arg EXCEPT ![th] = None]
      BY <1>4 DEF wait_for_all_tasks, Enters, Resumes, Sleeps, Returns, tasks, history
    <2> QED
      BY <2>1, OrderStays
  <1>5. CASE WakesUp(th)
    <2>1. UNCHANGED <<stack, idx, is_being_processed, giver, call, arg>>
      BY <1>5 DEF WakesUp, tasks, history
    <2> QED
      BY <2>1, OrderStays
  <1> QED
    BY <1>1, <1>2, <1>3, <1>4, <1>5

LEMMA TakesTaskOrder ==
  ASSUME IInv, OrderParts, NEW w \in Workers, Look(w), TakesTask(w)
  PROVE  OrderParts'
  <1>1. PICK i \in Slots :
          /\ ~is_being_processed[i] /\ bfp[i] \in Tasks
          /\ is_being_processed' = [is_being_processed EXCEPT ![i] = TRUE]
          /\ idx' = [idx EXCEPT ![w] = i] /\ Push(w, bfp[i])
    BY DEF TakesTask, find_ready_task, is_ready, Marked, IInv, Parts, SlotsHold, given
  <1>2. /\ w \in Threads /\ call[w] = "look" /\ call' = [call EXCEPT ![w] = "none"]
        /\ UNCHANGED <<giver, arg>> /\ stack[w] = << >>
    BY DEF Look, TakesTask, Resumes, Threads, IInv, Parts, WorkersHold
  <1>3. /\ \A o \in Threads : o # w => stack'[o] = stack[o]
        /\ stack'[w] # << >>
    BY <1>1, <1>2, PushStack DEF IInv
  <1>4. /\ \A th \in Threads : th # w => call'[th] = call[th] /\ arg'[th] = arg[th]
        /\ call'[w] = "none"
    BY <1>2 DEF IInv, TypeOK
  <1>5. Called' = Called
    BY <1>2, <1>4, CalledStays
  <1>6. GiverFirst' /\ CalledInOrder'
    BY <1>2, <1>5 DEF OrderParts, GiverFirst, CalledInOrder
  <1>7. ClientsRun' /\ AddersIdle'
    BY <1>3, <1>4, PoolAssumption DEF OrderParts, ClientsRun, AddersIdle, Threads
  <1>8. WaitsForOwn'
    BY <1>2, <1>3, <1>4 DEF OrderParts, WaitsForOwn, Current, Threads
  <1>9. Manned'
    <2>1. ASSUME NEW j \in Slots, is_being_processed'[j]
          PROVE  \E v \in Workers : stack'[v] # << >> /\ idx'[v] = j
      <3>1. CASE j = i
        BY <1>1, <1>3, <3>1 DEF IInv, TypeOK
      <3>2. CASE j # i
        <4>1. PICK v \in Workers : stack[v] # << >> /\ idx[v] = j
          BY <1>1, <2>1, <3>2 DEF OrderParts, Manned, IInv, TypeOK
        <4>2. v # w /\ v \in Threads
          BY <1>2, <4>1 DEF Threads
        <4> QED
          BY <1>1, <1>3, <4>1, <4>2 DEF IInv, TypeOK
      <3> QED
        BY <3>1, <3>2
    <2> QED
      BY <2>1 DEF Manned
  <1> QED
    BY <1>6, <1>7, <1>8, <1>9 DEF OrderParts

LEMMA EndTaskOrder ==
  ASSUME IInv, OrderParts, NEW th \in Threads, EndTask(th)
  PROVE  OrderParts'
  <1>1. /\ stack[th] # << >> /\ call[th] = "none"
        /\ \A o \in Threads : o # th => stack'[o] = stack[o]
        /\ Len(stack'[th]) = Len(stack[th]) - 1
        /\ UNCHANGED <<arg, idx, giver>>
    BY EndFacts
  <1>2. /\ \A o \in Threads : o # th => call'[o] = call[o]
        /\ call'[th] \in {"none", "look"}
    BY <1>1 DEF EndTask, EndsInline, EndsInSlot, IInv, TypeOK
  <1>3. Called' = Called
    BY <1>1, <1>2, CalledStays
  <1>4. GiverFirst' /\ CalledInOrder'
    BY <1>1, <1>3 DEF OrderParts, GiverFirst, CalledInOrder
  <1>5. ClientsRun' /\ AddersIdle'
    BY <1>1, <1>2 DEF OrderParts, ClientsRun, AddersIdle, Threads
  <1>6. WaitsForOwn'
    BY <1>1, <1>2 DEF OrderParts, WaitsForOwn, Current, Threads
  <1>7. Manned'
    <2>1. CASE EndsInline(th)
      <3>1. th \in Workers => stack'[th] # << >>
        <4>1. ASSUME th \in Workers PROVE Len(stack'[th]) > 0
          <5>1. Len(stack[th]) > 1 /\ Len(stack[th]) \in Nat
            BY <2>1, <4>1, StackType, PoolAssumption DEF EndsInline, IInv
          <5> QED
            BY <1>1, <5>1
        <4> QED
          BY <4>1, EmptySeq
      <3>2. UNCHANGED is_being_processed
        BY <2>1 DEF EndsInline, tasks
      <3> QED
        BY <1>1, <3>1, <3>2 DEF OrderParts, Manned, Threads
    <2>2. CASE EndsInSlot(th)
      <3>1. th \in Workers /\ is_being_processed' = [is_being_processed EXCEPT ![idx[th]] = FALSE]
        BY <2>2 DEF EndsInSlot
      <3>2. ASSUME NEW j \in Slots, is_being_processed'[j]
            PROVE  \E v \in Workers : stack'[v] # << >> /\ idx'[v] = j
        <4>1. j # idx[th] /\ is_being_processed[j]
          BY <3>1, <3>2 DEF IInv, TypeOK
        <4>2. PICK v \in Workers : stack[v] # << >> /\ idx[v] = j
          BY <4>1 DEF OrderParts, Manned
        <4> QED
          BY <1>1, <4>1, <4>2 DEF Threads
      <3> QED
        BY <3>2 DEF Manned
    <2> QED
      BY <2>1, <2>2 DEF EndTask
  <1> QED
    BY <1>4, <1>5, <1>6, <1>7 DEF OrderParts

LEMMA AddTaskOrder ==
  ASSUME IInv, OrderParts, NEW th \in Threads, NEW t \in Tasks, AddTask(th, t)
  PROVE  OrderParts'
  <1>1. /\ giver[t] = None /\ call[th] \in {"none", "add"}
        /\ (th \in Clients \/ stack[th] # << >>)
        /\ \A o \in Threads : call[o] = "add" /\ arg[o] = t => o = th
        /\ Current(th) \in Tasks \cup Clients
        /\ \/ stack[th] = << >> /\ Current(th) = th
           \/ /\ stack[th] # << >> /\ Len(stack[th]) \in Depths(th)
              /\ Current(th) = At(th, Len(stack[th]))
    BY AddFacts
  <1>2. \/ /\ call[th] = "none" /\ t \notin Called
           /\ \A s \in Tasks : s < t => s \in Called
        \/ /\ call[th] = "add" /\ t = arg[th] /\ stack[th] = << >> /\ t \in Called
    BY DEF AddTask, Enters, Resumes, Fresh, Called, OrderParts, AddersIdle
  <1>3. \/ Submits(th, t) \/ (Enters(th) /\ RunsInline(th, t)) \/ WaitsForSlot(th, t)
    BY DEF AddTask
  <1>4. UNCHANGED idx /\ th \in Threads
    BY DEF AddTask
  <1>5. Current(th) \in Tasks => Current(th) < t
    <2> SUFFICES ASSUME Current(th) \in Tasks PROVE Current(th) < t
      OBVIOUS
    <2>1. stack[th] # << >> /\ Current(th) \in given
      BY <1>1, PoolAssumption DEF Threads, IInv, Parts, StacksRun
    <2>2. Current(th) \in Called /\ t \notin Called
      BY <1>2, <2>1 DEF given, Called
    <2>3. ~(t < Current(th)) /\ t # Current(th)
      BY <2>2 DEF OrderParts, CalledInOrder
    <2>4. t \in Nat /\ Current(th) \in Nat
      BY PoolAssumption
    <2>5. \A m, n \in Nat : ~(n < m) /\ n # m => m < n
      OBVIOUS
    <2> QED
      BY <2>3, <2>4, <2>5
  <1>6. Called' = Called \cup {t}
    <2>1. CASE WaitsForSlot(th, t)
      <3>1. /\ call' = [call EXCEPT ![th] = "add"] /\ arg' = [arg EXCEPT ![th] = t]
            /\ giver' = giver
        BY <2>1 DEF WaitsForSlot, Sleeps
      <3>2. \A o \in Threads : o # th => call'[o] = call[o] /\ arg'[o] = arg[o]
        BY <3>1 DEF IInv, TypeOK
      <3>3. call'[th] = "add" /\ arg'[th] = t
        BY <3>1 DEF IInv, TypeOK
      <3> QED
        BY <1>2, <3>1, <3>2, <3>3 DEF Called
    <2>2. CASE Submits(th, t) \/ RunsInline(th, t)
      <3>1. giver' = [giver EXCEPT ![t] = Current(th)] /\ Current(th) # None
        BY <1>1, <2>2, PoolAssumption DEF Submits, RunsInline
      <3>2. /\ \A o \in Threads : o # th => call'[o] = call[o] /\ arg'[o] = arg[o]
            /\ call'[th] = "none" \/ (call'[th] = call[th] /\ arg'[th] = arg[th])
        <4>1. \/ UNCHANGED <<call, arg>>
              \/ /\ call' = [call EXCEPT ![th] = "none"]
                 /\ arg' = [arg EXCEPT ![th] = None]
          BY <2>2 DEF Submits, RunsInline, Returns
        <4> QED
          BY <4>1 DEF IInv, TypeOK
      <3>3. giver'[t] # None /\ \A s \in Tasks : s # t => giver'[s] = giver[s]
        BY <3>1 DEF IInv, TypeOK
      <3> QED
        BY <1>2, <3>2, <3>3 DEF Called
    <2> QED
      BY <1>3, <2>1, <2>2
  <1>7. CalledInOrder'
    BY <1>2, <1>6 DEF OrderParts, CalledInOrder
  <1>8. giver' = giver \/ giver' = [giver EXCEPT ![t] = Current(th)]
    BY <1>3 DEF Submits, RunsInline, WaitsForSlot
  <1>9. GiverFirst'
    BY <1>5, <1>8 DEF OrderParts, GiverFirst, IInv, TypeOK
  <1>10. \A s \in Tasks : s # t => giver'[s] = giver[s]
    BY <1>8 DEF IInv, TypeOK
  <1>11. \A w \in Workers : call[w] = "wait" => w # th /\ arg[w] \in Tasks /\ arg[w] # t
    BY <1>1 DEF IInv, Parts, CallsSound, TasksKept, Threads
  <1>12. CASE Submits(th, t)
    <2>1. /\ UNCHANGED <<is_being_processed, stack>>
          /\ call' = [call EXCEPT ![th] = "none"] /\ arg' = [arg EXCEPT ![th] = None]
      BY <1>12 DEF Submits, Returns
    <2>2. ClientsRun' /\ AddersIdle' /\ Manned'
      BY <1>4, <2>1 DEF OrderParts, ClientsRun, AddersIdle, Manned, IInv, TypeOK
    <2>3. WaitsForOwn'
      BY <1>10, <1>11, <2>1 DEF OrderParts, WaitsForOwn, Current, IInv, TypeOK, Threads
    <2> QED
      BY <1>7, <1>9, <2>2, <2>3 DEF OrderParts
  <1>13. CASE WaitsForSlot(th, t)
    <2>1. /\ UNCHANGED <<is_being_processed, stack>>
          /\ call' = [call EXCEPT ![th] = "add"] /\ arg' = [arg EXCEPT ![th] = t]
          /\ Enters(th) => ~is_worker_thread(th)
      BY <1>13 DEF WaitsForSlot, Sleeps, MustWaitForSlot, tasks
    <2>2. stack[th] = << >>
      <3>1. CASE call[th] = "add"
        BY <1>2, <3>1
      <3>2. CASE call[th] = "none"
        <4>1. Enters(th)
          BY <3>2 DEF AddTask, Resumes
        <4>2. th \notin worker_thread_ids /\ N # 0
          BY <2>1, <4>1 DEF is_worker_thread
        <4>3. th \in Clients
          BY <3>2, <4>2 DEF IInv, Parts, WorkersHold, Threads
        <4> QED
          BY <4>2, <4>3 DEF OrderParts, ClientsRun
      <3> QED
        BY <1>1, <3>1, <3>2
    <2>3. ClientsRun' /\ AddersIdle' /\ Manned'
      BY <1>4, <2>1, <2>2 DEF OrderParts, ClientsRun, AddersIdle, Manned, IInv, TypeOK
    <2>4. WaitsForOwn'
      BY <1>13, <1>11, <2>1 DEF OrderParts, WaitsForOwn, Current, IInv, TypeOK, Threads,
        WaitsForSlot
    <2> QED
      BY <1>7, <1>9, <2>3, <2>4 DEF OrderParts
  <1>14. CASE Enters(th) /\ RunsInline(th, t)
    <2>1. /\ UNCHANGED <<is_being_processed, call, arg>> /\ Push(th, t) /\ call[th] = "none"
          /\ is_worker_thread(th)
      BY <1>14 DEF RunsInline, MustWaitForSlot, tasks, Enters
    <2>2. \A o \in Threads : o # th => stack'[o] = stack[o]
      BY <2>1, PushStack DEF IInv
    <2>3. stack'[th] # << >>
      BY <2>1, PushStack DEF IInv
    <2>4. th \in Clients => N = 0
      BY <2>1, PoolAssumption DEF is_worker_thread, IInv, TypeOK
    <2>5. ClientsRun'
      BY <2>2, <2>4 DEF OrderParts, ClientsRun, Threads
    <2>6. AddersIdle'
      BY <2>1, <2>2 DEF OrderParts, AddersIdle
    <2>7. Manned'
      BY <1>4, <2>1, <2>2, <2>3 DEF OrderParts, Manned, Threads
    <2>8. WaitsForOwn'
      BY <1>10, <1>11, <2>1, <2>2 DEF OrderParts, WaitsForOwn, Current, Threads
    <2> QED
      BY <1>7, <1>9, <2>5, <2>6, <2>7, <2>8 DEF OrderParts
  <1> QED
    BY <1>3, <1>12, <1>13, <1>14

LEMMA InitOrder == Init => OrderParts
  <1> SUFFICES ASSUME Init PROVE OrderParts
    OBVIOUS
  <1>1. \A t \in Tasks : giver[t] = None
    BY DEF Init
  <1>2. \A th \in Threads : call[th] \notin {"add", "wait"} /\ stack[th] = << >>
    BY DEF Init
  <1>3. GiverFirst /\ Called = {}
    BY <1>1, <1>2, PoolAssumption DEF GiverFirst, Called
  <1>4. ClientsRun /\ AddersIdle /\ WaitsForOwn
    BY <1>2 DEF ClientsRun, AddersIdle, WaitsForOwn, Threads
  <1>5. Manned
    BY DEF Init, Manned
  <1> QED
    BY <1>3, <1>4, <1>5 DEF OrderParts, CalledInOrder

LEMMA NextOrder == IInv /\ OrderParts /\ [Next]_vars => OrderParts'
  <1> SUFFICES ASSUME IInv, OrderParts, [Next]_vars PROVE OrderParts'
    OBVIOUS
  <1>1. CASE UNCHANGED vars
    <2>1. UNCHANGED <<stack, idx, is_being_processed, giver, call, arg>>
      BY <1>1 DEF vars, tasks, history
    <2> QED
      BY <2>1, OrderStays
  <1>2. ASSUME NEW w \in Workers, Register(w) \/ Look(w) PROVE OrderParts'
    BY <1>2, QuietOrder, TakesTaskOrder DEF Threads
  <1>3. ASSUME NEW c \in Clients, shutdown_pool(c) \/ Join(c) PROVE OrderParts'
    BY <1>3, QuietOrder DEF Threads
  <1>4. ASSUME NEW th \in Threads, Calls(th) \/ EndTask(th) \/ WakesUp(th) PROVE OrderParts'
    BY <1>4, QuietOrder, AddTaskOrder, EndTaskOrder DEF Calls
  <1> QED
    BY <1>1, <1>2, <1>3, <1>4 DEF Next

\* Among finitely many there is one with the largest number.
LEMMA Largest ==
  ASSUME NEW I, IsFiniteSet(I), I # {}, NEW f \in [I -> Nat]
  PROVE  \E i \in I : \A j \in I : f[j] <= f[i]
  <1> DEFINE Has(S) == \E i \in S : \A j \in S : f[j] <= f[i]
             Bad == {c \in Nat : \E S \in SUBSET I : /\ S # {} /\ ~Has(S)
                                                     /\ Cardinality(S) = c}
  <1> HIDE DEF Has
  <1> SUFFICES ASSUME Bad # {} PROVE FALSE
    <2>1. Cardinality(I) \in Nat
      BY FS_CardinalityType
    <2> QED
      BY <2>1 DEF Has
  <1>1. PICK c \in Bad : \A d \in Bad : c <= d
    <2>1. Bad \in SUBSET Nat
      OBVIOUS
    <2> HIDE DEF Bad
    <2> QED
      BY <2>1, Smallest
  <1>2. PICK S \in SUBSET I : S # {} /\ ~Has(S) /\ Cardinality(S) = c
    BY <1>1
  <1>3. PICK x \in S : TRUE
    BY <1>2
  <1>4. /\ IsFiniteSet(S \ {x}) /\ Cardinality(S \ {x}) = c - 1 /\ c \in Nat /\ c - 1 \in Nat
    <2>1. IsFiniteSet(S)
      BY FS_Subset
    <2>2. IsFiniteSet(S \ {x}) /\ Cardinality(S \ {x}) = c - 1
      BY <1>2, <2>1, FS_RemoveElement
    <2>3. c \in Nat /\ Cardinality(S \ {x}) \in Nat
      BY <1>1, <2>2, FS_CardinalityType
    <2> QED
      BY <2>2, <2>3
  <1>5. \A i \in S : f[i] \in Nat
    OBVIOUS
  <1>6. CASE S \ {x} = {}
    <2>1. \A j \in S : f[j] <= f[x]
      BY <1>3, <1>5, <1>6
    <2> QED
      BY <1>2, <2>1 DEF Has
  <1>7. CASE S \ {x} # {}
    <2>1. Has(S \ {x})
      <3>1. c - 1 \notin Bad
        BY <1>1, <1>4
      <3> QED
        BY <1>4, <1>7, <3>1
    <2>2. PICK y \in S \ {x} : \A j \in S \ {x} : f[j] <= f[y]
      BY <2>1 DEF Has
    <2>3. CASE f[x] <= f[y]
      BY <1>2, <2>2, <2>3 DEF Has
    <2>4. CASE f[y] <= f[x]
      <3>1. ASSUME NEW j \in S PROVE f[j] <= f[x]
        BY <1>3, <1>5, <2>2, <2>4
      <3> QED
        BY <1>2, <3>1 DEF Has
    <2> QED
      BY <1>3, <1>5, <2>2, <2>3, <2>4
  <1> QED
    BY <1>6, <1>7

\* The tasks of a thread run within each other, the first one it took being the oldest.
LEMMA FirstIsOldest ==
  ASSUME IInv, OrderParts, NEW th \in Threads, NEW k \in Depths(th)
  PROVE  At(th, 1) <= At(th, k) /\ 1 \in Depths(th)
  <1>1. Len(stack[th]) \in Nat /\ 1 \in Depths(th)
    BY StackType DEF IInv, Depths
  <1>2. \A i \in Depths(th) : At(th, i) \in Nat /\ At(th, i) \in Tasks
    BY StackType, PoolAssumption DEF IInv
  <1> DEFINE Bad == {i \in Depths(th) : ~(At(th, 1) <= At(th, i))}
  <1> SUFFICES ASSUME Bad # {} PROVE FALSE
    BY <1>1
  <1>3. PICK i \in Bad : \A j \in Bad : i <= j
    <2>1. Bad \in SUBSET Nat
      BY <1>1 DEF Depths
    <2> HIDE DEF Bad
    <2> QED
      BY <2>1, Smallest
  <1>4. i \in Depths(th) /\ ~(At(th, 1) <= At(th, i)) /\ i > 1
    BY <1>1, <1>2, <1>3 DEF Depths
  <1>5. i - 1 \in Depths(th) /\ i - 1 < i
    BY <1>1, <1>4 DEF Depths
  <1>6. At(th, 1) <= At(th, i - 1)
    BY <1>1, <1>3, <1>4, <1>5 DEF Depths
  <1>7. At(th, i - 1) < At(th, i)
    BY <1>2, <1>4, <1>5 DEF IInv, Parts, StacksNest, OrderParts, GiverFirst
  <1>8. \A a, b, c \in Nat : a <= b /\ b < c => a <= c
    OBVIOUS
  <1> QED
    BY <1>1, <1>2, <1>4, <1>5, <1>6, <1>7, <1>8

\* A task whose children are in no slot, and which runs none of them, has none left.
LEMMA TopJoined ==
  ASSUME IInv, NEW th \in Threads, stack[th] # << >>,
         \A i \in Slots : ~is_empty(i) => giver[bfp[i]] # Current(th)
  PROVE  Joined(Current(th))
  <1> DEFINE n == Len(stack[th])
  <1>1. n \in Depths(th) /\ Current(th) = At(th, n) /\ At(th, n) \in Tasks
    BY StackType DEF IInv, Depths, Current, At
  <1> SUFFICES ASSUME NEW s \in Tasks, giver[s] = Current(th), s \notin finished
               PROVE  FALSE
    BY DEF Joined
  <1>2. giver[s] # None /\ giver[s] \in Tasks
    BY <1>1, PoolAssumption
  <1>3. ~InSlot(s)
    BY DEF InSlot
  <1>3a. PICK o \in Threads :
           \E k \in Depths(o) : At(o, k) = s /\ (k > 1 \/ o \in Clients)
    BY <1>2, <1>3 DEF IInv, Parts, TasksKept, Inline
  <1>4. PICK k \in Depths(o) : At(o, k) = s /\ (k > 1 \/ o \in Clients)
    BY <1>3a
  <1>5. k > 1
    <2>1. k = 1 => o \notin Clients
      BY <1>2, <1>4, PoolAssumption DEF IInv, Parts, StacksNest
    <2>2. k \in Nat /\ k >= 1
      BY <1>4 DEF Depths
    <2> QED
      BY <1>4, <2>1, <2>2
  <1>6. At(o, k - 1) = At(th, n) /\ k - 1 \in Depths(o)
    <2>1. k - 1 \in Depths(o)
      BY <1>4, <1>5 DEF Depths
    <2>2. giver[s] = At(o, k - 1)
      BY <1>4, <1>5 DEF IInv, Parts, StacksNest
    <2> QED
      BY <1>1, <2>1, <2>2
  <1>7. o = th /\ k - 1 = n
    BY <1>1, <1>6 DEF IInv, Parts, StacksApart
  <1> QED
    BY <1>1, <1>4, <1>7 DEF Depths

\* The youngest task in a slot: if nobody has taken it yet there is a worker that looks
\* for one, and if a worker has, all that its tasks can wait for would be younger still.
LEMMA SlotsAdvance ==
  ASSUME QInv, WInv, OrderParts, Pending # {}
  PROVE  \E th \in Threads : Advances(th)
  <1>0. IInv
    BY DEF QInv
  <1>1. \A i \in Pending : bfp[i] \in Tasks /\ bfp[i] \in Nat
    BY <1>0, PoolAssumption DEF Pending, IInv, Parts, SlotsHold, given
  <1>2. IsFiniteSet(Pending)
    BY Counted, FS_Subset DEF Pending
  <1>3. PICK i \in Pending : \A j \in Pending : bfp[j] <= bfp[i]
    <2> DEFINE f == [j \in Pending |-> bfp[j]]
    <2>1. f \in [Pending -> Nat]
      BY <1>1
    <2>2. \E i \in Pending : \A j \in Pending : f[j] <= f[i]
      <3> HIDE DEF f
      <3> QED
        BY <1>2, <2>1, Largest
    <2> QED
      BY <2>2
  <1>4. i \in Slots /\ ~is_empty(i)
    BY DEF Pending
  <1>5. CASE ~is_being_processed[i]
    <2>1. ReadyOnes # {}
      BY <1>4, <1>5 DEF ReadyOnes, is_ready
    <2>2. Cardinality(ReadyOnes) # 0
      BY <2>1, Counted, FS_EmptySet
    <2>3. Cardinality(Searching) # 0
      BY <2>2, Counted DEF WInv, WorkersSuffice
    <2>4. Searching # {}
      BY <2>3, FS_EmptySet
    <2> QED
      BY <2>1, <2>4 DEF Searching, Advances, Threads
  <1>6. CASE is_being_processed[i]
    <2>1. PICK w \in Workers : stack[w] # << >> /\ idx[w] = i
      BY <1>4, <1>6 DEF OrderParts, Manned
    <2>2. w \in Threads /\ bfp[i] = At(w, 1)
      BY <1>0, <2>1 DEF Threads, IInv, Parts, WorkersHold
    <2>3. ASSUME NEW j \in Slots, ~is_empty(j), NEW k \in Depths(w)
          PROVE  giver[bfp[j]] # At(w, k)
      <3> SUFFICES ASSUME giver[bfp[j]] = At(w, k) PROVE FALSE
        OBVIOUS
      <3>1. j \in Pending /\ bfp[j] \in Tasks /\ bfp[j] \in Nat
        BY <1>1, <2>3 DEF Pending
      <3>2. At(w, k) \in Tasks /\ At(w, k) \in Nat
        BY <1>0, <2>2, StackType, PoolAssumption DEF IInv
      <3>3. At(w, k) < bfp[j]
        BY <3>1, <3>2 DEF OrderParts, GiverFirst
      <3>4. At(w, 1) <= At(w, k)
        BY <1>0, <2>2, FirstIsOldest
      <3>5. bfp[j] <= bfp[i] /\ bfp[i] \in Nat
        BY <1>1, <1>3, <3>1
      <3>6. \A a, b, c \in Nat : a <= b /\ b < c => ~(c <= a)
        OBVIOUS
      <3> QED
        BY <2>2, <3>1, <3>2, <3>3, <3>4, <3>5, <3>6
    <2>4. /\ Len(stack[w]) \in Depths(w) /\ Current(w) = At(w, Len(stack[w]))
          /\ Current(w) \in Tasks
      BY <1>0, <2>1, <2>2, StackType DEF IInv, Depths, Current, At
    <2>5. call[w] \in {"none", "wait", "wait_all"}
      BY <1>0, <2>1, <2>2, PoolAssumption
      DEF IInv, TypeOK, Parts, WorkersHold, CallsSound, Threads
    <2>6. CASE call[w] = "none"
      <3>1. Joined(Current(w))
        BY <1>0, <2>1, <2>2, <2>3, <2>4, TopJoined
      <3>2. w \notin asleep
        BY <2>6 DEF QInv, SleepSound
      <3> QED
        BY <2>1, <2>2, <2>6, <3>1, <3>2 DEF Advances
    <2>7. CASE call[w] = "wait"
      <3>1. ~InSlot(arg[w])
        <4>1. giver[arg[w]] = Current(w)
          BY <2>7 DEF OrderParts, WaitsForOwn
        <4> QED
          BY <2>3, <2>4, <4>1 DEF InSlot
      <3>2. arg[w] \in Tasks /\ handle[arg[w]] # 0
        BY <1>0, <2>2, <2>7 DEF IInv, Parts, CallsSound
      <3>3. ~IsPending(arg[w])
        BY <3>1, <3>2, PendingInSlot
      <3>4. w \notin asleep
        BY <2>7, <3>1 DEF QInv, SleepSound
      <3> QED
        BY <2>1, <2>2, <2>7, <3>3, <3>4 DEF Advances
    <2>8. CASE call[w] = "wait_all"
      <3>1. OwnTasks(w) = {}
        <4> SUFFICES ASSUME NEW j \in Slots, ~is_empty(j), thread_id[j] = w PROVE FALSE
          BY DEF OwnTasks
        <4>1. \/ giver[bfp[j]] = w
              \/ \E k \in Depths(w) : giver[bfp[j]] = At(w, k)
          BY <1>0 DEF IInv, Parts, SlotsHold
        <4>2. giver[bfp[j]] # w
          <5>1. bfp[j] \in Tasks
            BY <1>1 DEF Pending
          <5>2. giver[bfp[j]] \in Tasks \cup Clients \cup {None}
            BY <1>0, <5>1 DEF IInv, TypeOK
          <5> QED
            BY <2>1, <5>2, PoolAssumption
        <4> QED
          BY <2>3, <4>1, <4>2
      <3>2. w \notin asleep
        BY <2>8, <3>1 DEF QInv, SleepSound
      <3> QED
        BY <2>1, <2>2, <2>8, <3>1, <3>2 DEF Advances
    <2> QED
      BY <2>5, <2>6, <2>7, <2>8
  <1> QED
    BY <1>5, <1>6

\* With nothing in the slots, what is left runs in the calls of clients, since there are
\* no workers: and none of them has anything to wait for.
LEMMA ClientsAdvance ==
  ASSUME QInv, WInv, OrderParts, Pending = {}, NEW t \in given, t \notin finished
  PROVE  \E th \in Threads : Advances(th)
  <1>0. IInv
    BY DEF QInv
  <1>1. t \in Tasks /\ giver[t] # None /\ ~InSlot(t)
    BY DEF given, InSlot, Pending
  <1>2. PICK th \in Threads : \E k \in Depths(th) : At(th, k) = t
    BY <1>0, <1>1 DEF IInv, Parts, TasksKept, Inline
  <1>3. stack[th] # << >>
    BY <1>0, <1>2, StackType DEF Depths, IInv
  <1>4. th \in Clients /\ th \notin Workers
    BY <1>0, <1>3, PoolAssumption DEF Threads, Pending, IInv, Parts, WorkersHold
  <1>5. N = 0 /\ Slots = {}
    BY <1>3, <1>4, NType DEF OrderParts, ClientsRun
  <1>6. call[th] \in {"none", "wait", "wait_all"}
    <2>1. call[th] \notin {"start", "look", "left"} /\ call[th] # "add"
      BY <1>0, <1>3, <1>4 DEF IInv, Parts, CallsSound, OrderParts, AddersIdle
    <2>2. call[th] \notin {"shutdown", "join"}
      BY <1>0, <1>3, <1>4 DEF IInv, Parts, ShutdownSound, Destructors
    <2> QED
      BY <1>0, <2>1, <2>2 DEF IInv, TypeOK
  <1>7. th \notin asleep
    BY <1>5, <1>6 DEF QInv, SleepSound, InSlot, OwnTasks
  <1>8. Joined(Current(th))
    BY <1>0, <1>3, <1>5, TopJoined
  <1>9. ~IsPending(arg[th]) /\ OwnTasks(th) = {}
    BY <1>5, NType DEF IsPending, OwnTasks
  <1> QED
    BY <1>3, <1>6, <1>7, <1>8, <1>9 DEF Advances

\* Tasks may add tasks and wait for them, at any depth, in any number, on a pool of any
\* size: the pool does not come to a stop in which each waits for another.
THEOREM NeverStuckCorrect == Spec => []NeverStuck
  <1>1. QInv /\ WInv /\ OrderParts => NeverStuck
    BY SlotsAdvance, ClientsAdvance DEF NeverStuck
  <1>2. QInv => IInv
    BY DEF QInv
  <1> QED
    BY <1>1, <1>2, QInvInitially, QInvKept, WInvInitially, WInvKept, InitOrder, NextOrder,
       PTL DEF Spec
=============================================================================
