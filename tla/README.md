# Verification of LiveFaceMask

LiveFaceMask is an iOS application that draws a mask over the face in the
picture of the front camera. The repository holds the application and a copy of
dlib. This directory holds TLA+ models of the application's own code and of the
concurrent parts of that copy, the TLC runs that check them, and proofs for
TLAPS. File names below are relative to `src/LiveFaceMask/`.

## 1. The system

### Components

| Component | Code | State it keeps | Operations |
|---|---|---|---|
| Capture session | `ViewController/SessionHandler.swift` | `session`, `currentMetadata`, `isFaceDetectionOff`, `glView`, `lastFaceDetectedTime` | `openSession`; the callback for a video frame (on `sampleQueue`); the callback for metadata objects (on `faceQueue`) |
| View controller | `ViewController/ViewController.swift` | `glView`, `isGLViewAdded`, the list of masks, the selected cell | `viewDidLoad`, `viewDidAppear`, `viewDidDisappear`, `didSelectItemAt`, `didEndLandmarksParsing` |
| Face detection and smoothing | `DlibWrapper/DlibWrapper.mm` | the predictor `sp`, `prepared`, `prevShape`, `isPrevShapeNull`, `maxDiff` | `prepare`, `detectFaceFromSampleBuffer:inRect:InGLView:` |
| Mask geometry and rendering | `MaskRenderer/OGLView.mm` | the global `faceShapeVertices`, `maskmap`, the `prevDist…`/`prevAngle…` reference | `setupVBOs:withLandmaskArray:`, `initReferenceMaskData`, `updateDlibVertices:WithRect:`, `calculateMaskRect`, `render:` |
| Mask file parser | `MaskXmlLoader/LandmaskXMLParser.m` | `faceLandmarks`, `landmarkArray`, `currentElement` | `loadRssFeed` and the SAX callbacks |
| Mask list parser | `MaskXmlLoader/XmlParser.m` | the categories and items read so far | `loadRssFeed` and the SAX callbacks |
| Application delegate | `AppDelegate.swift` | none | empty handlers |
| Data | `Masks/*.xml`, assets, storyboards | constant | none |
| dlib pipe | `lib/dlib/pipe/pipe_kernel_1.h` | a circular buffer, three flags, three counters of waiters | `enqueue`, `dequeue`, the same with a timeout, `wait_until_empty`, `wait_for_num_blocked_dequeues`, `empty`, the enabling and disabling calls, the destructor |
| dlib read_write_mutex | `lib/dlib/threads/read_write_mutex_extension.h` | `available_locks`, `write_lock_in_progress`, `write_lock_active` | `lock`, `unlock`, `lock_readonly`, `unlock_readonly` |
| dlib thread_pool | `lib/dlib/threads/thread_pool_extension.h`, `.cpp` | the slots `tasks`, `worker_thread_ids`, `we_are_destructing` | `add_task`, `wait_for_task`, `wait_for_all_tasks`, `thread`, `shutdown_pool` |
| dlib, the rest | `lib/dlib` | a library of numerical, image and GUI code | the application calls the shape predictor |

### How they interact

In the application three threads of control share objects without any lock:

* the **main thread** runs UIKit's callbacks and the blocks of the main queue,
  one at a time;
* **sampleQueue**, a serial queue, handles video frames; a frame that arrives
  while one is being handled is dropped;
* **faceQueue**, a serial queue, handles the metadata callbacks.

faceQueue publishes faces in `currentMetadata`. sampleQueue reads it (more than
once per frame), reads `glView.isHidden`, posts blocks to the main queue that
show or hide the mask, and calls the detector, which compares the new landmarks
with those drawn last and writes the vertices of the mask view. The user selects
a mask on the main thread: the flag `isFaceDetectionOff` is set, the mask's file
is parsed on the spot, and `parserDidEndDocument` posts a block that sets up the
mask view (or creates it, the first time) and clears the flag.

The three classes of dlib are monitors: one mutex each, and condition variables
on which the callers' threads, or the threads of the pool, sleep. The pool serves
`parallel_for` and the trainers in `svm`, the pipe `bridge`; the part of dlib that
the application calls uses none of them.

### What is hard about it

In the application:

* handlers act on values they read before: `isEmpty` and then `first!`,
  `isHidden` and then a block that runs later, the flag and then a publication;
* the flag does not wait for what is in flight, and it is a Boolean that several
  selections share;
* a parse that fails leaves no trace, and so no block that clears the flag;
* set-up and detection write the same vertices on two threads, and the set-up
  reads back what it has written;
* smoothing depends on a running maximum that lives in a field, and on a shape
  kept in one component for what is drawn in another;
* opening the session goes on after a refusal.

In dlib:

* a signal wakes one sleeper, and another thread may come first, while others
  that sleep for the same reason time out;
* several kinds of sleepers share a condition variable, and some conditions
  change without anybody being told;
* a pipe of size zero passes an item from hand to hand through one slot, with
  the indices of the buffer as its state;
* a writer collects its locks one by one, in the same counter from which
  `unlock_readonly` infers whether there is a lock to free;
* a slot of the pool is reused while someone still waits for its former task;
* a task that adds tasks while every thread is busy has to run them itself;
* destructors wait for sleepers that they must first wake.

`PROJECT.json` lists these hazards with their lines and the properties that
cover them.

### What makes each component correct

* *Capture session*: the mask ends up shown when a face stays and hidden when
  none does, without flicker; nothing unwraps a view that is not there;
  detections go on at their pace; the flag stops detection for good.
* *View controller*: one view; masks installed in the order asked for; the flag
  never left set without reason; no set-up under a running detection.
* *Smoothing*: what is drawn is never off by the threshold; no redraw for less.
* *Geometry*: the reference comes from the mask being shown, and the mask is
  never partly template and partly face.
* *The three together*: the flag does protect the vertices, and the shape the
  next one is compared with is the one on screen, except right after a set-up:
  the template is on screen then, and the next shape is still compared with the
  last one.
* *Pipe*: first in, first out, nothing lost or duplicated; nobody sleeps on
  while what it waits for is there; `disable` and the destructor get everybody
  out.
* *read_write_mutex*: one writer and no reader beside it, at most so many
  readers, and everybody served.
* *thread_pool*: each task run once, waits that end when and only when their
  tasks are done, no deadlock of tasks that wait for tasks, and nothing left
  behind by the destructor.

## 2. The modules

Every action of a module is one access to state that another thread uses, with
the whole of what the code does up to the next such access. In the monitors of
dlib that is what a call does from getting the mutex to its next wait or its
return.

```
SessionHandler <- ViewController <- MaskTracking     (EXTENDS)
                    |  implements      |  INSTANCE
                  MaskSwitch         OGLView          DlibWrapper
Pipe -> BoundedFifo        ThreadPool -> Executor     ReadWriteMutex
     (implements)                     (implements)
```

### SessionHandler

State: the main queue as a sequence of blocks (`"show"`, `"hide"`, or the name
of a mask), the shared fields under their names in the source, and a program
counter for each of the two handlers. `age` is the clock minus
`lastFaceDetectedTime`: time enters the code only through that difference, so
it is kept saturated one beyond the threshold, in both signs since the wall
clock may be set. `trap` names the run-time check that ended the process.

| Action | Code in `SessionHandler.swift` |
|---|---|
| `OpenSession` | `openSession`, 35-76; every combination of accepted input and outputs, with the traps at 39/41, 64 and 69 |
| `FaceCallback`, `FacePublish` | the metadata callback, 131-137: the read of the flag and the assignment of `currentMetadata` |
| `SampleCallback` … `SampleEnqueue` | the frame callback, 79-121, one action for each read or write: `isEmpty` (81), `isHidden` (83), the post (85), the throttle (93-100), `first!` (102), the detection (102), the stamp (103), the other branch (107-114), `enqueue` (119) |
| `SampleMetadataRace` | the array behind `currentMetadata` is reference-counted; a read on sampleQueue that meets the assignment on faceQueue is undefined, and may end the process |
| `RunVisibilityBlock` | the posted blocks, 86 and 113 |
| `Tick`, `ClockSet` | `Date()` |

The view controller is this module's environment: it may post mask blocks, set
and clear the flag, install a view where there is none, and open and stop the
session, whenever it likes. What holds here holds under any view controller.

### ViewController and MaskSwitch

ViewController EXTENDS SessionHandler and puts the code of
`ViewController.swift` in the place of that environment: `ViewDidAppear`,
`ViewDidDisappear`, `DidSelectItem`, then `LoadRssFeed` (the synchronous parse
and the post at its end), then the block of `didEndLandmarksParsing`:
`BeginMaskBlock`, `SetupVBOs` or `CreateView`, and `Resume`. `mainPC` tells how
far the main thread is in a handler that touches shared state more than once;
while it is not `"idle"` no block and no UIKit callback can start. `WellFormed`
is the set of masks whose file the parser reads to its end; of the others
nothing is posted.

That the view controller keeps to what SessionHandler allows for is checked and
proved: `ImplementsSession` is SessionHandler's own specification.

MaskSwitch is what a user may expect of selecting masks: those that can be
loaded are installed one by one, in the order asked for. ViewController
implements it (`InstallsInOrder`): `waiting` is the mask of the block that is
running, if it has not set up the view yet, followed by the masks among the
posted blocks, and `shown` is the mask set up last.

### DlibWrapper

`detectFaceFromSampleBuffer` with its loop over the landmarks one part at a
time, so that the running maximum `maxDiff` is what the code computes:
`DetectFace`, `ComparePart`, `Decide`. The predictor may return any shape.
`drawn` is what `updateDlibVertices` was last called with.

### OGLView

Two threads over `faceShapeVertices`. A coordinate holds its provenance: the
template of a mask, the landmarks of a detection, a template carried over to a
face, or a useless mixture. One float stands for several that are read and
written alike and next to each other: one for vertex 36, one for 45, one for the
eight vertices outside the face. Mixing the two floats of one vertex is the same
to the properties as mixing those of two vertices. A mask whose file lists only
the 68 landmarks of the face is not in `Complete`: the loop of `setupVBOs` then
leaves the outer vertices as they are. `overlapped` is a history variable.

### MaskTracking

ViewController and its session composed with OGLView (`View`) and with the
outcome of DlibWrapper's comparison. OGLView leaves free when its two threads
start; here `setupVBOs` starts in the mask block (`BlockSetsUp`), which goes on
only when it has returned (`BlockGoesOn`), and `updateDlibVertices` starts in
the detection of a frame (`Decide`), which returns only when it has ended
(`DetectionReturns`). Two shapes that differ by less than the threshold are one
shape here. `ReferenceProtected` says what the flag is for: a set-up that begins
with detection at rest has the vertices to itself, although frames and faces
keep arriving. `ShowsWhatIsCompared` relates `prevShape`, which is
DlibWrapper's, to the vertices, which are OGLView's.

### Pipe and BoundedFifo

Pipe has every call of `pipe_kernel_1.h` that changes state. `op[t]` is the call
thread t is in and `asleep` the threads in a wait; which condition variable a
thread sleeps on follows from its call. The three counters of waiters are
variables beside them: each call counts itself in (`Entered`) and, on every path
by which it returns, out again (`Left`), and the guards and broadcasts, the
destructor's among them, look at the counters as the code does. Nothing in the
actions says that they agree with the threads inside. `Handoffs` are the second wait of an enqueue, for its item to be taken
from it. Objects are passed by reference and exchanged: `item[t]` is the
caller's. Waits may time out (`TimesOut`) or end without a reason (`WakesUp`). A
time-out ends the wait of a thread that nobody has woken; whether a wait that was
signalled may still report a time-out is up to the system's condition variables,
and the model says no.
The destructor `Destroy` is a call like the others, and nobody begins another
call of an object that is being destroyed.

BoundedFifo is the promise: a queue of at most `Capacity` items, from which calls
take in order, and, with no room at all, objects that pass from one blocked call
to another. The refinement computes the queue from the indices, and gives an
item that lies in the slot of a pipe without room back to the enqueue that waits
for it to be taken.

### ReadWriteMutex

`lock` waits in two places, first for its turn and then for the locks it
collects; `op` tells them apart. A client makes one call or holds one lock at a
time: a thread with several readonly locks is several clients.
`unlock_without_lock` is the call of `unlock_readonly` that has nothing to
unlock, which the documentation allows for; it is part of `SpecUnpaired` only.

### ThreadPool and Executor

The fields of `tasks[i]` are functions on `Slots`. `stack[th]` holds the tasks
thread th runs, each within the one before: a task may add tasks, and one that
finds no free slot runs them where they are added. `Clients` are the threads
outside the pool. What a task does is up to its author; here it may add tasks,
wait for them or for all of its thread, and it ends when those it has added are
done, as the tasks of `parallel_for` do. `handle[t]` is the id that adding task
t has returned, `giver[t]` who added it; `runs` and `finished` record what has
become of it.

Executor is the promise: a task is begun at most once and only after it was
given, a thread that waits goes on only when its tasks are done, and the pool
closes only when everything is. A `wait_for_all_tasks` waits in the refinement
for what its documentation says, the tasks added by the calling thread, and not
for what the code looks at, the slots. A wait that returns without sleeping is no
step of Executor, so the refinement says nothing of whether it was right to.
`SlotsTellTheTruth` does: the id that `add_task` has returned is in a slot until
the task is done, and a thread to which no slot belongs has nothing undone but what
it is running, so that the look at the slots with which a wait begins does not
miss a task.

### MC modules and proofs

`MCSessionHandler` … `MCThreadPool` extend their component for TLC and define
the symmetry sets of the runs. The modules whose name ends in `Proofs` hold the
theorems. Definitions marked *mutant* are faulty versions of the definition that
follows them; no action uses them. Each shows that a property would notice such
a bug.

## 3. The runs

| Run | Question | Bounds |
|---|---|---|
| `session` | Can the posted blocks make the mask flicker, or run before there is a view? Can anything start detection again while the flag is set? Does the mask follow a steady picture, although show and hide are decided on stale reads? Does the throttle starve? | one face, one mask, threshold 1, `MaxQueue` 3 |
| `view` | Does the view controller keep to its part, install masks in order, and protect the set-up? Does every loadable selection get installed, and detection resume? | two masks that load and one that does not, threshold 0, `MaxQueue` 2 |
| `smoothing` | Does the drawn mask stay within the threshold, and rest for less? | two landmarks, coordinates 0 to 2, threshold 2 |
| `mask_geometry` | What does a set-up that nobody overlaps guarantee? | two complete masks, a short one, two detections |
| `mask_tracking` | Does the flag protect the vertices, through all three components? | one face, one mask, two shapes, `MaxQueue` 1 |
| `pipe_room` | Is the circular buffer a queue, does anybody oversleep, and is the memory freed under nobody? | three threads, two items, room for two |
| `pipe_handoff` | Do the destructor and `disable` get everybody out of a pipe without room, and is what is on offer taken in the end? | three threads, one item, no room |
| `rwmutex` | Exclusion, the limit on readers, nobody oversleeps, everybody served | four clients, two locks, two calls each |
| `thread_pool` | Is each task run once, do waits end rightly (the ones that never sleep too, `SlotsTellTheTruth`), can tasks that wait for tasks bring the pool to a stop (`NeverStuck`)? | two clients, two workers, three tasks |
| `no_view_yet`, `faces_gone`, `rwmutex_extra_unlock` | the findings of section 6 | one face and one mask; three clients |

Why the bounds are enough:

* *One face.* The code only asks whether there is a face and takes the first.
* *MaxQueue.* The blocks of the handler are of two kinds; three of them hold
  every pattern of a flip, its repetition and a change of mind. The bound is a
  guard of `SampleCallback` (a frame does not begin) and of the user's actions.
  A frame begun below the bound still posts and a load still posts, so queues
  grow one beyond it. `AppTypeOK`, which is proved, says that the bound never
  keeps the main thread from posting. In `mask_tracking` the order of masks is
  not in question, so one pending block is enough to overlap everything.
* *Thresholds.* 0 and 1 clock ticks give ages below, at and above the threshold
  in both signs, with time passing during the detection.
* *Coordinates 0 to 2 with threshold 2* have differences below and at the
  threshold, and two small steps that add up to a large one.
* *Three masks* are needed for an order that can be wrong around a failure.
* *Three threads* in a pipe are one on each side and one that comes between
  them, disables, or destroys. Room for two lets the indices wrap around with
  the buffer neither empty nor full; no room is the hand-over.
* *Four clients, two locks*: two readers in, a writer collecting, and another
  writer or reader waiting behind it.
* *Three tasks on two workers and two clients*: the slots can all be taken, ids
  are reused, and a task can add another with nobody left to run it. Tasks are
  numbered in the order of the calls that add them, which loses nothing since
  nothing else tells them apart.

What the properties leave out, because the code does not keep it or the bounds do
not reach it:

* *The flag.* `OffOnlyWhileLoading` and `DetectionResumes` leave out selections of
  a mask that cannot be read, after which the flag stays set.
  `SetupUndisturbed` and `ReferenceProtected` speak of mask blocks that begin with
  detection at rest; of two selections in a row the first block clears the flag
  for both, and a set-up after that may be overlapped.
* *Short files.* `ReferenceOfMask` and `MaskBelongsTogether` speak of masks that
  list every vertex.
* *A still face after a set-up.* `ShowsWhatIsCompared` admits the template that has
  just been set up; nothing says when the face replaces it.
* *The two pipes.* `Convention` and `NobodyOversleeps` run with room for two, where
  their conjuncts on the hand-over are vacuous; `ItemsTaken` runs with no room,
  and says nothing of a pipe with room. The theorems `ConventionCorrect`,
  `NobodyOversleepsCorrect` and `FifoCorrect` hold for every size.
* *Locks.* A thread that asks for a second readonly lock while a writer collects
  would wait for ever; with one lock for each client `EverybodyServed` does not
  see it.
* *Waits of the pool.* The tasks are finitely many, so `CallsReturn` does not say
  that an `add_task` is not overtaken for ever by others.

### Fairness

Session: dispatch runs what its serial queues hold (weak fairness of the steps
of a handler that has begun and of the main queue), frames keep coming while the
session runs, and time passes. Faces are never assumed to come or to go. The
frame callback is strongly fair only because `MaxQueue`, which the code does not
have, may disable it; for the same reason the view controller is assumed not to
hold the queue at its bound for ever. View controller: the main thread finishes
what it does (weak fairness), and its run loop comes back to the main queue
however many events UIKit has (strong fairness: loading a mask disables the
blocks in between). The user, the camera and the session owe nothing. Every
liveness property of the application allows for the end of the process: the
traps are real.

dlib: a thread that is awake inside a call gets the mutex in the end and goes on
(weak fairness of its own steps). A call is never assumed to be made, nor a wait
to time out or to end without a reason, and no thread is preferred when a signal
wakes one of several. Of the mutex, locks are given back; since each client asks
a bounded number of times, readers cannot overtake a writer for ever. Of the
pool, a task whose own tasks are done ends.

## 4. What is proved

TLAPS proves the following for every value of the constants that satisfies the
named assumptions (`SessionAssumption`, `ViewAssumption`, `DlibAssumption`,
`OGLAssumption`, `TrackingAssumption`, `PipeAssumption`, `MutexAssumption`,
`PoolAssumption`): any sets of threads, faces, masks, shapes, items and tasks,
finite where they are counted, any sizes and thresholds.

**The application.**

* `SessionHandlerProofs!TypeCorrect`: `TypeOK`, which is inductive by itself.
* `SessionHandlerProofs!VisibilityCorrect`: `AtMostOneFlip`,
  `NoBlockBeforeView` and `ReadStillCovered`. None of the three is inductive
  alone. Posting a block keeps `AtMostOneFlip` because of what the handler has
  read and the queue cannot have contradicted (`ReadStillCovered`); that survives
  the blocks that run in between because they flip at most once; and the view
  appears with no block pending because of `NoBlockBeforeView`. Two lemmas say
  what happens at either end of the queue (`VisibilityAfterTail`,
  `VisibilityAfterAppend`), a third covers every other step.
* `SessionHandlerProofs!QuietCorrect`: `QuietUntilFlagCleared`, step by step.
* `ViewControllerProofs!SessionImplemented`: the view controller implements
  SessionHandler, because the block that makes the view has set the flag and
  finds no view (`ViewOnce`). So `AppVisibilityCorrect`: what is proved of the
  session holds under this view controller.
* `ViewControllerProofs!SetupUndisturbedCorrect` and
  `OffOnlyWhileLoadingCorrect`. The first rests on `QuietStep`, the step by which
  the session is shown to stay quiet, applied while a block is in its set-up
  (`QuietSetup`). `AppTypeCorrect` also shows that `MaxQueue` holds up nobody
  (`RoomToPost`).
* `ViewControllerProofs!InstallsInOrderCorrect`: the view controller implements
  MaskSwitch, for any queue. The masks among the posted blocks (`MaskBlocks`) are
  defined by recursion over the queue, and no induction theorem of the library can
  be instantiated; the lemmas on what appending a block and taking one do to them
  (`MaskBlocksAppend`, `MaskBlocksTail`) take a least counterexample instead, which
  the well-founded order of the naturals supplies (`Smallest`). `SwitchStep` is then
  one case per action: a load appends, the block that sets up takes, and the show
  and hide blocks are passed over.
* `OGLViewProofs!ReferenceCorrect` and `MaskCorrect`. The invariant says for each
  point of the set-up and of the detection what has been put and read so far,
  provided that the last set-up was not overlapped.
* `MaskTrackingProofs!ReferenceProtectedCorrect` and `ShownIsCompared` put the
  invariants of the two together. `Bound` ties them: a set-up runs only in the
  mask block, a detection only in the frame handler, and so a block that begins
  at rest is overlapped by none.
* `MaskTrackingProofs!AppImplemented` and `ViewImplemented`: the composition
  implements each of its components, since it only chooses when the threads of the
  view start and holds back the steps that wait for them. So `WholeProgram`: the
  order of installation, `AtMostOneFlip`, `NoBlockBeforeView` and
  `OffOnlyWhileLoading` hold of the three components together.
* `DlibWrapperProofs!DrawnTracks` and `NoJitter`: the two smoothing properties.
  The loop invariant is that `maxDiff` has reached the threshold exactly if one
  of the parts compared so far has moved that far, which needs `maxDiff` to be 0
  at the start of every detection.

**dlib.**

* `PipeProofs!ConventionCorrect` is inductive with the types: what `first`,
  `last` and `pipe_size` are to one another, for every size, zero included.
  `NobodyOversleepsCorrect` adds which calls can be asleep, that a pipe being
  destroyed is disabled, and, for the destructor, that there is one only and that
  the last call to leave tells it (`LeaversTell`, `DestructorStays`).
  `DisabledPipeMovesOn` follows: in a pipe that is disabled nobody sleeps but a
  destructor, and then somebody awake is still inside. It is the safety half of
  `DisableReleases` and `DestructorEnds`. `DestroyedEmptyCorrect`: the destructor
  looks at nothing but the three counters, so the proof is that these are right
  (`Counted`): each is the number of threads in the calls of its side. Every path
  by which a call begins, goes back to sleep, is handed over to the second wait of
  an enqueue or returns is a case of it (`CallCounts`, `CountersNext`), and
  `CountersTell` draws what a counter of zero says.
  `FifoCorrect` is the refinement: each call is a step of BoundedFifo or none;
  the arithmetic of the indices modulo the size is in lemmas of its own.
  `DequeuersSufficeCorrect` counts: whoever takes an item was awake and in time,
  an item that is put wakes one sleeper, and a dequeue that gives up was out of
  time, or found the pipe disabled, when none sleeps (`TimeoutsEnd` and the
  invariant of `NobodyOversleepsCorrect`).
* `ReadWriteMutexProofs!NoReaderCorrect` and `AtMostMaxLocksCorrect` rest on the
  accounting `Accounts`: the locks that are free, those of the readers and those
  of the collector add up to `max_locks`. `OneWriterCorrect` and
  `NobodyOversleepsCorrect` do not need it, and hold even with unpaired calls
  (`UnpairedCorrect`). `SleepersWaitForALock` puts both together: whoever sleeps
  waits for a lock that somebody has, or for a client that is awake in a call, so
  that readers, writers and the collector never wait for one another only.
* `ThreadPoolProofs!PoolCorrect`: the refinement of Executor. `IInv` says that
  stacks and slots hold the same running tasks, each in one place, that a task
  on a stack was added by the one below it, and that a slot knows its adder.
  `NobodyOversleepsCorrect` needs that ids do not repeat (`HandlesApart`), that
  each sleeper still has its reason in a slot (`SleepSound`), and that nobody
  runs a task it has to wait for (`NotOwn`). `SlotsTellTheTruthCorrect` rests on
  the same account of the slots: what is not done is still in its slot
  (`UndoneIsPending`), and a thread with no slot to its name has only what it runs
  (`NothingOwed`). `WorkersSufficeCorrect` counts too:
  if no worker sleeps when a task is added, those that do not look are busy
  (`Employed`), each in a slot of its own (`BusyInSlots`), and since the pool has
  as many slots as workers, the ready tasks cannot outnumber the others.
  `PromisesKept` draws from Executor what its users go by: no task twice, no wait
  that ends early, nothing left behind.
* `ThreadPoolProofs!NeverStuckCorrect`: as long as a task is not done, there is a
  thread that can go on. Tasks are numbered in the order of the calls that add
  them, so that a task is older than those it adds, and the bottom of a stack is
  the oldest on it (`OrderParts`, `FirstIsOldest`). If a slot is taken, look at the
  youngest of the tasks in slots (`Largest`). If nobody has begun it, there is a
  worker that looks for it, by `WorkersSuffice`. If a worker has, everything that
  the tasks on its stack have added is younger, and so in no slot any more: the
  task on top of the stack has nothing left to wait for, whichever wait it is in,
  and is not asleep (`SlotsAdvance`). If no slot is taken, what is left is run by
  clients of a pool without threads, inside the calls that add it
  (`ClientsAdvance`). It needs `WaitsForOwn`: tasks wait for tasks they have added
  themselves.

**Only model-checked**: the liveness properties, since fairness and ENABLED are
beyond the prover: `EventuallyShown`, `EventuallyHidden`, `DetectionsContinue`,
`DetectionResumes`, `InstallsAll`, `DestructorEnds`, `DisableReleases`,
`ItemsTaken`, `EverybodyServed`, `TasksFinish` and `CallsReturn`. Of most of them
the safety half, that there is always somebody who can go on, is proved. Every
invariant, action property and refinement that a passing run checks is a theorem.

## 5. What is not modelled

* `AppDelegate`, assets and storyboards: no behaviour.
* The SAX callbacks of the two parsers. They are sequential, on files that are
  constant in the bundle; how text is cut into chunks is up to Foundation, and
  what the chunks hold is characters. The models keep what the rest can see of
  them: whether a file is read to its end.
* The trigonometry of `calculateMaskRect` and the conversion of the face
  rectangle to image coordinates: arithmetic of floats.
* Pixels and the debug drawing (never enabled) in `DlibWrapper.mm`; OpenGL calls
  and `render:`; a frame may show a half-written detection, which the next frame
  replaces.
* The view hierarchy: which layer covers which, and that `viewDidDisappear`
  takes the mask view off the screen for good.
* Of the pipe, the accessors that only read. Of the pool, `future` objects and
  the loops of `parallel_for`, which appear as callers, and tasks that end
  without waiting for those they have added.
* dlib, the rest, which is nearly all of the lines in the repository: matrix
  algebra, optimisation, machine learning, image processing, containers, parsers,
  sockets and windows of other platforms. Most of it is sequential numerical code
  over floating point, of which TLC can evaluate nothing and a model could state
  little that is not its own definition; the application calls one function of
  it. That is why the models cover a small share of the repository's lines and
  cannot cover a large one.

## 6. Findings

* `no_view_yet`: a face seen before the first mask block has run reaches
  `self.glView.isHidden` with `glView` nil.
* `faces_gone`: `currentMetadata` may be emptied between `isEmpty` and `first!`.
* `rwmutex_extra_unlock`: an `unlock_readonly()` without a readonly lock, said to
  have no effect, adds a lock while a writer collects, and a reader ends up
  beside the writer.

Met while modelling, and listed with the hazards: the metadata types are assigned
whether or not the output was added, against the comment above the assignment
(`SessionHandler.swift:67`); `disable_dequeue()` does not reach the two waiting
calls that it should end (`pipe_kernel_1.h:725`); the condition of
`wait_for_num_blocked_dequeues()` can become true with nobody told
(`pipe_kernel_1.h:430`); a timed enqueue of a pipe without room may wait longer
than its time (`pipe_kernel_1.h:534`); a timed dequeue that reports a time-out
after it was signalled, where the system allows that, gives up the item it was
woken for and tells nobody (`pipe_kernel_1.h:605`); a set-up does not reset
`prevShape`, so that a face that keeps still is not drawn again over the template
(`DlibWrapper.mm:146`); `wait_for_task(0)` waits for an empty slot
to be filled (`thread_pool_extension.cpp:91`); a task left behind by another may
wait for itself in `wait_for_all_tasks()` (`thread_pool_extension.cpp:117`). Where
the code does not keep a promise, the properties claim only what does hold.

## 7. Plan

1. **Done**: SessionHandler, ViewController and MaskSwitch, DlibWrapper, OGLView,
   MaskTracking, Pipe and BoundedFifo, ReadWriteMutex, ThreadPool and Executor,
   each with its proofs.
2. **Done**: the refinements that need an argument over the queue or over the order
   of tasks (`InstallsInOrderCorrect`, `NeverStuckCorrect`), and the composition of
   the application's components as an implementation of each.
3. **Later**: `future` objects and `parallel_for` as modules above Executor.
