# Red Wave Renderer: verification of the runtime

The repository is the runtime a renderer is to be built on: containers, threads,
a memory allocator, a work queue, a mathematics and a reflection library, and a
parked task graph library. There is no renderer yet. This directory holds TLA+
modules of its concurrent and stateful parts and of its algorithms, TLC
configurations that check them
on small instances, and proofs checked by TLAPS. Paths below are relative to
`src/Source/Runtime` unless they begin with `src/`.

The modules describe the Linux build of the repository: `DEBUG` undefined (so an
`ASSERT` does nothing), `USE_TC_ALLOCTOR` defined, pages of 32 KB.

1. [The system and its parts](#1-the-system-and-its-parts)
2. [Modules and how they correspond to the code](#2-modules-and-how-they-correspond-to-the-code)
3. [Runs, bounds and what they show](#3-runs-bounds-and-what-they-show)
4. [Fairness](#4-fairness)
5. [Proofs](#5-proofs)
6. [Disagreements between the code and what it says of itself](#6-disagreements-between-the-code-and-what-it-says-of-itself)
7. [What is not modelled](#7-what-is-not-modelled)
8. [Plan](#8-plan)

## 1. The system and its parts

    user thread ── WorkQueue::CommitWork / CommitTimerWork / Exit
         │                       │
         ▼                       ▼
    WorkFuture ◄── WorkRunnable  WorkThreadPool ── monitor ── secondary threads
    (mutex + value)   │            │       └───── timer thread ── PriorityQueue
                      │            ▼
                      │     primary threads 0..7: cache_queue_, StealWorks
                      │            │
                      └──── ProducerConsumerQueue × 8 (+ 1 for timers)

    new / TCMalloc ── TCThreadCache (per thread) ── TCCentralCache (per size class)
                                                        └── TCPageCache ── mmap

    TaskGraphPipeline ── Init / Run / Destroy, Cancel / Yield / Resume
      ├── repository ── elements (done_, left_depend_, cur_state_)
      ├── dynamic or static engine ── AfterElementRun, clusters
      └── schedule ── GraphTaskThreadPool ── primary and secondary threads

    AsyncLanuchAsync ── AsyncFuture ── LinuxPlatformThread

### Blocking work queue: `Container/ProducerConsumerQueue.h`

- State: a linked list with a dummy head, `lock_`, `cond_var_`, the atomic
  `has_stop_` and the atomic unsigned `size_`.
- Operations: `PushBack`, `PopFront`, `PopFrontBatch`, `TryPopFront`,
  `TryPopFrontBatch`, `PopFrontUntil`, `Stop`, `GetRoughSize`.
- Hard: `has_stop_` is tested outside the lock in `PushBack`, `size_` is changed
  outside the lock by the push and inside it by the pops, the notification is
  sent after the lock is released, and a timed wait can end in the same moment
  as it is notified.
- Correct when: no wakeup is lost, `Stop` releases every sleeper and is final,
  the rough size is off by the calls in flight only, and the whole is a FIFO
  queue whose batches come out in one piece.

### Work queue and thread pool: `WorkQueue/`

- State: eight queues, per primary thread a cache with a lock, the timer queue
  with the timer thread's priority queue, up to two secondary threads per queue,
  and the flags `has_init_`, `has_stop_` of the pool and of each runnable.
- Operations: `CommitWork`, `CommitTimerWork`, `Initialize`, `Exit`, and the
  loops of the primary, secondary, timer and monitor threads, among them
  `StealWorks`, which takes works out of the caches of two neighbours.
- Hard: a work moves from a queue to a cache, to a thief's list and to the
  thief's cache under different locks; `StealWorks` tests the flags of the pool
  once and then walks over vectors that `Initialize` fills and `Exit` empties;
  the monitor creates and joins threads while `Exit` begins; a blocked pop must
  be released in the order stop the runnable, stop the queue, join.
- Correct when: a work is in one place, is run as often as it asked for by one
  thread at a time, its future is released exactly by the last run, and `Exit`
  returns without leaving a thread that uses what it deleted.

### Allocator: `Core/Memory/TC*`, `MallocTC.cpp`

- State: per thread and size class a list of free objects with an adaptive
  maximum; per size class a list of spans and a lock; the spans with their own
  free lists and counts; the page heap with lists of free spans by size and a
  page map, under one lock.
- Operations: `TCMalloc`, `TCFree`, thread start and end, `RemoveRange` and
  `InsertRange` of the central cache, `AllocateSpan`, `DeallocateSpan` and
  `Clear` of the page heap.
- Hard: three levels of lists must account for every object and every page after
  any sequence of calls; an object may be freed by a thread that did not
  allocate it; `MapObjectToSpan` reads the page map without the lock; a span
  that comes back to life still carries the list of its earlier life; tests that
  rely on an ordering of lists (full spans last, biggest span first).
- Correct when: every object has one place, every page belongs to one span the
  map leads to, free neighbours are merged, a request is answered unless the
  system has no memory, and nothing is left when everything was freed.

### Other containers: `ThreadSafeQueue.h`, `AtomicQueue.h`, `AtomicPriorityQueue.h`, `PriorityQueue.h`, `SerialUniqueArray.h`

Lists and heaps with one lock or two; push, pop, batch and timed pop. The
two-lock queue separates head and tail by a dummy node; the atomic queues look
at the size outside the lock. They should implement a FIFO (or the priority
order). `PriorityQueue` is used by the timer thread alone.

### Threads: `Core/Thread`, `Core/HAL/Linux`

- State: per call of `AsyncLanuchAsync` a runnable with a promise, a thread object
  with `thread_id_`, `joinable_` and `lock_`, and the argument of the new thread;
  an `AsyncFuture` that owns the first two; the static counter of thread numbers.
- Operations: `AsyncLanuchAsync`, `CreateNativeThread`, `SetupThread`, `_Run`, `Get`,
  `Wait`, move assignment, the destructor, `Kill` and `Join`.
- Hard: the new thread may run before the creator has filled the object in, the
  counter is shared by objects that have a lock each, `Kill` writes without the
  lock, and a thread that cannot be created leaves a future nobody will fulfil.
- Correct when: each object has one owner, outlives the thread that uses it and is
  freed once, a thread sees its own number, and every call that has somebody to
  wait for returns.

### Task graph: `ThirdParty/TaskGraph`

It includes headers that the present core no longer has (`Core/Misc`,
`Core/HAL/ThisThread.h`) and is not built at present.

- Pipeline, repository and elements. State: `cur_state_` of the repository and of
  every element, `done_`, `left_depend_`, `trigger_times_`, the future of an element
  with a time-out. Operations: `Process` with `Init`, `Run` and `Destroy`; `Cancel`,
  `Yield`, `Resume`; `FatProcessor` with loops, holds and time-outs.
- Dynamic engine: every element that has ended counts its successors down and starts
  those that are ready; `Wait` sleeps until the ends have been counted or an error
  came up. Static engine: a schedule of levels of clusters, found by a simulated run.
- Thread pool: primary threads with two stealing queues each, secondary threads, a
  queue of the pool and a priority queue.
- Hard: counters that several threads count down, a last decision taken under a
  different lock than the change it is about, results that come after their
  time-out, threads still inside the engine when the run is over, schedules that
  depend on what the previous run has left in the elements, tasks moving between
  queues that are only tried.
- Correct when: an element starts once, after all it depends on; a run that ends well
  has run everything and left nothing; `Process` comes back; a committed task runs
  once; `Exit` returns and no thread meets a deleted one; a schedule respects the
  dependences and wastes no level.

### Mathematics: `Math`

Vectors and matrices without state. The LUP decomposition with its choice of a
pivot, the inverse, determinants and products are algorithms worth checking
against their definitions.

### Without run-time state

`Meta` (compile-time reflection), `Macro`, `Debug`, `Utility`.

## 2. Modules and how they correspond to the code

| module | models | used by |
|---|---|---|
| `StoppableQueue` | abstract FIFO queue with `Stop` | refined by `ProducerConsumerQueue` |
| `ProducerConsumerQueue` | `Container/ProducerConsumerQueue.h` | `MCProducerConsumerQueue` |
| `ProducerConsumerQueue_proofs` | theorems about it | |
| `FifoQueue` | abstract FIFO queue with calls that find nothing | refined by `ThreadSafeQueue` |
| `ThreadSafeQueue` | `Container/ThreadSafeQueue.h` | `MCThreadSafeQueue` |
| `WorkService` | abstract: what becomes of a committed work | refined by `WorkThreadPool` |
| `WorkThreadPool` | `WorkQueue/` | `MCWorkThreadPool` |
| `WorkThreadPool_proofs` | theorems about it | |
| `PageAllocator` | abstract: page runs held by callers | refined by `TCPageCache` |
| `TCPageCache` | `Core/Memory/TCPageCache.cpp` | its own configuration |
| `TCPageCache_proofs` | theorems about it | |
| `TCMalloc` | `TCThreadCache`, `TCCentralCache`, `MallocTC`, the operators new and delete | `MCTCMalloc` |
| `TCMalloc_proofs` | theorems about it | |
| `TCSizeMap` | the tables of size classes and `TCSizeMap::Initialize` | `MCTCMalloc` |
| `AsyncThread` | `Core/Thread`, `Core/HAL/Linux/LinuxPlatformThread` | its own configuration |
| `AsyncThread_proofs` | theorems about it | |
| `TaskService` | abstract: what becomes of a committed task | refined by `GraphTaskThreadPool` |
| `GraphTaskThreadPool` | `GraphTaskThreadPool` with its threads and queues | `MCGraphTaskThreadPool` |
| `GraphTaskThreadPool_proofs` | theorems about it | |
| `TaskGraph` | pipeline, repository, elements, dynamic engine | `MCTaskGraph` |
| `TaskGraph_proofs` | theorems about it | |
| `TaskGraphStaticEngine` | static engine, clusters | `MCComputations` |
| `EngineAndQueue_proofs` | theorems about `TaskGraphStaticEngine` and about `ThreadSafeQueue` | |
| `TaskGraphMaxParaOptimizer` | the largest number of parallel elements | `TaskGraphStaticEngine` |
| `Matrix` | `Math/Vector`, `Math/Matrix` | `MCComputations` |

The abstract modules are also where the layers meet. `WorkThreadPool` takes a
queue operation as one step, which `ProducerConsumerQueue` earns by implementing
`StoppableQueue`; `TCMalloc` asks the page heap for any free run of pages, which
is what `PageAllocator` says of `TCPageCache`; `TaskGraph` takes the pool for a set of
tasks from which any free thread takes any, which is what `TaskService` says of
`GraphTaskThreadPool`.

Operators that the code has not, named with a comment `Mutant:`, are altered
forms of the definition below them; the manifest says which property each of
them breaks.

### `ProducerConsumerQueue`

| variable | code |
|---|---|
| `queue` | the values between `head_->next_` and `tail_` |
| `lock` | owner of `lock_` |
| `has_stop_`, `size_` | the atomics; `size_` counts modulo `SizeModulus` |
| `pc[t]` | between which two lines the call of thread `t` is |
| `value`, `op`, `left`, `timed_out`, `result` | argument, kind, remaining batch, time-out and result of a running call |
| `fresh` | the values that were not pushed yet; each is pushed once |

One step is what happens between two accesses that another thread can see:
`PushBegin` (test of `has_stop_`), `PushLock`, `PushLink`, `PushCount`,
`PushNotify`; `PopBegin` or `TryPopBegin`, `PopLock`, then `PopStopped`,
`PopFound`, or `PopEmpty` with `PopBlock`, which releases the lock and sleeps in
one step as a condition variable does; `PopSpuriousWakeup` and `PopTimeout` are
the two ways to wake up without a notification; `PopTake`, `PopCount`,
`PopTakeBatch` are the loop that unlinks values, `PopReturn` the end of the call.
`StopLock`, `StopSet`, `StopNotify` are `Stop`. The five pops share their code
paths and differ in `op`: whether they block, whether they may time out and how
many values they take. `IsEmpty`, `HasStop` and `GetRoughSize` only read.

Refinement: while a consumer is in its loop it holds the lock to the end, so the
values it is going to take count as taken; `items` of `StoppableQueue` is the
rest of the list.

### `ThreadSafeQueue`

| variable | code |
|---|---|
| `head_`, `tail_`, `head_lock_`, `tail_lock_` | the members of the same names |
| `next_`, `data_` | the fields of every node |
| `heap` | the nodes that are allocated; `new` may return an address again |
| `pc[t]`, `temp[t]` | where the call of `t` is, and its local variable |
| `result[c]` | what the last `PopFront` of `c` returned, or that one is running |
| `chain` | history: the nodes from `head_` on; read by no guard |

`PushNode` allocates and fills the node, `PushLock`, `PushLink` (`tail_->next_ =
temp`) and `PushTail` are one line each; `PopLock` is lock and `temp = head_`,
`PopEmpty` and `PopTake` are the rest of the critical section, `PopDelete` the
`delete` after it; `Destroy` is the destructor, which runs when no call does.
The one place where the ends meet is `next_` of the dummy node of an empty queue,
read at line 67 and written at line 58 under different locks. It is not an atomic;
an aligned pointer on the supported machines is read as null or as the new node,
which are the two outcomes the model has. The rest of the section after that read
is one step, because nobody changes a `next_` that is not null nor the data of a
linked node, both of which `NodesAccounted` implies.

Refinement: the values of `FifoQueue` are the data of the nodes behind the dummy.

### `WorkThreadPool`

Threads are tuples `<<kind, id, number>>`: main, eight (here `PoolSize`) primary
threads, the timer, the monitor, and the secondary threads. `main` is the thread
that uses `WorkQueue`: it may commit and call `Exit`; a running work may commit
another (`Child`). Variables carry the names of the members they stand for;
`work`, `arg`, `target`, `idx` and `back` are local variables of the calls.

| actions | code |
|---|---|
| `StartPrimary`, `StartOthers`, `SetInit` | `Initialize`: the system may grant fewer threads than asked for |
| `Commit`, `PushStopped`, `PushIndex`, `PushLink` | `CommitWork`, `PushBack`: test, round robin index, link |
| `TimerPushCheck`, `TimerPushLink` | `PushTimerBack` |
| `PrimaryLoop`, `PrimaryLock`, `PrimaryPick`, `StealBegin`, `StealTryLock`, `StealTake`, `StealEnd`, `PopFrontBatch`, `TryPopFrontBatch` | the loop of a primary thread, `StealWorks`, and the refill of its cache |
| `RunBegin`, `RunCommit`, `RunEnd` | `Run` of a work: `Init`, `Work`, `Destroy`, the countdown of `times_`, release of the future, re-commit of a timer work |
| `SecondaryLoop`, `SecondaryPop` | the loop of a secondary thread |
| `TimerLoop`, `TimerFire`, `TimerNothingDue`, `TimerTake`, `TimerStopped`, `TimerTimeout` | the loop of the timer thread |
| `MonitorWake`, `MonitorScan`, `Change`, `Enlarge`, `Reduce` | the monitor: rough sizes, creation and removal of secondary threads |
| `Exit` ... `DeleteQueues` | `Exit`: monitor, timer, primary threads, queues, in the order of the code |

Abstractions: deadlines are left out, any timer may be the next that is due and
any wait may time out; the timer's `PriorityQueue` is a set. A result is
released or not, its value is not modelled. A plain work has `times_` 1; a timer
work may have any; 0 runs once and fulfils nothing, a negative count runs until
`Exit`. A timer work whose inner `Init` fails is deleted. Works that a stopped
queue refuses, or that are still in a queue when it is deleted, are lost and
never deleted, in the code as in the model. A push that reaches the timer queue after
`JoinTimer` deleted it (`TimerDeleted`) is undefined: the work is lost or the thread
never comes back (`"dangling"`), and `Exit` may wait for it for ever. The sizes the
monitor reads (`RoughSize`) are off by the calls in flight, at most one for each thread
and a batch, on either side; below zero they have wrapped and look huge.

### `TCPageCache`

Spans are numbers, pages are numbers. The variables are the members of
`TCPageCache` and `TCSpan`, plus `mapped` (the pages the system gave). An
`AllocateSpan` call is `AllocateSpan` (first search), `GrowHeap` (the system
grants a run of pages or refuses), `SearchAgain`, `SetInUse`. `DeallocateSpan` and
`GrowHeap` enter `MergeIntoSpanList`, which is `MergePrevious`, `MergeNext` and
`RecordMerged`: in between, `merging` is the span that has taken its neighbours in, and
the map still leads from their pages (`Merged`) to spans that are deleted. The lock is
held throughout an operation, but `MapObjectToSpan` does not take it, so the page map is
checked in all the states between these steps. `Carve` is one step: it deletes
no span, and the entries it changes are of free pages. The helpers
`Carve`, `SearchSpanList`, `Recorded`, `Added`, `Absorb` bear the names of the functions
they stand for or say what they do to the lists. The page map has its two levels: a root of
leaves that are allocated with the first entry, and a lookup that meets a missing
leaf as the code does. A span that is deleted may be allocated again under the
same number.

### `TCMalloc`

Addresses count in units, `PageUnits` of them in a page; a span in use is known
by its first page. `AllocateCached`, `AllocBig`, `RemoveRange`,
`RemoveRangeFull` and `NewSpan` are `TCMalloc` by where it finds the memory;
`Free`, `InsertObject` are `TCFree` with `InsertRange` one object at a time;
`Start`, `Finish`, `Clear` begin and end a thread. The steps of a thread on its
own cache are merged with the acquisition of the lock that follows, for no other
thread can see them. The lists of a span keep what an earlier life left in them
as `Stale`, because the code does not empty them: only the count protects from
handing that out. If the page heap refuses, `RemoveRange` and `AllocBig` use a
null span: the thread goes to `"nullptr"` and the process ends. `size_` of the
thread cache is written and never read; it is left out. `FreeBig` is not
reachable in the code (section 6) and so has no action. `Request`, `Alignment` and
`Asked` are what the operators new add to a size before `Malloc` sees it; `Delete`
is every operator delete, which looks the object up without a test for null.

### `TCSizeMap`

No state: the four tables a build may have, `AlignmentForSize`,
`IndexOfSizeToClass` and `Initialize`, whose loop over sizes is a function on the
classes before. `SizesHaveTheirClass` compares every size up to 256 KB with the
smallest class that holds it.

### `AsyncThread`

| variable | code |
|---|---|
| `future[u][s]` | the members of the `AsyncFuture` variables of each user |
| `heap` | runnables, thread objects and arguments that are allocated |
| `thread_id_`, `joinable_`, `lock_` | members of the thread objects |
| `counter`, `seen` | the static `thread_id` of `SetupThread` and what was read of it |
| `tpc`, `ThisThread`, `ready` | where the new thread is, its thread-local number, fulfilled promises |

`Launch`, `Create` or `CreateFailed`, `ReadCounter`, `SetupThread` are
`AsyncLanuchAsync`; the result is assigned through the steps of `operator=`
(`ExitGet`, `Kill`, `Join`, `DeleteParam`, `DeleteThread`, `DeleteRunnable`,
`Assign`), which are also the destructor's. `RunLock`, `RunCopy`, `Run` and
`RunStore` are the new thread. Reading and writing the counter are two steps
because the lock of a thread object is no protection against another object.
`Kill(false)`, `Suspend`, priorities and affinities are not used by `Async` and are
left out.

### `TaskGraph`

`conf` is what the set-up calls have established: dependences, loops, holds,
time-out strategies, fences, bindings, invisible elements, elements that may fail,
threads, and how often `Process` runs. `IsConfig` holds the checks of the set-up
calls (`CheckSuitable`, `MakeSerial`, the order of registration).

| variable | code |
|---|---|
| `main` | the thread in `Process`: where it is, what it has still to visit |
| `stack[t]` | the frames of `FatProcessor` and `AfterElementRun` in thread `t`; an engine that starts the last ready successor in place makes them nest |
| `tasks` | committed to the pool and not taken |
| `cur`, `repo` | `cur_state_` of elements and repository |
| `done`, `left`, `triggered` | `done_`, `left_depend_`, `trigger_times_` |
| `fut[e]` | `async_result_`: which call it belongs to and how it stands |
| `engine` | whether it exists, `finished_end_size_`, `run_element_size_`, `cur_status_` |
| `control` | a thread that calls `Cancel`, `Yield` or `Resume`, element by element |
| `ran`, `failed`, `stopped` | history, for the properties |

`Start`, `NextRound`, `RunUser`, `RunFence`, `AwaitReady`, `AwaitTimeout`,
`CheckYield`, `HoldAsync`, `Doze` are `FatProcessor` (`holds[e]` says how often `IsHold`
asks for another run in a round); `Finish`, `CountDown`, `StartReady`, `Leave`
are `AfterElementRun`, whose last part takes the lock; the actions `Main...` are
`Process` in the order of the code; `Call` and `Pull` are `PullAllState`. A wait
that was entered with the predicate false is a step of its own (`Doze`), because
`PullAllState` notifies without the mutex. `left_depend_` is unsigned and wraps at
`DependModulus`. An element's `Run` succeeds, fails or throws. `Destroy` does not wait for
a thread that has still to take `lock_` of the engine (`TaskGraphDynamicEngine.cpp:104`):
such a thread (`Dangling`) gets the lock or never comes back.

### `TaskGraphStaticEngine`, `TaskGraphMaxParaOptimizer`

| variable | code |
|---|---|
| `sched` | `para_cluster_arrs_`; a level that is being made is at its end |
| `counted` | `run_element_size_`: of clusters in `Analyse`, of elements in `Run` |
| `done`, `left` | `done_` and `left_depend_` of every element |
| `level`, `place` | the cluster the loop of `Analyse` or of `Run` is at |
| `jobs` | the committed clusters, with how far their thread is and how the future stands |
| `ran`, `failed` | history: how often an element ended in this run, whether a run was left |

`Analyse` is a machine of its own, a step for each element it puts into a cluster:
`SetupHead` begins a cluster with the next element the loops meet that can run
(`Heads`, `Earlier`), `SetupLink` adds the element linked behind the last one,
`SetupBuilt` ends a level when there is neither, and `SetupMock` is `Process(true)` of
one cluster of it, on the real counters. `run_before_` is a set of addresses, and its
order is left open. `MainInit`, `MainRun`, `MainCommit`, `MainGet`, `MainGetError`,
`MainCheck`, `MainDestroy`, `MainJoin` are the pipeline thread, `JobBegin`,
`JobElement`, `JobError` a cluster on a thread of the pool. A job of a run that was
left goes on with the elements of that run. `GetMaxParaSize` is computed by the
paths, the pairs on no common path and the backtracking of the code; `Width`, by
which it is judged, is the largest set of elements none of which needs another.

The properties are stated while the state `IsSound`: no run has been left because of
an error, and a graph with a cycle is judged after its first `Init` only. Section 6
says what the code does otherwise.

### `GraphTaskThreadPool`

A thread that looks for a task tries locks and never waits for one, so it may take
from any of the queues of its round (`Round`, `Taken`), each from the end the code
takes from; `Pass` is a round that got nothing. `Begin`, `Commit`, `Create`,
`PushPriority`, `Finish` run a task, which may commit another task or create
secondary threads. `Owner...` are `Setup`, `Commit`, `ReleaseSecondaryThread` and
`Exit`. The index counter of `Dispatch` is changed without a lock: any index may
come out of it. Stealing in batches takes nothing, as in the code, which puts the
stolen tasks into the batch and drops them from it again.

### `Matrix`

Numbers are fractions in lowest terms: the algorithms are checked, not their
rounding, and a pivot is too small only when it is zero. `Decompose` runs
`NextColumn` (`PivotRow`, `Exchange`, `Eliminate`) column by column; `Forward`,
`LUPSolve` and `Inversed` solve from it. `Leibniz` is the determinant by definition.

## 3. Runs, bounds and what they show

| run | configuration | distinct states | shows |
|---|---|---|---|
| `queue` | `MCProducerConsumerQueue.cfg` | 108 k | no lost wakeup, sizes, `ImplementsQueue`, pops return after `Stop`, every value is taken |
| `thread_safe_queue` | `ThreadSafeQueue.cfg` | 157 k | two locks, one list; `ImplementsFifo` |
| `pool` | `WorkThreadPool.cfg` | 213 k | stealing, batches, start-up; `ImplementsWorkService` |
| `pool_timer` | `WorkThreadPoolTimer.cfg` | 282 k | timers and secondary threads: every future released; `Exit` against them and against thieves: deletion of the queues, `Exit` returns |
| `pool_startup` | `WorkThreadPoolStartup.cfg` | violation | a refused primary thread (section 6) |
| `page_cache` | `TCPageCache.cfg` | 1.75 M | partition of pages, both levels of the map, lists, merging step by step, `ImplementsPageAllocator` |
| `tc_malloc` | `TCMalloc.cfg` | 1.1 M | every object in one place; nothing leaks; sizes have their class |
| `tc_big_free` | `TCMallocBig.cfg` | violation | freeing a big object (section 6) |
| `task_graph` | `TaskGraph.cfg` | 832 k | the dynamic engine in a pipeline; `Process` comes back |
| `graph_pool` | `GraphTaskThreadPool.cfg` | 114 k | tasks run once, `ImplementsTaskService`, `Exit` returns |
| `computations` | `Computations.cfg` | 91 k | schedules of all graphs of four elements, their runs, matrices |
| `async` | `AsyncThread.cfg` | 275 k | who owns and frees what; numbers of threads; calls return |

The bounds, and why the interesting cases happen inside them:

- `queue`: a producer, two consumers, two values, batches of two, consumers in a
  loop. Two sleepers against one notification are what a stolen wakeup takes; that
  more producers add nothing to the safety is what the proofs of section 5 show, the
  refinement among them. No symmetry, which would not be sound for liveness. `SizeModulus` = 4
  stands for 2^32: it is larger than the number of values, and small enough that the
  decrement below zero and the wrap really occur; the proof covers every modulus.
- `thread_safe_queue`: two threads at each end, so that both locks are contended;
  four nodes, which is the dummy, one node for each producer and one that waits to
  be deleted. With four nodes addresses come round while other calls are running;
  a producer that finds none left waits, for running out of memory is not modelled.
- `pool`: two primary threads, each the neighbour of the other, two works and a third
  one that the first commits and whose `Init` fails. Two queues take three works, so
  one queue holds two at once: a cache is filled with a batch, a thief takes the work
  that is left in it and adds what its own queue has. Secondary threads are left to
  `pool_timer`: with three works they are beyond the time a run may take.
  `IndexModulus` = 4 stands for 2^32 of the round robin index: `PoolSize` divides
  both, so the order of queues is the same across the wrap.
- `pool_timer`: two primary threads, which steal from each other while `Exit` stops one
  after the other, a secondary thread that the monitor creates or joins at any time, also
  while `Exit` begins, and a timer work that asks for two runs, so that a run is not the
  last and a primary thread pushes the work back while `Exit` deletes the timer queue.
  Five threads race for it, and to `Exit` it matters only where it is: in a queue, a
  cache, a thief's hands, a timer or a run.
- `page_cache`: six pages, grown in threes, lists for one and two pages and one
  list for more, requests up to four, leaves of three pages. Six pages hold two
  growths that become neighbours, a span with free neighbours on both sides and
  across two leaves, and cuts of every list.
- `tc_malloc`: two threads, two pages, a class with two objects to a span and a
  class with one, and big objects. Two threads are what remote frees take; two
  objects make spans full, half full and empty; two classes compete for pages.
  The maxima of the lists are cut to 4 and 1 (from 8192 and 3) to let the
  adaptation come round. The size map is checked at its real size, for all four
  builds and every size.
- `task_graph`: four elements make a diamond (a join and two successors at once), a
  graph with two fronts and two ends one of which has two predecessors, and a chain;
  two pool threads and the calling thread. Among the seven pipelines are a failing
  element, two runs in a row, each time-out strategy, loops, holds, a fence, bound
  and hidden elements, and the serial pipeline without threads; a controller calls
  up to twice. `DependModulus` = 5 is larger than any number of dependences.
- `graph_pool`: three tasks. Three thieves, batches, secondary threads only, a
  priority, a task that creates threads against an owner that releases one, and
  commits from every kind of thread are seven pools. `MaxPrimary` = 3 is the largest
  number of primary threads among them, `Slots` the secondary threads one can have.
- `computations`: all 4096 graphs of four elements, those with cycles too; a binding
  that splits a chain, failing elements, a second run and a second `Init`. 512
  matrices of three rows and 1296 of four, singular ones, permutations, ties and
  fractions among them.
- `async`: two users, two futures each, two calls one of which may fail to get a
  thread.

Deadlock is checked in `queue`, `thread_safe_queue`, `pool`, `pool_timer`,
`page_cache` and `tc_malloc`: where these systems may stop, the module has an
explicit end (`Terminated` after `Exit`, or from the moment on that a thread is
lost in the deleted timer queue, after `Clear` and after the destructor, the
end of the process in `TCMalloc`). It is not checked in the other four: a pipeline
ends after `Process`, sleeps when nobody resumes it, and stops when an exception
leaves it; a pool ends after `Exit`; a computation ends; and an asynchronous call
may wait for a thread that does not exist. What must not be stuck there is said by
`ProcessEnds`, `EveryTaskRuns`, `ExitReturns`, `RunsAreComplete` and `CallsReturn`.

What the properties say:

- `NoLostWakeup`: while a consumer sleeps, the number of queued values is at most
  the notifications still to be sent plus the consumers awake that will look.
- `NobodySleepsThroughStop`, `StopReleasesConsumers`: the two sides of `Stop`.
- `SizeAccounting`: the counter and the list differ by the calls in flight.
- `EveryValueIsTaken`: while consumers keep calling blocking pops.
- `NoUseAfterFree`, `NodesAccounted`, `ImplementsFifo`: the two ends of a
  `ThreadSafeQueue` never meet in a deleted node, lose or cross no node, and
  behave as one FIFO queue.
- `PoolConsistent`: a live work is in exactly one queue, cache, list, timer or hand,
  and nobody holds a deleted one; a thief finds all runnables in place although it
  tests the flags of the pool only once.
- `QueuesStoppedBeforeDelete`, `OnlyLateTimerPushesDangle`, `ExitReturns`: the order of
  shut-down. `Exit` deletes a queue of the pool when no thread is in a push, a take, a
  `Stop` or a look at its size on it, and none runs on when it returns. The timer queue it
  deletes under primary threads in `PushTimerBack`, which the second property admits as
  the only such call (section 6); `Exit` returns unless one of these keeps it.
- `EveryFutureIsReleased`, `ImplementsWorkService`: what the committer relies on.
- `PagesPartitioned`, `FreeSpansListed`, `GrownHeapServes`, `ImplementsPageAllocator`:
  the page heap. `MapObjectToSpan`, which takes no lock, is right at every step of any
  call for the pages of a span in use; the pages that are being merged are excepted from
  what is said of free ones, for their entries lead to deleted spans until `RecordSpan`.
  Free neighbours are merged, and a lookup finds a leaf for every page ever recorded.
- `ObjectsAccounted`, `FetchServes`, `NothingLeaks`: the caches. `SizeMapServes`: every
  size has the smallest class that holds it, in all four builds, with the exceptions
  named in section 6.
- `DependenciesFirst`, `StartedOnce`: an element runs when all it depends on is done
  and the results its fences wait for are there, and once however many predecessors
  end at the same time.
- `QuietAfterRun`: when a run ended well nothing of it is left but threads that have
  still to take `lock_` of the engine (which `Destroy` may have deleted: section 6), and no
  result of `kHoldByPipeline` is outstanding when the pipeline goes on, but for elements
  whose `IsHold` asks for more runs, of which `Reset` sees the last call only.
- `EveryElementRuns`, `ProcessEnds`: loops and holds are kept; `Process` comes back
  unless somebody keeps it yielded or a thread never leaves the lock of a deleted engine.
- `NobodyUsesDeletedThread`, `ImplementsTaskService`, `EveryTaskRuns`: the pool of the
  task graph; the tasks of secondary threads are the one exception to the first, and
  `ExitReturns` there excepts a task whose use of a deleted thread never returns.
- `ScheduleIsEarliest`, `RunsAreComplete`, `MaxParaIsWidth`: schedules contain every
  element that can run, in clusters, none later than it must; a run whose check
  passes is complete; `GetMaxParaSize` is the width of the graph.
- `InverseIsInverse`, `ProductsAgree`: the matrices.
- `ObjectsOwned`, `ThreadSeesItsId`, `CallsReturn`: asynchronous calls.

## 4. Fairness

- Queue (`FairSpec`): a thread inside a call keeps running (weak fairness of the
  steps of each thread) and a thread that keeps finding `lock_` free gets it
  (strong fairness of the acquisition; the critical sections are finite and the
  mutex of the platform is not expected to starve a thread for ever). Nothing
  makes a caller call, a time point pass or a spurious wakeup happen.
  `LoopSpec` adds that consumers call blocking pops again: the loops of
  `WorkThreadPrimaryRunnable.cpp:13` and `WorkThreadSecondaryRunnable.cpp` do.
- Pool (`FairSpec`): every thread keeps running, `Work()` returns, a deadline
  passes in the end, and a primary thread that keeps finding its own cache lock
  free gets it; thieves only try it. The user need neither commit nor call
  `Exit`. A thread in the deleted timer queue does not run on.
- Task graph (`FairSpec`): threads run on, `Run` of an element returns, a time-out
  expires in the end and a call of the controller that has begun goes on; nobody has
  to call it, and nothing wakes up by itself. A thread at the lock of a deleted engine
  need not go on.
- Pool of the task graph (`FairSpec`): threads run on, and among the threads that try
  locks again and again one gets its lock once (strong fairness of `Take` over all
  threads together, not of each). Nobody has to commit or to exit, and a thread that
  committed to a deleted one (`misused`) need not go on.
- Asynchronous calls (`FairSpec`): a call that has begun and a thread that was created
  keep running, and the function returns. Nobody has to make another call.
- The static engine and the allocator have no liveness property.

## 5. Proofs

`ProducerConsumerQueue_proofs` proves for any finite sets of producers and
consumers, any set of values and any `SizeModulus`:

| theorem | states |
|---|---|
| `TypeCorrect` | `Spec => []TypeOK` |
| `WakeupsKept` | `Spec => []NoLostWakeup` |
| `StopWakesAll` | `Spec => []NobodySleepsThroughStop` |
| `StopIsFinal` | `Spec => NothingTakenAfterStop` |
| `RoughSizeIsRight` | `Spec => []SizeAccounting` |

They rest on `ThreadsAssumption` (the sets of threads are finite and disjoint)
and `BoundsAssumption` (the bounds are positive numbers).

`TypeOK` alone is not inductive: a pop that unlinks a value from an empty list
leaves the type. The inductive invariant is `BaseInv`, the conjunction of

- `TypeOK`;
- `LockInv`: a thread owns `lock_` exactly while it is in a critical section;
- `StopInv`: `has_stop_` is set exactly when the stopping thread is past `StopSet`;
- `CallInv`: a consumer about to sleep has seen an empty queue that is not stopped,
  and one in the loop of a pop has a value to take.

`CallInv` holds across the steps of the other threads because they need the lock,
by `LockInv`. `WakeupsKept` adds a count: each step that removes a waker from
`Signalling` or `Looking` also removes a value or a sleeper; the lemma
`WakeupsGrow` covers all steps that do not, and facts about cardinalities do the
rest. `StopWakesAll` uses that no sleeper is added once `has_stop_` is set.
`RoughSizeIsRight` needs lemmas on remainders, which the solvers do not know of
a modulus that is a parameter.

The same module proves `QueueImplements`, `Spec => ImplementsQueue`:
the queue implements `StoppableQueue`. The refinement mapping counts what the loop of a
pop is going to take (`Promised`) as taken from the moment it found the queue not
empty. `BaseInv` does not say enough of the data; `QueueInv` adds

- `ValueInv`: a value is in one place, so a push never links one that is queued;
- `ResultInv`: a call has nothing before its loop and something after it, and a single
  pop takes one value, a batch at most `MaxNum`.

Then `PushLink` is `Put`, `PopFound` is `Take` of all that is promised, `PopReturn` is
`Return`, `StopSet` is `Stop`, and each unlink of the loop (`UnlinkUnseen`) moves one
value from what is promised to the result, which `StoppableQueue` does not see: by
`LockInv` there is never a second consumer in its loop (`OneTaker`).

The second part of `EngineAndQueue_proofs` proves of `ThreadSafeQueue`, for any sets of
threads, nodes and values, under
`QueueAssumption` (producers and consumers are disjoint, there is a thread and a
node, the null values are none of the others), every property of the run:

| theorem | states |
|---|---|
| `TypeCorrect` | `Spec => []TypeOK` |
| `NodesKept` | `Spec => []NodesAccounted` |
| `NodesAlive` | `Spec => []NoUseAfterFree` |
| `QueueIsFifo` | `Spec => ImplementsFifo`: the refinement of `FifoQueue` |

The inductive invariant `IInv` is `TypeOK`, `NodesAccounted`, `LockInv` (each lock is
held exactly by the thread in its section), `TailInv` (`tail_` is the last node, or
the producer between its two writes has that node in hand), `CallInv` (what a call
knows of its node, and that a consumer in its section holds the first node) and
`GoneInv` (the destructor runs alone). `NodesAccounted` needs all of them: a push
keeps the list in one piece because `tail_` is its last node, and a pop because its
`temp` is the first. The lemma `EndsKnown` puts this together once for the other
proofs; `NextChain` and `NextHeap` follow the list and the ownership of nodes step
by step. That the destructor frees every node is an induction along the list;
`ChainVisited` does it with `LeastElement` (a set of numbers has a least element,
from the library's well-founded relations), which takes no operator parameter.
`QueueIsFifo` then shows that `PushLink` is `Put`, `PopLock` is `Call`, `PopEmpty` is
`Miss`, `PopTake` is `Take`, and every other step changes nothing that `FifoQueue`
sees.

`AsyncThread_proofs` proves for any sets of users and futures and any finite set of
tasks, whichever of their threads cannot be created, under `AsyncAssumption` (users,
tasks, futures, the temporary future and `Null` are told apart):

| theorem | states |
|---|---|
| `Invariance` | `Spec => []IInv` |
| `ObjectsAreOwned` | `Spec => []ObjectsOwned` |
| `ThreadsSeeTheirIds` | `Spec => []ThreadSeesItsId` |

`ObjectsOwned` is not inductive: whether a `delete` is the only one depends on how far
the `Exit` of the future is, and on what the thread has still to do. `IInv` is
`TypeOK` with

- `LaunchInv`: a call that starts a task holds its `lock_`, which keeps the new thread
  out, and nobody else knows the task;
- `CallInv`: the temporary future of a call is empty but while its result is moved;
- `OwnInv`: what belongs to one future, and to no other: its runnable, and its thread
  object with a number and an argument unless its `Exit` has taken them;
- `HeapInv`: what is allocated belongs to a starting call or to a future;
- `ExitInv`: how far `Exit` is, in particular that the thread has ended before the
  argument, the thread object and the runnable are deleted, in this order;
- `AliveInv`: a thread that has not ended finds all its objects;
- `ThreadInv`: the state of the promise follows the thread, and the thread copies its
  number while it is there;
- `CounterInv`: unless two calls met at the counter, it is above all numbers given out
  and they differ.

`AliveInv` across a deletion needs `ExitInv` (the thread was joined) and `OwnInv` (no
other future owns the object); `CurOwned`, `CurGone` and `CurDistinct` say this once,
and `OwnFrame`, `HeapFrame`, `ExitOthers` and `CounterFrame` cover what a step leaves
alone. A thread that `Kill` overtakes has copied its number already, because `Exit`
waits for the result first: that is `ThreadInv` with `ExitInv`.

`TCPageCache_proofs` proves for a heap of any size, any `kMaxPages`, any portion in
which the system grants pages, requests and leaves of any size, under
`PagesAssumption` (these are positive numbers), every property of the run:

| theorem | states |
|---|---|
| `Invariance` | `Spec => []IInv` |
| `PagesHaveTheirSpan` | `Spec => []PagesPartitioned` |
| `ListsHoldFreeSpans` | `Spec => []FreeSpansListed` |
| `SecondSearchServes` | `Spec => []GrownHeapServes` |
| `PageCacheImplements` | `Spec => ImplementsPageAllocator` |

The properties need each other: a cut is right only if the span it starts from was
found in a list of free spans, a merge only if the page map leads to the neighbour,
and a list holds a span once only because its size says which list. `IInv` is their
conjunction in a form that the steps keep:

- `TypeOK`; `Mapping`: what the page map holds lies in a leaf that exists, so a leaf
  that is created later shows nothing old, and `GetSpan` is the entry (`Reached`);
- `Partition`, `Listing` and `Separate`: the properties, without the leaves and the
  counting, and while a merge is at work without the span at work (`merging`);
- `Merge`: that span is not in use and meets no other, its pages are the system's and have
  their leaves, and outside of them the map is right (`Apart`); `Joined`: when it is through with a side, no
  free span lies there (`NoneBefore`, `NoneBehind`);
- `Calls`: what the caller has asked for between the steps, that the span found is its
  own size and in no list, and that the second search has something to find.

Two lemmas carry the weight: `CutKeeps` (either end of a span may be kept, the rest is
a new span) and `AbsorbKeeps` (the span at work takes in a neighbour on either side),
with `NothingKeeps` for a side where there is none to take. `Neighbour` says that the page
beside the span at work leads to the span that begins or ends exactly there, because the
map leads from each page outside the merge to one span. `PagesHaveTheirSpan` holds in the
middle of a merge because what is taken in was free: no span in use loses an entry.
`NewSpanExists` is the pigeonhole principle: spans have different first pages.
`EveryLeaf` shows that `Ensure`, which looks at the first page and at the beginnings of
leaves, reaches the leaf of every page.

`TCMalloc_proofs` proves for any threads, any table of size classes that ascends and
whose spans hold an object, any alignments, sizes and limits, and a heap of any size,
under `TablesAssumption`, every property of the run on `TCMalloc` itself:

| theorem | states |
|---|---|
| `HeapInvariant` | `~FreesBig`: `Spec => []IInv` |
| `ObjectsStayAccounted` | `~FreesBig`: `Spec => []ObjectsAccounted` |
| `FetchAlwaysServes` | `~FreesBig`: `Spec => []FetchServes` |
| `NothingEverLeaks` | `~FreesBig`: `Spec => []NothingLeaks` |

The hypothesis says that the program frees no object above `kMaxSize`. It cannot be
dropped: the run `tc_big_free` and section 6 show what `TCFree` makes of such an object.
Allocating big objects, running out of memory and null deletes are covered.

A property of one list is never enough, for an object passes through four kinds of
containers: the program (`live`), the list of a thread, the batch of a thread that is in
`InsertRange`, and the span it came from. `IInv` is

- `TypeOK`; `SpanInv`: spans in use do not meet, one in the list of a class has the sizes
  of that class, and one in no list serves a big object;
- `HomeInv`: a listed span has an object outside, and the first
  `Capacity - allocated_num_` entries of its `free_list_` are objects of its own, all
  different. What an earlier life left lies behind them;
- `ListInv`: the spans of a list differ and the full ones are last;
- `Disjoint` and `NoneTwice`: no object is in two containers or twice in one;
- `KindInv`: the lists and batches hold objects of their class only, and every object of
  a listed span is in a container;
- `CallInv`: who has a batch, and that a thread that is not there has no cache.

Every step hands a set of objects from one container to another; the lemma `Moving` says
once that this keeps `Disjoint` and every object held, and the lemma of each action names
the containers. Two need more. `RemoveRange` moves objects from a span to the program and
to a list at once (`ThreeParts`). `InsertObject` gives a span back when `allocated_num_`
was 1: then the pushed object was the only one outside, because the others at home are
different and as many as a span has but one (`DistinctCount`, `AllButOne`), so that no
container holds an object of the pages that go (`GoesBack`). `ObjectsFacts` and
`SpanOfObject` are the arithmetic: objects of a span lie inside its pages and the page of
an address leads back to it. `Unlinking` and `PuttingBack` show that a span taken out of a
list and put in front, or last when it is full, leaves the full ones last.

`WorkThreadPool_proofs` proves for any size of the pool, of the caches and of the
thresholds of the monitor, any works with any `times_`, any children, any set of works
whose `Init` fails, and however many primary threads the system grants, under
`PoolAssumption` and `WorksAssumption`:

| theorem | states |
|---|---|
| `PoolInvariant` | `Spec => []IInv` |
| `PoolStaysConsistent` | `Spec => []PoolConsistent` |
| `QueuesAreDeletedUnused` | with `StartedThreads = PoolSize`: `Spec => []OnlyLateTimerPushesDangle` |
| `PoolImplements` | `Spec => ImplementsWorkService` |
| `StartedPoolStopsItsQueues` | with `StartedThreads = PoolSize`: `Spec => []QueuesStoppedBeforeDelete` |

Whether a queue may be deleted depends on which threads have ended, that on how far
`Exit` is, and that on what the monitor was doing when `Exit` began. `IInv` says these
first, and then where the works are:

- `TypeOK`, `ControlInv`, `CallInv`: where each kind of thread can be, and that it has an
  argument exactly while it pushes and a work exactly while it runs one;
- `SecondaryInv`, `ChangeInv`: secondary threads are numbered without gaps, and how far a
  change of their number is, whether by the monitor or by `Exit`;
- `MainInv`: what is true at each stage of `Initialize` and `Exit`: which runnables and
  queues exist, and which threads have ended;
- `StealInv`: a thief has an empty cache and at most half of another one in its hands, so
  that nothing overflows, and it steals only while all runnables exist;
- `Disjoint`, `NoneTwice`, `LiveInv`: no work is held by two of the queues, caches,
  thieves, timers, calls and workers; what is held is live, and until `Exit` what is live
  is held; a future is released only when its work is deleted.

The first six are shown by frames: a lemma for each group of actions says what the step
leaves alone of the other threads. For the works the lemma `Onward` says of every step
that it gives one work, or a sequence, from one container to another, deletes it, or
loses it after `Exit`; `NextWorks` needs no more. In the refinement a commit is
`Commit`, `RunBegin` is `Start` or, where `Init` fails, `Reject`, the end of a run is
`FinishOne`, `FinishLast` or `FinishNone`, what `Exit` deletes with its owner is
`DropAll`, and all stealing, batching and pushing is invisible because `Doing` and
`Status` do not change.

`QueuesStoppedBeforeDelete` is false when a primary thread is refused (section 6), so its
theorem assumes that none is. `StoppedInv` is added to `IInv` for it: in the loop of `Exit`
every queue below `idx` is stopped, and after the loop all are. That the theorem needs
nothing else shows that the loop of `Initialize` is the only way to the violation.
`QueuesAreDeletedUnused` assumes the same, for `Initialize` deletes these queues under the
threads it did start. It names every call on a queue of the pool, and of the timer queue
says who may be inside of it after its end: primary threads in `PushTimerBack`, no other.

`TaskGraph_proofs` proves for any finite graph, any loops, holds, time-outs and fences
that the set-up calls accept, any number of threads, runs and calls of the controller,
under `GraphAssumption`, every safety property of the run:

| theorem | states |
|---|---|
| `GraphInvariant` | `Spec => []IInv` |
| `GraphStartsOnce` | `Spec => []StartedOnce` |
| `GraphResults` | `Spec => [](IInv /\ ResultInv)` |
| `GraphDependsFirst` | `FencesInPlace` of every configuration: `Spec => []DependenciesFirst` |
| `GraphIsQuiet` | `Spec => []QuietAfterRun` |
| `GraphRunsAll` | `Spec => []EveryElementRuns` |

Nobody in the code knows which elements a run has still to do: there is `left_depend_`
of each element and `finished_end_size_` of the engine, and the rest is where the threads
are. `IInv` says what these numbers count:

- `TypeInv`, `StackInv`: the calls of a thread are nested as `AfterElementRun` nests them,
  so that all frames below the first have nothing left to do, and belong to no end;
- `OnceInv`, until a run fails: an element on its way is in one place only (`Containers`,
  `Contents`: a front still to be started, a task of the pool, a thread that runs it, or a
  successor a thread is going to start). An element on its way or done has been counted
  down by all it depends on; of any other, `left_depend_` is the number of those that have
  not (`Missing`). The engine counts what is done and the ends that are through
  (`Passed`). Between two runs nothing is on its way.

The lemma `AllDone` concludes from the counted ends that all elements are done: of those
that are not done one is last (`LastElement`); it is no end, so it has a successor that is
done, which it must have counted down. A run that has failed is left out
everywhere, for `Wait` returns from it while elements still run, and `Destroy` or the next
run meets them.

`ResultInv` adds what belongs to the results:

- `StateInv`, `PathInv`: unless somebody cancelled or yielded, elements are normal or
  over their time, and only those with a time-out are called in the pool;
- `CallsInv`: an element that somebody waits for has one call in the pool, it is the one
  its future belongs to, and it was made in this run or `Reset` is going to wait for it;
- `FenceInv`: what a fence has got (`Got`) does not run any more, and behind a fence
  nothing it is for does (`Quiet`). A fence comes after what it is for, so that these
  elements are done and start no call before the next run (`FencedDone`);
- `RanInv`: in each round, how often `Run` was called is `i * (holds + 1) + held`.

One hypothesis says what the code leaves to who builds the graph, and TLC finds the
property violated without it. `FencesInPlace`: a fence is visible, has no time-out and a
round, and comes after the elements it waits for, which are not held; otherwise it waits
for nothing or not for all. `PipelinesFit` has TLC check that the pipelines of the run are
such. `GraphIsQuiet` needs none, because `QuietAfterRun` states its two exceptions itself:
threads at `lock_` of the engine, and elements of the strategy `kHoldByPipeline` that are
held (`AsyncRun` forgets a call of theirs that is over its time, and `Reset` waits for the
last one only).

`GraphTaskThreadPool_proofs` proves for any numbers of primary and secondary threads, any
tasks, batch sizes, steal ranges and priorities, under `PoolAssumption`:

| theorem | states |
|---|---|
| `PoolControl` | `Spec => []ControlInv` |
| `DeletedThreadsRest` | `Spec => []NobodyUsesDeletedThread` |
| `GraphPoolInvariant` | `CommittedOnce` of every configuration: `Spec => []IInv` |
| `GraphPoolImplements` | `CommittedOnce` of every configuration: `Spec => ImplementsTaskService` |

`PoolAssumption` says that the configuration passes `GraphTaskThreadPoolConfigCheck`, that
counts fit their width, and that the names of secondary threads (`Slots`) and of the
`Owner` are no numbers, which name the primary threads. `ControlInv` is what the threads
and the owner know of each other, whatever the tasks do:

- `OwnerInv`: the owner commits and creates between `Setup` and `Exit` only, and the
  primary threads are deleted in the two last stages;
- `PrimaryInv`, `SecondaryInv`: which threads have not been started yet, which have been
  joined, and that those that have been joined have ended. A secondary thread may still be
  created by a task while `Exit` joins; it goes to the end of the vector, so `Exit` has
  not passed it;
- `HandsInv`: a thread has tasks in its hands from the moment it takes one until it has run
  the last, and commits only what the first of them commits.

`DeletedThreadsRest` follows: a caller that still pushes when the primary threads are
deleted is no primary thread and not the owner. `IInv` adds where the tasks are:

- `Disjoint`, `NoneTwice`: a task is in one queue, in the hands of one thread, with one
  caller that is going to commit it, or done, and once in a sequence;
- `NotYetInv`: what a task commits is nowhere before that task runs, so that `Begin` gives
  its caller a task that nobody has. This needs `CommittedOnce`: a task that two others
  commit is run twice by the code, too. `PoolsFit` has TLC check it of the seven pools.

The lemmas `PartsOf`, `CutParts` and `RemoveParts` say that whatever a pop, a steal, a
batch or the priority queue takes and what it leaves are the parts of the queue. `Effects`
then says of every step that no task changes hands (`Still`), or a queue gives some to the
hands of a thread (`Moved`), or one task is begun, ended, pushed or handed to the owner;
`Disjoint`, `NotYetInv` and the refinement need no more. A push is `Commit`, `Started` is
`Begin`, `Ended` is `End`, `OwnerEnd` is `Close` because all threads have been joined, and
what moves between the queues and the hands is invisible.

The first part of `EngineAndQueue_proofs` proves of the static engine, for any graph (with
cycles too), any bindings, any elements that may fail, and any numbers of runs and Inits:

| theorem | states |
|---|---|
| `EngineInvariant` | `EngineSpec => [](EngineInv /\ Kept)` |
| `ScheduleEarliest` | `EngineSpec => []ScheduleIsEarliest` |
| `DependenciesRunFirst` | `EngineSpec => []DependenciesFirst` |
| `CheckedRunsAreComplete` | `EngineSpec => []RunsAreComplete` |

`EngineAssumption` says that an element does not depend on itself, as
`AddDependTaskGraphElements` sees to, and that a `size_t` can count the elements. The
schedule is the result of a simulated run that moves the counters of the real one, so the
invariant is about three things at once:

- `ScheduleInv`, the schedule while it is made: every element is in one place (`Once`), a
  cluster is a chain (`Chained`) that goes on as long as it can (`Ended`), its first
  element depends only on levels before its own, and on something of the last of them
  (`Begun`), and whatever needs only finished levels is in one of them or in the next
  (`Complete`, `Closed`);
- `SetupInv`, why `IsRunnable` finds the right elements: while `Analyse` runs, `done_`
  says who has been mocked, and `left_depend_` of the others counts what they depend on
  that has not (`Counters`). The count that ends `Analyse` is one of clusters, of which
  there are no more than mocked elements, so that it never ends it early (`SetupCount`).
  A later Init of a graph without a cycle finds all elements done (`Later`);
- `RunInv`, a run against the schedule: the jobs are the committed clusters of the level
  (`Jobs`), an element has run once if its place is behind the run (`HasRun`, `Rans`), the
  count is that of the committed places (`RunCount`), and an element is not done only
  while its cluster runs or has failed (`AllDone`).

`LinkNew` and `HeadNew` show that an element that is added is new: a linked one because
the only element it depends on is last of its cluster, a head because all it depends on is
mocked while it is not done, and if it were linkable it would be behind that element
already (`LinkedBehind`). `LevelClosed` shows that a level without another head is
finished. `ClosedHasAll` and `NothingStuck` are the two halves of "the elements that need
nothing of a cycle": what a closed schedule lacks holds itself up, and of a set that does
and is in the schedule an element would come first. `Kept` says that a run that failed
leaves the schedule of the first Init, which `ScheduleIsEarliest` speaks of after a failure
too. Then a run needs no graph any more: `DependenciesIs` reads off the schedule that what
an element depends on is at places that have run, and `CompleteIs` that as many elements
as there are in all, each in one place, are all of them.

The two parts of this module do not cite each other.

Only model-checked: `MaxParaIsWidth`, `SizeMapServes` and the matrices
(`InverseIsInverse`, `ProductsAgree`), which are recursive functions over data, whose
induction this prover cannot do; `FreedSizeIsPositive`, which any big object that is
allocated in a new span makes false, freed or not (`HeapInvariant` says what holds while none is freed);
and all liveness (`StopReleasesConsumers`, `EveryValueIsTaken`, `ExitReturns`,
`EveryFutureIsReleased`, `ProcessEnds`, `EveryTaskRuns`, `CallsReturn`), which the prover
does not handle either (nor `ENABLED`, nor the induction theorems with an operator
parameter, nor recursive operators; no module here declares one).

## 6. Disagreements between the code and what it says of itself

- `pool_startup`: if the system refuses a primary thread, `Initialize` deletes
  queues that were never stopped, against the assertion of their destructor
  (`Container/ProducerConsumerQueue.h:80`), in a loop that compares
  `thread_size` with `pool_size`, neither of which it changes
  (`WorkThreadPool.cpp:28`). When none is refused the assertion holds
  (`StartedPoolStopsItsQueues`).
- `tc_big_free`: the span of a big object has no object size
  (`TCPageCache.cpp:129`), so `TCFree` takes the object for a small one and
  `IndexOfSizeToClass` meets the size 0 that its assertion excludes
  (`TCSizeMap.h:34`). `src/Test/Memory/PlatformMemoryTest.cpp` frees such blocks.

Met while reading, and modelled as it is where a module covers it:

- The pool: `PushTimerBack` may reach the timer queue after `Exit` deleted it
  (`WorkThreadPool.cpp:170` against 56); secondary threads are created with the loop
  counter as id and so never serve queues from 2 on
  (`WorkThreadMonitorRunnable.cpp:22`); arguments are moved from on every run of a
  repeating timer (`WorkRunnable.h:42`).
- The allocator: `ListTooLong` reads the overages of list 0 (`TCThreadCache.cpp:95`);
  an operator delete of a null pointer looks up its page and ends the process
  (`MallocTC.cpp:37`); the build with 256 KB pages and 16 byte alignment has two
  classes, 472 and 24567, that are no multiples of the step, so that the sizes 465 to
  480 and 24449 to 24576 get the class of 8 bytes (`TCSizeClasses.h:335`); `Realloc`
  copies as many bytes as the unset size of a big block says (`MallocTC.cpp:77`);
  the system allocator tests the result of `mmap` against `NULL`.
- Threads: two calls of `SetupThread` may give out the same number, since the static
  counter is not protected (`LinuxPlatformThread.cpp:81`); the future of a call without
  a thread is never ready, and its destructor waits for it (`Async.h:66`).
- The task graph: `Resume` notifies without the mutex, so an element may sleep on
  (`TaskGraphElementRepository.cpp:53`); after an error `Run` returns while elements are
  still running (`TaskGraphDynamicEngine.cpp:76`), and after any run a thread may have to
  take the lock of an engine that `Destroy` deletes (line 104); the status of a run is replaced by
  that of `Reset` (`TaskGraphPipeline.cpp:64`); `Analyse` leaves `done_` true, so after
  `Destroy` and a second `Init` the schedule may be empty and the check of the run fails
  (`TaskGraphStaticEngine.cpp:75`); elements held up by a cycle keep what is left of
  their `left_depend_`, so a second `Init` may schedule one before what it depends on
  (2 after 1 and 3, 3 after 2: the second schedule begins with 2); `GetMaxParaSize`
  does not return for a cycle.
- Its pool: the monitor locks `secondary_threads_lock_` and then calls
  `CreateSecondaryThread`, which locks it again (`GraphTaskThreadPool.cpp:137`), and both it
  and `ReleaseSecondaryThread` go on with an iterator they erased; stealing a batch
  takes nothing (`GraphTaskStealingQueue.h:78`); a task committed as a long one waits for
  a secondary thread that nobody creates; a task on a secondary thread may commit to
  a primary one that is deleted.
- Mathematics: the assertion on the pivot of the 4x4 decomposition is the wrong way
  round (`Matrix.cpp:222`), the 4x4 determinant has the sign of an odd permutation
  whatever the rows (`Matrix.cpp:129`), `CrossProduct(a, b)` is b cross a, and the
  binary operator `/` of vectors and matrices changes its constant left side, which
  does not compile when it is used.

The `hazards` of `PROJECT.json` list these where they are a matter of order, time or
boundaries, with the properties that cover them, or the reason why none does.

## 7. What is not modelled

- `WorkFuture::Get`, which blocks on a mutex: a work that waits for another
  inside a pool thread can block it, which is a protocol between user works.
- The values of results, the bodies of works, deadlines and clock arithmetic.
- `TryRealloc` of the allocator (a `TCMalloc`, a copy and a `TCFree`, which the program of
  the model may call in this order too), `TCGlobals::Exit`, and the system calls below
  `TCSystemMalloc`, which is an environment that grants pages or refuses.
- `MallocAnsi` and the choice of an allocator at build time.
- Rounding of floating point numbers and the approximate roots of `Math`.
- Of the task graph: groups, regions, conditions, coordinators, mutable elements and
  the other adapters; the factory and manager of several pipelines and
  `AsyncProcess`; parameters, events, aspects, daemons and the timer, which are maps
  and callbacks around the run of an element; the monitor of its pool (it cannot get
  past its first busy round) and task groups; dumps and performance reports.
- Weak memory: the shared variables are atomics with sequentially consistent
  order or guarded by a lock, except where a hazard says otherwise. A test of
  `empty()` outside the lock of an `AtomicQueue` is an attempt that may fail.
- `Meta`, `Macro`, `Debug`, `Utility`: no run-time state.
- The Windows half of `Core/HAL`, priorities and affinities of threads.

## 8. Plan

1. Adapters of the task graph that contain elements (groups, regions, conditions)
   as elements whose `Run` is an engine of its own.
2. `AsyncProcess` and the pipeline manager, with several pipelines on one pool:
   `TaskGraph` over `TaskService` without the assumption of a free thread.
3. `WorkFuture::Get` inside a work: which graphs of waiting works a pool can run.
