--------------------------- MODULE WorkThreadPool ---------------------------
(***************************************************************************)
(* WorkQueue/: the pool of primary work threads with their queues, caches  *)
(* and work stealing, the timer thread, the monitor thread that adds and   *)
(* removes secondary threads, and the life of the pool from Initialize to  *)
(* Exit.  A queue operation is one step: ProducerConsumerQueue implements  *)
(* StoppableQueue.  Deadlines are not modelled: any timer may be next.     *)
(***************************************************************************)
EXTENDS Integers, Sequences, FiniteSets

CONSTANTS PoolSize,        (* kWorkThreadMaxPoolSize                       *)
          StartedThreads,  (* how many primary threads the system grants   *)
          MaxSecondary,    (* how many secondary threads it grants at once *)
          CacheSize,       (* kWorkThreadPrimaryCacheSize                  *)
          BusySize,        (* kWorkQueueWorkPoolBusySize                   *)
          VeryBusySize,    (* kWorkThreadSecondaryVeryBusySize             *)
          IndexModulus,    (* index_ counts modulo this: 2^32 in the code  *)
          Works, Null,     (* the work objects, and nullptr                *)
          Timed,           (* the works committed with CommitTimerWork     *)
          Times,           (* Times[w]: the times_ of w when committed     *)
          InitFails,       (* the works whose Init reports an error        *)
          Child            (* Child[w]: the work that Work() of w commits  *)

Ids          == 0..(PoolSize - 1)
Slots        == 1..VeryBusySize
Main         == <<"main", 0, 0>>   (* the thread that uses WorkQueue *)
Timer        == <<"timer", 0, 0>>
Monitor      == <<"monitor", 0, 0>>
Primary(i)   == <<"primary", i, 0>>
Secondary(i, k) == <<"secondary", i, k>>
Secondaries  == {Secondary(i, k) : i \in Ids, k \in Slots}
Primaries    == {Primary(i) : i \in Ids}
Workers      == Primaries \cup Secondaries
Threads      == Workers \cup {Main, Timer, Monitor}

ASSUME PoolAssumption ==
  /\ PoolSize \in Nat \ {0}
  /\ StartedThreads \in 1..PoolSize
  /\ MaxSecondary \in Nat
  /\ CacheSize \in Nat /\ CacheSize >= 2
  /\ BusySize \in Nat \ {0}
  /\ VeryBusySize \in 1..PoolSize
  /\ IndexModulus \in Nat \ {0}

ASSUME WorksAssumption ==
  /\ Null \notin Works
  /\ Timed \in SUBSET Works /\ InitFails \in SUBSET Works
  /\ Times \in [Works -> Int] /\ \A w \in Works \ Timed : Times[w] = 1
  /\ Child \in [Works -> Works \cup {Null}]

VARIABLES
  has_init_, has_stop_,            (* the flags of the pool                *)
  stop,            (* stop[t]: has_stop_ of the runnable of thread t       *)
  created,         (* size of primary_runnable_pool_                       *)
  runnables,       (* the primary runnables that exist                     *)
  index_,          (* round robin counter of PushBack                      *)
  work_pool,       (* work_pool[i]: the works in queue i                   *)
  queue_stop,      (* queue_stop[i]: has_stop_ of queue i                  *)
  queues,          (* the queues of work_pool_ that exist                  *)
  cache_queue_,    (* cache_queue_[i] of primary thread i                  *)
  lock_,           (* lock_[i]: owner of the lock of that cache            *)
  stolen,          (* stolen[i]: the result of the running StealWorks      *)
  timer_queue, timer_queue_stop,
  priority_queue_, (* the works the timer thread is holding back           *)
  secondaries,     (* secondaries[i]: size of secondary_threads_pool_[i]   *)
  serves,          (* serves[t]: id_ of the secondary runnable of t        *)
  wanted,          (* the size a Change call of main or monitor aims at    *)
  pc, back,        (* where each thread is, where its PushBack returns to  *)
  idx,             (* idx[t]: loop index over the pool                     *)
  target,          (* target[t]: queue picked, or loop index in Enlarge    *)
  work,            (* work[t]: the work a worker is busy with              *)
  arg,             (* arg[t]: argument of the running PushBack of t        *)
  state,           (* state[w]: fresh, live or deleted                     *)
  times_,          (* times_[w]: runs still to come                        *)
  promise          (* promise[w]: the future of w was released             *)

flagVars  == <<has_init_, has_stop_, stop>>
lifeVars  == <<created, runnables, queues, queue_stop>>
poolVars  == <<index_, work_pool>>
cacheVars == <<cache_queue_, lock_, stolen>>
timerVars == <<timer_queue, timer_queue_stop, priority_queue_>>
sizeVars  == <<secondaries, serves, wanted>>
loopVars  == <<idx, target>>
callVars  == <<work, arg, back>>
workVars  == <<state, times_, promise>>
vars == <<flagVars, lifeVars, poolVars, cacheVars, timerVars, sizeVars, pc,
          loopVars, callVars, workVars>>

At(t, l)   == pc[t] = l
Goto(t, l) == pc' = [pc EXCEPT ![t] = l]
Least(a, b) == IF a < b THEN a ELSE b
Without(s, k) == SubSeq(s, k + 1, Len(s))
Delete(S)  == state' = [w \in Works |-> IF w \in S THEN "deleted" ELSE state[w]]
Elements(s) == {s[k] : k \in DOMAIN s}
NextId(i)  == (i + 1) % PoolSize

Init ==
  /\ has_init_ = FALSE /\ has_stop_ = FALSE
  /\ stop = [t \in Threads |-> FALSE]
  /\ created = 0 /\ runnables = {}
  /\ index_ = 0
  /\ work_pool = [i \in Ids |-> <<>>]
  /\ queue_stop = [i \in Ids |-> FALSE]
  /\ queues = Ids
  /\ cache_queue_ = [i \in Ids |-> <<>>]
  /\ lock_ = [i \in Ids |-> Null]
  /\ stolen = [i \in Ids |-> <<>>]
  /\ timer_queue = <<>> /\ timer_queue_stop = FALSE /\ priority_queue_ = {}
  /\ secondaries = [i \in Ids |-> 0]
  /\ serves = [t \in Secondaries |-> 0]
  /\ wanted = [t \in {Main, Monitor} |-> 0]
  /\ pc = [t \in Threads |-> IF t = Main THEN "create" ELSE "unborn"]
  /\ back = [t \in Threads |-> "loop"]
  /\ idx = [t \in Threads |-> 0] /\ target = [t \in Threads |-> 0]
  /\ work = [t \in Threads |-> Null] /\ arg = [t \in Threads |-> Null]
  /\ state = [w \in Works |-> "fresh"]
  /\ times_ = Times
  /\ promise = [w \in Works |-> FALSE]
-----------------------------------------------------------------------------
(* WorkThreadPool::PushBack and PushTimerBack, called by every thread *)

StartPush(t, w, ret) ==
  /\ arg' = [arg EXCEPT ![t] = w]
  /\ back' = [back EXCEPT ![t] = ret]
  /\ Goto(t, IF w \in Timed /\ t # Timer THEN "timer_push" ELSE "push")

EndPush(t) == /\ Goto(t, back[t])
              /\ arg' = [arg EXCEPT ![t] = Null]
              /\ back' = [back EXCEPT ![t] = "loop"]
              /\ target' = [target EXCEPT ![t] = 0]

(* A stopped pool deletes the work. *)
PushStopped(t) ==
  /\ pc[t] \in {"push", "timer_push"} /\ has_stop_
  /\ Delete({arg[t]}) /\ EndPush(t)
  /\ UNCHANGED <<flagVars, lifeVars, poolVars, cacheVars, timerVars, sizeVars,
                 idx, work, times_, promise>>

PushIndex(t) ==
  /\ At(t, "push") /\ ~has_stop_
  /\ target' = [target EXCEPT ![t] = index_ % PoolSize]
  /\ index_' = (index_ + 1) % IndexModulus
  /\ Goto(t, "link")
  /\ UNCHANGED <<flagVars, lifeVars, work_pool, cacheVars, timerVars, sizeVars,
                 idx, callVars, workVars>>

(* A queue that was stopped in between may refuse the work; nobody has it  *)
(* then, and nobody takes it out again if the queue still accepts it.      *)
PushLink(t) ==
  /\ At(t, "link") /\ EndPush(t)
  /\ \/ work_pool' = [work_pool EXCEPT ![target[t]] = Append(@, arg[t])]
     \/ queue_stop[target[t]] /\ UNCHANGED work_pool
  /\ UNCHANGED <<flagVars, lifeVars, index_, cacheVars, timerVars, sizeVars,
                 idx, work, workVars>>

TimerPushCheck(t) ==
  /\ At(t, "timer_push") /\ ~has_stop_ /\ Goto(t, "timer_link")
  /\ UNCHANGED <<flagVars, lifeVars, poolVars, cacheVars, timerVars, sizeVars,
                 loopVars, callVars, workVars>>

(* ExitTimerThread has deleted timer_runnable_ and the queue in it. *)
TimerDeleted == pc[Main] \in {"stop_primary", "stop_queue", "join_primary",
                              "delete_queues", "done"}

(* Nothing keeps timer_runnable_ alive in the call.  The use of a deleted  *)
(* one is undefined: the work is lost and the call returns, or the thread  *)
(* waits in it for ever (a crash ends the program and every behaviour).    *)
TimerPushLink(t) ==
  /\ At(t, "timer_link")
  /\ \/ ~TimerDeleted /\ timer_queue' = Append(timer_queue, arg[t]) /\ EndPush(t)
     \/ timer_queue_stop /\ UNCHANGED timer_queue /\ EndPush(t)
     \/ /\ TimerDeleted /\ Goto(t, "dangling")
        /\ UNCHANGED <<timer_queue, target, arg, back>>
  /\ UNCHANGED <<flagVars, lifeVars, poolVars, cacheVars, timer_queue_stop,
                 priority_queue_, sizeVars, idx, work, workVars>>

Push(t) == \/ PushStopped(t) \/ PushIndex(t) \/ PushLink(t)
           \/ TimerPushCheck(t) \/ TimerPushLink(t)
-----------------------------------------------------------------------------
(* WorkThreadPrimaryRunnable::Run *)

PrimaryLoop(i) ==
  LET t == Primary(i)
  IN  /\ At(t, "loop") /\ Goto(t, IF stop[t] THEN "exited" ELSE "lock")
      /\ UNCHANGED <<flagVars, lifeVars, poolVars, cacheVars, timerVars,
                     sizeVars, loopVars, callVars, workVars>>

PrimaryLock(i) ==
  LET t == Primary(i)
  IN  /\ At(t, "lock") /\ lock_[i] = Null /\ Goto(t, "fill")
      /\ lock_' = [lock_ EXCEPT ![i] = t]
      /\ UNCHANGED <<flagVars, lifeVars, poolVars, cache_queue_, stolen,
                     timerVars, sizeVars, loopVars, callVars, workVars>>

(* Pop from the cache, or leave the critical section with nothing. *)
PrimaryPick(i) ==
  LET t == Primary(i)
  IN  /\ At(t, "fill")
      /\ lock_' = [lock_ EXCEPT ![i] = Null]
      /\ \/ /\ cache_queue_[i] # <<>>
            /\ work' = [work EXCEPT ![t] = Head(cache_queue_[i])]
            /\ cache_queue_' = [cache_queue_ EXCEPT ![i] = Tail(@)]
            /\ Goto(t, "run")
         \/ /\ cache_queue_[i] = <<>> /\ stop[t]
            /\ Goto(t, "loop")
            /\ UNCHANGED <<work, cache_queue_>>
      /\ UNCHANGED <<flagVars, lifeVars, poolVars, stolen, timerVars, sizeVars,
                     loopVars, arg, back, workVars>>

(* StealWorks gives up at once before has_init_ and after has_stop_. *)
StealBegin(i) ==
  LET t == Primary(i)
  IN  /\ At(t, "fill") /\ cache_queue_[i] = <<>> /\ ~stop[t]
      /\ \/ (~has_init_ \/ has_stop_) /\ Goto(t, "batch") /\ UNCHANGED idx
         \/ /\ has_init_ /\ ~has_stop_ /\ Goto(t, "steal")
            /\ idx' = [idx EXCEPT ![t] = NextId(i)]
      /\ UNCHANGED <<flagVars, lifeVars, poolVars, cacheVars, timerVars,
                     sizeVars, target, callVars, workVars>>

CanSteal(i) == idx[Primary(i)] # i /\ Len(stolen[i]) # CacheSize \div 2

(* TryLock of the next cache: a locked one is skipped. *)
StealTryLock(i) ==
  LET t == Primary(i)
      j == idx[t]
  IN  /\ At(t, "steal") /\ CanSteal(i)
      /\ IF lock_[j] = Null
         THEN /\ lock_' = [lock_ EXCEPT ![j] = t]
              /\ Goto(t, "peek") /\ UNCHANGED idx
         ELSE /\ idx' = [idx EXCEPT ![t] = NextId(j)]
              /\ UNCHANGED <<lock_, pc>>
      /\ UNCHANGED <<flagVars, lifeVars, poolVars, cache_queue_, stolen,
                     timerVars, sizeVars, target, callVars, workVars>>

(* One work of the victim, if it has one. *)
StealTake(i) ==
  LET t == Primary(i)
      j == idx[t]
      k == Least(1, Len(cache_queue_[j]))
  IN  /\ At(t, "peek") /\ Goto(t, "steal")
      /\ stolen' = [stolen EXCEPT ![i] = @ \o SubSeq(cache_queue_[j], 1, k)]
      /\ cache_queue_' = [cache_queue_ EXCEPT ![j] = Without(@, k)]
      /\ lock_' = [lock_ EXCEPT ![j] = Null]
      /\ idx' = [idx EXCEPT ![t] = NextId(j)]
      /\ UNCHANGED <<flagVars, lifeVars, poolVars, timerVars, sizeVars, target,
                     callVars, workVars>>

StealEnd(i) ==
  LET t == Primary(i)
  IN  /\ At(t, "steal") /\ ~CanSteal(i)
      /\ idx' = [idx EXCEPT ![t] = 0]
      /\ cache_queue_' = [cache_queue_ EXCEPT ![i] = stolen[i]]
      /\ stolen' = [stolen EXCEPT ![i] = <<>>]
      /\ Goto(t, IF stolen[i] = <<>> THEN "batch" ELSE "splice")
      /\ UNCHANGED <<flagVars, lifeVars, poolVars, lock_, timerVars, sizeVars,
                     target, callVars, workVars>>

Refill(i, k) ==
  /\ cache_queue_' = [cache_queue_ EXCEPT ![i] = @ \o SubSeq(work_pool[i], 1, k)]
  /\ work_pool' = [work_pool EXCEPT ![i] = Without(@, k)]

(* PopFrontBatch blocks, with lock_ of the own cache held, until the queue *)
(* has works or is stopped.                                                *)
PopFrontBatch(i) ==
  LET t == Primary(i)
  IN  /\ At(t, "batch") /\ Goto(t, "fill")
      /\ \/ /\ ~queue_stop[i] /\ work_pool[i] # <<>>
            /\ Refill(i, Least(CacheSize, Len(work_pool[i])))
         \/ queue_stop[i] /\ UNCHANGED <<cache_queue_, work_pool>>
      /\ UNCHANGED <<flagVars, lifeVars, index_, lock_, stolen, timerVars,
                     sizeVars, loopVars, callVars, workVars>>

(* TryPopFrontBatch gives nothing when the queue is busy, empty or stopped.*)
TryPopFrontBatch(i) ==
  LET t == Primary(i)
      room == CacheSize - Len(cache_queue_[i])
  IN  /\ At(t, "splice") /\ Goto(t, "fill")
      /\ \/ ~queue_stop[i] /\ Refill(i, Least(room, Len(work_pool[i])))
         \/ UNCHANGED <<cache_queue_, work_pool>>
      /\ UNCHANGED <<flagVars, lifeVars, index_, lock_, stolen, timerVars,
                     sizeVars, loopVars, callVars, workVars>>
-----------------------------------------------------------------------------
(* WorkThreadBaseRunnable::RunWork and ExcuateWork *)

(* Mutant: the status of Init is not looked at. *)
RunBeginAnyway(t) ==
  /\ At(t, "run") /\ Goto(t, "work")
  /\ UNCHANGED <<flagVars, lifeVars, poolVars, cacheVars, timerVars, sizeVars,
                 loopVars, callVars, workVars>>

(* Init of the work: an error deletes it, otherwise Work() is entered. *)
RunBegin(t) ==
  LET w == work[t]
  IN  /\ At(t, "run")
      /\ \/ /\ w \in InitFails
            /\ Delete({w}) /\ work' = [work EXCEPT ![t] = Null]
            /\ Goto(t, "loop")
         \/ w \notin InitFails /\ Goto(t, "work") /\ UNCHANGED <<state, work>>
      /\ UNCHANGED <<flagVars, lifeVars, poolVars, cacheVars, timerVars,
                     sizeVars, loopVars, arg, back, times_, promise>>

(* Work() may commit one more work before it returns. *)
RunCommit(t) ==
  LET c == Child[work[t]]
  IN  /\ At(t, "work") /\ c # Null /\ state[c] = "fresh"
      /\ state' = [state EXCEPT ![c] = "live"]
      /\ StartPush(t, c, "work")
      /\ UNCHANGED <<flagVars, lifeVars, poolVars, cacheVars, timerVars,
                     sizeVars, loopVars, work, times_, promise>>

(* Run releases the future in the last turn and counts times_ down; a work *)
(* with turns to come goes back to its queue, any other is deleted.        *)
RunEnd(t) ==
  LET w == work[t]
  IN  /\ At(t, "work")
      /\ promise' = [promise EXCEPT ![w] = @ \/ times_[w] = 1]
      /\ times_' = [times_ EXCEPT ![w] = IF @ > 0 THEN @ - 1 ELSE @]
      /\ work' = [work EXCEPT ![t] = Null]
      /\ IF times_'[w] = 0
         THEN Delete({w}) /\ Goto(t, "loop") /\ UNCHANGED <<arg, back>>
         ELSE StartPush(t, w, "loop") /\ UNCHANGED state
      /\ UNCHANGED <<flagVars, lifeVars, poolVars, cacheVars, timerVars,
                     sizeVars, loopVars>>
-----------------------------------------------------------------------------
(* WorkThreadSecondaryRunnable::Run *)

SecondaryLoop(t) ==
  /\ At(t, "loop") /\ Goto(t, IF stop[t] THEN "exited" ELSE "pop")
  /\ UNCHANGED <<flagVars, lifeVars, poolVars, cacheVars, timerVars, sizeVars,
                 loopVars, callVars, workVars>>

(* TryPopFront: nothing if the queue is busy, empty or stopped. *)
SecondaryPop(t) ==
  /\ At(t, "pop")
  /\ LET i == serves[t]
     IN  \/ /\ ~queue_stop[i] /\ work_pool[i] # <<>>
            /\ work' = [work EXCEPT ![t] = Head(work_pool[i])]
            /\ work_pool' = [work_pool EXCEPT ![i] = Tail(@)]
            /\ Goto(t, "run")
         \/ Goto(t, "loop") /\ UNCHANGED <<work, work_pool>>
  /\ UNCHANGED <<flagVars, lifeVars, index_, cacheVars, timerVars, sizeVars,
                 loopVars, arg, back, workVars>>
-----------------------------------------------------------------------------
(* WorkThreadTimerRunnable::Run *)

TimerLoop ==
  /\ At(Timer, "loop") /\ Goto(Timer, IF stop[Timer] THEN "exited" ELSE "due")
  /\ UNCHANGED <<flagVars, lifeVars, poolVars, cacheVars, timerVars, sizeVars,
                 loopVars, callVars, workVars>>

(* A work whose time has come goes to the pool.  The code removes it from  *)
(* priority_queue_ after PushBack; no other thread looks at it.            *)
TimerFire(w) ==
  /\ pc[Timer] \in {"due", "timeout"} /\ w \in priority_queue_
  /\ priority_queue_' = priority_queue_ \ {w}
  /\ StartPush(Timer, w, "due")
  /\ UNCHANGED <<flagVars, lifeVars, poolVars, cacheVars, timer_queue,
                 timer_queue_stop, sizeVars, loopVars, work, workVars>>

TimerNothingDue ==
  /\ At(Timer, "due") /\ Goto(Timer, "take")
  /\ UNCHANGED <<flagVars, lifeVars, poolVars, cacheVars, timerVars, sizeVars,
                 loopVars, callVars, workVars>>

(* PopFront and PopFrontUntil; Push of what they return. *)
TimerTake ==
  /\ At(Timer, "take") /\ ~timer_queue_stop /\ timer_queue # <<>>
  /\ timer_queue' = Tail(timer_queue)
  /\ priority_queue_' = priority_queue_ \cup {Head(timer_queue)}
  /\ Goto(Timer, "loop")
  /\ UNCHANGED <<flagVars, lifeVars, poolVars, cacheVars, timer_queue_stop,
                 sizeVars, loopVars, callVars, workVars>>

TimerStopped ==
  /\ At(Timer, "take") /\ timer_queue_stop /\ Goto(Timer, "loop")
  /\ UNCHANGED <<flagVars, lifeVars, poolVars, cacheVars, timerVars, sizeVars,
                 loopVars, callVars, workVars>>

(* Mutant: the wait has no deadline. *)
TimerNoTimeout == FALSE /\ UNCHANGED vars

(* PopFrontUntil waits until the earliest deadline, so that the next turn  *)
(* of the loop finds it due; an empty priority_queue_ waits without limit. *)
TimerTimeout ==
  /\ At(Timer, "take") /\ priority_queue_ # {}
  /\ Goto(Timer, IF stop[Timer] THEN "loop" ELSE "timeout")
  /\ UNCHANGED <<flagVars, lifeVars, poolVars, cacheVars, timerVars, sizeVars,
                 loopVars, callVars, workVars>>

TimerStep == \/ TimerLoop \/ TimerNothingDue \/ TimerTake \/ TimerStopped
             \/ TimerTimeout \/ \E w \in Works : TimerFire(w)
             \/ Push(Timer)
-----------------------------------------------------------------------------
(* WorkThreadMonitorRunnable: Run by the monitor thread, ChangeSecondary-  *)
(* Thread also by the thread that deletes the runnable in Exit.            *)

(* GetRoughSize is off by what the calls in flight, one per thread, have   *)
(* linked or unlinked and not counted yet, and by the rest of a batch; a   *)
(* negative value stands for the one it wraps to (see SizeAccounting of    *)
(* ProducerConsumerQueue).                                                 *)
RoughSize(i) == LET off == Cardinality(Threads) + CacheSize
                IN  {Len(work_pool[i]) + d : d \in -off..off}

(* What is below zero has wrapped and is larger than every bound. *)
Wanted(size) == IF size = 0 THEN 0 ELSE IF size \in 1..(BusySize - 1) THEN 1
                ELSE VeryBusySize

MonitorWake ==
  /\ At(Monitor, "sleep")
  /\ Goto(Monitor, IF stop[Monitor] THEN "exited" ELSE "scan")
  /\ idx' = [idx EXCEPT ![Monitor] = 0]
  /\ UNCHANGED <<flagVars, lifeVars, poolVars, cacheVars, timerVars, sizeVars,
                 target, callVars, workVars>>

MonitorScan ==
  LET i == idx[Monitor]
  IN  /\ At(Monitor, "scan")
      /\ \/ /\ i \in Ids /\ Goto(Monitor, "change")
            /\ \E n \in {Wanted(size) : size \in RoughSize(i)} :
                 wanted' = [wanted EXCEPT ![Monitor] = n]
            /\ UNCHANGED idx
         \/ /\ i \notin Ids /\ Goto(Monitor, "sleep")
            /\ idx' = [idx EXCEPT ![Monitor] = 0] /\ UNCHANGED wanted
      /\ UNCHANGED <<flagVars, lifeVars, poolVars, cacheVars, timerVars,
                     secondaries, serves, target, callVars, workVars>>

(* The end of ChangeSecondaryThread(idx[m], wanted[m]); the locals go.     *)
Scanning(m) == IF m = Monitor THEN "scan" ELSE "change"
NextPool(m) == /\ idx' = [idx EXCEPT ![m] = @ + 1]
               /\ target' = [target EXCEPT ![m] = 0]
               /\ wanted' = [wanted EXCEPT ![m] = 0]

(* Compare the sizes; to shrink, tell the last threads of the vector to    *)
(* stop before joining any.                                                *)
Change(m) ==
  LET i == idx[m]
      surplus == {Secondary(i, k) : k \in (wanted[m] + 1)..secondaries[i]}
  IN  /\ At(m, "change") /\ i \in Ids
      /\ \/ /\ secondaries[i] = wanted[m]
            /\ NextPool(m) /\ Goto(m, Scanning(m)) /\ UNCHANGED stop
         \/ /\ secondaries[i] < wanted[m] /\ Goto(m, "enlarge")
            /\ UNCHANGED <<stop, wanted, loopVars>>
         \/ /\ secondaries[i] > wanted[m] /\ Goto(m, "join")
            /\ stop' = [t \in Threads |-> stop[t] \/ t \in surplus]
            /\ UNCHANGED <<wanted, loopVars>>
      /\ UNCHANGED <<has_init_, has_stop_, lifeVars, poolVars, cacheVars,
                     timerVars, secondaries, serves, callVars, workVars>>

Running == {t \in Secondaries : ~At(t, "unborn")}

(* The new runnable serves the queue of the loop counter, target[m], not   *)
(* the one whose size was read.  A failing CreateNativeThread ends the     *)
(* loop early.                                                             *)
Enlarge(m) ==
  LET i == idx[m]
      t == Secondary(i, secondaries[i] + 1)
  IN  /\ At(m, "enlarge")
      /\ \/ /\ secondaries[i] < wanted[m] /\ Cardinality(Running) < MaxSecondary
            /\ secondaries' = [secondaries EXCEPT ![i] = @ + 1]
            /\ serves' = [serves EXCEPT ![t] = target[m]]
            /\ target' = [target EXCEPT ![m] = @ + 1]
            /\ Goto(t, "loop") /\ UNCHANGED <<stop, idx, wanted>>
         \/ /\ NextPool(m) /\ Goto(m, Scanning(m))
            /\ UNCHANGED <<secondaries, serves, stop>>
      /\ UNCHANGED <<has_init_, has_stop_, lifeVars, poolVars, cacheVars,
                     timerVars, callVars, workVars>>

(* Join and delete the threads that were told to stop, one by one. *)
Reduce(m) ==
  LET i == idx[m]
      t == Secondary(i, secondaries[i])
  IN  /\ At(m, "join") /\ At(t, "exited")
      /\ secondaries' = [secondaries EXCEPT ![i] = @ - 1]
      /\ serves' = [serves EXCEPT ![t] = 0]
      /\ stop' = [stop EXCEPT ![t] = FALSE]
      /\ \/ /\ secondaries'[i] = wanted[m] /\ NextPool(m)
            /\ pc' = [pc EXCEPT ![t] = "unborn", ![m] = Scanning(m)]
         \/ /\ secondaries'[i] # wanted[m] /\ Goto(t, "unborn")
            /\ UNCHANGED <<wanted, loopVars>>
      /\ UNCHANGED <<has_init_, has_stop_, lifeVars, poolVars, cacheVars,
                     timerVars, callVars, workVars>>
-----------------------------------------------------------------------------
(* WorkQueue::Initialize, CommitWork, CommitTimerWork and Exit *)

StartPrimary ==
  /\ At(Main, "create") /\ created < StartedThreads
  /\ created' = created + 1 /\ runnables' = runnables \cup {created}
  /\ Goto(Primary(created), "loop")
  /\ UNCHANGED <<flagVars, queues, queue_stop, poolVars, cacheVars, timerVars,
                 sizeVars, loopVars, callVars, workVars>>

(* With fewer threads than queues the surplus queues are deleted in a loop *)
(* whose condition never changes.  Otherwise the timer and the monitor     *)
(* thread are started.                                                     *)
StartOthers ==
  /\ At(Main, "create") /\ created = StartedThreads
  /\ IF created # Cardinality(Ids)
     THEN queues' = 0..(Cardinality(queues) - 2) /\ UNCHANGED pc
     ELSE /\ pc' = [pc EXCEPT ![Main] = "init", ![Timer] = "loop", ![Monitor] = "sleep"]
          /\ UNCHANGED queues
  /\ UNCHANGED <<flagVars, created, runnables, queue_stop, poolVars, cacheVars,
                 timerVars, sizeVars, loopVars, callVars, workVars>>

SetInit ==
  /\ At(Main, "init") /\ Goto(Main, "user") /\ has_init_' = TRUE
  /\ UNCHANGED <<has_stop_, stop, lifeVars, poolVars, cacheVars, timerVars,
                 sizeVars, loopVars, callVars, workVars>>

Commit(w) ==
  /\ At(Main, "user") /\ state[w] = "fresh" /\ \A v \in Works : Child[v] # w
  /\ state' = [state EXCEPT ![w] = "live"]
  /\ StartPush(Main, w, "user")
  /\ UNCHANGED <<flagVars, lifeVars, poolVars, cacheVars, timerVars, sizeVars,
                 loopVars, work, times_, promise>>

Exit ==
  /\ At(Main, "user") /\ Goto(Main, "stop_monitor") /\ has_stop_' = TRUE
  /\ UNCHANGED <<has_init_, stop, lifeVars, poolVars, cacheVars, timerVars,
                 sizeVars, loopVars, callVars, workVars>>

StopThread(t, from, to) ==
  /\ At(Main, from) /\ Goto(Main, to)
  /\ stop' = [stop EXCEPT ![t] = TRUE]
  /\ UNCHANGED <<has_init_, has_stop_, lifeVars, poolVars, cacheVars,
                 timerVars, sizeVars, loopVars, callVars, workVars>>

(* Mutant: the monitor is joined without having been stopped. *)
StopMonitorNot == StopThread(Main, "stop_monitor", "join_monitor")

StopMonitor == StopThread(Monitor, "stop_monitor", "join_monitor")

(* Mutant: the monitor runnable is deleted with its threads running. *)
JoinMonitorOnly ==
  /\ At(Main, "join_monitor") /\ At(Monitor, "exited") /\ Goto(Main, "change")
  /\ idx' = [idx EXCEPT ![Main] = PoolSize]
  /\ UNCHANGED <<flagVars, lifeVars, poolVars, cacheVars, timerVars, sizeVars,
                 target, callVars, workVars>>

(* The destructor of the monitor runnable reduces every pool to nothing.   *)
JoinMonitor ==
  /\ At(Main, "join_monitor") /\ At(Monitor, "exited") /\ Goto(Main, "change")
  /\ wanted' = [wanted EXCEPT ![Main] = 0]
  /\ idx' = [idx EXCEPT ![Main] = 0]
  /\ UNCHANGED <<flagVars, lifeVars, poolVars, cacheVars, timerVars,
                 secondaries, serves, target, callVars, workVars>>

StopTimer == idx[Main] = PoolSize /\ StopThread(Timer, "change", "stop_timer_queue")

StopTimerQueue ==
  /\ At(Main, "stop_timer_queue") /\ Goto(Main, "join_timer")
  /\ timer_queue_stop' = TRUE
  /\ UNCHANGED <<flagVars, lifeVars, poolVars, cacheVars, timer_queue,
                 priority_queue_, sizeVars, loopVars, callVars, workVars>>

(* The destructor deletes the works in priority_queue_; the works still in *)
(* timer_queue are lost with its nodes.                                    *)
JoinTimer ==
  /\ At(Main, "join_timer") /\ At(Timer, "exited") /\ Goto(Main, "stop_primary")
  /\ Delete(priority_queue_) /\ priority_queue_' = {}
  /\ timer_queue' = <<>>
  /\ idx' = [idx EXCEPT ![Main] = 0]
  /\ UNCHANGED <<flagVars, lifeVars, poolVars, cacheVars, timer_queue_stop,
                 sizeVars, target, callVars, times_, promise>>

StopPrimary == /\ idx[Main] \in Ids
               /\ StopThread(Primary(idx[Main]), "stop_primary", "stop_queue")

StopQueue ==
  /\ At(Main, "stop_queue") /\ Goto(Main, "join_primary")
  /\ queue_stop' = [queue_stop EXCEPT ![idx[Main]] = TRUE]
  /\ UNCHANGED <<flagVars, created, runnables, queues, poolVars, cacheVars,
                 timerVars, sizeVars, loopVars, callVars, workVars>>

(* Mutant: each runnable is deleted as soon as its thread is joined. *)
JoinPrimaryAndDelete ==
  /\ At(Main, "join_primary") /\ At(Primary(idx[Main]), "exited")
  /\ Goto(Main, "stop_primary")
  /\ runnables' = runnables \ {idx[Main]}
  /\ idx' = [idx EXCEPT ![Main] = @ + 1]
  /\ UNCHANGED <<flagVars, created, queues, queue_stop, poolVars, cacheVars,
                 timerVars, sizeVars, target, callVars, workVars>>

JoinPrimary ==
  /\ At(Main, "join_primary") /\ At(Primary(idx[Main]), "exited")
  /\ Goto(Main, "stop_primary")
  /\ idx' = [idx EXCEPT ![Main] = @ + 1]
  /\ UNCHANGED <<flagVars, lifeVars, poolVars, cacheVars, timerVars, sizeVars,
                 target, callVars, workVars>>

(* Only when all of them are joined: each runnable deletes its cache.      *)
DeleteRunnables ==
  /\ At(Main, "stop_primary") /\ idx[Main] = PoolSize
  /\ Goto(Main, "delete_queues")
  /\ runnables' = {}
  /\ Delete(UNION {Elements(cache_queue_[i]) : i \in Ids})
  /\ cache_queue_' = [i \in Ids |-> <<>>]
  /\ UNCHANGED <<flagVars, created, queues, queue_stop, poolVars, lock_, stolen,
                 timerVars, sizeVars, loopVars, callVars, times_, promise>>

(* The nodes of the queues are freed, the works in them are lost.          *)
DeleteQueues ==
  /\ At(Main, "delete_queues") /\ Goto(Main, "done")
  /\ queues' = {}
  /\ work_pool' = [i \in Ids |-> <<>>]
  /\ UNCHANGED <<flagVars, created, runnables, queue_stop, index_, cacheVars,
                 timerVars, sizeVars, loopVars, callVars, workVars>>

(* Exit has returned, or waits for a thread that use of the deleted timer  *)
(* queue keeps for ever.                                                   *)
Terminated == /\ At(Main, "done") \/ \E t \in Threads : At(t, "dangling")
              /\ UNCHANGED vars
-----------------------------------------------------------------------------
WorkStep(t)    == RunBegin(t) \/ RunCommit(t) \/ RunEnd(t) \/ Push(t)
PrimaryStep(i) == \/ PrimaryLoop(i) \/ PrimaryLock(i) \/ PrimaryPick(i)
                  \/ StealBegin(i) \/ StealTryLock(i) \/ StealTake(i)
                  \/ StealEnd(i) \/ PopFrontBatch(i) \/ TryPopFrontBatch(i)
                  \/ WorkStep(Primary(i))
SecondaryStep(t) == SecondaryLoop(t) \/ SecondaryPop(t) \/ WorkStep(t)
ChangeStep(m)  == Change(m) \/ Enlarge(m) \/ Reduce(m)
MonitorStep    == MonitorWake \/ MonitorScan \/ ChangeStep(Monitor)
ExitStep       == \/ StopMonitor \/ JoinMonitor \/ ChangeStep(Main) \/ StopTimer
                  \/ StopTimerQueue \/ JoinTimer \/ StopPrimary \/ StopQueue
                  \/ JoinPrimary \/ DeleteRunnables \/ DeleteQueues
MainStep       == StartPrimary \/ StartOthers \/ SetInit \/ Push(Main) \/ ExitStep

Next == \/ MainStep \/ Exit \/ \E w \in Works : Commit(w)
        \/ \E i \in Ids : PrimaryStep(i)
        \/ \E t \in Secondaries : SecondaryStep(t)
        \/ TimerStep \/ MonitorStep
        \/ Terminated

Spec == Init /\ [][Next]_vars

(* Fairness: every thread keeps running, Work() returns, deadlines pass,   *)
(* and a primary thread that keeps finding its lock free gets it.  The     *)
(* user need neither commit nor exit.                                      *)
Fairness ==
  /\ WF_vars(MainStep) /\ WF_vars(TimerStep) /\ WF_vars(MonitorStep)
  /\ \A i \in Ids : WF_vars(PrimaryStep(i)) /\ SF_vars(PrimaryLock(i))
  /\ \A t \in Secondaries : WF_vars(SecondaryStep(t))

FairSpec == Spec /\ Fairness
-----------------------------------------------------------------------------
PcValues ==
  {"unborn", "loop", "exited", "push", "link", "timer_push", "timer_link",
   "dangling", "lock", "fill", "steal", "peek", "batch", "splice", "run", "work", "pop",
   "due", "take", "timeout", "sleep", "scan", "change", "enlarge", "join",
   "create", "init", "user", "stop_monitor", "join_monitor",
   "stop_timer_queue", "join_timer", "stop_primary", "stop_queue",
   "join_primary", "delete_queues", "done"}

(* Every variable has its type. *)
TypeOK ==
  /\ has_init_ \in BOOLEAN /\ has_stop_ \in BOOLEAN
  /\ stop \in [Threads -> BOOLEAN]
  /\ created \in 0..PoolSize /\ runnables \subseteq Ids /\ queues \subseteq Ids
  /\ index_ \in 0..(IndexModulus - 1)
  /\ work_pool \in [Ids -> Seq(Works)] /\ cache_queue_ \in [Ids -> Seq(Works)]
  /\ \A i \in Ids : Len(cache_queue_[i]) <= CacheSize
  /\ stolen \in [Ids -> Seq(Works)] /\ lock_ \in [Ids -> Primaries \cup {Null}]
  /\ secondaries \in [Ids -> 0..VeryBusySize]
  /\ queue_stop \in [Ids -> BOOLEAN]
  /\ timer_queue \in Seq(Works) /\ timer_queue_stop \in BOOLEAN
  /\ priority_queue_ \subseteq Works
  /\ serves \in [Secondaries -> Ids]
  /\ wanted \in [{Main, Monitor} -> 0..VeryBusySize]
  /\ pc \in [Threads -> PcValues] /\ back \in [Threads -> PcValues]
  /\ idx \in [Threads -> 0..PoolSize] /\ target \in [Threads -> 0..PoolSize]
  /\ work \in [Threads -> Works \cup {Null}]
  /\ arg \in [Threads -> Works \cup {Null}]
  /\ state \in [Works -> {"fresh", "live", "deleted"}]
  /\ times_ \in [Works -> Int] /\ promise \in [Works -> BOOLEAN]

Positions(s, w) == {k \in DOMAIN s : s[k] = w}

(* The places where somebody holds w, and so may run or delete it. *)
Places(w) ==
  (UNION {     {<<"queue", i, k>> : k \in Positions(work_pool[i], w)}
          \cup {<<"cache", i, k>> : k \in Positions(cache_queue_[i], w)}
          \cup {<<"stolen", i, k>> : k \in Positions(stolen[i], w)} : i \in Ids})
  \cup {<<"timer", 0, k>> : k \in Positions(timer_queue, w)}
  \cup {<<"held", 0, 0>> : v \in priority_queue_ \cap {w}}
  \cup {<<"work", t, 0>> : t \in {t \in Threads : work[t] = w}}
  \cup {<<"arg", t, 0>> : t \in {t \in Threads : arg[t] = w}}

(* A live work is in exactly one queue, cache, hand or timer while the     *)
(* pool runs: stealing, batching, the timer and the secondary threads      *)
(* neither lose nor duplicate it, and nobody still holds one that was      *)
(* deleted, before or after Exit (ExcuateWork, StealWorks, Run, Exit).     *)
OnePlace ==
  \A w \in Works :
    /\ \A x, y \in Places(w) : x = y
    /\ state[w] # "live" => Places(w) = {}
    /\ state[w] = "live" /\ ~has_stop_ => Places(w) # {}

(* StealWorks indexes primary_runnable_pool_ only when Initialize has      *)
(* filled it and before ExitPrimaryThreads deletes the first runnable,     *)
(* although its tests of has_init_ and has_stop_ come earlier (lines       *)
(* 121-135 against 31-33 and 59-69).                                       *)
StealersFindRunnables ==
  \A i \in Ids : pc[Primary(i)] \in {"steal", "peek"} =>
                   created = PoolSize /\ runnables = Ids

(* The three together: types, places of works, and what thieves look at.   *)
PoolConsistent == TypeOK /\ OnePlace /\ StealersFindRunnables

(* A queue is stopped before it is deleted: the assertion in the           *)
(* destructor of ProducerConsumerQueue, line 80.                           *)
QueuesStoppedBeforeDelete == \A i \in Ids \ queues : queue_stop[i]

(* t is in a call on queue i of work_pool_, or on the timer queue.         *)
UsesQueue(t, i) ==
  \/ At(t, "link") /\ target[t] = i
  \/ t = Primary(i) /\ pc[t] \in {"batch", "splice"}
  \/ t \in Secondaries /\ At(t, "pop") /\ serves[t] = i
  \/ t = Monitor /\ At(t, "scan") /\ idx[t] = i
  \/ t = Main /\ At(t, "stop_queue") /\ idx[t] = i

UsesTimerQueue(t) == \/ pc[t] \in {"timer_link", "dangling"}
                     \/ t = Timer /\ At(t, "take")
                     \/ t = Main /\ At(t, "stop_timer_queue")

(* Exit deletes a queue of work_pool_ only when no thread is in a call on  *)
(* it, be it a push, a take, the monitor's look at its size or its Stop,   *)
(* and returns only when no thread of the pool runs on (lines 36-74).  Of  *)
(* the timer queue, which ExitTimerThread deletes while primary threads    *)
(* still run, this fails in one place and no other: a primary thread that  *)
(* tested has_stop_ before Exit may be in PushTimerBack (line 170).        *)
OnlyLateTimerPushesDangle ==
  /\ At(Main, "done") => \A t \in Threads \ {Main} : pc[t] \in {"unborn", "exited"}
  /\ \A t \in Threads, i \in Ids : UsesQueue(t, i) => i \in queues
  /\ TimerDeleted => \A t \in Threads : UsesTimerQueue(t) =>
                       t \in Primaries /\ pc[t] \in {"timer_link", "dangling"}

Busy(w) == \E t \in Workers :
             work[t] = w /\ ~At(t, "run")

Status(w) == IF state[w] = "fresh" THEN "fresh"
             ELSE IF promise[w] THEN "done"
             ELSE IF state[w] = "deleted" THEN "dropped"
             ELSE IF Busy(w) THEN "running" ELSE "pending"

Service == INSTANCE WorkService WITH
  stopped <- has_stop_, status <- [w \in Works |-> Status(w)], remaining <- times_

(* Each work is run by one thread at a time, exactly times_ times, and its *)
(* future is released once, by the last run; works are given up only for a *)
(* failing Init or after Exit.                                             *)
ImplementsWorkService == Service!Spec

(* Every future is released in the end, unless Exit is called first.       *)
(* What the two sides of the implications of this property and the next    *)
(* say stays true, so that []<> of one is what ~> would be.                *)
EveryFutureIsReleased ==
  []<>(\A w \in Works :
         state[w] # "fresh" /\ Times[w] > 0 /\ w \notin InitFails
           => promise[w] \/ has_stop_)

(* Exit returns: every thread that is joined ends, also one that is        *)
(* blocked in a pop and a secondary thread that the monitor creates while  *)
(* Exit begins; but for a thread that use of the deleted timer queue keeps.*)
ExitReturns ==
  []<>(has_stop_ => At(Main, "done") \/ \E i \in Ids : At(Primary(i), "dangling"))
=============================================================================
