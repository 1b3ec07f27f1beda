------------------------ MODULE GraphTaskThreadPool ------------------------
(* The thread pool of the task graph.  A primary thread looks for a task   *)
(* in its two queues, in the pool's queue and at the other ends of its     *)
(* neighbours' queues; a secondary thread in the pool's queue and in the   *)
(* priority queue.  The owner sets the pool up, commits tasks, releases    *)
(* secondary threads and exits; a running task commits a task or creates   *)
(* secondary threads.  A thread that looks for a task does not wait for    *)
(* the lock of a queue: try_lock may fail, even for no reason, and it goes *)
(* on to the next queue.  So it may take from any of its queues in a round.*)
EXTENDS Integers, Sequences, FiniteSets, SequencesExt

CONSTANTS
  Tasks,       \* the tasks
  MaxPrimary,  \* BOUND: primary threads
  Slots,       \* BOUND: the secondary threads there can be in a behaviour
  Owner,       \* the thread that owns the pool
  Configs,     \* the configurations
  SizeModulus  \* thread counts are unsigned: 2^32 in the code

(* primary_thread_size_, secondary_thread_size_, max_thread_size_,         *)
(* max_task_steal_range_, the batch sizes (0: batch_task_enable_ is false);*)
(* the index each task is committed with, the tasks that go through        *)
(* CommitWithPriority instead; what each does when it runs; how many       *)
(* secondary threads the owner releases.                                   *)
kDefaultGraphTaskStrategy == -1
kPoolGraphTaskStrategy == -2
kLongTimeTaskStrategy == -101

Does == [kind : {"nothing"}] \cup [kind : {"commit"}, task : Tasks]
        \cup [kind : {"create"}, size : Nat]

IsConfig(c) ==
  /\ c.primary \in Nat /\ c.secondary \in Nat /\ c.max \in Nat
  /\ c.steal \in Nat /\ c.batch \in Nat /\ c.urgent \subseteq Tasks
  /\ c.release \in Nat
  /\ c.primary + c.secondary <= c.max \* GraphTaskThreadPoolConfigCheck
  /\ \A w \in Tasks : c.index[w] \in Int /\ c.does[w] \in Does

ASSUME PoolAssumption ==
  /\ SizeModulus \in Nat \ {0} /\ MaxPrimary \in Nat
  /\ IsFiniteSet(Slots) /\ Slots \cap Int = {} /\ Owner \notin Slots \cup Int
  /\ \A c \in Configs : IsConfig(c) /\ c.primary <= MaxPrimary /\ c.max < SizeModulus

(* A task is committed by at most one task: committed again it would run   *)
(* again.                                                                  *)
CommittedOnce(c) ==
  \A v, w \in Tasks :
    /\ c.does[v].kind = "commit" /\ c.does[w].kind = "commit"
    /\ c.does[v].task = c.does[w].task
    => v = w

VARIABLES
  conf, owner,   \* the configuration; where the owner is, and at which thread
  queue,         \* the queues
  listed,        \* primary_threads_.size()
  deleted,       \* whether the primary threads have been deleted
  secondary,     \* secondary_threads_
  stop,          \* ~is_done_ of each thread
  pc,            \* what each thread does
  done,          \* history: the tasks that have run
  misused        \* history: who committed a task to a deleted primary thread

vars == <<conf, owner, queue, listed, deleted, secondary, stop, pc, done, misused>>

Primaries == 0..(conf.primary - 1)
Threads   == Primaries \cup Slots
AllThreads == (0..(MaxPrimary - 1)) \cup Slots
Callers   == AllThreads \cup {Owner}
Pool      == <<"pool", 0>>
Priority  == <<"priority", 0>>
First(p)  == <<"primary", p>>
Second(p) == <<"secondary", p>>
Queues    == {Pool, Priority} \cup ({"primary", "secondary"} \X (0..(MaxPrimary - 1)))

(* Where a thread is, the tasks it has taken, the task it commits, the     *)
(* secondary threads it creates.                                           *)
At(t, p)   == pc[t].at = p
Goto(t, p) == pc' = [pc EXCEPT ![t].at = p]
Idle       == [at |-> "none", batch |-> <<>>, task |-> {}, size |-> 0]
Batched    == conf.batch > 0

Init ==
  /\ conf \in Configs /\ owner = [at |-> "setup", i |-> 0]
  /\ queue = [q \in Queues |-> <<>>] /\ listed = 0 /\ deleted = FALSE
  /\ secondary = <<>> /\ stop = [t \in AllThreads |-> FALSE]
  /\ pc = [t \in Callers |-> Idle]
  /\ done = {} /\ misused = {}
-----------------------------------------------------------------------------
(* Looking for a task.                                                     *)

StealRange == LET others == conf.primary - 1 IN
              IF conf.steal < others THEN conf.steal ELSE others

(* The queues a thread tries; it steals once all primary threads are in    *)
(* the vector.  (Stealing a batch takes nothing: the tasks are put into    *)
(* the batch and dropped from it again, and they stay where they were.)    *)
Neighbours(p) ==
  IF Batched \/ listed # conf.primary THEN {}
  ELSE {(p + j) % conf.primary : j \in 1..StealRange}
Own(p)    == {First(p), Second(p)}
Stolen(p) == UNION {Own(v) : v \in Neighbours(p)}
\* mutant: a primary thread forgets its second queue
FirstQueueOnly(t) ==
  IF t \in Primaries THEN {First(t), Pool} \cup Stolen(t) ELSE {Pool, Priority}
Round(t) == IF t \in Primaries THEN Own(t) \cup {Pool} \cup Stolen(t)
            ELSE {Pool, Priority}

(* The priority queue gives a task none is before. *)
Before(v, w) == v \in conf.urgent /\ w \notin conf.urgent
Tops(s) == {i \in 1..Len(s) : \A j \in 1..Len(s) : ~Before(s[j], s[i])}

(* What TryPop, TrySteal, TryPopBatch or PopTimeOut takes from a queue for *)
(* a thread that may take n, and what it leaves.                           *)
FromFront(s, n) == <<SubSeq(s, 1, n), SubSeq(s, n + 1, Len(s))>>
FromBack(s)     == <<<<Last(s)>>, Front(s)>>
FromTop(s, i)   == <<<<s[i]>>, RemoveAt(s, i)>>

Room(t) == (IF Batched THEN conf.batch ELSE 1) - Len(pc[t].batch)
Smaller(m, n) == IF m < n THEN m ELSE n

Taken(t, q) ==
  LET s == queue[q] IN
  IF q = Priority THEN {FromTop(s, i) : i \in Tops(s)}
  ELSE IF t \in Primaries /\ q \in Stolen(t) \ Own(t) THEN {FromBack(s)}
  ELSE {FromFront(s, Smaller(Room(t), Len(s)))}
       \cup (IF t \in Slots THEN {FromFront(s, 1)} ELSE {}) \* WaitRunTask

Loop(t) ==
  /\ At(t, "loop")
  /\ Goto(t, IF stop[t] THEN "end" ELSE "seek")
  /\ UNCHANGED <<conf, owner, queue, listed, deleted, secondary, stop, done, misused>>

\* mutant: the task stays in the queue
Reads(t, q, at) ==
  /\ queue[q] # <<>> /\ UNCHANGED queue
  /\ \E x \in Taken(t, q) : pc' = [pc EXCEPT ![t].batch = @ \o x[1], ![t].at = at]

Takes(t, q, at) ==
  /\ queue[q] # <<>>
  /\ \E x \in Taken(t, q) :
       /\ queue' = [queue EXCEPT ![q] = x[2]]
       /\ pc' = [pc EXCEPT ![t].batch = @ \o x[1], ![t].at = at]

(* A batch from the own first queue is filled up from the second one.      *)
Take(t) ==
  /\ At(t, "seek")
  /\ \E q \in Round(t) :
       Takes(t, q, IF Batched /\ t \in Primaries /\ q = First(t) THEN "fill" ELSE "run")
  /\ UNCHANGED <<conf, owner, listed, deleted, secondary, stop, done, misused>>

Fill(t) ==
  /\ At(t, "fill")
  /\ \/ Room(t) > 0 /\ Takes(t, Second(t), "run")
     \/ Goto(t, "run") /\ UNCHANGED queue
  /\ UNCHANGED <<conf, owner, listed, deleted, secondary, stop, done, misused>>

(* Every queue is empty, or its lock was not to be had.                    *)
Pass(t) ==
  /\ At(t, "seek") /\ Goto(t, "loop")
  /\ UNCHANGED <<conf, owner, queue, listed, deleted, secondary, stop, done, misused>>
-----------------------------------------------------------------------------
(* Running tasks, committing tasks, secondary threads.                     *)

(* Unsigned: what is left of max_thread_size_ wraps when there are more.   *)
LeftSize(size) ==
  LET left == (conf.max + 2 * SizeModulus - conf.primary - Len(secondary)) % SizeModulus
  IN  Smaller(left, size)

Begin(t) ==
  /\ At(t, "run")
  /\ LET d == conf.does[Head(pc[t].batch)] IN
     pc' = [pc EXCEPT ![t].at = CASE d.kind = "nothing" -> "finish"
                                  [] d.kind = "commit"  -> "commit"
                                  [] d.kind = "create"  -> "create",
                      ![t].task = IF d.kind = "commit" THEN {d.task} ELSE {},
                      ![t].size = IF d.kind = "create" THEN LeftSize(d.size) ELSE 0]
  /\ UNCHANGED <<conf, owner, queue, listed, deleted, secondary, stop, done, misused>>

Finish(t) ==
  /\ At(t, "finish") /\ t # Owner
  /\ done' = done \cup {Head(pc[t].batch)}
  /\ pc' = [pc EXCEPT ![t].batch = Tail(@),
                      ![t].at = IF Len(pc[t].batch) > 1 THEN "run" ELSE "loop"]
  /\ UNCHANGED <<conf, owner, queue, listed, deleted, secondary, stop, misused>>

(* Where Commit puts a task: Dispatch deals out the indexes below          *)
(* max_thread_size_ in turn, with a counter the threads change without a   *)
(* lock (any index, then, and one too many too); PushGraphTask takes       *)
(* whichever of the two locks it gets first.                               *)
Indices(w) == IF conf.index[w] # kDefaultGraphTaskStrategy THEN {conf.index[w]}
              ELSE 0..conf.max

Places(w) ==
  IF w \in conf.urgent \/ conf.index[w] = kLongTimeTaskStrategy THEN {Priority}
  ELSE UNION {IF j \in Primaries THEN {First(j), Second(j)} ELSE {Pool} :
                j \in Indices(w)}

Push(t) ==
  \E w \in pc[t].task : \E q \in Places(w) :
    /\ queue' = [queue EXCEPT ![q] = Append(@, w)]
    /\ misused' = misused \cup (IF deleted /\ q \notin {Pool, Priority} THEN {t} ELSE {})
    /\ Goto(t, "finish")

(* CommitWithPriority sees to it that there is a secondary thread.         *)
Commit(t) ==
  /\ At(t, "commit")
  /\ IF secondary = <<>> /\ pc[t].task \cap conf.urgent # {}
     THEN /\ pc' = [pc EXCEPT ![t].at = "create", ![t].size = LeftSize(1)]
          /\ UNCHANGED <<queue, misused>>
     ELSE Push(t)
  /\ UNCHANGED <<conf, owner, listed, deleted, secondary, stop, done>>

PushPriority(t) ==
  /\ At(t, "push") /\ Push(t)
  /\ UNCHANGED <<conf, owner, listed, deleted, secondary, stop, done>>

(* CreateSecondaryThread, once it has secondary_threads_lock_.             *)
Create(t) ==
  /\ At(t, "create")
  /\ \E new \in SUBSET (Slots \ ToSet(secondary)) :
       /\ Cardinality(new) = pc[t].size
       /\ secondary' = secondary \o SetToSeq(new)
       /\ pc' = [s \in DOMAIN pc |->
            IF s \in new THEN [Idle EXCEPT !.at = "loop"]
            ELSE IF s = t
            THEN [pc[s] EXCEPT !.at = IF pc[t].task # {} THEN "push" ELSE "finish"]
            ELSE pc[s]]
  /\ UNCHANGED <<conf, owner, queue, listed, deleted, stop, done, misused>>

-----------------------------------------------------------------------------
(* The owner.                                                              *)

(* Setup: a primary thread runs before it is in the vector.                *)
OwnerStart ==
  /\ owner.at = "setup" /\ owner.i < conf.primary
  /\ owner' = [owner EXCEPT !.at = "list"]
  /\ pc' = [pc EXCEPT ![owner.i].at = "loop"]
  /\ UNCHANGED <<conf, queue, listed, deleted, secondary, stop, done, misused>>

OwnerList ==
  /\ owner.at = "list"
  /\ owner' = [at |-> "setup", i |-> owner.i + 1] /\ listed' = listed + 1
  /\ UNCHANGED <<conf, queue, deleted, secondary, stop, pc, done, misused>>

OwnerCreate ==
  /\ owner.at = "setup" /\ owner.i = conf.primary
  /\ owner' = [owner EXCEPT !.at = "ready"]
  /\ pc' = [pc EXCEPT ![Owner].at = "create", ![Owner].size = LeftSize(conf.secondary)]
  /\ UNCHANGED <<conf, queue, listed, deleted, secondary, stop, done, misused>>

(* Tasks that no task commits are committed by the owner, in any order.    *)
Roots == {w \in Tasks : \A v \in Tasks :
             conf.does[v].kind = "commit" => conf.does[v].task # w}
Seen(w) == \/ w \in done \/ \E q \in Queues : w \in ToSet(queue[q])
           \/ \E t \in AllThreads : w \in ToSet(pc[t].batch)

Ready == owner.at = "ready" /\ pc[Owner].at = "finish"

OwnerCommit ==
  /\ Ready
  /\ \E w \in Roots : ~Seen(w) /\ pc' = [pc EXCEPT ![Owner].at = "commit",
                                                  ![Owner].task = {w}]
  /\ UNCHANGED <<conf, owner, queue, listed, deleted, secondary, stop, done, misused>>

(* ReleaseSecondaryThread stops the first ones.  (A second call would also *)
(* delete them, with the iterator it goes on with: not modelled.)          *)
OwnerRelease ==
  /\ Ready /\ conf.release \in 1..Len(secondary)
  /\ \A s \in ToSet(secondary) : ~stop[s]
  /\ stop' = [s \in AllThreads |-> stop[s] \/ \E j \in 1..conf.release : secondary[j] = s]
  /\ UNCHANGED <<conf, owner, queue, listed, deleted, secondary, pc, done, misused>>

(* Exit stops and joins the primary threads one after the other, deletes   *)
(* them, then stops, joins and deletes each secondary thread.              *)
OwnerExit ==
  /\ Ready /\ owner' = [at |-> "primaries", i |-> 0]
  /\ UNCHANGED <<conf, queue, listed, deleted, secondary, stop, pc, done, misused>>

\* mutant: is_done_ is not reset
OwnerStopNot(at, t) == owner.at = at /\ UNCHANGED vars

OwnerStop(at, t) ==
  /\ owner.at = at /\ ~stop[t]
  /\ stop' = [stop EXCEPT ![t] = TRUE]
  /\ UNCHANGED <<conf, owner, queue, listed, deleted, secondary, pc, done, misused>>

\* mutant: the thread is not waited for
OwnerLeave(at, t) ==
  /\ owner.at = at /\ stop[t]
  /\ owner' = [owner EXCEPT !.i = @ + 1]
  /\ UNCHANGED <<conf, queue, listed, deleted, secondary, stop, pc, done, misused>>

OwnerJoin(at, t) ==
  /\ owner.at = at /\ stop[t] /\ At(t, "end")
  /\ owner' = [owner EXCEPT !.i = @ + 1]
  /\ UNCHANGED <<conf, queue, listed, deleted, secondary, stop, pc, done, misused>>

OwnerStopPrimary == owner.i < conf.primary
  /\ (OwnerStop("primaries", owner.i) \/ OwnerJoin("primaries", owner.i))

OwnerDelete ==
  /\ owner.at = "primaries" /\ owner.i = conf.primary
  /\ owner' = [at |-> "secondaries", i |-> 1]
  /\ deleted' = TRUE /\ listed' = 0
  /\ UNCHANGED <<conf, queue, secondary, stop, pc, done, misused>>

OwnerStopSecondary == owner.i \in 1..Len(secondary)
  /\ \/ OwnerStop("secondaries", secondary[owner.i])
     \/ OwnerJoin("secondaries", secondary[owner.i])

OwnerEnd ==
  /\ owner.at = "secondaries" /\ owner.i > Len(secondary)
  /\ owner' = [owner EXCEPT !.at = "end"] /\ secondary' = <<>>
  /\ UNCHANGED <<conf, queue, listed, deleted, stop, pc, done, misused>>
-----------------------------------------------------------------------------
CallStep(t) == Commit(t) \/ Create(t) \/ PushPriority(t)

ThreadStep(t) ==
  \/ Loop(t) \/ Take(t) \/ Fill(t) \/ Pass(t) \/ Begin(t) \/ CallStep(t) \/ Finish(t)

OwnerStep ==
  \/ OwnerStart \/ OwnerList \/ OwnerCreate \/ OwnerStopPrimary \/ OwnerDelete
  \/ OwnerStopSecondary \/ OwnerEnd \/ CallStep(Owner)

Next ==
  \/ \E t \in Threads : ThreadStep(t)
  \/ OwnerStep \/ OwnerCommit \/ OwnerRelease \/ OwnerExit

Spec == Init /\ [][Next]_vars

(* Threads run on, and of the threads that try locks again and again, one  *)
(* gets its lock once.  Nobody has to commit a task or to exit, and one    *)
(* that committed to a deleted thread, which is undefined, may never       *)
(* return; nobody takes what it put there.                                 *)
FairSpec ==
  /\ Spec /\ WF_vars(OwnerStep)
  /\ \A t \in AllThreads : WF_vars(t \in Threads \ misused /\ ThreadStep(t))
  /\ SF_vars(\E t \in Threads \ misused : Take(t))
-----------------------------------------------------------------------------
Working(t) == pc[t].at \in {"commit", "create", "push", "finish"}

(* Exit deletes the primary threads when none runs any more, and only the  *)
(* task of a secondary thread can still commit a task to a deleted one.    *)
NobodyUsesDeletedThread ==
  /\ deleted => \A t \in Primaries : At(t, "end")
  /\ misused \subseteq Slots

Stage(w) ==
  IF \E t \in AllThreads : Working(t) /\ pc[t].batch # <<>> /\ Head(pc[t].batch) = w
  THEN "running" ELSE IF w \in done THEN "done" ELSE IF Seen(w) THEN "committed"
  ELSE "new"

Service == INSTANCE TaskService WITH
  stage <- [w \in Tasks |-> Stage(w)], open <- owner.at # "end"

(* However tasks move between the queues and the hands of threads, each is *)
(* run at most once and none is lost, and none runs when Exit has returned.*)
ImplementsTaskService == Service!Spec

(* Before Exit every committed task is run, by its own thread, by a thief  *)
(* or by a secondary thread, also when threads are released; but one in    *)
(* the priority queue only while there is a secondary thread.              *)
EveryTaskRuns ==
  \A w \in Tasks : Stage(w) = "committed" ~>
     \/ w \in done \/ owner.at \in {"primaries", "secondaries", "end"}
     \/ w \in ToSet(queue[Priority]) /\ \A s \in ToSet(secondary) : stop[s]

(* Exit returns: what the threads still run ends, and all are joined; or   *)
(* it waits for a thread that committed to a deleted one and stays there.  *)
ExitReturns ==
  \/ owner.at = "primaries" ~> owner.at = "end"
  \/ <>[](\E t \in misused : ~At(t, "end"))
=============================================================================
