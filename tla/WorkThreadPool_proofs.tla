------------------------ MODULE WorkThreadPool_proofs ------------------------
(***************************************************************************)
(* Theorems about WorkThreadPool for any pool size, any works, however     *)
(* many threads the system grants, and any programme of commits: works are *)
(* neither lost nor duplicated, queues outlive their users, and the pool   *)
(* implements WorkService.                                                 *)
(***************************************************************************)
EXTENDS WorkThreadPool, FiniteSetTheorems, TLAPS

(* Where each kind of thread can be. *)
Pushing     == {"push", "link", "timer_push", "timer_link", "dangling"}
Filling     == {"lock", "fill", "steal", "peek", "batch", "splice"}
PrimaryAt   == {"unborn", "loop", "exited", "run", "work"} \cup Pushing \cup Filling
SecondaryAt == {"unborn", "loop", "exited", "run", "work", "pop"} \cup Pushing
TimerAt     == {"unborn", "loop", "exited", "due", "take", "timeout", "push", "link"}
MonitorAt   == {"unborn", "sleep", "exited", "scan", "change", "enlarge", "join"}

(* The stages of the life of the pool, by where the main thread is. *)
UserAt      == {"user"} \cup Pushing
SizesAt     == {"change", "join"}
TimerEndAt  == {"stop_timer_queue", "join_timer"}
LoopEndAt   == {"stop_primary", "stop_queue", "join_primary"}
LastAt      == {"delete_queues", "done"}
AfterSizes  == TimerEndAt \cup LoopEndAt \cup LastAt
AfterExit   == {"stop_monitor", "join_monitor"} \cup SizesAt \cup AfterSizes
MainAt      == {"create", "init"} \cup UserAt \cup AfterExit

(* Every thread is at one of the places of its kind.                       *)
ControlInv ==
  /\ \A i \in Ids : pc[Primary(i)] \in PrimaryAt
  /\ \A t \in Secondaries : pc[t] \in SecondaryAt
  /\ pc[Timer] \in TimerAt /\ pc[Monitor] \in MonitorAt /\ pc[Main] \in MainAt

(* Where a PushBack of each thread returns to. *)
Returns(t) == IF t = Main THEN {"user"} ELSE IF t = Timer THEN {"due"} ELSE {"loop", "work"}

(* A thread has an argument while it pushes, a worker a work while it runs *)
(* one; the queue a push has picked exists.                                *)
Employed(t) == pc[t] \in {"run", "work"} \/ (pc[t] \in Pushing /\ back[t] = "work")
CallAt(t) ==
  /\ pc[t] \in Pushing <=> arg[t] # Null
  /\ pc[t] \in Pushing => back[t] \in Returns(t)
  /\ pc[t] = "link" => target[t] \in Ids
  /\ pc[t] \notin {"link", "enlarge"} => target[t] = 0
  /\ work[t] # Null <=> t \in Workers /\ Employed(t)

CallInv == \A t \in Threads : CallAt(t)

(* The secondary threads of queue i are numbered without gaps. *)
SecondaryInv ==
  \A i \in Ids, k \in Slots :
    k > secondaries[i] => pc[Secondary(i, k)] = "unborn"

(* How far a call of ChangeSecondaryThread is.                             *)
ChangeInv ==
  /\ wanted[Main] = 0
  /\ pc[Monitor] \in {"change", "enlarge", "join"} => idx[Monitor] \in Ids
  /\ pc[Monitor] = "enlarge" =>
       /\ secondaries[idx[Monitor]] <= wanted[Monitor]
       /\ target[Monitor] <= secondaries[idx[Monitor]]
  /\ \A m \in {Main, Monitor} :
       pc[m] = "join" => idx[m] \in Ids /\ secondaries[idx[m]] > wanted[m]

(* What has happened when the main thread is at a stage of the pool's life.*)
MainInv ==
  /\ has_stop_ <=> pc[Main] \in AfterExit
  /\ has_init_ => pc[Main] \notin {"create", "init"}
  /\ pc[Main] = "create" => runnables = 0..(created - 1)
  /\ pc[Main] # "create" => created = PoolSize
  /\ pc[Main] \notin LastAt \cup {"create"} => runnables = Ids
  /\ pc[Main] \notin {"create", "done"} => queues = Ids
  /\ pc[Main] = "create" /\ queues # Ids => created = StartedThreads /\ created # PoolSize
  /\ pc[Main] = "create" => pc[Timer] = "unborn" /\ pc[Monitor] = "unborn"
  /\ (\E i \in Ids : queue_stop[i]) \/ timer_queue_stop => has_stop_
  /\ pc[Main] \in SizesAt \cup AfterSizes => pc[Monitor] = "exited"
  /\ pc[Main] \in SizesAt => \A i \in Ids : i < idx[Main] => secondaries[i] = 0
  /\ pc[Main] \in AfterSizes => \A i \in Ids : secondaries[i] = 0
  /\ pc[Main] \in LoopEndAt \cup LastAt => pc[Timer] = "exited"
  /\ pc[Main] \in {"stop_queue", "join_primary"} => idx[Main] \in Ids
  /\ pc[Main] \in LoopEndAt => \A i \in Ids : i < idx[Main] => pc[Primary(i)] = "exited"
  /\ pc[Main] \in LastAt => \A i \in Ids : pc[Primary(i)] = "exited"
  /\ \A i \in Ids : i >= created => pc[Primary(i)] = "unborn"

(* A thief has an empty cache, and what it has stolen is at most half of   *)
(* one; a thread that is going to pop a batch has an empty cache too.      *)
StealInv ==
  \A i \in Ids :
    LET t == Primary(i) IN
    /\ pc[t] \in {"steal", "peek", "batch"} => cache_queue_[i] = <<>>
    /\ pc[t] \notin {"steal", "peek"} => stolen[i] = <<>>
    /\ Len(stolen[i]) <= CacheSize \div 2
    /\ pc[t] \in {"steal", "peek"} => idx[t] \in Ids /\ has_init_
    /\ pc[t] = "peek" => CanSteal(i)

(* Who may hold a work, and the works that c holds.                        *)
Containers == {<<k, i>> : k \in {"queue", "cache", "stolen"}, i \in Ids}
              \cup {<<"timer", 0>>, <<"held", 0>>}
              \cup {<<k, t>> : k \in {"work", "arg"}, t \in Threads}

Contents(c) == IF c[1] = "queue" THEN Elements(work_pool[c[2]])
               ELSE IF c[1] = "cache" THEN Elements(cache_queue_[c[2]])
               ELSE IF c[1] = "stolen" THEN Elements(stolen[c[2]])
               ELSE IF c[1] = "timer" THEN Elements(timer_queue)
               ELSE IF c[1] = "held" THEN priority_queue_
               ELSE IF c[1] = "work" THEN {work[c[2]]} \ {Null}
               ELSE {arg[c[2]]} \ {Null}

Held(w) == \E c \in Containers : w \in Contents(c)

(* No work is held by two, nor twice in a sequence.                        *)
Disjoint == \A c, d \in Containers : \A w \in Contents(c) : w \in Contents(d) => c = d
Distinct(s) == \A k, l \in DOMAIN s : s[k] = s[l] => k = l
NoneTwice ==
  /\ \A i \in Ids : Distinct(work_pool[i]) /\ Distinct(cache_queue_[i]) /\ Distinct(stolen[i])
  /\ Distinct(timer_queue)

(* A work is live while it is held, and until Exit a live work is held; a  *)
(* future is released when its work is deleted.                            *)
LiveInv ==
  \A w \in Works :
    /\ Held(w) => state[w] = "live"
    /\ state[w] = "live" /\ ~has_stop_ => Held(w)
    /\ promise[w] => state[w] = "deleted"
    /\ pc[Main] \in {"create", "init"} => state[w] = "fresh"

IInv == /\ TypeOK /\ ControlInv /\ CallInv /\ SecondaryInv /\ ChangeInv /\ MainInv
        /\ StealInv /\ Disjoint /\ NoneTwice /\ LiveInv
-----------------------------------------------------------------------------
(* Constants, threads and sequences. *)

LEMMA ThreadFacts ==
  /\ {Main, Timer, Monitor} \subseteq Threads
  /\ Main # Timer /\ Main # Monitor /\ Timer # Monitor
  /\ Workers \subseteq Threads /\ {Main, Timer, Monitor} \cap Workers = {}
  /\ Workers = Primaries \cup Secondaries /\ Primaries \cap Secondaries = {}
  /\ \A t \in Threads : t \in Workers \/ t \in {Main, Timer, Monitor}
  /\ \A i \in Ids : Primary(i) \in Primaries
  /\ \A t \in Primaries : \E i \in Ids : t = Primary(i)
  /\ \A t \in Secondaries : \E i \in Ids, k \in Slots : t = Secondary(i, k)
  /\ \A i, j : Primary(i) = Primary(j) => i = j
  /\ \A i \in Ids, k \in Slots : Secondary(i, k) \in Secondaries
  /\ \A i, j, k, l : Secondary(i, k) = Secondary(j, l) => i = j /\ k = l
BY DEF Threads, Workers, Primaries, Secondaries, Main, Timer, Monitor, Primary, Secondary

LEMMA IdFacts ==
  /\ Ids = 0..(PoolSize - 1) /\ 0 \in Ids /\ Ids \subseteq Nat /\ Ids \subseteq 0..PoolSize
  /\ Slots \subseteq 1..PoolSize /\ Slots = 1..VeryBusySize
  /\ PoolSize \notin Ids /\ PoolSize \in 0..PoolSize /\ PoolSize \in Nat \ {0}
  /\ IsFiniteSet(Ids) /\ Cardinality(Ids) = PoolSize
<1>1. IsFiniteSet(Ids) /\ Cardinality(Ids) = PoolSize
  BY FS_Interval, PoolAssumption DEF Ids
<1>2. QED BY <1>1, PoolAssumption DEF Ids, Slots

LEMMA ModuloFacts ==
  /\ \A n \in Nat : n % PoolSize \in Ids
  /\ \A i \in Ids : NextId(i) \in Ids
BY PoolAssumption DEF Ids, NextId
-----------------------------------------------------------------------------
(* Types. *)

LEMMA WorkSeqs ==
  /\ <<>> \in Seq(Works) /\ Len(<<>>) = 0
  /\ \A s \in Seq(Works), w \in Works : Append(s, w) \in Seq(Works)
  /\ \A s \in Seq(Works) : s # <<>> =>
       /\ Head(s) \in Works /\ Tail(s) \in Seq(Works) /\ Len(Tail(s)) = Len(s) - 1
       /\ Len(s) > 0
  /\ \A s \in Seq(Works) : Len(s) \in Nat /\ Elements(s) \subseteq Works
BY DEF Elements

LEMMA Batches ==
  ASSUME NEW s \in Seq(Works), NEW r \in Seq(Works), NEW k \in 0..Len(r)
  PROVE  /\ s \o SubSeq(r, 1, k) \in Seq(Works)
         /\ Len(s \o SubSeq(r, 1, k)) = Len(s) + k
         /\ Without(r, k) \in Seq(Works) /\ Len(Without(r, k)) = Len(r) - k
BY DEF Without

LEMMA LeastFacts ==
  ASSUME NEW a \in Nat, NEW b \in Nat
  PROVE  Least(a, b) \in 0..b /\ Least(a, b) <= a
BY DEF Least

LEMMA AtMostOne ==
  ASSUME NEW n \in Nat
  PROVE  Least(1, n) \in 0..n /\ Least(1, n) <= 1 /\ (n = 0 => Least(1, n) = 0)
BY DEF Least

LEMMA GoingOn ==
  ASSUME pc \in [Threads -> PcValues], NEW t \in Threads, NEW l \in PcValues, Goto(t, l)
  PROVE  pc' \in [Threads -> PcValues]
BY DEF Goto

LEMMA InitType == Init => TypeOK
<1> SUFFICES ASSUME Init PROVE TypeOK OBVIOUS
<1>1. /\ has_init_ \in BOOLEAN /\ has_stop_ \in BOOLEAN
      /\ stop \in [Threads -> BOOLEAN]
      /\ created \in 0..PoolSize /\ runnables \subseteq Ids /\ queues \subseteq Ids
  <2>1. 0 \in 0..PoolSize BY IdFacts
  <2>2. QED BY <2>1 DEF Init
<1>2. index_ \in 0..(IndexModulus - 1)
  <2>1. 0 \in 0..(IndexModulus - 1) BY PoolAssumption
  <2>2. QED BY <2>1 DEF Init
<1>3. /\ work_pool \in [Ids -> Seq(Works)] /\ cache_queue_ \in [Ids -> Seq(Works)]
      /\ stolen \in [Ids -> Seq(Works)] /\ timer_queue \in Seq(Works)
      /\ \A i \in Ids : Len(cache_queue_[i]) <= CacheSize
  BY WorkSeqs, PoolAssumption DEF Init
<1>4. /\ lock_ \in [Ids -> Primaries \cup {Null}]
      /\ secondaries \in [Ids -> 0..VeryBusySize]
      /\ wanted \in [{Main, Monitor} -> 0..VeryBusySize]
  <2>1. 0 \in 0..VeryBusySize BY PoolAssumption
  <2>2. QED BY <2>1 DEF Init
<1>5. /\ serves \in [Secondaries -> Ids] /\ queue_stop \in [Ids -> BOOLEAN]
      /\ timer_queue_stop \in BOOLEAN /\ priority_queue_ \subseteq Works
  BY IdFacts DEF Init
<1>6. pc \in [Threads -> PcValues] /\ back \in [Threads -> PcValues]
  <2>1. {"create", "unborn", "loop"} \subseteq PcValues BY DEF PcValues
  <2>2. QED BY <2>1 DEF Init
<1>7. idx \in [Threads -> 0..PoolSize] /\ target \in [Threads -> 0..PoolSize]
  BY PoolAssumption DEF Init
<1>8. /\ work \in [Threads -> Works \cup {Null}] /\ arg \in [Threads -> Works \cup {Null}]
      /\ state \in [Works -> {"fresh", "live", "deleted"}]
      /\ times_ \in [Works -> Int] /\ promise \in [Works -> BOOLEAN]
  BY WorksAssumption DEF Init
<1>9. QED BY <1>1, <1>2, <1>3, <1>4, <1>5, <1>6, <1>7, <1>8 DEF TypeOK

(* What every push and every start of one leaves typed. *)
LEMMA EndPushType ==
  ASSUME TypeOK, CallInv, NEW t \in Threads, pc[t] \in Pushing, EndPush(t)
  PROVE  /\ pc' \in [Threads -> PcValues] /\ back' \in [Threads -> PcValues]
         /\ arg' \in [Threads -> Works \cup {Null}] /\ target' \in [Threads -> 0..PoolSize]
<1>1. "loop" \in PcValues BY DEF PcValues
<1>2. 0 \in 0..PoolSize BY PoolAssumption
<1>3. back[t] \in PcValues BY DEF TypeOK
<1>4. QED BY <1>1, <1>2, <1>3 DEF EndPush, Goto, TypeOK

LEMMA StartPushType ==
  ASSUME TypeOK, NEW t \in Threads, NEW w \in Works, NEW l \in {"loop", "work", "user", "due"},
         StartPush(t, w, l)
  PROVE  /\ pc' \in [Threads -> PcValues] /\ back' \in [Threads -> PcValues]
         /\ arg' \in [Threads -> Works \cup {Null}]
<1>1. {"push", "timer_push"} \subseteq PcValues /\ l \in PcValues BY DEF PcValues
<1>2. QED BY <1>1 DEF StartPush, Goto, TypeOK

LEMMA DeleteType ==
  ASSUME TypeOK, NEW S, Delete(S)
  PROVE  state' \in [Works -> {"fresh", "live", "deleted"}]
BY DEF TypeOK, Delete

LEMMA PushType ==
  ASSUME TypeOK, CallInv, NEW t \in Threads, Push(t)
  PROVE  TypeOK'
<1> USE DEF flagVars, lifeVars, poolVars, cacheVars, timerVars, sizeVars, loopVars,
            callVars, workVars
<1>1. CASE PushStopped(t)
  <2>1. pc[t] \in Pushing BY <1>1 DEF PushStopped, Pushing
  <2>2. QED BY <1>1, <2>1, EndPushType, DeleteType DEF PushStopped, TypeOK
<1>2. CASE PushIndex(t)
  <2>1. index_ \in Nat BY PoolAssumption DEF TypeOK
  <2>2. index_ % PoolSize \in 0..PoolSize BY <2>1, IdFacts, ModuloFacts
  <2>3. index_' \in 0..(IndexModulus - 1)
    BY <1>2, <2>1, PoolAssumption DEF PushIndex
  <2>4. target' \in [Threads -> 0..PoolSize] BY <1>2, <2>2 DEF PushIndex, TypeOK
  <2>5. pc' \in [Threads -> PcValues]
    BY <1>2, GoingOn DEF PushIndex, TypeOK, PcValues
  <2>6. QED BY <1>2, <2>3, <2>4, <2>5 DEF PushIndex, TypeOK
<1>3. CASE PushLink(t)
  <2>1. pc[t] \in Pushing /\ arg[t] \in Works /\ target[t] \in Ids
    BY <1>3 DEF PushLink, At, CallInv, CallAt, Pushing, TypeOK
  <2>2. Append(work_pool[target[t]], arg[t]) \in Seq(Works)
    BY <2>1, WorkSeqs DEF TypeOK
  <2>3. work_pool' \in [Ids -> Seq(Works)]
    <3>1. \/ work_pool' = [work_pool EXCEPT ![target[t]] = Append(@, arg[t])]
          \/ work_pool' = work_pool
      BY <1>3 DEF PushLink
    <3>2. work_pool \in [Ids -> Seq(Works)] BY DEF TypeOK
    <3>3. QED BY <2>1, <2>2, <3>1, <3>2
  <2>4. QED BY <1>3, <2>1, <2>3, EndPushType DEF PushLink, TypeOK
<1>4. CASE TimerPushCheck(t)
  <2>1. pc' \in [Threads -> PcValues]
    BY <1>4, GoingOn DEF TimerPushCheck, TypeOK, PcValues
  <2>2. QED BY <1>4, <2>1 DEF TimerPushCheck, TypeOK
<1>5. CASE TimerPushLink(t)
  <2>1. pc[t] \in Pushing /\ arg[t] \in Works
    BY <1>5 DEF TimerPushLink, At, CallInv, CallAt, Pushing, TypeOK
  <2>2. Append(timer_queue, arg[t]) \in Seq(Works) BY <2>1, WorkSeqs DEF TypeOK
  <2>3. timer_queue' \in Seq(Works) BY <1>5, <2>2 DEF TimerPushLink, TypeOK
  <2>4. CASE EndPush(t)
    BY <1>5, <2>1, <2>3, <2>4, EndPushType DEF TimerPushLink, TypeOK
  <2>5. CASE Goto(t, "dangling") /\ UNCHANGED <<timer_queue, target, arg, back>>
    <3>1. pc' \in [Threads -> PcValues] BY <2>5, GoingOn DEF TypeOK, PcValues
    <3>2. QED BY <1>5, <2>5, <3>1 DEF TimerPushLink, TypeOK
  <2>6. QED BY <1>5, <2>4, <2>5 DEF TimerPushLink
<1>6. QED BY <1>1, <1>2, <1>3, <1>4, <1>5 DEF Push

LEMMA RunType ==
  ASSUME TypeOK, CallInv, NEW t \in Workers,
         RunBegin(t) \/ RunCommit(t) \/ RunEnd(t)
  PROVE  TypeOK'
<1> USE DEF flagVars, lifeVars, poolVars, cacheVars, timerVars, sizeVars, loopVars,
            callVars, workVars
<1>1. t \in Threads /\ (pc[t] \in {"run", "work"} => work[t] \in Works)
  BY ThreadFacts DEF CallInv, CallAt, TypeOK, Employed
<1>2. CASE RunBegin(t)
  <2>1. pc' \in [Threads -> PcValues]
    <3>1. {"loop", "work"} \subseteq PcValues BY DEF PcValues
    <3>2. QED BY <1>1, <1>2, <3>1 DEF RunBegin, Goto, TypeOK
  <2>2. /\ state' \in [Works -> {"fresh", "live", "deleted"}]
        /\ work' \in [Threads -> Works \cup {Null}]
    <3>1. /\ state' = state \/ Delete({work[t]})
          /\ work' = work \/ work' = [work EXCEPT ![t] = Null]
      BY <1>2 DEF RunBegin
    <3>2. state' \in [Works -> {"fresh", "live", "deleted"}] BY <3>1, DeleteType DEF TypeOK
    <3>3. QED BY <1>1, <3>1, <3>2 DEF TypeOK
  <2>3. QED BY <1>2, <2>1, <2>2 DEF RunBegin, TypeOK
<1>3. CASE RunCommit(t)
  <2> DEFINE c == Child[work[t]]
  <2>1. c \in Works BY <1>1, <1>3, WorksAssumption DEF RunCommit, At
  <2>2. state' \in [Works -> {"fresh", "live", "deleted"}]
    BY <1>3, <2>1 DEF RunCommit, TypeOK
  <2>3. QED BY <1>1, <1>3, <2>1, <2>2, StartPushType DEF RunCommit, TypeOK
<1>4. CASE RunEnd(t)
  <2>1. work[t] \in Works BY <1>1, <1>4 DEF RunEnd, At
  <2>2. times_' \in [Works -> Int] /\ promise' \in [Works -> BOOLEAN]
    BY <1>4, <2>1 DEF RunEnd, TypeOK
  <2>3. work' \in [Threads -> Works \cup {Null}] BY <1>1, <1>4 DEF RunEnd, TypeOK
  <2>4. CASE Delete({work[t]}) /\ Goto(t, "loop") /\ UNCHANGED <<arg, back>>
    <3>1. "loop" \in PcValues BY DEF PcValues
    <3>2. pc' \in [Threads -> PcValues] BY <1>1, <2>4, <3>1, GoingOn DEF TypeOK
    <3>3. QED BY <1>4, <2>2, <2>3, <2>4, <3>2, DeleteType DEF RunEnd, TypeOK
  <2>5. CASE StartPush(t, work[t], "loop") /\ UNCHANGED state
    BY <1>1, <1>4, <2>1, <2>2, <2>3, <2>5, StartPushType DEF RunEnd, TypeOK
  <2>6. QED BY <1>4, <2>4, <2>5 DEF RunEnd
<1>5. QED BY <1>2, <1>3, <1>4

LEMMA RefillType ==
  ASSUME TypeOK, NEW i \in Ids, NEW k \in 0..Len(work_pool[i]),
         Len(cache_queue_[i]) + k <= CacheSize, Refill(i, k)
  PROVE  /\ work_pool' \in [Ids -> Seq(Works)] /\ cache_queue_' \in [Ids -> Seq(Works)]
         /\ \A j \in Ids : Len(cache_queue_'[j]) <= CacheSize
<1>1. work_pool[i] \in Seq(Works) /\ cache_queue_[i] \in Seq(Works) BY DEF TypeOK
<1>2. QED BY <1>1, Batches DEF Refill, TypeOK

LEMMA PrimaryType ==
  ASSUME TypeOK, CallInv, StealInv, NEW i \in Ids, PrimaryStep(i)
  PROVE  TypeOK'
<1> DEFINE t == Primary(i)
<1> USE DEF flagVars, lifeVars, poolVars, cacheVars, timerVars, sizeVars, loopVars,
            callVars, workVars
<1>1. t \in Threads /\ t \in Primaries /\ t \in Workers BY ThreadFacts
<1> HIDE DEF t
<1>2. {"loop", "exited"} \cup Filling \cup {"run", "work"} \subseteq PcValues
  BY DEF PcValues, Filling
<1>3. CASE PrimaryLoop(i)
  <2>1. pc' \in [Threads -> PcValues]
    BY <1>1, <1>2, <1>3, GoingOn DEF PrimaryLoop, TypeOK, Filling, t
  <2>2. QED BY <1>3, <2>1 DEF PrimaryLoop, TypeOK
<1>4. CASE PrimaryLock(i)
  <2>1. pc' \in [Threads -> PcValues]
    BY <1>1, <1>2, <1>4, GoingOn DEF PrimaryLock, TypeOK, Filling, t
  <2>2. lock_' \in [Ids -> Primaries \cup {Null}]
    BY <1>1, <1>4 DEF PrimaryLock, TypeOK, t
  <2>3. QED BY <1>4, <2>1, <2>2 DEF PrimaryLock, TypeOK
<1>5. CASE PrimaryPick(i)
  <2>1. lock_' \in [Ids -> Primaries \cup {Null}] BY <1>5 DEF PrimaryPick, TypeOK
  <2>2. cache_queue_[i] \in Seq(Works) /\ Len(cache_queue_[i]) <= CacheSize
    BY DEF TypeOK
  <2>3. CASE /\ cache_queue_[i] # <<>> /\ Goto(t, "run")
             /\ work' = [work EXCEPT ![t] = Head(cache_queue_[i])]
             /\ cache_queue_' = [cache_queue_ EXCEPT ![i] = Tail(@)]
    <3>1. /\ Head(cache_queue_[i]) \in Works /\ Tail(cache_queue_[i]) \in Seq(Works)
          /\ Len(Tail(cache_queue_[i])) <= CacheSize
      BY <2>2, <2>3, WorkSeqs, PoolAssumption
    <3>2. pc' \in [Threads -> PcValues] BY <1>1, <1>2, <2>3, GoingOn DEF TypeOK
    <3>3. /\ cache_queue_' \in [Ids -> Seq(Works)]
          /\ \A j \in Ids : Len(cache_queue_'[j]) <= CacheSize
      BY <2>3, <3>1 DEF TypeOK
    <3>4. work' \in [Threads -> Works \cup {Null}] BY <1>1, <2>3, <3>1 DEF TypeOK
    <3>5. QED BY <1>5, <2>1, <3>2, <3>3, <3>4 DEF PrimaryPick, TypeOK
  <2>4. CASE Goto(t, "loop") /\ UNCHANGED <<work, cache_queue_>>
    <3>1. pc' \in [Threads -> PcValues] BY <1>1, <1>2, <2>4, GoingOn DEF TypeOK
    <3>2. QED BY <1>5, <2>1, <2>4, <3>1 DEF PrimaryPick, TypeOK
  <2>5. QED BY <1>5, <2>3, <2>4 DEF PrimaryPick, t
<1>6. CASE StealBegin(i)
  <2>1. pc' \in [Threads -> PcValues]
    BY <1>1, <1>2, <1>6, GoingOn DEF StealBegin, TypeOK, Filling, t
  <2>2. NextId(i) \in 0..PoolSize BY IdFacts, ModuloFacts
  <2>3. idx' \in [Threads -> 0..PoolSize]
    BY <1>6, <2>2 DEF StealBegin, TypeOK, t
  <2>4. QED BY <1>6, <2>1, <2>3 DEF StealBegin, TypeOK
<1>7. CASE StealTryLock(i)
  <2>1. idx[t] \in Ids BY <1>7 DEF StealTryLock, StealInv, At, t
  <2>2. NextId(idx[t]) \in 0..PoolSize BY <2>1, IdFacts, ModuloFacts
  <2>3. pc' \in [Threads -> PcValues]
    BY <1>1, <1>2, <1>7 DEF StealTryLock, Goto, TypeOK, Filling, t
  <2>4. idx' \in [Threads -> 0..PoolSize] BY <1>7, <2>2 DEF StealTryLock, TypeOK, t
  <2>5. lock_' \in [Ids -> Primaries \cup {Null}]
    <3>1. t \in Primaries \cup {Null} BY ThreadFacts DEF t
    <3>2. lock_' = [lock_ EXCEPT ![idx[t]] = t] \/ lock_' = lock_ BY <1>7 DEF StealTryLock, t
    <3>3. lock_ \in [Ids -> Primaries \cup {Null}] BY DEF TypeOK
    <3>4. QED BY <3>1, <3>2, <3>3
  <2>6. UNCHANGED <<flagVars, lifeVars, poolVars, cache_queue_, stolen, timerVars, sizeVars,
                    target, callVars, workVars>>
    BY <1>7 DEF StealTryLock
  <2>7. QED BY <2>3, <2>4, <2>5, <2>6 DEF TypeOK
<1>8. CASE StealTake(i)
  <2> DEFINE j == idx[t] k == Least(1, Len(cache_queue_[j]))
  <2>1. j \in Ids BY <1>8 DEF StealTake, StealInv, At, t
  <2>2. /\ cache_queue_[j] \in Seq(Works) /\ Len(cache_queue_[j]) <= CacheSize
        /\ stolen[i] \in Seq(Works)
    BY <2>1 DEF TypeOK
  <2>3. k \in 0..Len(cache_queue_[j]) BY <2>2, WorkSeqs, LeastFacts
  <2>4. /\ stolen[i] \o SubSeq(cache_queue_[j], 1, k) \in Seq(Works)
        /\ Without(cache_queue_[j], k) \in Seq(Works)
        /\ Len(Without(cache_queue_[j], k)) <= CacheSize
    BY <2>2, <2>3, Batches, PoolAssumption
  <2>5. NextId(j) \in 0..PoolSize BY <2>1, IdFacts, ModuloFacts
  <2>6. pc' \in [Threads -> PcValues]
    BY <1>1, <1>2, <1>8, GoingOn DEF StealTake, TypeOK, Filling, t
  <2>7. idx' \in [Threads -> 0..PoolSize] BY <1>8, <2>5 DEF StealTake, TypeOK, t
  <2>8. stolen' \in [Ids -> Seq(Works)] BY <1>8, <2>4 DEF StealTake, TypeOK, t
  <2>9. /\ cache_queue_' \in [Ids -> Seq(Works)]
        /\ \A l \in Ids : Len(cache_queue_'[l]) <= CacheSize
    BY <1>8, <2>1, <2>4 DEF StealTake, TypeOK, t
  <2>10. lock_' \in [Ids -> Primaries \cup {Null}] BY <1>8 DEF StealTake, TypeOK
  <2>11. QED BY <1>8, <2>6, <2>7, <2>8, <2>9, <2>10 DEF StealTake, TypeOK
<1>9. CASE StealEnd(i)
  <2>1. stolen[i] \in Seq(Works) /\ Len(stolen[i]) <= CacheSize \div 2
    BY DEF TypeOK, StealInv
  <2>2. Len(stolen[i]) <= CacheSize BY <2>1, PoolAssumption
  <2>3. pc' \in [Threads -> PcValues]
    BY <1>1, <1>2, <1>9, GoingOn DEF StealEnd, TypeOK, Filling, t
  <2>4. /\ cache_queue_' \in [Ids -> Seq(Works)]
        /\ \A l \in Ids : Len(cache_queue_'[l]) <= CacheSize
    BY <1>9, <2>1, <2>2 DEF StealEnd, TypeOK
  <2>5. stolen' \in [Ids -> Seq(Works)] BY <1>9, WorkSeqs DEF StealEnd, TypeOK
  <2>6. idx' \in [Threads -> 0..PoolSize]
    <3>1. 0 \in 0..PoolSize BY IdFacts
    <3>2. QED BY <1>9, <3>1 DEF StealEnd, TypeOK
  <2>7. QED BY <1>9, <2>3, <2>4, <2>5, <2>6 DEF StealEnd, TypeOK
<1>10. CASE PopFrontBatch(i)
  <2> DEFINE k == Least(CacheSize, Len(work_pool[i]))
  <2>1. cache_queue_[i] = <<>> /\ work_pool[i] \in Seq(Works)
    BY <1>10 DEF PopFrontBatch, StealInv, At, TypeOK
  <2>2. k \in 0..Len(work_pool[i]) /\ Len(cache_queue_[i]) + k <= CacheSize
    <3>1. /\ Len(cache_queue_[i]) = 0 /\ Len(work_pool[i]) \in Nat /\ CacheSize \in Nat
      BY <2>1, WorkSeqs, PoolAssumption
    <3>2. k \in 0..Len(work_pool[i]) /\ k <= CacheSize BY <3>1, LeastFacts
    <3>3. QED BY <3>1, <3>2
  <2>3. /\ work_pool' \in [Ids -> Seq(Works)] /\ cache_queue_' \in [Ids -> Seq(Works)]
        /\ \A j \in Ids : Len(cache_queue_'[j]) <= CacheSize
    BY <1>10, <2>2, RefillType DEF PopFrontBatch, TypeOK
  <2>4. pc' \in [Threads -> PcValues]
    BY <1>1, <1>2, <1>10, GoingOn DEF PopFrontBatch, TypeOK, Filling, t
  <2>5. QED BY <1>10, <2>3, <2>4 DEF PopFrontBatch, TypeOK
<1>11. CASE TryPopFrontBatch(i)
  <2> DEFINE room == CacheSize - Len(cache_queue_[i])
             k == Least(room, Len(work_pool[i]))
  <2>1. /\ cache_queue_[i] \in Seq(Works) /\ Len(cache_queue_[i]) <= CacheSize
        /\ work_pool[i] \in Seq(Works)
    BY DEF TypeOK
  <2>2. k \in 0..Len(work_pool[i]) /\ Len(cache_queue_[i]) + k <= CacheSize
    <3>1. /\ Len(cache_queue_[i]) \in Nat /\ Len(work_pool[i]) \in Nat /\ CacheSize \in Nat
          /\ room \in Nat
      BY <2>1, WorkSeqs, PoolAssumption
    <3>2. k \in 0..Len(work_pool[i]) /\ k <= room BY <3>1, LeastFacts
    <3>3. QED BY <3>1, <3>2
  <2>3. /\ work_pool' \in [Ids -> Seq(Works)] /\ cache_queue_' \in [Ids -> Seq(Works)]
        /\ \A j \in Ids : Len(cache_queue_'[j]) <= CacheSize
    BY <1>11, <2>2, RefillType DEF TryPopFrontBatch, TypeOK
  <2>4. pc' \in [Threads -> PcValues]
    BY <1>1, <1>2, <1>11, GoingOn DEF TryPopFrontBatch, TypeOK, Filling, t
  <2>5. QED BY <1>11, <2>3, <2>4 DEF TryPopFrontBatch, TypeOK
<1>12. CASE WorkStep(Primary(i))
  BY <1>1, <1>12, PushType, RunType DEF WorkStep, t
<1>13. QED BY <1>3, <1>4, <1>5, <1>6, <1>7, <1>8, <1>9, <1>10, <1>11, <1>12
  DEF PrimaryStep

LEMMA SecondaryType ==
  ASSUME TypeOK, CallInv, NEW t \in Secondaries, SecondaryStep(t)
  PROVE  TypeOK'
<1> USE DEF flagVars, lifeVars, poolVars, cacheVars, timerVars, sizeVars, loopVars,
            callVars, workVars
<1>1. t \in Threads /\ t \in Workers BY ThreadFacts
<1>2. {"loop", "exited", "pop", "run"} \subseteq PcValues BY DEF PcValues
<1>3. CASE SecondaryLoop(t)
  <2>1. pc' \in [Threads -> PcValues]
    BY <1>1, <1>2, <1>3, GoingOn DEF SecondaryLoop, TypeOK
  <2>2. QED BY <1>3, <2>1 DEF SecondaryLoop, TypeOK
<1>4. CASE SecondaryPop(t)
  <2> DEFINE i == serves[t]
  <2>1. i \in Ids /\ work_pool[i] \in Seq(Works) BY DEF TypeOK
  <2>2. CASE /\ work_pool[i] # <<>> /\ Goto(t, "run")
             /\ work' = [work EXCEPT ![t] = Head(work_pool[i])]
             /\ work_pool' = [work_pool EXCEPT ![i] = Tail(@)]
    <3>1. /\ Head(work_pool[i]) \in Works /\ Tail(work_pool[i]) \in Seq(Works)
      BY <2>1, <2>2, WorkSeqs
    <3>2. pc' \in [Threads -> PcValues] BY <1>1, <1>2, <2>2, GoingOn DEF TypeOK
    <3>3. /\ work_pool' \in [Ids -> Seq(Works)] /\ work' \in [Threads -> Works \cup {Null}]
      BY <2>2, <3>1 DEF TypeOK
    <3>4. QED BY <1>4, <3>2, <3>3 DEF SecondaryPop, TypeOK
  <2>3. CASE Goto(t, "loop") /\ UNCHANGED <<work, work_pool>>
    <3>1. pc' \in [Threads -> PcValues] BY <1>1, <1>2, <2>3, GoingOn DEF TypeOK
    <3>2. QED BY <1>4, <2>3, <3>1 DEF SecondaryPop, TypeOK
  <2>4. QED BY <1>4, <2>2, <2>3 DEF SecondaryPop
<1>5. CASE WorkStep(t)
  BY <1>1, <1>5, PushType, RunType DEF WorkStep
<1>6. QED BY <1>3, <1>4, <1>5 DEF SecondaryStep

LEMMA TimerType ==
  ASSUME TypeOK, CallInv, TimerStep
  PROVE  TypeOK'
<1> USE DEF flagVars, lifeVars, poolVars, cacheVars, timerVars, sizeVars, loopVars,
            callVars, workVars
<1>1. Timer \in Threads BY ThreadFacts
<1>2. CASE TimerLoop \/ TimerNothingDue \/ TimerStopped \/ TimerTimeout
  <2>1. {"exited", "due", "take", "loop", "timeout"} \subseteq PcValues BY DEF PcValues
  <2>2. pc' \in [Threads -> PcValues]
    BY <1>1, <1>2, <2>1
    DEF TimerLoop, TimerNothingDue, TimerStopped, TimerTimeout, Goto, TypeOK
  <2>3. UNCHANGED <<flagVars, lifeVars, poolVars, cacheVars, timerVars, sizeVars,
                    loopVars, callVars, workVars>>
    BY <1>2 DEF TimerLoop, TimerNothingDue, TimerStopped, TimerTimeout
  <2>4. QED BY <2>2, <2>3 DEF TypeOK
<1>3. CASE TimerTake
  <2>1. Head(timer_queue) \in Works /\ Tail(timer_queue) \in Seq(Works)
    BY <1>3, WorkSeqs DEF TimerTake, TypeOK
  <2>2. pc' \in [Threads -> PcValues]
    BY <1>1, <1>3, GoingOn DEF TimerTake, TypeOK, PcValues
  <2>3. QED BY <1>3, <2>1, <2>2 DEF TimerTake, TypeOK
<1>4. ASSUME NEW w \in Works, TimerFire(w) PROVE TypeOK'
  BY <1>1, <1>4, StartPushType DEF TimerFire, TypeOK
<1>5. CASE Push(Timer)
  BY <1>1, <1>5, PushType
<1>6. QED BY <1>2, <1>3, <1>4, <1>5 DEF TimerStep

LEMMA ChangeType ==
  ASSUME TypeOK, ControlInv, ChangeInv, NEW m \in {Main, Monitor}, ChangeStep(m)
  PROVE  TypeOK'
<1> USE DEF flagVars, lifeVars, poolVars, cacheVars, timerVars, sizeVars, loopVars,
            callVars, workVars
<1>1. m \in Threads /\ 0 \in 0..PoolSize /\ 0 \in 0..VeryBusySize
  BY ThreadFacts, PoolAssumption
<1>2. ASSUME idx[m] \in Ids, NextPool(m)
      PROVE  /\ idx' \in [Threads -> 0..PoolSize] /\ target' \in [Threads -> 0..PoolSize]
             /\ wanted' \in [{Main, Monitor} -> 0..VeryBusySize]
  <2>1. idx[m] + 1 \in 0..PoolSize BY <1>2, IdFacts
  <2>2. QED BY <1>1, <1>2, <2>1 DEF NextPool, TypeOK
<1>3. /\ {"enlarge", "join", "loop", "unborn"} \subseteq PcValues
      /\ Scanning(m) \in PcValues
  BY DEF PcValues, Scanning
<1>4. CASE Change(m)
  <2>1. stop' \in [Threads -> BOOLEAN] BY <1>4 DEF Change, TypeOK
  <2>2. pc' \in [Threads -> PcValues] BY <1>1, <1>3, <1>4 DEF Change, Goto, TypeOK
  <2>3. /\ idx' \in [Threads -> 0..PoolSize] /\ target' \in [Threads -> 0..PoolSize]
        /\ wanted' \in [{Main, Monitor} -> 0..VeryBusySize]
    BY <1>2, <1>4 DEF Change, TypeOK
  <2>4. QED BY <1>4, <2>1, <2>2, <2>3 DEF Change, TypeOK
<1>5. CASE Enlarge(m)
  <2> DEFINE i == idx[m] t == Secondary(i, secondaries[i] + 1)
  <2>1. m = Monitor /\ i \in Ids
    BY <1>5, ThreadFacts
    DEF Enlarge, At, ChangeInv, ControlInv, MainAt, UserAt, Pushing, AfterExit, SizesAt,
        AfterSizes, TimerEndAt, LoopEndAt, LastAt
  <2>2. CASE NextPool(m) /\ Goto(m, Scanning(m)) /\ UNCHANGED <<secondaries, serves, stop>>
    <3>1. pc' \in [Threads -> PcValues] BY <1>1, <1>3, <2>2, GoingOn DEF TypeOK
    <3>2. QED BY <1>2, <1>5, <2>1, <2>2, <3>1 DEF Enlarge, TypeOK
  <2>3. CASE /\ secondaries[i] < wanted[m]
             /\ secondaries' = [secondaries EXCEPT ![i] = @ + 1]
             /\ serves' = [serves EXCEPT ![t] = target[m]]
             /\ target' = [target EXCEPT ![m] = @ + 1]
             /\ Goto(t, "loop") /\ UNCHANGED <<stop, idx, wanted>>
    <3>1. secondaries[i] \in 0..VeryBusySize /\ wanted[m] \in 0..VeryBusySize
      BY <2>1 DEF TypeOK
    <3>2. target[m] \in 0..PoolSize /\ target[m] <= secondaries[i]
      BY <1>1, <1>5, <2>1 DEF Enlarge, At, ChangeInv, TypeOK
    <3>3. /\ secondaries[i] + 1 \in 0..VeryBusySize /\ secondaries[i] + 1 \in Slots
          /\ target[m] \in Ids /\ target[m] + 1 \in 0..PoolSize
      BY <2>3, <3>1, <3>2, IdFacts, PoolAssumption DEF Ids, Slots
    <3>4. t \in Secondaries /\ t \in Threads BY <2>1, <3>3, ThreadFacts
    <3> HIDE DEF t
    <3>5. pc' \in [Threads -> PcValues] BY <1>3, <2>3, <3>4, GoingOn DEF TypeOK
    <3>6. /\ secondaries' \in [Ids -> 0..VeryBusySize] /\ serves' \in [Secondaries -> Ids]
          /\ target' \in [Threads -> 0..PoolSize]
      BY <2>3, <3>3, <3>4 DEF TypeOK
    <3>7. QED BY <1>5, <2>3, <3>5, <3>6 DEF Enlarge, TypeOK
  <2>4. QED BY <1>5, <2>2, <2>3 DEF Enlarge
<1>6. CASE Reduce(m)
  <2> DEFINE i == idx[m] t == Secondary(i, secondaries[i])
  <2>1. i \in Ids /\ secondaries[i] > wanted[m]
    BY <1>6 DEF Reduce, At, ChangeInv
  <2>2. secondaries[i] \in Slots /\ secondaries[i] - 1 \in 0..VeryBusySize
    <3>1. secondaries[i] \in 0..VeryBusySize /\ wanted[m] \in 0..VeryBusySize
      BY <2>1 DEF TypeOK
    <3>2. QED BY <2>1, <3>1, PoolAssumption DEF Slots
  <2>3. t \in Secondaries /\ t \in Threads BY <2>1, <2>2, ThreadFacts
  <2> HIDE DEF t
  <2>4. /\ idx' \in [Threads -> 0..PoolSize] /\ target' \in [Threads -> 0..PoolSize]
        /\ wanted' \in [{Main, Monitor} -> 0..VeryBusySize]
    BY <1>2, <1>6, <2>1 DEF Reduce, TypeOK
  <2>5. pc' \in [Threads -> PcValues]
    BY <1>1, <1>3, <1>6, <2>3 DEF Reduce, Goto, TypeOK, t
  <2>6. /\ secondaries' \in [Ids -> 0..VeryBusySize] /\ stop' \in [Threads -> BOOLEAN]
        /\ serves' \in [Secondaries -> Ids]
    <3>1. /\ secondaries' = [secondaries EXCEPT ![i] = @ - 1]
          /\ serves' = [serves EXCEPT ![t] = 0] /\ stop' = [stop EXCEPT ![t] = FALSE]
      BY <1>6 DEF Reduce, t
    <3>2. 0 \in Ids BY IdFacts
    <3>3. QED BY <2>2, <3>1, <3>2 DEF TypeOK
  <2>7. QED BY <1>6, <2>4, <2>5, <2>6 DEF Reduce, TypeOK
<1>7. QED BY <1>4, <1>5, <1>6 DEF ChangeStep

LEMMA MainType ==
  ASSUME TypeOK, CallInv, ControlInv, ChangeInv, MainInv, MainStep
  PROVE  TypeOK'
<1> USE DEF flagVars, lifeVars, poolVars, cacheVars, timerVars, sizeVars, loopVars,
            callVars, workVars
<1>1. {Main, Timer, Monitor} \subseteq Threads BY ThreadFacts
<1>2. 0 \in 0..PoolSize /\ PoolSize \in 0..PoolSize /\ 0 \in 0..VeryBusySize
  BY IdFacts, PoolAssumption
<1>3. {"loop", "sleep", "create", "init"} \cup MainAt \subseteq PcValues
  BY DEF PcValues, MainAt, UserAt, Pushing, AfterExit, SizesAt, AfterSizes, TimerEndAt,
         LoopEndAt, LastAt
<1>4. CASE StartPrimary
  <2>1. created + 1 \in 0..PoolSize /\ created \in Ids
    BY <1>4, PoolAssumption DEF StartPrimary, TypeOK, Ids
  <2>2. Primary(created) \in Threads BY <2>1, ThreadFacts
  <2>3. pc' \in [Threads -> PcValues]
    BY <1>3, <1>4, <2>2, GoingOn DEF StartPrimary, TypeOK
  <2>4. QED BY <1>4, <2>1, <2>3 DEF StartPrimary, TypeOK
<1>5. CASE StartOthers
  <2>1. queues' \subseteq Ids
    <3>1. IsFiniteSet(queues) /\ Cardinality(queues) <= PoolSize /\ Cardinality(queues) \in Nat
      <4>1. queues \subseteq Ids BY DEF TypeOK
      <4>2. QED BY <4>1, IdFacts, FS_Subset, FS_CardinalityType
    <3>2. 0..(Cardinality(queues) - 2) \subseteq Ids BY <3>1, IdFacts
    <3>3. QED BY <1>5, <3>2 DEF StartOthers, TypeOK
  <2>2. pc' \in [Threads -> PcValues] BY <1>1, <1>3, <1>5 DEF StartOthers, TypeOK
  <2>3. QED BY <1>5, <2>1, <2>2 DEF StartOthers, TypeOK
<1>6. CASE SetInit \/ StopMonitor \/ StopTimer \/ StopPrimary
  <2>1. {"user", "join_monitor", "stop_timer_queue", "stop_queue"} \subseteq PcValues
    BY DEF PcValues
  <2>2. pc' \in [Threads -> PcValues]
    BY <1>1, <1>6, <2>1, GoingOn
    DEF SetInit, StopMonitor, StopTimer, StopPrimary, StopThread, TypeOK
  <2>3. has_init_' \in BOOLEAN /\ stop' \in [Threads -> BOOLEAN]
    BY <1>6 DEF SetInit, StopMonitor, StopTimer, StopPrimary, StopThread, TypeOK
  <2>4. QED BY <1>6, <2>2, <2>3
    DEF SetInit, StopMonitor, StopTimer, StopPrimary, StopThread, TypeOK
<1>7. CASE JoinMonitor
  <2>1. pc' \in [Threads -> PcValues]
    BY <1>1, <1>7, GoingOn DEF JoinMonitor, TypeOK, PcValues
  <2>2. QED BY <1>2, <1>7, <2>1 DEF JoinMonitor, TypeOK
<1>8. CASE StopTimerQueue \/ StopQueue
  <2>1. {"join_timer", "join_primary"} \subseteq PcValues BY DEF PcValues
  <2>2. pc' \in [Threads -> PcValues]
    BY <1>1, <1>8, <2>1, GoingOn DEF StopTimerQueue, StopQueue, TypeOK
  <2>3. timer_queue_stop' \in BOOLEAN /\ queue_stop' \in [Ids -> BOOLEAN]
    BY <1>8 DEF StopTimerQueue, StopQueue, TypeOK
  <2>4. QED BY <1>8, <2>2, <2>3 DEF StopTimerQueue, StopQueue, TypeOK
<1>9. CASE JoinTimer
  <2>1. pc' \in [Threads -> PcValues]
    BY <1>1, <1>9, GoingOn DEF JoinTimer, TypeOK, PcValues
  <2>2. timer_queue' \in Seq(Works) BY <1>9 DEF JoinTimer
  <2>3. QED BY <1>2, <1>9, <2>1, <2>2, DeleteType DEF JoinTimer, TypeOK
<1>10. CASE JoinPrimary
  <2>1. pc' \in [Threads -> PcValues]
    BY <1>1, <1>10, GoingOn DEF JoinPrimary, TypeOK, PcValues
  <2>2. idx[Main] + 1 \in 0..PoolSize
    BY <1>10, IdFacts DEF JoinPrimary, At, MainInv
  <2>3. QED BY <1>10, <2>1, <2>2 DEF JoinPrimary, TypeOK
<1>11. CASE DeleteRunnables
  <2>1. pc' \in [Threads -> PcValues]
    BY <1>1, <1>11, GoingOn DEF DeleteRunnables, TypeOK, PcValues
  <2>2. cache_queue_' \in [Ids -> Seq(Works)] /\ \A i \in Ids : Len(cache_queue_'[i]) <= CacheSize
    BY <1>11, WorkSeqs, PoolAssumption DEF DeleteRunnables
  <2>3. QED BY <1>11, <2>1, <2>2, DeleteType DEF DeleteRunnables, TypeOK
<1>12. CASE DeleteQueues
  <2>1. pc' \in [Threads -> PcValues]
    BY <1>1, <1>12, GoingOn DEF DeleteQueues, TypeOK, PcValues
  <2>2. work_pool' \in [Ids -> Seq(Works)] BY <1>12, WorkSeqs DEF DeleteQueues
  <2>3. QED BY <1>12, <2>1, <2>2 DEF DeleteQueues, TypeOK
<1>13. CASE Push(Main)
  BY <1>1, <1>13, PushType
<1>14. CASE ChangeStep(Main)
  BY <1>14, ChangeType
<1>15. QED BY <1>4, <1>5, <1>6, <1>7, <1>8, <1>9, <1>10, <1>11, <1>12, <1>13, <1>14
  DEF MainStep, ExitStep

LEMMA MonitorType ==
  ASSUME TypeOK, ControlInv, ChangeInv, MonitorStep
  PROVE  TypeOK'
<1> USE DEF flagVars, lifeVars, poolVars, cacheVars, timerVars, sizeVars, loopVars,
            callVars, workVars
<1>1. Monitor \in Threads /\ 0 \in 0..PoolSize BY ThreadFacts, IdFacts
<1>2. {"exited", "scan", "change", "sleep"} \subseteq PcValues BY DEF PcValues
<1>3. CASE MonitorWake
  <2>1. pc' \in [Threads -> PcValues]
    BY <1>1, <1>2, <1>3, GoingOn DEF MonitorWake, TypeOK
  <2>2. QED BY <1>1, <1>3, <2>1 DEF MonitorWake, TypeOK
<1>4. CASE MonitorScan
  <2>1. pc' \in [Threads -> PcValues]
    BY <1>1, <1>2, <1>4, GoingOn DEF MonitorScan, TypeOK
  <2>2. \A size : Wanted(size) \in 0..VeryBusySize BY PoolAssumption DEF Wanted
  <2>3. wanted' \in [{Main, Monitor} -> 0..VeryBusySize]
    <3>1. CASE UNCHANGED wanted BY <3>1 DEF TypeOK
    <3>2. ASSUME NEW size, wanted' = [wanted EXCEPT ![Monitor] = Wanted(size)]
          PROVE  wanted' \in [{Main, Monitor} -> 0..VeryBusySize]
      <4>1. Wanted(size) \in 0..VeryBusySize BY <2>2
      <4>2. QED BY <3>2, <4>1 DEF TypeOK
    <3>3. QED BY <1>4, <3>1, <3>2 DEF MonitorScan
  <2>4. idx' \in [Threads -> 0..PoolSize] BY <1>1, <1>4 DEF MonitorScan, TypeOK
  <2>5. QED BY <1>4, <2>1, <2>3, <2>4 DEF MonitorScan, TypeOK
<1>5. CASE ChangeStep(Monitor)
  BY <1>5, ChangeType
<1>6. QED BY <1>3, <1>4, <1>5 DEF MonitorStep

LEMMA NextType == IInv /\ [Next]_vars => TypeOK'
<1> SUFFICES ASSUME IInv, [Next]_vars PROVE TypeOK' OBVIOUS
<1> USE DEF IInv
<1>1. Main \in Threads /\ \A w \in Works : w # Null
  BY ThreadFacts, WorksAssumption
<1>2. CASE Exit
  <2>1. pc' \in [Threads -> PcValues]
    BY <1>1, <1>2, GoingOn DEF Exit, TypeOK, PcValues
  <2>2. QED BY <1>2, <2>1
    DEF Exit, TypeOK, lifeVars, poolVars, cacheVars, timerVars, sizeVars, loopVars, callVars,
        workVars
<1>3. ASSUME NEW w \in Works, Commit(w) PROVE TypeOK'
  <2>1. state' \in [Works -> {"fresh", "live", "deleted"}] BY <1>3 DEF Commit, TypeOK
  <2>2. QED BY <1>1, <1>3, <2>1, StartPushType
    DEF Commit, TypeOK, flagVars, lifeVars, poolVars, cacheVars, timerVars, sizeVars, loopVars,
        workVars
<1>4. CASE UNCHANGED vars
  BY <1>4 DEF vars, TypeOK, flagVars, lifeVars, poolVars, cacheVars, timerVars, sizeVars,
     loopVars, callVars, workVars
<1>5. QED BY <1>2, <1>3, <1>4, MainType, PrimaryType, SecondaryType, TimerType, MonitorType
  DEF Next, Terminated
-----------------------------------------------------------------------------
(* Steps of single threads. *)

(* Only thread t moves. *)
Frame(t) ==
  \A s \in Threads \ {t} :
    /\ pc'[s] = pc[s] /\ idx'[s] = idx[s] /\ target'[s] = target[s]
    /\ work'[s] = work[s] /\ arg'[s] = arg[s] /\ back'[s] = back[s]

(* The pool keeps its size and its stage of life. *)
SamePool == UNCHANGED <<has_init_, has_stop_, lifeVars, timer_queue_stop, secondaries, wanted>>

LEMMA PushFrame ==
  ASSUME TypeOK, CallInv, NEW t \in Threads, Push(t)
  PROVE  /\ Frame(t) /\ SamePool /\ CallAt(t)' /\ UNCHANGED <<idx, stolen, cache_queue_>>
         /\ \/ pc[t] = "push" /\ pc'[t] = "link"
            \/ pc[t] = "timer_push" /\ pc'[t] = "timer_link"
            \/ pc[t] = "timer_link" /\ pc'[t] = "dangling" /\ TimerDeleted
            \/ pc[t] \in Pushing /\ pc'[t] = back[t] /\ back[t] \in Returns(t)
<1> USE DEF flagVars, lifeVars, poolVars, cacheVars, timerVars, sizeVars, loopVars,
            callVars, workVars, At, Goto
<1>1. CallAt(t) BY DEF CallInv
<1>2. "user" \notin Pushing /\ "due" \notin Pushing /\ "loop" \notin Pushing /\ "work" \notin Pushing
  BY DEF Pushing
<1>3. /\ \A l \in Returns(t) : l \notin Pushing \cup {"link", "enlarge"}
      /\ t \in Workers => Returns(t) = {"loop", "work"}
  BY <1>2, ThreadFacts DEF Returns, Pushing
<1>4. ASSUME pc[t] \in Pushing, EndPush(t), UNCHANGED <<idx, work>>
      PROVE  Frame(t) /\ CallAt(t)' /\ pc'[t] = back[t] /\ back[t] \in Returns(t)
  <2>1. Frame(t) BY <1>4 DEF EndPush, Frame, TypeOK
  <2>2. back[t] \in Returns(t) /\ pc'[t] = back[t] BY <1>1, <1>4 DEF CallAt, EndPush, TypeOK
  <2>3. pc'[t] \notin Pushing /\ arg'[t] = Null /\ target'[t] = 0
    BY <1>3, <1>4, <2>2 DEF EndPush, TypeOK
  <2>4. work'[t] # Null <=> t \in Workers /\ pc'[t] \in {"run", "work"}
    BY <1>1, <1>3, <1>4, <2>2 DEF CallAt, Employed, Pushing
  <2>5. CallAt(t)' BY <2>2, <2>3, <2>4, <1>3 DEF CallAt, Employed
  <2>6. QED BY <1>4, <2>1, <2>2, <2>5
<1>5. CASE PushStopped(t)
  BY <1>4, <1>5 DEF PushStopped, Pushing, SamePool
<1>6. CASE PushIndex(t)
  <2>1. index_ % PoolSize \in Ids
    <3>1. index_ \in Nat BY PoolAssumption DEF TypeOK
    <3>2. QED BY <3>1, ModuloFacts
  <2>2. Frame(t) /\ pc[t] = "push" /\ pc'[t] = "link" /\ target'[t] \in Ids
        /\ UNCHANGED <<work, arg, back>>
    BY <1>6, <2>1 DEF PushIndex, Frame, TypeOK
  <2>3. CallAt(t)' BY <1>1, <2>2 DEF CallAt, Employed, Pushing
  <2>4. QED BY <1>6, <2>2, <2>3 DEF PushIndex, SamePool
<1>7. CASE PushLink(t)
  BY <1>4, <1>7 DEF PushLink, Pushing, SamePool
<1>8. CASE TimerPushCheck(t)
  <2>1. Frame(t) /\ pc[t] = "timer_push" /\ pc'[t] = "timer_link"
        /\ UNCHANGED <<work, arg, back, target>>
    BY <1>8 DEF TimerPushCheck, Frame, TypeOK
  <2>2. CallAt(t)' BY <1>1, <2>1 DEF CallAt, Employed, Pushing
  <2>3. QED BY <1>8, <2>1, <2>2 DEF TimerPushCheck, SamePool
<1>9. CASE TimerPushLink(t)
  <2>1. CASE EndPush(t)
    BY <1>4, <1>9, <2>1 DEF TimerPushLink, Pushing, SamePool
  <2>2. CASE TimerDeleted /\ Goto(t, "dangling") /\ UNCHANGED <<target, arg, back>>
    <3>1. Frame(t) /\ pc[t] = "timer_link" /\ pc'[t] = "dangling"
          /\ UNCHANGED <<work, arg, back, target>>
      BY <1>9, <2>2 DEF TimerPushLink, Frame, TypeOK
    <3>2. CallAt(t)' BY <1>1, <3>1 DEF CallAt, Employed, Pushing
    <3>3. QED BY <1>9, <2>2, <3>1, <3>2 DEF TimerPushLink, SamePool
  <2>3. QED BY <1>9, <2>1, <2>2 DEF TimerPushLink
<1>10. QED BY <1>5, <1>6, <1>7, <1>8, <1>9 DEF Push

LEMMA StartPushFrame ==
  ASSUME TypeOK, NEW t \in Threads, NEW w \in Works, NEW l \in Returns(t),
         StartPush(t, w, l), UNCHANGED <<idx, target>>,
         \A s \in Threads \ {t} : work'[s] = work[s],
         target[t] = 0, work'[t] # Null <=> t \in Workers /\ l = "work"
  PROVE  /\ Frame(t) /\ CallAt(t)'
         /\ pc'[t] \in {"push", "timer_push"} /\ (t = Timer => pc'[t] = "push")
<1>1. /\ pc'[t] \in {"push", "timer_push"} /\ (t = Timer => pc'[t] = "push")
      /\ arg'[t] = w /\ back'[t] = l /\ w # Null
  BY WorksAssumption DEF StartPush, Goto, TypeOK
<1>2. Frame(t) BY DEF StartPush, Goto, Frame, TypeOK
<1>3. CallAt(t)' BY <1>1 DEF CallAt, Employed, Pushing
<1>4. QED BY <1>1, <1>2, <1>3

LEMMA RunFrame ==
  ASSUME TypeOK, CallInv, NEW t \in Workers, RunBegin(t) \/ RunCommit(t) \/ RunEnd(t)
  PROVE  /\ Frame(t) /\ SamePool /\ CallAt(t)' /\ UNCHANGED <<idx, stolen, cache_queue_>>
         /\ pc[t] \in {"run", "work"} /\ pc'[t] \in {"loop", "work", "push", "timer_push"}
<1> USE DEF flagVars, lifeVars, poolVars, cacheVars, timerVars, sizeVars, loopVars,
            callVars, workVars, At, Goto
<1>1. t \in Threads /\ Returns(t) = {"loop", "work"} /\ CallAt(t)
  BY ThreadFacts DEF Returns, CallInv
<1>2. ASSUME pc[t] \in {"run", "work"}
      PROVE  work[t] \in Works /\ arg[t] = Null /\ target[t] = 0 /\ work[t] # Null
  BY <1>1, <1>2 DEF CallAt, Employed, Pushing, TypeOK
<1>3. CASE RunBegin(t)
  <2>1. Frame(t) BY <1>1, <1>3 DEF RunBegin, Frame, TypeOK
  <2>2. UNCHANGED <<idx, target, arg, back>> BY <1>3 DEF RunBegin
  <2>3. \/ pc'[t] = "loop" /\ work'[t] = Null
        \/ pc'[t] = "work" /\ work'[t] = work[t]
    BY <1>1, <1>3 DEF RunBegin, TypeOK
  <2>4. CallAt(t)' BY <1>1, <1>2, <1>3, <2>2, <2>3 DEF RunBegin, CallAt, Employed, Pushing
  <2>5. QED BY <1>3, <2>1, <2>2, <2>3, <2>4 DEF RunBegin, SamePool
<1>4. CASE RunCommit(t)
  <2>1. Child[work[t]] \in Works BY <1>2, <1>4, WorksAssumption DEF RunCommit
  <2>2. UNCHANGED <<idx, target, work>> /\ StartPush(t, Child[work[t]], "work")
    BY <1>4 DEF RunCommit
  <2>3. QED BY <1>1, <1>2, <1>4, <2>1, <2>2, StartPushFrame DEF RunCommit, SamePool
<1>5. CASE RunEnd(t)
  <2>1. /\ UNCHANGED <<idx, target>> /\ work'[t] = Null
        /\ \A s \in Threads \ {t} : work'[s] = work[s]
    BY <1>1, <1>5 DEF RunEnd, TypeOK
  <2>2. CASE Delete({work[t]}) /\ Goto(t, "loop") /\ UNCHANGED <<arg, back>>
    <3>1. Frame(t) /\ pc'[t] = "loop" BY <1>1, <2>1, <2>2 DEF Frame, TypeOK
    <3>2. CallAt(t)' BY <1>2, <1>5, <2>1, <2>2, <3>1 DEF RunEnd, CallAt, Employed, Pushing
    <3>3. QED BY <1>5, <2>1, <3>1, <3>2 DEF RunEnd, SamePool
  <2>3. CASE StartPush(t, work[t], "loop")
    <3>1. Frame(t) /\ CallAt(t)' /\ pc'[t] \in {"push", "timer_push"}
      BY <1>1, <1>2, <1>5, <2>1, <2>3, StartPushFrame DEF RunEnd
    <3>2. QED BY <1>5, <2>1, <3>1 DEF RunEnd, SamePool
  <2>4. QED BY <1>5, <2>2, <2>3 DEF RunEnd
<1>6. QED BY <1>3, <1>4, <1>5

(* A worker's step stays in the worker's places. *)
LEMMA WorkFrame ==
  ASSUME TypeOK, CallInv, NEW t \in Workers, WorkStep(t)
  PROVE  /\ Frame(t) /\ SamePool /\ CallAt(t)' /\ UNCHANGED <<idx, stolen, cache_queue_>>
         /\ pc[t] \in {"run", "work"} \cup Pushing
         /\ pc'[t] \in {"loop", "work"} \cup Pushing
<1>1. t \in Threads /\ Returns(t) = {"loop", "work"} BY ThreadFacts DEF Returns
<1>2. QED BY <1>1, PushFrame, RunFrame DEF WorkStep, Pushing

LEMMA PrimaryFrame ==
  ASSUME TypeOK, CallInv, StealInv, NEW i \in Ids, PrimaryStep(i)
  PROVE  /\ Frame(Primary(i)) /\ SamePool /\ CallAt(Primary(i))'
         /\ pc[Primary(i)] \notin {"unborn", "exited"}
         /\ pc'[Primary(i)] \in PrimaryAt \ {"unborn"}
<1> DEFINE t == Primary(i)
<1> USE DEF flagVars, lifeVars, poolVars, cacheVars, timerVars, sizeVars, loopVars,
            callVars, workVars, At, Goto
<1>1. t \in Threads /\ t \in Primaries /\ t \in Workers BY ThreadFacts
<1>2. CallAt(t) BY <1>1 DEF CallInv
<1> HIDE DEF t
<1>3. ASSUME \/ PrimaryLoop(i) \/ PrimaryLock(i) \/ StealBegin(i) \/ StealTryLock(i)
             \/ StealTake(i) \/ StealEnd(i) \/ PopFrontBatch(i) \/ TryPopFrontBatch(i)
      PROVE  /\ pc[t] \in {"loop"} \cup Filling
             /\ pc'[t] \in {"loop", "exited"} \cup Filling
             /\ UNCHANGED <<target, work, arg, back>>
             /\ \A s \in Threads \ {t} : pc'[s] = pc[s] /\ idx'[s] = idx[s]
             /\ SamePool
  BY <1>1, <1>3 DEF PrimaryLoop, PrimaryLock, StealBegin, StealTryLock, StealTake, StealEnd,
     PopFrontBatch, TryPopFrontBatch, TypeOK, Filling, SamePool, t
<1>4. CASE \/ PrimaryLoop(i) \/ PrimaryLock(i) \/ StealBegin(i) \/ StealTryLock(i)
           \/ StealTake(i) \/ StealEnd(i) \/ PopFrontBatch(i) \/ TryPopFrontBatch(i)
  <2>1. Frame(t) BY <1>3, <1>4 DEF Frame
  <2>2. CallAt(t)'
    BY <1>2, <1>3, <1>4 DEF CallAt, Employed, Pushing, Filling
  <2>3. QED BY <1>3, <1>4, <2>1, <2>2 DEF PrimaryAt, Filling, t
<1>5. CASE PrimaryPick(i)
  <2>1. SamePool /\ UNCHANGED <<idx, target, arg, back>> /\ pc[t] = "fill"
    BY <1>5 DEF PrimaryPick, SamePool, t
  <2>2. /\ \A s \in Threads \ {t} : pc'[s] = pc[s] /\ work'[s] = work[s]
        /\ \/ pc'[t] = "loop" /\ work'[t] = work[t]
           \/ pc'[t] = "run" /\ work'[t] = Head(cache_queue_[i]) /\ cache_queue_[i] # <<>>
    BY <1>1, <1>5 DEF PrimaryPick, TypeOK, t
  <2>3. cache_queue_[i] # <<>> => Head(cache_queue_[i]) # Null
    <3>1. cache_queue_[i] \in Seq(Works) BY DEF TypeOK
    <3>2. QED BY <3>1, WorkSeqs, WorksAssumption
  <2>4. CallAt(t)'
    BY <1>1, <1>2, <2>1, <2>2, <2>3 DEF CallAt, Employed, Pushing
  <2>5. QED BY <2>1, <2>2, <2>4 DEF Frame, PrimaryAt, t
<1>6. CASE WorkStep(Primary(i))
  BY <1>1, <1>6, WorkFrame DEF PrimaryAt, Pushing, t
<1>7. QED BY <1>4, <1>5, <1>6 DEF PrimaryStep

LEMMA SecondaryFrame ==
  ASSUME TypeOK, CallInv, NEW t \in Secondaries, SecondaryStep(t)
  PROVE  /\ Frame(t) /\ SamePool /\ CallAt(t)'
         /\ UNCHANGED <<stolen, cache_queue_>>
         /\ pc[t] # "unborn" /\ pc'[t] \in SecondaryAt \ {"unborn"}
<1> USE DEF flagVars, lifeVars, poolVars, cacheVars, timerVars, sizeVars, loopVars,
            callVars, workVars, At, Goto
<1>1. t \in Threads /\ t \in Workers BY ThreadFacts
<1>2. CallAt(t) BY <1>1 DEF CallInv
<1>3. CASE SecondaryLoop(t)
  <2>1. /\ \A s \in Threads \ {t} : pc'[s] = pc[s]
        /\ pc[t] = "loop" /\ pc'[t] \in {"exited", "pop"}
        /\ UNCHANGED <<idx, target, work, arg, back>> /\ SamePool
        /\ UNCHANGED <<stolen, cache_queue_>>
    BY <1>1, <1>3 DEF SecondaryLoop, TypeOK, SamePool
  <2>2. CallAt(t)' BY <1>2, <2>1 DEF CallAt, Employed, Pushing
  <2>3. QED BY <2>1, <2>2 DEF Frame, SecondaryAt
<1>4. CASE SecondaryPop(t)
  <2>1. SamePool /\ UNCHANGED <<idx, target, arg, back>> /\ pc[t] = "pop"
        /\ UNCHANGED <<stolen, cache_queue_>>
    BY <1>4 DEF SecondaryPop, SamePool
  <2>2. /\ \A s \in Threads \ {t} : pc'[s] = pc[s] /\ work'[s] = work[s]
        /\ \/ pc'[t] = "loop" /\ work'[t] = work[t]
           \/ /\ pc'[t] = "run" /\ work'[t] = Head(work_pool[serves[t]])
              /\ work_pool[serves[t]] # <<>>
    BY <1>1, <1>4 DEF SecondaryPop, TypeOK
  <2>3. work_pool[serves[t]] # <<>> => Head(work_pool[serves[t]]) # Null
    <3>1. work_pool[serves[t]] \in Seq(Works) BY DEF TypeOK
    <3>2. QED BY <3>1, WorkSeqs, WorksAssumption
  <2>4. CallAt(t)'
    BY <1>1, <1>2, <2>1, <2>2, <2>3 DEF CallAt, Employed, Pushing
  <2>5. QED BY <2>1, <2>2, <2>4 DEF Frame, SecondaryAt
<1>5. CASE WorkStep(t)
  BY <1>1, <1>5, WorkFrame DEF SecondaryAt, Pushing
<1>6. QED BY <1>3, <1>4, <1>5 DEF SecondaryStep

LEMMA TimerFrame ==
  ASSUME TypeOK, CallInv, ControlInv, TimerStep
  PROVE  /\ Frame(Timer) /\ SamePool /\ CallAt(Timer)'
         /\ UNCHANGED <<stolen, cache_queue_>>
         /\ pc[Timer] \notin {"unborn", "exited"} /\ pc'[Timer] \in TimerAt \ {"unborn"}
<1> USE DEF flagVars, lifeVars, poolVars, cacheVars, timerVars, sizeVars, loopVars,
            callVars, workVars, At, Goto
<1>1. /\ Timer \in Threads /\ Timer \notin Workers /\ Returns(Timer) = {"due"}
      /\ Timer # Main
  BY ThreadFacts DEF Returns
<1>2. CallAt(Timer) BY <1>1 DEF CallInv
<1>3. CASE TimerLoop \/ TimerNothingDue \/ TimerTake \/ TimerStopped \/ TimerTimeout
  <2>1. /\ \A s \in Threads \ {Timer} : pc'[s] = pc[s]
        /\ pc[Timer] \in {"loop", "due", "take"}
        /\ pc'[Timer] \in {"exited", "due", "take", "loop", "timeout"}
        /\ UNCHANGED <<idx, target, work, arg, back>> /\ SamePool
        /\ UNCHANGED <<stolen, cache_queue_>>
    BY <1>1, <1>3
    DEF TimerLoop, TimerNothingDue, TimerTake, TimerStopped, TimerTimeout, TypeOK, SamePool
  <2>2. CallAt(Timer)' BY <1>1, <1>2, <2>1 DEF CallAt, Employed, Pushing
  <2>3. QED BY <2>1, <2>2 DEF Frame, TimerAt
<1>4. ASSUME NEW w \in Works, TimerFire(w)
      PROVE  /\ Frame(Timer) /\ SamePool /\ CallAt(Timer)'
             /\ UNCHANGED <<stolen, cache_queue_>>
             /\ pc[Timer] \notin {"unborn", "exited"} /\ pc'[Timer] = "push"
  <2>1. /\ StartPush(Timer, w, "due") /\ UNCHANGED <<idx, target, work>> /\ SamePool
        /\ UNCHANGED <<stolen, cache_queue_>> /\ pc[Timer] \in {"due", "timeout"}
    BY <1>4 DEF TimerFire, SamePool
  <2>2. target[Timer] = 0 /\ work[Timer] = Null BY <1>1, <1>2, <2>1 DEF CallAt
  <2>3. QED BY <1>1, <2>1, <2>2, StartPushFrame
<1>5. CASE Push(Timer)
  <2>1. pc[Timer] \notin {"timer_push", "timer_link", "unborn", "exited"}
    BY <1>1, <1>5, PushFrame DEF ControlInv, TimerAt, Pushing
  <2>2. QED BY <1>1, <1>5, <2>1, PushFrame DEF TimerAt
<1>6. QED BY <1>3, <1>4, <1>5 DEF TimerStep, TimerAt

(* ChangeSecondaryThread moves its caller and, at most, a secondary thread *)
(* of the queue it is about, between "unborn", "loop" and "exited".     *)
ChangeMove(m) ==
  LET i == idx[m] IN
  /\ i \in Ids /\ pc[m] \in {"change", "enlarge", "join"}
  /\ \A t \in Threads : arg'[t] = arg[t] /\ work'[t] = work[t] /\ back'[t] = back[t]
  /\ \A t \in Threads \ {m} : idx'[t] = idx[t] /\ target'[t] = target[t]
  /\ \A t \in Threads \ {m} : \/ pc'[t] = pc[t]
                              \/ /\ t \in Secondaries /\ pc[t] \in {"unborn", "exited"}
                                 /\ pc'[t] \in {"unborn", "loop"}
  /\ \A j \in Ids, k \in Slots : j # i => pc'[Secondary(j, k)] = pc[Secondary(j, k)]
  /\ \A j \in Ids \ {i} : secondaries'[j] = secondaries[j]
  /\ \A k \in Slots : k > secondaries'[i] => pc'[Secondary(i, k)] = "unborn"
  /\ \/ /\ pc'[m] \in {"change", "enlarge", "join"} /\ idx'[m] = i /\ wanted' = wanted
        /\ pc'[m] # "enlarge" => target'[m] = target[m] /\ pc[m] # "enlarge"
     \/ /\ pc'[m] = Scanning(m) /\ idx'[m] = i + 1 /\ target'[m] = 0
        /\ wanted' = [wanted EXCEPT ![m] = 0]
        /\ pc[m] # "enlarge" => secondaries'[i] = wanted[m]
  /\ pc'[m] = "enlarge" =>
       /\ secondaries'[i] <= wanted[m] /\ target'[m] <= secondaries'[i]
  /\ pc'[m] = "join" => secondaries'[i] > wanted[m]

LEMMA ChangeFrame ==
  ASSUME TypeOK, CallInv, SecondaryInv, ChangeInv, NEW m \in {Main, Monitor}, ChangeStep(m),
         m = Main => pc[m] # "enlarge"
  PROVE  /\ ChangeMove(m)
         /\ UNCHANGED <<has_init_, has_stop_, lifeVars, timer_queue_stop, workVars, stolen,
                        cache_queue_>>
<1> USE DEF flagVars, lifeVars, poolVars, cacheVars, timerVars, sizeVars, loopVars,
            callVars, workVars, At, Goto
<1> DEFINE i == idx[m]
<1>1. /\ m \in Threads /\ m \notin Secondaries /\ Secondaries \subseteq Threads
  BY ThreadFacts
<1>2. pc[m] \in {"change", "join"} => target[m] = 0
  BY <1>1 DEF CallInv, CallAt
<1>3. i \in Ids => secondaries[i] \in Nat /\ wanted[m] \in Nat /\ \A k \in Slots : k \in Nat
  <2>1. i \in Ids => secondaries[i] \in 0..VeryBusySize /\ wanted[m] \in 0..VeryBusySize
    BY DEF TypeOK
  <2>2. \A n \in 0..VeryBusySize : n \in Nat BY PoolAssumption
  <2>3. QED BY <2>1, <2>2, IdFacts
<1>4. CASE Change(m)
  <2>1. /\ i \in Ids /\ pc[m] = "change" /\ UNCHANGED <<arg, work, back, secondaries>>
        /\ \A t \in Threads \ {m} : pc'[t] = pc[t] /\ idx'[t] = idx[t] /\ target'[t] = target[t]
        /\ \/ /\ pc'[m] = Scanning(m) /\ idx'[m] = i + 1 /\ target'[m] = 0
              /\ wanted' = [wanted EXCEPT ![m] = 0] /\ secondaries[i] = wanted[m]
           \/ /\ pc'[m] = "enlarge" /\ UNCHANGED <<idx, target, wanted>>
              /\ secondaries[i] < wanted[m]
           \/ /\ pc'[m] = "join" /\ UNCHANGED <<idx, target, wanted>>
              /\ secondaries[i] > wanted[m]
    BY <1>1, <1>4 DEF Change, NextPool, TypeOK
  <2>2. \A j \in Ids, k \in Slots : pc'[Secondary(j, k)] = pc[Secondary(j, k)]
    BY <1>1, <2>1, ThreadFacts
  <2>3. \A k \in Slots : k > secondaries'[i] => pc'[Secondary(i, k)] = "unborn"
    BY <2>1, <2>2 DEF SecondaryInv
  <2>4. Scanning(m) \notin {"enlarge", "join"} BY DEF Scanning
  <2>5. ChangeMove(m) BY <1>2, <1>3, <2>1, <2>2, <2>3, <2>4 DEF ChangeMove
  <2>6. QED BY <1>4, <2>5 DEF Change
<1>5. CASE Enlarge(m)
  <2> DEFINE n == secondaries[i] + 1 t == Secondary(i, n)
  <2>1. m = Monitor /\ i \in Ids /\ target[m] <= secondaries[i] /\ secondaries[i] <= wanted[m]
    BY <1>5 DEF Enlarge, ChangeInv
  <2>2. CASE NextPool(m) /\ Goto(m, Scanning(m)) /\ UNCHANGED <<secondaries, serves, stop>>
    <3>1. /\ pc[m] = "enlarge" /\ UNCHANGED <<arg, work, back, secondaries>>
          /\ \A s \in Threads \ {m} : pc'[s] = pc[s] /\ idx'[s] = idx[s] /\ target'[s] = target[s]
          /\ pc'[m] = Scanning(m) /\ idx'[m] = i + 1 /\ target'[m] = 0
          /\ wanted' = [wanted EXCEPT ![m] = 0]
      BY <1>1, <1>5, <2>2 DEF Enlarge, NextPool, TypeOK
    <3>2. \A j \in Ids, k \in Slots : pc'[Secondary(j, k)] = pc[Secondary(j, k)]
      BY <1>1, <3>1, ThreadFacts
    <3>3. \A k \in Slots : k > secondaries'[i] => pc'[Secondary(i, k)] = "unborn"
      BY <2>1, <3>1, <3>2 DEF SecondaryInv
    <3>4. Scanning(m) \notin {"enlarge", "join"} BY DEF Scanning
    <3>5. QED BY <1>5, <2>1, <3>1, <3>2, <3>3, <3>4 DEF Enlarge, ChangeMove
  <2>3. CASE /\ secondaries[i] < wanted[m]
             /\ secondaries' = [secondaries EXCEPT ![i] = @ + 1]
             /\ target' = [target EXCEPT ![m] = @ + 1]
             /\ Goto(t, "loop") /\ UNCHANGED <<stop, idx, wanted>>
    <3>1. n \in Slots /\ n > secondaries[i]
      BY <2>1, <2>3, PoolAssumption DEF TypeOK, Slots
    <3>2. t \in Secondaries /\ t \in Threads /\ pc[t] = "unborn"
      BY <1>1, <2>1, <3>1, ThreadFacts DEF SecondaryInv
    <3>3. \A j \in Ids, k \in Slots : Secondary(j, k) = t => j = i /\ k = n
      BY ThreadFacts
    <3> HIDE DEF t
    <3>4. /\ pc' = [pc EXCEPT ![t] = "loop"] /\ pc'[m] = "enlarge" /\ pc[m] = "enlarge"
          /\ UNCHANGED <<arg, work, back, idx, wanted>>
          /\ secondaries'[i] = n /\ \A j \in Ids \ {i} : secondaries'[j] = secondaries[j]
          /\ target'[m] = target[m] + 1 /\ \A s \in Threads \ {m} : target'[s] = target[s]
      BY <1>1, <1>5, <2>1, <2>3, <3>2 DEF Enlarge, TypeOK
    <3>5. target'[m] <= n /\ n <= wanted[m]
      <4>1. target[m] \in 0..PoolSize BY <1>1 DEF TypeOK
      <4>2. target[m] \in Nat /\ target'[m] = target[m] + 1
        BY <3>4, <4>1, IdFacts
      <4>3. QED BY <1>3, <2>1, <2>3, <4>2
    <3>6. \A k \in Slots : k > n => pc'[Secondary(i, k)] = "unborn"
      <4> TAKE k \in Slots
      <4> HAVE k > n
      <4>1. k > secondaries[i] /\ Secondary(i, k) # t
        BY <1>3, <2>1, <3>1, <3>3
      <4>2. Secondary(i, k) \in Threads BY <1>1, <2>1, ThreadFacts
      <4>3. QED BY <2>1, <3>4, <4>1, <4>2 DEF SecondaryInv, TypeOK
    <3>7. \A j \in Ids, k \in Slots : j # i => pc'[Secondary(j, k)] = pc[Secondary(j, k)]
      BY <1>1, <3>3, <3>4, ThreadFacts DEF TypeOK
    <3>8. \A s \in Threads \ {m} :
             pc'[s] = pc[s] \/ (s \in Secondaries /\ pc[s] = "unborn" /\ pc'[s] = "loop")
      BY <3>2, <3>4 DEF TypeOK
    <3>9. ChangeMove(m)
      BY <2>1, <3>4, <3>5, <3>6, <3>7, <3>8 DEF ChangeMove
    <3>10. QED BY <1>5, <3>9 DEF Enlarge
  <2>4. QED BY <1>5, <2>2, <2>3 DEF Enlarge
<1>6. CASE Reduce(m)
  <2> DEFINE n == secondaries[i] t == Secondary(i, n)
  <2>1. i \in Ids /\ n > wanted[m] /\ pc[m] = "join" /\ pc[t] = "exited"
    BY <1>6 DEF Reduce, ChangeInv
  <2>2. n \in Slots
    <3>1. n \in 0..VeryBusySize BY <2>1 DEF TypeOK
    <3>2. QED BY <1>3, <2>1, <3>1, PoolAssumption DEF Slots
  <2>3. t \in Secondaries /\ t \in Threads
    BY <1>1, <2>1, <2>2, ThreadFacts
  <2>4. \A j \in Ids, k \in Slots : Secondary(j, k) = t => j = i /\ k = n
    BY ThreadFacts
  <2> HIDE DEF t
  <2>5. /\ UNCHANGED <<arg, work, back>> /\ pc'[t] = "unborn"
        /\ \A s \in Threads \ {m, t} : pc'[s] = pc[s]
        /\ secondaries'[i] = n - 1 /\ \A j \in Ids \ {i} : secondaries'[j] = secondaries[j]
        /\ \A s \in Threads \ {m} : target'[s] = target[s] /\ idx'[s] = idx[s]
        /\ \/ /\ pc'[m] = Scanning(m) /\ idx'[m] = i + 1 /\ target'[m] = 0
              /\ wanted' = [wanted EXCEPT ![m] = 0] /\ n - 1 = wanted[m]
           \/ /\ pc'[m] = "join" /\ UNCHANGED <<idx, target, wanted>> /\ n - 1 # wanted[m]
    <3>1. /\ pc \in [Threads -> PcValues] /\ idx \in [Threads -> 0..PoolSize]
          /\ target \in [Threads -> 0..PoolSize] /\ secondaries \in [Ids -> 0..VeryBusySize]
          /\ t # m
      BY <1>1, <2>3 DEF TypeOK
    <3>2. UNCHANGED <<arg, work, back>> /\ secondaries' = [secondaries EXCEPT ![i] = @ - 1]
      BY <1>6 DEF Reduce
    <3>3. secondaries'[i] = n - 1 /\ \A j \in Ids \ {i} : secondaries'[j] = secondaries[j]
      BY <2>1, <3>1, <3>2
    <3>4. \/ /\ n - 1 = wanted[m] /\ NextPool(m)
             /\ pc' = [pc EXCEPT ![t] = "unborn", ![m] = Scanning(m)]
          \/ /\ n - 1 # wanted[m] /\ pc' = [pc EXCEPT ![t] = "unborn"]
             /\ UNCHANGED <<idx, target, wanted>>
      BY <1>6, <3>3 DEF Reduce, t
    <3>5. QED BY <1>1, <2>1, <2>3, <3>1, <3>2, <3>3, <3>4 DEF NextPool
  <2>6. n - 1 >= wanted[m] /\ n - 1 \in Nat BY <1>3, <2>1, <2>2
  <2>7. \A j \in Ids, k \in Slots : j # i => pc'[Secondary(j, k)] = pc[Secondary(j, k)]
    BY <1>1, <2>4, <2>5, ThreadFacts
  <2>8. \A k \in Slots : k > n - 1 => pc'[Secondary(i, k)] = "unborn"
    <3> TAKE k \in Slots
    <3> HAVE k > n - 1
    <3>1. CASE k = n BY <2>5, <3>1 DEF t
    <3>2. CASE k > n
      <4>1. Secondary(i, k) # t /\ Secondary(i, k) \in Threads \ {m}
        BY <1>1, <1>3, <2>1, <2>2, <2>4, <3>2, ThreadFacts
      <4>2. QED BY <2>1, <2>5, <3>2, <4>1 DEF SecondaryInv
    <3>3. QED BY <1>3, <2>1, <2>2, <3>1, <3>2
  <2>9. Scanning(m) \notin {"enlarge", "join"} BY DEF Scanning
  <2>10. ChangeMove(m)
    BY <1>1, <1>3, <2>1, <2>3, <2>5, <2>6, <2>7, <2>8, <2>9 DEF ChangeMove
  <2>11. QED BY <1>6, <2>10 DEF Reduce
<1>7. QED BY <1>4, <1>5, <1>6 DEF ChangeStep

(* The steps of the main thread that only move it along. *)
MainGoes ==
  \/ SetInit \/ Exit \/ StopMonitor \/ JoinMonitor \/ StopTimer \/ StopTimerQueue
  \/ JoinTimer \/ StopPrimary \/ StopQueue \/ JoinPrimary \/ DeleteRunnables \/ DeleteQueues

LEMMA MainFrame ==
  ASSUME TypeOK, CallInv, MainGoes
  PROVE  /\ Frame(Main) /\ CallAt(Main)' /\ UNCHANGED <<secondaries, created, stolen, promise>>
         /\ wanted'[Monitor] = wanted[Monitor]
         /\ pc[Main] \in {"init", "user"} \cup (AfterExit \ {"done"})
         /\ pc'[Main] \in ({"user"} \cup AfterExit) \ {"join"}
<1> USE DEF flagVars, lifeVars, poolVars, cacheVars, timerVars, sizeVars, loopVars,
            callVars, workVars, At, Goto, StopThread
<1>1. Main \in Threads /\ Main # Monitor BY ThreadFacts
<1>2. /\ UNCHANGED <<secondaries, created, stolen, promise, target, work, arg, back>>
      /\ wanted'[Monitor] = wanted[Monitor]
      /\ \A s \in Threads \ {Main} : pc'[s] = pc[s] /\ idx'[s] = idx[s]
  BY <1>1 DEF MainGoes, SetInit, Exit, StopMonitor, JoinMonitor, StopTimer, StopTimerQueue,
     JoinTimer, StopPrimary, StopQueue, JoinPrimary, DeleteRunnables, DeleteQueues, TypeOK
<1>3. \/ pc[Main] = "init" /\ pc'[Main] = "user"
      \/ pc[Main] = "user" /\ pc'[Main] = "stop_monitor"
      \/ /\ pc[Main] \in {"stop_monitor", "join_monitor", "change"}
         /\ pc'[Main] \in {"join_monitor", "change", "stop_timer_queue"}
      \/ /\ pc[Main] \in {"stop_timer_queue", "join_timer"}
         /\ pc'[Main] \in {"join_timer", "stop_primary"}
      \/ /\ pc[Main] \in {"stop_primary", "stop_queue", "join_primary"}
         /\ pc'[Main] \in {"stop_primary", "stop_queue", "join_primary", "delete_queues"}
      \/ pc[Main] = "delete_queues" /\ pc'[Main] = "done"
  BY <1>1 DEF MainGoes, SetInit, Exit, StopMonitor, JoinMonitor, StopTimer, StopTimerQueue,
     JoinTimer, StopPrimary, StopQueue, JoinPrimary, DeleteRunnables, DeleteQueues, TypeOK
<1>4. /\ pc[Main] \in {"init", "user"} \cup (AfterExit \ {"done"})
      /\ pc'[Main] \in ({"user"} \cup AfterExit) \ {"join"}
      /\ pc[Main] \notin Pushing \cup {"enlarge", "link", "run", "work"}
      /\ pc'[Main] \notin Pushing \cup {"enlarge", "link", "run", "work"}
  BY <1>3 DEF AfterExit, AfterSizes, SizesAt, TimerEndAt, LoopEndAt, LastAt, Pushing
<1>5. CallAt(Main)' BY <1>1, <1>2, <1>4, ThreadFacts DEF CallInv, CallAt, Employed
<1>6. QED BY <1>2, <1>4, <1>5 DEF Frame

LEMMA CommitFrame ==
  ASSUME TypeOK, CallInv, NEW w \in Works, Commit(w)
  PROVE  /\ Frame(Main) /\ CallAt(Main)' /\ SamePool /\ UNCHANGED <<idx, stolen, cache_queue_>>
         /\ pc[Main] = "user" /\ pc'[Main] \in {"push", "timer_push"}
<1>1. /\ Main \in Threads /\ Main \notin Workers /\ Returns(Main) = {"user"}
      /\ UNCHANGED <<idx, target, work>>
  BY ThreadFacts DEF Commit, Returns, loopVars
<1>2. target[Main] = 0 /\ work[Main] = Null /\ pc[Main] = "user"
  BY <1>1 DEF CallInv, CallAt, Commit, At
<1>3. QED BY <1>1, <1>2, StartPushFrame
  DEF Commit, SamePool, flagVars, lifeVars, poolVars, cacheVars, timerVars, sizeVars, workVars

LEMMA MonitorFrame ==
  ASSUME TypeOK, CallInv, MonitorWake \/ MonitorScan
  PROVE  /\ Frame(Monitor) /\ CallAt(Monitor)'
         /\ UNCHANGED <<has_init_, has_stop_, lifeVars, timer_queue_stop, secondaries, stolen,
                        cache_queue_>>
         /\ wanted'[Main] = wanted[Main]
         /\ pc[Monitor] \in {"sleep", "scan"}
         /\ pc'[Monitor] \in {"sleep", "exited", "scan", "change"}
         /\ pc'[Monitor] = "change" => idx'[Monitor] \in Ids
<1> USE DEF flagVars, lifeVars, poolVars, cacheVars, timerVars, sizeVars, loopVars,
            callVars, workVars, At, Goto
<1>1. Monitor \in Threads /\ Main # Monitor /\ Monitor \notin Workers BY ThreadFacts
<1>2. /\ UNCHANGED <<target, work, arg, back>>
      /\ UNCHANGED <<has_init_, has_stop_, lifeVars, timer_queue_stop, secondaries, stolen,
                     cache_queue_>>
      /\ \A s \in Threads \ {Monitor} : pc'[s] = pc[s] /\ idx'[s] = idx[s]
      /\ wanted'[Main] = wanted[Main]
      /\ pc[Monitor] \in {"sleep", "scan"}
      /\ pc'[Monitor] \in {"sleep", "exited", "scan", "change"}
      /\ pc'[Monitor] = "change" => idx'[Monitor] \in Ids
  BY <1>1 DEF MonitorWake, MonitorScan, TypeOK
<1>3. CallAt(Monitor)' BY <1>1, <1>2 DEF CallInv, CallAt, Employed, Pushing
<1>4. QED BY <1>2, <1>3 DEF Frame

LEMMA StartFrame ==
  ASSUME TypeOK, CallInv, MainInv, StartPrimary \/ StartOthers
  PROVE  /\ UNCHANGED <<has_init_, has_stop_, queue_stop, timer_queue_stop, secondaries, wanted,
                        cache_queue_, stolen, workVars, idx, target, work, arg, back>>
         /\ pc[Main] = "create" /\ pc'[Main] \in {"create", "init"}
         /\ \/ /\ created \in Ids /\ created' = created + 1 /\ created # StartedThreads
               /\ runnables' = runnables \cup {created} /\ UNCHANGED queues
               /\ pc' = [pc EXCEPT ![Primary(created)] = "loop"]
               /\ pc[Primary(created)] = "unborn"
            \/ UNCHANGED <<created, runnables, pc>> /\ created = StartedThreads /\ created # PoolSize
            \/ /\ UNCHANGED <<created, runnables, queues>> /\ created = PoolSize
               /\ pc' = [pc EXCEPT ![Main] = "init", ![Timer] = "loop", ![Monitor] = "sleep"]
         /\ CallInv'
<1> USE DEF flagVars, lifeVars, poolVars, cacheVars, timerVars, sizeVars, loopVars,
            callVars, workVars, At, Goto
<1>1. /\ {Main, Timer, Monitor} \subseteq Threads /\ Main # Timer /\ Main # Monitor
      /\ \A i \in Ids : Primary(i) \in Threads /\ Primary(i) # Main
  BY ThreadFacts
<1>2. /\ UNCHANGED <<has_init_, has_stop_, queue_stop, timer_queue_stop, secondaries, wanted,
                     cache_queue_, stolen, workVars, idx, target, work, arg, back>>
      /\ pc[Main] = "create"
  BY DEF StartPrimary, StartOthers
<1>3. \/ /\ created \in Ids /\ created' = created + 1 /\ created # StartedThreads
         /\ runnables' = runnables \cup {created} /\ UNCHANGED queues
         /\ pc' = [pc EXCEPT ![Primary(created)] = "loop"]
         /\ pc[Primary(created)] = "unborn"
      \/ UNCHANGED <<created, runnables, pc>> /\ created = StartedThreads /\ created # PoolSize
      \/ /\ UNCHANGED <<created, runnables, queues>> /\ created = PoolSize
         /\ pc' = [pc EXCEPT ![Main] = "init", ![Timer] = "loop", ![Monitor] = "sleep"]
  <2>1. CASE StartPrimary
    <3>1. created \in Ids BY <2>1, PoolAssumption DEF StartPrimary, TypeOK, Ids
    <3>2. created >= created BY <3>1, IdFacts
    <3>3. created # StartedThreads BY <2>1, PoolAssumption DEF StartPrimary
    <3>4. QED BY <2>1, <3>1, <3>2, <3>3 DEF StartPrimary, MainInv
  <2>2. CASE StartOthers
    BY <2>2, IdFacts DEF StartOthers
  <2>3. QED BY <2>1, <2>2
<1>4. pc'[Main] \in {"create", "init"} BY <1>1, <1>2, <1>3 DEF TypeOK
<1>5. pc[Main] = "create" /\ pc[Timer] = "unborn" /\ pc[Monitor] = "unborn"
  BY <1>2 DEF MainInv
<1>6. \A t \in Threads : \/ pc'[t] = pc[t]
                         \/ /\ pc[t] \in {"unborn", "create"}
                            /\ pc'[t] \in {"loop", "init", "sleep"}
  <2>1. CASE created \in Ids /\ pc' = [pc EXCEPT ![Primary(created)] = "loop"]
             /\ pc[Primary(created)] = "unborn"
    BY <2>1 DEF TypeOK
  <2>2. CASE pc' = [pc EXCEPT ![Main] = "init", ![Timer] = "loop", ![Monitor] = "sleep"]
    BY <1>1, <1>5, <2>2 DEF TypeOK
  <2>3. QED BY <1>3, <2>1, <2>2
<1>7. CallInv' BY <1>2, <1>6 DEF CallInv, CallAt, Employed, Pushing
<1>8. QED BY <1>2, <1>3, <1>4, <1>7
-----------------------------------------------------------------------------
(* The control of all threads: a step of the pool is one of these. *)
LEMMA Steps ==
  ASSUME [Next]_vars
  PROVE  \/ \E i \in Ids : PrimaryStep(i)
         \/ \E t \in Secondaries : SecondaryStep(t)
         \/ TimerStep \/ Push(Main) \/ \E w \in Works : Commit(w)
         \/ MainGoes \/ MonitorWake \/ MonitorScan
         \/ ChangeStep(Main) \/ ChangeStep(Monitor)
         \/ StartPrimary \/ StartOthers \/ UNCHANGED vars
BY DEF Next, MainStep, ExitStep, MainGoes, MonitorStep, Terminated

LEMMA MainChanges ==
  ASSUME TypeOK, ControlInv, CallInv, SecondaryInv, ChangeInv, ChangeStep(Main)
  PROVE  ChangeMove(Main) /\ pc[Main] # "enlarge" /\ pc'[Main] # "enlarge"
         /\ UNCHANGED <<has_init_, has_stop_, lifeVars, timer_queue_stop, workVars, stolen,
                        cache_queue_>>
<1>1. pc[Main] # "enlarge"
  BY DEF ControlInv, MainAt, UserAt, Pushing, AfterExit, SizesAt, AfterSizes, TimerEndAt,
         LoopEndAt, LastAt
<1>2. Main \in Threads /\ \A t \in Secondaries : t # Main BY ThreadFacts
<1>3. pc'[Main] # "enlarge"
  <2> DEFINE i == idx[Main]
  <2>1. i \in Ids => secondaries[i] \in 0..VeryBusySize BY DEF TypeOK
  <2>2. i \in Ids => ~(secondaries[i] < wanted[Main])
    <3>1. wanted[Main] = 0 BY DEF ChangeInv
    <3>2. \A n \in 0..VeryBusySize : ~(n < 0) BY PoolAssumption
    <3>3. QED BY <2>1, <3>1, <3>2
  <2>3. CASE Change(Main)
    BY <1>2, <2>2, <2>3 DEF Change, Goto, Scanning, TypeOK
  <2>4. CASE Reduce(Main)
    <3>1. \/ pc' = [pc EXCEPT ![Secondary(i, secondaries[i])] = "unborn", ![Main] = Scanning(Main)]
          \/ pc' = [pc EXCEPT ![Secondary(i, secondaries[i])] = "unborn"] /\ pc[Main] = "join"
      BY <2>4 DEF Reduce, Goto, At
    <3>2. QED BY <1>2, <3>1 DEF Scanning, TypeOK
  <2>5. QED BY <1>1, <2>3, <2>4 DEF ChangeStep, Enlarge, At
<1>4. QED BY <1>1, <1>3, ChangeFrame

LEMMA MonitorChanges ==
  ASSUME TypeOK, ControlInv, CallInv, SecondaryInv, ChangeInv, ChangeStep(Monitor)
  PROVE  ChangeMove(Monitor)
         /\ UNCHANGED <<has_init_, has_stop_, lifeVars, timer_queue_stop, workVars, stolen,
                        cache_queue_>>
BY ChangeFrame, ThreadFacts

(* A thread that moves leaves the others where they are. *)
LEMMA ControlStep ==
  ASSUME ControlInv, NEW t \in Threads, Frame(t),
         t = Main => pc'[t] \in MainAt, t = Timer => pc'[t] \in TimerAt,
         t = Monitor => pc'[t] \in MonitorAt, t \in Secondaries => pc'[t] \in SecondaryAt,
         \A i \in Ids : t = Primary(i) => pc'[t] \in PrimaryAt
  PROVE  ControlInv'
<1>1. \A s \in Threads \ {t} : pc'[s] = pc[s] BY DEF Frame
<1>2. /\ \A i \in Ids : Primary(i) \in Threads
      /\ \A s \in Secondaries : s \in Threads
      /\ Main \in Threads /\ Timer \in Threads /\ Monitor \in Threads
  BY ThreadFacts
<1>3. QED BY <1>1, <1>2 DEF ControlInv

LEMMA ControlChange ==
  ASSUME ControlInv, NEW m \in {Main, Monitor}, ChangeMove(m), m = Main => pc'[m] # "enlarge"
  PROVE  ControlInv'
<1>1. /\ \A i \in Ids : Primary(i) \in Threads /\ Primary(i) \notin Secondaries /\ Primary(i) # m
      /\ Main \in Threads /\ Timer \in Threads /\ Monitor \in Threads
      /\ Secondaries \subseteq Threads
      /\ Main \notin Secondaries /\ Timer \notin Secondaries /\ Monitor \notin Secondaries
      /\ m # Timer /\ Main # Monitor
  BY ThreadFacts
<1>2. \A t \in Threads \ {m} : \/ pc'[t] = pc[t]
                               \/ /\ t \in Secondaries /\ pc'[t] \in {"unborn", "loop"}
  BY DEF ChangeMove
<1>3. (\A i \in Ids : pc'[Primary(i)] \in PrimaryAt) /\ pc'[Timer] \in TimerAt
  BY <1>1, <1>2 DEF ControlInv
<1>4. \A t \in Secondaries : pc'[t] \in SecondaryAt
  <2>1. "unborn" \in SecondaryAt /\ "loop" \in SecondaryAt BY DEF SecondaryAt
  <2>2. m \notin Secondaries BY <1>1
  <2>3. QED BY <1>1, <1>2, <2>1, <2>2 DEF ControlInv
<1>5. CASE m = Monitor
  <2>1. pc'[Main] \in MainAt BY <1>1, <1>2, <1>5 DEF ControlInv
  <2>2. pc'[Monitor] \in {"change", "enlarge", "join", "scan"}
    BY <1>5 DEF ChangeMove, Scanning
  <2>3. QED BY <1>3, <1>4, <2>1, <2>2 DEF ControlInv, MonitorAt
<1>6. CASE m = Main
  <2>1. pc'[Monitor] \in MonitorAt BY <1>1, <1>2, <1>6 DEF ControlInv
  <2>2. pc'[Main] \in {"change", "join"}
    BY <1>1, <1>6 DEF ChangeMove, Scanning
  <2>3. QED BY <1>3, <1>4, <2>1, <2>2 DEF ControlInv, MainAt, AfterExit, SizesAt
<1>7. QED BY <1>5, <1>6

LEMMA NextControl == IInv /\ [Next]_vars => ControlInv'
<1> SUFFICES ASSUME IInv, [Next]_vars PROVE ControlInv'
  OBVIOUS
<1> USE DEF IInv
<1>1. /\ {Main, Timer, Monitor} \subseteq Threads
      /\ \A i \in Ids : Primary(i) \in Threads /\ Primary(i) \notin Secondaries
                        /\ Primary(i) \notin {Main, Timer, Monitor}
      /\ \A i, j : Primary(i) = Primary(j) => i = j
      /\ Secondaries \subseteq Threads
      /\ \A t \in {Main, Timer, Monitor} : t \notin Secondaries
      /\ Main # Timer /\ Main # Monitor /\ Timer # Monitor
  BY ThreadFacts
<1>2. ASSUME NEW i \in Ids, PrimaryStep(i) PROVE ControlInv'
  <2>1. Frame(Primary(i)) /\ pc'[Primary(i)] \in PrimaryAt BY <1>2, PrimaryFrame
  <2>2. QED BY <1>1, <2>1, ControlStep
<1>3. ASSUME NEW t \in Secondaries, SecondaryStep(t) PROVE ControlInv'
  <2>1. Frame(t) /\ pc'[t] \in SecondaryAt BY <1>3, SecondaryFrame
  <2>2. QED BY <1>1, <2>1, ControlStep
<1>4. CASE TimerStep
  <2>1. Frame(Timer) /\ pc'[Timer] \in TimerAt BY <1>4, TimerFrame
  <2>2. QED BY <1>1, <2>1, ControlStep
<1>5. ASSUME Frame(Main), pc'[Main] \in MainAt PROVE ControlInv'
  BY <1>1, <1>5, ControlStep
<1>6. CASE Push(Main)
  <2>1. Frame(Main) /\ (pc'[Main] \in Pushing \/ pc'[Main] \in Returns(Main))
    BY <1>1, <1>6, PushFrame DEF Pushing
  <2>2. QED BY <1>5, <2>1 DEF MainAt, UserAt, Returns
<1>7. ASSUME NEW w \in Works, Commit(w) PROVE ControlInv'
  BY <1>5, <1>7, CommitFrame DEF MainAt, UserAt, Pushing
<1>8. CASE MainGoes
  BY <1>5, <1>8, MainFrame DEF MainAt, UserAt
<1>9. CASE MonitorWake \/ MonitorScan
  <2>1. Frame(Monitor) /\ pc'[Monitor] \in MonitorAt BY <1>9, MonitorFrame DEF MonitorAt
  <2>2. QED BY <1>1, <2>1, ControlStep
<1>10. CASE ChangeStep(Main)
  BY <1>10, MainChanges, ControlChange
<1>11. CASE ChangeStep(Monitor)
  BY <1>1, <1>11, MonitorChanges, ControlChange
<1>12. CASE StartPrimary \/ StartOthers
  <2>1. /\ \/ created \in Ids /\ pc' = [pc EXCEPT ![Primary(created)] = "loop"]
           \/ pc' = pc
           \/ pc' = [pc EXCEPT ![Main] = "init", ![Timer] = "loop", ![Monitor] = "sleep"]
    BY <1>12, StartFrame
  <2>2. /\ "loop" \in PrimaryAt /\ "init" \in MainAt /\ "loop" \in TimerAt /\ "sleep" \in MonitorAt
    BY DEF PrimaryAt, MainAt, TimerAt, MonitorAt
  <2>3. pc \in [Threads -> PcValues] BY DEF TypeOK
  <2>4. CASE created \in Ids /\ pc' = [pc EXCEPT ![Primary(created)] = "loop"]
    BY <1>1, <2>2, <2>3, <2>4 DEF ControlInv
  <2>5. CASE pc' = pc
    BY <2>5 DEF ControlInv
  <2>6. CASE pc' = [pc EXCEPT ![Main] = "init", ![Timer] = "loop", ![Monitor] = "sleep"]
    BY <1>1, <2>2, <2>3, <2>6 DEF ControlInv
  <2>7. QED BY <2>1, <2>4, <2>5, <2>6
<1>13. CASE UNCHANGED vars
  BY <1>13 DEF vars, ControlInv
<1>14. QED BY <1>2, <1>3, <1>4, <1>6, <1>7, <1>8, <1>9, <1>10, <1>11, <1>12, <1>13, Steps

LEMMA CallStep ==
  ASSUME CallInv, NEW t \in Threads, Frame(t), CallAt(t)'
  PROVE  CallInv'
<1> SUFFICES ASSUME NEW s \in Threads \ {t} PROVE CallAt(s)'
  BY DEF CallInv
<1>1. /\ pc'[s] = pc[s] /\ target'[s] = target[s] /\ work'[s] = work[s]
      /\ arg'[s] = arg[s] /\ back'[s] = back[s]
  BY DEF Frame
<1>2. CallAt(s) BY DEF CallInv
<1>3. QED BY <1>1, <1>2 DEF CallAt, Employed

LEMMA CallChange ==
  ASSUME CallInv, NEW m \in {Main, Monitor}, ChangeMove(m)
  PROVE  CallInv'
<1> SUFFICES ASSUME NEW s \in Threads PROVE CallAt(s)'
  BY DEF CallInv
<1>1. CallAt(s) /\ m \in Threads /\ m \notin Workers
  BY ThreadFacts DEF CallInv
<1>2. arg'[s] = arg[s] /\ work'[s] = work[s] /\ back'[s] = back[s]
  BY DEF ChangeMove
<1>3. CASE s = m
  <2>1. pc[s] \in {"change", "enlarge", "join"} /\ pc'[s] \in {"change", "enlarge", "join", "scan"}
    BY <1>3 DEF ChangeMove, Scanning
  <2>2. pc'[s] # "enlarge" => target'[s] = 0
    BY <1>1, <1>3, <2>1 DEF ChangeMove, CallAt
  <2>3. QED BY <1>1, <1>2, <2>1, <2>2 DEF CallAt, Employed, Pushing
<1>4. CASE s # m
  <2>1. /\ target'[s] = target[s]
        /\ \/ pc'[s] = pc[s]
           \/ pc[s] \in {"unborn", "exited"} /\ pc'[s] \in {"unborn", "loop"}
    BY <1>4 DEF ChangeMove
  <2>2. QED BY <1>1, <1>2, <2>1 DEF CallAt, Employed, Pushing
<1>5. QED BY <1>3, <1>4

LEMMA NextCall == IInv /\ [Next]_vars => CallInv'
<1> SUFFICES ASSUME IInv, [Next]_vars PROVE CallInv'
  OBVIOUS
<1> USE DEF IInv
<1>1. /\ {Main, Timer, Monitor} \subseteq Threads
      /\ \A i \in Ids : Primary(i) \in Threads
      /\ Secondaries \subseteq Threads
  BY ThreadFacts
<1>2. ASSUME NEW i \in Ids, PrimaryStep(i) PROVE CallInv'
  <2>1. Frame(Primary(i)) /\ CallAt(Primary(i))' BY <1>2, PrimaryFrame
  <2>2. QED BY <1>1, <2>1, CallStep
<1>3. ASSUME NEW t \in Secondaries, SecondaryStep(t) PROVE CallInv'
  <2>1. Frame(t) /\ CallAt(t)' BY <1>3, SecondaryFrame
  <2>2. QED BY <1>1, <2>1, CallStep
<1>4. CASE TimerStep
  <2>1. Frame(Timer) /\ CallAt(Timer)' BY <1>4, TimerFrame
  <2>2. QED BY <1>1, <2>1, CallStep
<1>5. CASE Push(Main) \/ MainGoes \/ \E w \in Works : Commit(w)
  <2>1. Frame(Main) /\ CallAt(Main)' BY <1>1, <1>5, PushFrame, MainFrame, CommitFrame
  <2>2. QED BY <1>1, <2>1, CallStep
<1>6. CASE MonitorWake \/ MonitorScan
  <2>1. Frame(Monitor) /\ CallAt(Monitor)' BY <1>6, MonitorFrame
  <2>2. QED BY <1>1, <2>1, CallStep
<1>7. CASE ChangeStep(Main) \/ ChangeStep(Monitor)
  BY <1>7, MainChanges, MonitorChanges, CallChange
<1>8. CASE StartPrimary \/ StartOthers
  BY <1>8, StartFrame
<1>9. CASE UNCHANGED vars
  BY <1>9 DEF vars, callVars, loopVars, CallInv, CallAt, Employed
<1>10. QED BY <1>2, <1>3, <1>4, <1>5, <1>6, <1>7, <1>8, <1>9, Steps

LEMMA SecondaryStays ==
  ASSUME SecondaryInv, UNCHANGED secondaries, \A t \in Secondaries : pc[t] = "unborn" => pc'[t] = "unborn"
  PROVE  SecondaryInv'
BY ThreadFacts DEF SecondaryInv

LEMMA NextSecondary == IInv /\ [Next]_vars => SecondaryInv'
<1> SUFFICES ASSUME IInv, [Next]_vars PROVE SecondaryInv'
  OBVIOUS
<1> USE DEF IInv
<1>1. /\ {Main, Timer, Monitor} \subseteq Threads
      /\ \A i \in Ids : Primary(i) \in Threads /\ Primary(i) \notin Secondaries
      /\ Secondaries \subseteq Threads
      /\ \A t \in {Main, Timer, Monitor} : t \notin Secondaries
  BY ThreadFacts
<1>2. ASSUME NEW t \in Threads, Frame(t), UNCHANGED secondaries,
             t \in Secondaries => pc[t] # "unborn"
      PROVE  SecondaryInv'
  <2>1. \A s \in Secondaries : pc[s] = "unborn" => pc'[s] = "unborn"
    BY <1>1, <1>2 DEF Frame
  <2>2. QED BY <1>2, <2>1, SecondaryStays
<1>3. ASSUME NEW i \in Ids, PrimaryStep(i) PROVE SecondaryInv'
  <2>1. Frame(Primary(i)) /\ UNCHANGED secondaries BY <1>3, PrimaryFrame DEF SamePool
  <2>2. QED BY <1>1, <1>2, <2>1
<1>4. ASSUME NEW t \in Secondaries, SecondaryStep(t) PROVE SecondaryInv'
  <2>1. Frame(t) /\ UNCHANGED secondaries /\ pc[t] # "unborn"
    BY <1>4, SecondaryFrame DEF SamePool
  <2>2. QED BY <1>1, <1>2, <2>1
<1>5. CASE TimerStep
  <2>1. Frame(Timer) /\ UNCHANGED secondaries BY <1>5, TimerFrame DEF SamePool
  <2>2. QED BY <1>1, <1>2, <2>1
<1>6. CASE Push(Main) \/ MainGoes \/ \E w \in Works : Commit(w)
  <2>1. Frame(Main) /\ UNCHANGED secondaries
    BY <1>1, <1>6, PushFrame, MainFrame, CommitFrame DEF SamePool
  <2>2. QED BY <1>1, <1>2, <2>1
<1>7. CASE MonitorWake \/ MonitorScan
  <2>1. Frame(Monitor) /\ UNCHANGED secondaries BY <1>7, MonitorFrame
  <2>2. QED BY <1>1, <1>2, <2>1
<1>8. ASSUME NEW m \in {Main, Monitor}, ChangeMove(m) PROVE SecondaryInv'
  <2> SUFFICES ASSUME NEW i \in Ids, NEW k \in Slots, k > secondaries'[i]
               PROVE  pc'[Secondary(i, k)] = "unborn"
    BY DEF SecondaryInv
  <2>1. CASE i = idx[m] BY <1>8, <2>1 DEF ChangeMove
  <2>2. CASE i # idx[m] BY <1>8, <2>2 DEF ChangeMove, SecondaryInv
  <2>3. QED BY <2>1, <2>2
<1>9. CASE ChangeStep(Main) \/ ChangeStep(Monitor)
  BY <1>8, <1>9, MainChanges, MonitorChanges
<1>10. CASE StartPrimary \/ StartOthers
  <2>1. /\ UNCHANGED secondaries
        /\ \/ created \in Ids /\ pc' = [pc EXCEPT ![Primary(created)] = "loop"]
           \/ pc' = pc
           \/ pc' = [pc EXCEPT ![Main] = "init", ![Timer] = "loop", ![Monitor] = "sleep"]
    BY <1>10, StartFrame
  <2>2. pc \in [Threads -> PcValues] BY DEF TypeOK
  <2>3. created \in Ids => \A s \in Secondaries : s # Primary(created) BY <1>1
  <2>4. \A s \in Secondaries : pc'[s] = pc[s]
    <3>1. \A s \in Secondaries : s \in Threads /\ s \notin {Main, Timer, Monitor} BY <1>1
    <3>2. CASE pc' = pc BY <3>2
    <3>3. CASE created \in Ids /\ pc' = [pc EXCEPT ![Primary(created)] = "loop"]
      BY <2>2, <2>3, <3>1, <3>3
    <3>4. CASE pc' = [pc EXCEPT ![Main] = "init", ![Timer] = "loop", ![Monitor] = "sleep"]
      BY <2>2, <3>1, <3>4
    <3>5. QED BY <2>1, <3>2, <3>3, <3>4
  <2>5. QED BY <2>1, <2>4, SecondaryStays
<1>11. CASE UNCHANGED vars
  BY <1>11 DEF vars, sizeVars, SecondaryInv
<1>12. QED BY <1>3, <1>4, <1>5, <1>6, <1>7, <1>9, <1>10, <1>11, Steps

LEMMA NextChange == IInv /\ [Next]_vars => ChangeInv'
<1> SUFFICES ASSUME IInv, [Next]_vars PROVE ChangeInv'
  OBVIOUS
<1> USE DEF IInv
<1>1. /\ {Main, Timer, Monitor} \subseteq Threads
      /\ \A i \in Ids : Primary(i) \in Threads /\ Primary(i) \notin {Main, Monitor}
      /\ Secondaries \subseteq Threads
      /\ \A t \in {Main, Timer, Monitor} : t \notin Secondaries
      /\ Timer # Main /\ Timer # Monitor /\ Main # Monitor
  BY ThreadFacts
<1>2. ASSUME UNCHANGED <<secondaries, wanted>>,
             \A m \in {Main, Monitor} : pc'[m] = pc[m] /\ idx'[m] = idx[m] /\ target'[m] = target[m]
      PROVE  ChangeInv'
  BY <1>2 DEF ChangeInv
<1>3. ASSUME NEW t \in Threads \ {Main, Monitor}, Frame(t), UNCHANGED <<secondaries, wanted>>
      PROVE  ChangeInv'
  <2>1. \A m \in {Main, Monitor} : pc'[m] = pc[m] /\ idx'[m] = idx[m] /\ target'[m] = target[m]
    BY <1>1, <1>3 DEF Frame
  <2>2. QED BY <1>2, <1>3, <2>1
<1>4. ASSUME NEW i \in Ids, PrimaryStep(i) PROVE ChangeInv'
  <2>1. Frame(Primary(i)) /\ UNCHANGED <<secondaries, wanted>>
    BY <1>4, PrimaryFrame DEF SamePool
  <2>2. QED BY <1>1, <1>3, <2>1
<1>5. ASSUME NEW t \in Secondaries, SecondaryStep(t) PROVE ChangeInv'
  <2>1. Frame(t) /\ UNCHANGED <<secondaries, wanted>> BY <1>5, SecondaryFrame DEF SamePool
  <2>2. QED BY <1>1, <1>3, <2>1
<1>6. CASE TimerStep
  <2>1. Frame(Timer) /\ UNCHANGED <<secondaries, wanted>> BY <1>6, TimerFrame DEF SamePool
  <2>2. QED BY <1>1, <1>3, <2>1
<1>7. ASSUME Frame(Main), UNCHANGED secondaries, wanted'[Monitor] = wanted[Monitor],
             wanted'[Main] = 0, pc'[Main] # "join"
      PROVE  ChangeInv'
  <2>1. pc'[Monitor] = pc[Monitor] /\ idx'[Monitor] = idx[Monitor]
        /\ target'[Monitor] = target[Monitor]
    BY <1>1, <1>7 DEF Frame
  <2>2. QED BY <1>1, <1>7, <2>1 DEF ChangeInv
<1>8. CASE Push(Main) \/ \E w \in Works : Commit(w)
  <2>1. Frame(Main) /\ UNCHANGED <<secondaries, wanted>>
    BY <1>1, <1>8, PushFrame, CommitFrame DEF SamePool
  <2>2. pc'[Main] # "join"
    BY <1>1, <1>8, PushFrame, CommitFrame DEF Returns
  <2>3. wanted[Main] = 0 BY DEF ChangeInv
  <2>4. QED BY <1>7, <2>1, <2>2, <2>3
<1>9. CASE MainGoes
  <2>1. wanted'[Main] = 0
    BY <1>1, <1>9 DEF MainGoes, SetInit, Exit, StopMonitor, JoinMonitor, StopTimer,
       StopTimerQueue, JoinTimer, StopPrimary, StopQueue, JoinPrimary, DeleteRunnables,
       DeleteQueues, StopThread, TypeOK, ChangeInv, sizeVars
  <2>2. QED BY <1>7, <1>9, <2>1, MainFrame
<1>10. CASE MonitorWake \/ MonitorScan
  <2>1. /\ Frame(Monitor) /\ UNCHANGED secondaries /\ wanted'[Main] = wanted[Main]
        /\ pc'[Monitor] \notin {"enlarge", "join"}
        /\ pc'[Monitor] = "change" => idx'[Monitor] \in Ids
    BY <1>10, MonitorFrame
  <2>2. pc'[Main] = pc[Main] /\ idx'[Main] = idx[Main]
    BY <1>1, <2>1 DEF Frame
  <2>3. QED BY <1>1, <2>1, <2>2 DEF ChangeInv
<1>11. CASE ChangeStep(Main)
  <2>1. ChangeMove(Main) BY <1>11, MainChanges
  <2>2. pc[Main] \in {"change", "join"}
    BY <1>11, MainChanges DEF ChangeMove
  <2>3. pc[Monitor] = "exited" BY <2>2 DEF MainInv, SizesAt
  <2>4. pc'[Monitor] = "exited" BY <1>1, <2>1, <2>3 DEF ChangeMove
  <2>5. wanted'[Main] = 0
    <3>1. wanted[Main] = 0 BY DEF ChangeInv
    <3>2. \/ wanted' = wanted \/ wanted' = [wanted EXCEPT ![Main] = 0]
      BY <2>1 DEF ChangeMove
    <3>3. QED BY <3>1, <3>2 DEF TypeOK
  <2>6. pc'[Main] = "join" => idx'[Main] \in Ids /\ secondaries'[idx'[Main]] > wanted'[Main]
    BY <2>1 DEF ChangeMove, Scanning
  <2>7. QED BY <1>1, <2>4, <2>5, <2>6 DEF ChangeInv
<1>12. CASE ChangeStep(Monitor)
  <2>1. ChangeMove(Monitor) BY <1>12, MonitorChanges
  <2>2. pc[Monitor] \in {"change", "enlarge", "join"} BY <2>1 DEF ChangeMove
  <2>3. pc[Main] # "join" BY <2>2 DEF MainInv, SizesAt
  <2>4. pc'[Main] # "join" BY <1>1, <2>1, <2>3 DEF ChangeMove
  <2>5. wanted'[Main] = 0
    <3>1. wanted[Main] = 0 BY DEF ChangeInv
    <3>2. \/ wanted' = wanted \/ wanted' = [wanted EXCEPT ![Monitor] = 0]
      BY <2>1 DEF ChangeMove
    <3>3. QED BY <1>1, <3>1, <3>2 DEF TypeOK
  <2>6. pc'[Monitor] \in {"change", "enlarge", "join"} =>
          idx'[Monitor] = idx[Monitor] /\ idx[Monitor] \in Ids /\ wanted' = wanted
    BY <2>1 DEF ChangeMove, Scanning
  <2>7. pc'[Monitor] = "enlarge" =>
           /\ secondaries'[idx[Monitor]] <= wanted[Monitor]
           /\ target'[Monitor] <= secondaries'[idx[Monitor]]
    BY <2>1 DEF ChangeMove
  <2>8. pc'[Monitor] = "join" => secondaries'[idx[Monitor]] > wanted[Monitor]
    BY <2>1 DEF ChangeMove
  <2>9. QED BY <2>4, <2>5, <2>6, <2>7, <2>8 DEF ChangeInv
<1>13. CASE StartPrimary \/ StartOthers
  <2>1. /\ UNCHANGED <<secondaries, wanted, idx, target>>
        /\ pc'[Main] \in {"create", "init"}
        /\ \/ created \in Ids /\ pc' = [pc EXCEPT ![Primary(created)] = "loop"]
           \/ pc' = pc
           \/ pc' = [pc EXCEPT ![Main] = "init", ![Timer] = "loop", ![Monitor] = "sleep"]
    BY <1>13, StartFrame
  <2>2. pc'[Monitor] \in {pc[Monitor], "sleep"}
    BY <1>1, <2>1 DEF TypeOK
  <2>3. QED BY <2>1, <2>2 DEF ChangeInv
<1>14. CASE UNCHANGED vars
  BY <1>14 DEF vars, sizeVars, loopVars, ChangeInv
<1>15. QED BY <1>4, <1>5, <1>6, <1>8, <1>9, <1>10, <1>11, <1>12, <1>13, <1>14, Steps
-----------------------------------------------------------------------------
(* The life of the pool. *)
LEMMA MainStays ==
  ASSUME MainInv, UNCHANGED <<has_init_, has_stop_, lifeVars, timer_queue_stop>>,
         pc'[Main] = pc[Main], idx'[Main] = idx[Main],
         \A t \in Primaries \cup {Timer, Monitor} :
           pc'[t] = pc[t] \/ pc[t] \notin {"unborn", "exited"},
         UNCHANGED secondaries \/ pc[Main] \notin SizesAt \cup AfterSizes
  PROVE  MainInv'
<1>1. \A i \in Ids : Primary(i) \in Primaries BY ThreadFacts
<1>2. \A i \in Ids : pc[Primary(i)] \in {"unborn", "exited"} => pc'[Primary(i)] = pc[Primary(i)]
  BY <1>1
<1>3. \A t \in {Timer, Monitor} : pc[t] \in {"unborn", "exited"} => pc'[t] = pc[t]
  OBVIOUS
<1>4. QED BY <1>2, <1>3 DEF MainInv, lifeVars

LEMMA MainWorks ==
  ASSUME MainInv, UNCHANGED <<has_init_, has_stop_, lifeVars, timer_queue_stop>>,
         pc[Main] \in UserAt, pc'[Main] \in UserAt,
         \A t \in Primaries : pc'[t] = pc[t]
  PROVE  MainInv'
<1>1. \A i \in Ids : pc'[Primary(i)] = pc[Primary(i)] BY ThreadFacts
<1>2. \A l \in UserAt : l \notin {"create", "init"} \cup AfterExit
  BY DEF UserAt, Pushing, AfterExit, AfterSizes, SizesAt, TimerEndAt, LoopEndAt, LastAt
<1>3. /\ SizesAt \cup AfterSizes \subseteq AfterExit /\ LoopEndAt \cup LastAt \subseteq AfterSizes
      /\ {"stop_queue", "join_primary"} \subseteq LoopEndAt /\ "done" \in LastAt
  BY DEF AfterExit, AfterSizes, LoopEndAt, LastAt
<1>4. pc[Main] \notin {"create", "init", "done", "stop_queue", "join_primary"} \cup AfterExit
           \cup SizesAt \cup AfterSizes \cup LoopEndAt \cup LastAt
  BY <1>2, <1>3
<1>5. pc'[Main] \notin {"create", "init", "done", "stop_queue", "join_primary"} \cup AfterExit
           \cup SizesAt \cup AfterSizes \cup LoopEndAt \cup LastAt
  BY <1>2, <1>3
<1>6. QED BY <1>1, <1>4, <1>5 DEF MainInv, lifeVars

LEMMA MainExits ==
  ASSUME TypeOK, CallInv, ControlInv, MainInv, MainGoes
  PROVE  MainInv'
<1> USE DEF flagVars, lifeVars, poolVars, cacheVars, timerVars, sizeVars, loopVars,
            callVars, workVars, At, Goto, AfterExit, AfterSizes, SizesAt, TimerEndAt, LoopEndAt,
            LastAt
<1>1. Main \in Threads /\ pc \in [Threads -> PcValues] /\ idx \in [Threads -> 0..PoolSize]
  BY ThreadFacts DEF TypeOK
<1>2. /\ \A i \in Ids : pc'[Primary(i)] = pc[Primary(i)]
      /\ pc'[Timer] = pc[Timer] /\ pc'[Monitor] = pc[Monitor]
  BY ThreadFacts, MainFrame DEF Frame
<1>3. UNCHANGED <<secondaries, created>> BY MainFrame
<1>4. \A i \in Ids : i \in Nat /\ ~(i < 0) /\ i < PoolSize
  BY PoolAssumption DEF Ids
<1>5. CASE SetInit
  BY <1>1, <1>2, <1>3, <1>5 DEF SetInit, MainInv
<1>6. CASE Exit
  BY <1>1, <1>2, <1>3, <1>6 DEF Exit, MainInv
<1>7. CASE StopMonitor
  BY <1>1, <1>2, <1>3, <1>7 DEF StopMonitor, StopThread, MainInv
<1>8. CASE JoinMonitor
  <2>1. idx'[Main] = 0 BY <1>1, <1>8 DEF JoinMonitor
  <2>2. QED BY <1>1, <1>2, <1>3, <1>4, <1>8, <2>1 DEF JoinMonitor, MainInv
<1>9. CASE StopTimer
  BY <1>1, <1>2, <1>3, <1>4, <1>9 DEF StopTimer, StopThread, MainInv
<1>10. CASE StopTimerQueue
  BY <1>1, <1>2, <1>3, <1>10 DEF StopTimerQueue, MainInv
<1>11. CASE JoinTimer
  <2>1. idx'[Main] = 0 BY <1>1, <1>11 DEF JoinTimer
  <2>2. QED BY <1>1, <1>2, <1>3, <1>4, <1>11, <2>1 DEF JoinTimer, MainInv
<1>12. CASE StopPrimary
  BY <1>1, <1>2, <1>3, <1>12 DEF StopPrimary, StopThread, MainInv
<1>13. CASE StopQueue
  <2>1. has_stop_ /\ pc[Main] = "stop_queue" /\ pc'[Main] = "join_primary"
    BY <1>1, <1>13 DEF StopQueue, MainInv
  <2>2. QED BY <1>1, <1>2, <1>3, <1>13, <2>1 DEF StopQueue, MainInv
<1>14. CASE JoinPrimary
  <2>1. idx'[Main] = idx[Main] + 1 /\ pc[Primary(idx[Main])] = "exited"
    BY <1>1, <1>14 DEF JoinPrimary
  <2>2. pc[Main] = "join_primary" /\ pc'[Main] = "stop_primary"
    BY <1>1, <1>14 DEF JoinPrimary
  <2>3. \A i \in Ids : i < idx'[Main] => i < idx[Main] \/ i = idx[Main]
    <3>1. idx[Main] \in Ids BY <2>2 DEF MainInv
    <3>2. idx[Main] \in Nat BY <3>1, IdFacts
    <3>3. QED BY <1>4, <2>1, <3>2
  <2>4. \A i \in Ids : i < idx'[Main] => pc'[Primary(i)] = "exited"
    BY <1>2, <2>1, <2>2, <2>3 DEF MainInv
  <2>5. UNCHANGED <<has_init_, has_stop_, lifeVars, timer_queue_stop>>
    BY <1>14 DEF JoinPrimary
  <2>6. QED BY <1>2, <1>3, <2>2, <2>4, <2>5 DEF MainInv
<1>15. CASE DeleteRunnables
  BY <1>1, <1>2, <1>3, <1>4, <1>15 DEF DeleteRunnables, MainInv
<1>16. CASE DeleteQueues
  BY <1>1, <1>2, <1>3, <1>16 DEF DeleteQueues, MainInv
<1>17. QED BY <1>5, <1>6, <1>7, <1>8, <1>9, <1>10, <1>11, <1>12, <1>13, <1>14, <1>15, <1>16
  DEF MainGoes

LEMMA MainShrinks ==
  ASSUME TypeOK, ControlInv, CallInv, SecondaryInv, ChangeInv, MainInv, ChangeStep(Main)
  PROVE  MainInv'
<1> DEFINE i == idx[Main]
<1>1. /\ ChangeMove(Main) /\ pc[Main] \in SizesAt /\ pc'[Main] \in SizesAt
      /\ UNCHANGED <<has_init_, has_stop_, lifeVars, timer_queue_stop>>
  BY MainChanges, ThreadFacts DEF ChangeMove, Scanning, SizesAt
<1>2. /\ i \in Ids /\ \A j \in Ids \ {i} : secondaries'[j] = secondaries[j]
      /\ \/ idx'[Main] = i
         \/ idx'[Main] = i + 1 /\ secondaries'[i] = 0
  BY <1>1 DEF ChangeMove, SizesAt, ChangeInv
<1>3. \A t \in Primaries \cup {Timer, Monitor} : pc'[t] = pc[t]
  BY <1>1, ThreadFacts DEF ChangeMove
<1>4. \A j \in Ids : j < idx'[Main] => secondaries'[j] = 0
  <2>1. \A j \in Ids : j < i => secondaries[j] = 0 BY <1>1 DEF MainInv
  <2>2. i \in Nat /\ \A j \in Ids : j \in Nat BY <1>2, IdFacts
  <2>3. QED BY <1>2, <2>1, <2>2
<1>5. pc[Main] \in AfterExit /\ pc'[Main] \in AfterExit BY <1>1 DEF AfterExit
<1>6. \A l \in SizesAt : l \notin {"create", "init", "done", "stop_queue", "join_primary"}
           \cup AfterSizes \cup LoopEndAt \cup LastAt
  BY DEF SizesAt, AfterSizes, TimerEndAt, LoopEndAt, LastAt
<1>7. \A j \in Ids : Primary(j) \in Primaries BY ThreadFacts
<1>8. QED BY <1>1, <1>3, <1>4, <1>5, <1>6, <1>7 DEF MainInv, lifeVars

LEMMA MainStarts ==
  ASSUME TypeOK, CallInv, MainInv, StartPrimary \/ StartOthers
  PROVE  MainInv'
<1> USE DEF AfterExit, AfterSizes, SizesAt, TimerEndAt, LoopEndAt, LastAt, lifeVars
<1>1. /\ {Main, Timer, Monitor} \subseteq Threads /\ Main # Timer /\ Main # Monitor
      /\ \A j \in Ids : Primary(j) \in Threads /\ Primary(j) \notin {Main, Timer, Monitor}
      /\ \A j, k : Primary(j) = Primary(k) => j = k
  BY ThreadFacts
<1>2. /\ UNCHANGED <<has_init_, has_stop_, queue_stop, timer_queue_stop, secondaries, idx>>
      /\ pc[Main] = "create"
  BY StartFrame
<1>3. CASE /\ created \in Ids /\ created' = created + 1 /\ created # StartedThreads
           /\ runnables' = runnables \cup {created} /\ UNCHANGED queues
           /\ pc' = [pc EXCEPT ![Primary(created)] = "loop"]
  <2>1. /\ pc'[Main] = "create" /\ pc'[Timer] = "unborn" /\ pc'[Monitor] = "unborn"
    BY <1>1, <1>2, <1>3 DEF TypeOK, MainInv
  <2>2. \A j \in Ids : j >= created' => pc'[Primary(j)] = "unborn"
    <3>1. \A j \in Ids : j >= created + 1 => j >= created /\ j # created
      BY <1>3, IdFacts
    <3>2. QED BY <1>1, <1>3, <3>1 DEF TypeOK, MainInv
  <2>3. runnables' = 0..(created' - 1)
    <3>1. created \in Nat BY <1>3, IdFacts
    <3>2. runnables = 0..(created - 1) BY <1>2 DEF MainInv
    <3>3. QED BY <1>3, <3>1, <3>2
  <2>4. QED BY <1>2, <1>3, <2>1, <2>2, <2>3 DEF MainInv
<1>4. CASE UNCHANGED <<created, runnables, pc>> /\ created = StartedThreads /\ created # PoolSize
  BY <1>2, <1>4 DEF MainInv
<1>5. CASE /\ UNCHANGED <<created, runnables, queues>> /\ created = PoolSize
           /\ pc' = [pc EXCEPT ![Main] = "init", ![Timer] = "loop", ![Monitor] = "sleep"]
  <2>1. pc'[Main] = "init" /\ \A j \in Ids : pc'[Primary(j)] = pc[Primary(j)]
    BY <1>1, <1>5 DEF TypeOK
  <2>2. runnables = Ids BY <1>2, <1>5 DEF MainInv, Ids
  <2>3. queues = Ids BY <1>2, <1>5 DEF MainInv
  <2>4. QED BY <1>2, <1>5, <2>1, <2>2, <2>3 DEF MainInv
<1>6. QED BY <1>3, <1>4, <1>5, StartFrame

LEMMA NextMain == IInv /\ [Next]_vars => MainInv'
<1> SUFFICES ASSUME IInv, [Next]_vars PROVE MainInv'
  OBVIOUS
<1> USE DEF IInv
<1>1. /\ {Main, Timer, Monitor} \subseteq Threads /\ Main # Timer /\ Main # Monitor
      /\ Primaries \subseteq Threads /\ Secondaries \subseteq Threads
      /\ Primaries \cap Secondaries = {} /\ Timer # Monitor
      /\ \A t \in {Main, Timer, Monitor} : t \notin Primaries \cup Secondaries
      /\ \A i \in Ids : Primary(i) \in Primaries
  BY ThreadFacts
<1>2. ASSUME NEW t \in Threads \ {Main}, Frame(t), pc[t] \notin {"unborn", "exited"} \/ t \in Secondaries,
             UNCHANGED <<has_init_, has_stop_, lifeVars, timer_queue_stop, secondaries>>
      PROVE  MainInv'
  <2>1. /\ \A s \in Primaries \cup {Timer, Monitor} : pc'[s] = pc[s] \/ pc[s] \notin {"unborn", "exited"}
        /\ pc'[Main] = pc[Main] /\ idx'[Main] = idx[Main]
    BY <1>1, <1>2 DEF Frame
  <2>2. QED BY <1>2, <2>1, MainStays
<1>3. ASSUME NEW i \in Ids, PrimaryStep(i) PROVE MainInv'
  <2>1. /\ Frame(Primary(i)) /\ pc[Primary(i)] \notin {"unborn", "exited"}
        /\ UNCHANGED <<has_init_, has_stop_, lifeVars, timer_queue_stop, secondaries>>
    BY <1>3, PrimaryFrame DEF SamePool
  <2>2. QED BY <1>1, <1>2, <2>1
<1>4. ASSUME NEW t \in Secondaries, SecondaryStep(t) PROVE MainInv'
  <2>1. Frame(t) /\ UNCHANGED <<has_init_, has_stop_, lifeVars, timer_queue_stop, secondaries>>
    BY <1>4, SecondaryFrame DEF SamePool
  <2>2. QED BY <1>1, <1>2, <2>1
<1>5. CASE TimerStep
  <2>1. /\ Frame(Timer) /\ pc[Timer] \notin {"unborn", "exited"}
        /\ UNCHANGED <<has_init_, has_stop_, lifeVars, timer_queue_stop, secondaries>>
    BY <1>5, TimerFrame DEF SamePool
  <2>2. QED BY <1>1, <1>2, <2>1
<1>6. CASE MonitorWake \/ MonitorScan
  <2>1. /\ Frame(Monitor) /\ pc[Monitor] \notin {"unborn", "exited"}
        /\ UNCHANGED <<has_init_, has_stop_, lifeVars, timer_queue_stop, secondaries>>
    BY <1>6, MonitorFrame
  <2>2. QED BY <1>1, <1>2, <2>1
<1>7. CASE Push(Main) \/ \E w \in Works : Commit(w)
  <2>1. /\ Frame(Main) /\ UNCHANGED <<has_init_, has_stop_, lifeVars, timer_queue_stop>>
        /\ pc[Main] \in UserAt /\ pc'[Main] \in UserAt
    BY <1>1, <1>7, PushFrame, CommitFrame DEF SamePool, UserAt, Pushing, Returns
  <2>2. \A t \in Primaries : pc'[t] = pc[t] BY <1>1, <2>1 DEF Frame
  <2>3. QED BY <2>1, <2>2, MainWorks
<1>8. CASE ChangeStep(Monitor)
  <2>1. /\ ChangeMove(Monitor)
        /\ UNCHANGED <<has_init_, has_stop_, lifeVars, timer_queue_stop>>
    BY <1>8, MonitorChanges
  <2>2. pc[Monitor] \in {"change", "enlarge", "join"} BY <2>1 DEF ChangeMove
  <2>3. pc[Main] \notin SizesAt \cup AfterSizes BY <2>2 DEF MainInv
  <2>4. pc'[Main] = pc[Main] /\ idx'[Main] = idx[Main] BY <1>1, <2>1 DEF ChangeMove
  <2>5. \A t \in Primaries \cup {Timer} : pc'[t] = pc[t] BY <1>1, <2>1 DEF ChangeMove
  <2>6. QED BY <2>1, <2>2, <2>3, <2>4, <2>5, MainStays
<1>9. CASE UNCHANGED vars
  BY <1>9, MainStays DEF vars, flagVars, lifeVars, timerVars, loopVars, sizeVars
<1>10. QED BY <1>3, <1>4, <1>5, <1>6, <1>7, <1>8, <1>9, MainExits, MainShrinks, MainStarts, Steps
-----------------------------------------------------------------------------
(* Stealing. *)
LEMMA StealStays ==
  ASSUME StealInv, UNCHANGED stolen, has_init_ => has_init_',
         \A i \in Ids : cache_queue_'[i] = cache_queue_[i] \/ cache_queue_'[i] = <<>>,
         \A t \in Primaries : pc'[t] = pc[t] /\ idx'[t] = idx[t]
  PROVE  StealInv'
<1>1. \A i \in Ids : Primary(i) \in Primaries BY ThreadFacts
<1>2. QED BY <1>1 DEF StealInv, CanSteal

(* What the thief i has to show of itself when it moves. *)
LEMMA StealMove ==
  ASSUME StealInv, NEW i \in Ids, Frame(Primary(i)), UNCHANGED has_init_,
         \A j \in Ids \ {i} :
           /\ stolen'[j] = stolen[j]
           /\ cache_queue_[j] = <<>> => cache_queue_'[j] = <<>>,
         pc'[Primary(i)] \in {"steal", "peek", "batch"} => cache_queue_'[i] = <<>>,
         pc'[Primary(i)] \notin {"steal", "peek"} => stolen'[i] = <<>>,
         Len(stolen'[i]) <= CacheSize \div 2,
         pc'[Primary(i)] \in {"steal", "peek"} => idx'[Primary(i)] \in Ids /\ has_init_,
         pc'[Primary(i)] = "peek" => CanSteal(i)'
  PROVE  StealInv'
<1>1. \A j \in Ids \ {i} : Primary(j) \in Threads \ {Primary(i)} BY ThreadFacts
<1>2. \A j \in Ids \ {i} : pc'[Primary(j)] = pc[Primary(j)] /\ idx'[Primary(j)] = idx[Primary(j)]
  BY <1>1 DEF Frame
<1>3. QED BY <1>2 DEF StealInv, CanSteal

LEMMA PrimarySteals ==
  ASSUME TypeOK, CallInv, StealInv, NEW i \in Ids, PrimaryStep(i)
  PROVE  StealInv'
<1> DEFINE t == Primary(i)
<1> USE DEF flagVars, lifeVars, poolVars, cacheVars, timerVars, sizeVars, loopVars,
            callVars, workVars, At, Goto
<1>1. t \in Threads /\ t \in Primaries /\ t \in Workers BY ThreadFacts
<1>2. Frame(t) /\ UNCHANGED has_init_ BY PrimaryFrame DEF SamePool
<1>3. /\ pc[t] \in {"steal", "peek", "batch"} => cache_queue_[i] = <<>>
      /\ pc[t] \notin {"steal", "peek"} => stolen[i] = <<>>
      /\ Len(stolen[i]) <= CacheSize \div 2
      /\ pc[t] \in {"steal", "peek"} => idx[t] \in Ids /\ has_init_
      /\ pc[t] = "peek" => CanSteal(i)
  BY DEF StealInv
<1>4. pc \in [Threads -> PcValues] /\ idx \in [Threads -> 0..PoolSize]
  BY DEF TypeOK
<1> HIDE DEF t
<1>5. ASSUME UNCHANGED <<stolen, cache_queue_>>, pc[t] \notin {"steal", "peek"},
             pc'[t] \notin {"steal", "peek", "batch"}
      PROVE  StealInv'
  BY <1>2, <1>3, <1>5, StealMove DEF t
<1>6. CASE PrimaryLoop(i) \/ PrimaryLock(i)
  <2>1. /\ UNCHANGED <<stolen, cache_queue_>> /\ pc[t] \in {"loop", "lock"}
        /\ pc'[t] \in {"exited", "lock", "fill"}
    BY <1>1, <1>4, <1>6 DEF PrimaryLoop, PrimaryLock, t
  <2>2. QED BY <1>5, <2>1
<1>7. CASE PrimaryPick(i)
  <2>1. /\ UNCHANGED stolen /\ pc[t] = "fill" /\ pc'[t] \in {"run", "loop"}
        /\ \A j \in Ids \ {i} : cache_queue_'[j] = cache_queue_[j]
    BY <1>1, <1>4, <1>7 DEF PrimaryPick, t, TypeOK
  <2>2. QED BY <1>2, <1>3, <2>1, StealMove DEF t
<1>8. CASE StealBegin(i)
  <2>1. /\ UNCHANGED <<stolen, cache_queue_>> /\ pc[t] = "fill" /\ cache_queue_[i] = <<>>
        /\ \/ pc'[t] = "batch"
           \/ pc'[t] = "steal" /\ has_init_ /\ idx'[t] = NextId(i)
    BY <1>1, <1>4, <1>8 DEF StealBegin, t
  <2>2. QED BY <1>2, <1>3, <2>1, ModuloFacts, StealMove DEF t
<1>9. CASE StealTryLock(i)
  <2>1. /\ UNCHANGED <<stolen, cache_queue_>> /\ pc[t] = "steal" /\ CanSteal(i)
        /\ \/ pc'[t] = "peek" /\ idx'[t] = idx[t]
           \/ pc'[t] = "steal" /\ idx'[t] = NextId(idx[t])
    BY <1>1, <1>4, <1>9 DEF StealTryLock, t
  <2>2. pc'[t] = "peek" => CanSteal(i)' BY <2>1 DEF CanSteal, t
  <2>3. QED BY <1>2, <1>3, <2>1, <2>2, ModuloFacts, StealMove DEF t
<1>10. CASE StealTake(i)
  <2> DEFINE j == idx[t] k == Least(1, Len(cache_queue_[j]))
  <2>1. pc[t] = "peek" /\ pc'[t] = "steal" /\ idx'[t] = NextId(j) /\ j \in Ids /\ j # i
    BY <1>1, <1>3, <1>4, <1>10 DEF StealTake, CanSteal, t
  <2>2. /\ stolen' = [stolen EXCEPT ![i] = @ \o SubSeq(cache_queue_[j], 1, k)]
        /\ cache_queue_' = [cache_queue_ EXCEPT ![j] = Without(@, k)]
    BY <1>10 DEF StealTake, t
  <2>3. cache_queue_[j] \in Seq(Works) /\ stolen[i] \in Seq(Works) BY <2>1 DEF TypeOK
  <2> HIDE DEF j
  <2>4. Len(cache_queue_[j]) \in Nat /\ Len(stolen[i]) \in Nat BY <2>3, WorkSeqs
  <2>5. k \in 0..Len(cache_queue_[j]) /\ k <= 1 /\ (Len(cache_queue_[j]) = 0 => k = 0)
    BY <2>4, AtMostOne
  <2> HIDE DEF k
  <2>6. stolen'[i] = stolen[i] \o SubSeq(cache_queue_[j], 1, k)
    BY <2>2 DEF TypeOK
  <2>7. Len(stolen'[i]) = Len(stolen[i]) + k
    <3>1. Len(stolen[i] \o SubSeq(cache_queue_[j], 1, k)) = Len(stolen[i]) + k
      BY <2>3, <2>5, Batches
    <3>2. QED BY <2>6, <3>1
  <2>8. Len(stolen'[i]) <= CacheSize \div 2
    <3>1. Len(stolen[i]) # CacheSize \div 2 /\ CacheSize \div 2 \in Int
      BY <1>3, <2>1, PoolAssumption DEF CanSteal
    <3>2. QED BY <1>3, <2>4, <2>5, <2>7, <3>1
  <2>9. cache_queue_'[i] = cache_queue_[i] /\ cache_queue_[i] = <<>>
    BY <1>3, <2>1, <2>2 DEF TypeOK
  <2>10. \A l \in Ids \ {i} : /\ stolen'[l] = stolen[l]
                              /\ cache_queue_[l] = <<>> => cache_queue_'[l] = <<>>
    <3>1. cache_queue_[j] = <<>> => Without(cache_queue_[j], k) = <<>>
      BY <2>5 DEF Without
    <3>2. QED BY <2>1, <2>2, <3>1 DEF TypeOK
  <2>11. QED BY <1>2, <1>3, <2>1, <2>8, <2>9, <2>10, ModuloFacts, StealMove DEF t
<1>11. CASE StealEnd(i)
  <2>1. /\ pc[t] = "steal" /\ pc'[t] = IF stolen[i] = <<>> THEN "batch" ELSE "splice"
        /\ stolen'[i] = <<>> /\ cache_queue_'[i] = stolen[i]
        /\ \A j \in Ids \ {i} : stolen'[j] = stolen[j] /\ cache_queue_'[j] = cache_queue_[j]
    BY <1>1, <1>4, <1>11 DEF StealEnd, t, TypeOK
  <2>2. Len(stolen'[i]) <= CacheSize \div 2 BY <2>1, PoolAssumption
  <2>3. QED BY <1>2, <1>3, <2>1, <2>2, StealMove DEF t
<1>12. CASE PopFrontBatch(i) \/ TryPopFrontBatch(i)
  <2>1. /\ UNCHANGED stolen /\ pc[t] \in {"batch", "splice"} /\ pc'[t] = "fill"
        /\ \A j \in Ids \ {i} : cache_queue_'[j] = cache_queue_[j]
    BY <1>1, <1>4, <1>12 DEF PopFrontBatch, TryPopFrontBatch, Refill, t, TypeOK
  <2>2. QED BY <1>2, <1>3, <2>1, StealMove DEF t
<1>13. CASE WorkStep(Primary(i))
  <2>1. /\ UNCHANGED <<stolen, cache_queue_>> /\ pc[t] \in {"run", "work"} \cup Pushing
        /\ pc'[t] \in {"loop", "work"} \cup Pushing
    BY <1>1, <1>13, WorkFrame DEF t
  <2>2. QED BY <1>5, <2>1 DEF Pushing
<1>14. QED BY <1>6, <1>7, <1>8, <1>9, <1>10, <1>11, <1>12, <1>13 DEF PrimaryStep

LEMMA NextSteal == IInv /\ [Next]_vars => StealInv'
<1> SUFFICES ASSUME IInv, [Next]_vars PROVE StealInv'
  OBVIOUS
<1> USE DEF IInv
<1>1. /\ {Main, Timer, Monitor} \subseteq Threads /\ Primaries \subseteq Threads
      /\ Secondaries \subseteq Threads /\ Primaries \cap Secondaries = {}
      /\ \A t \in {Main, Timer, Monitor} : t \notin Primaries
  BY ThreadFacts
<1>2. ASSUME NEW t \in Threads \ Primaries, Frame(t), UNCHANGED <<has_init_, stolen, cache_queue_>>
      PROVE  StealInv'
  <2>1. \A s \in Primaries : pc'[s] = pc[s] /\ idx'[s] = idx[s]
    BY <1>1, <1>2 DEF Frame
  <2>2. QED BY <1>2, <2>1, StealStays
<1>3. ASSUME NEW t \in Secondaries, SecondaryStep(t) PROVE StealInv'
  <2>1. Frame(t) /\ UNCHANGED <<has_init_, stolen, cache_queue_>>
    BY <1>3, SecondaryFrame DEF SamePool
  <2>2. QED BY <1>1, <1>2, <2>1
<1>4. CASE TimerStep
  <2>1. Frame(Timer) /\ UNCHANGED <<has_init_, stolen, cache_queue_>>
    BY <1>4, TimerFrame DEF SamePool
  <2>2. QED BY <1>1, <1>2, <2>1
<1>5. CASE Push(Main) \/ \E w \in Works : Commit(w)
  <2>1. Frame(Main) /\ UNCHANGED <<has_init_, stolen, cache_queue_>>
    BY <1>1, <1>5, PushFrame, CommitFrame DEF SamePool
  <2>2. QED BY <1>1, <1>2, <2>1
<1>6. CASE MonitorWake \/ MonitorScan
  <2>1. Frame(Monitor) /\ UNCHANGED <<has_init_, stolen, cache_queue_>>
    BY <1>6, MonitorFrame
  <2>2. QED BY <1>1, <1>2, <2>1
<1>7. CASE MainGoes
  <2>1. Frame(Main) /\ UNCHANGED stolen BY <1>7, MainFrame
  <2>2. \A s \in Primaries : pc'[s] = pc[s] /\ idx'[s] = idx[s]
    BY <1>1, <2>1 DEF Frame
  <2>3. /\ has_init_ => has_init_'
        /\ cache_queue_' = cache_queue_ \/ cache_queue_' = [i \in Ids |-> <<>>]
    BY <1>7 DEF MainGoes, SetInit, Exit, StopMonitor, JoinMonitor, StopTimer,
       StopTimerQueue, JoinTimer, StopPrimary, StopQueue, JoinPrimary, DeleteRunnables,
       DeleteQueues, StopThread, cacheVars, flagVars
  <2>4. QED BY <2>1, <2>2, <2>3, StealStays
<1>8. ASSUME NEW m \in {Main, Monitor}, ChangeMove(m), UNCHANGED <<has_init_, stolen, cache_queue_>>
      PROVE  StealInv'
  <2>1. \A s \in Primaries : pc'[s] = pc[s] /\ idx'[s] = idx[s]
    BY <1>1, <1>8 DEF ChangeMove
  <2>2. QED BY <1>8, <2>1, StealStays
<1>9. CASE ChangeStep(Main) \/ ChangeStep(Monitor)
  BY <1>8, <1>9, MainChanges, MonitorChanges
<1>10. CASE StartPrimary \/ StartOthers
  <2>1. /\ UNCHANGED <<has_init_, stolen, cache_queue_, idx>>
        /\ \/ created \in Ids /\ pc' = [pc EXCEPT ![Primary(created)] = "loop"]
           \/ pc' = pc
           \/ pc' = [pc EXCEPT ![Main] = "init", ![Timer] = "loop", ![Monitor] = "sleep"]
    BY <1>10, StartFrame
  <2>2. CASE \A s \in Primaries : pc'[s] = pc[s]
    BY <2>1, <2>2, StealStays
  <2>3. CASE created \in Ids /\ pc' = [pc EXCEPT ![Primary(created)] = "loop"]
    <3>1. \A i \in Ids : Primary(i) \in Threads BY ThreadFacts
    <3>2. pc[Primary(created)] = "unborn"
      <4>1. created >= created BY <2>3, IdFacts
      <4>2. QED BY <2>3, <4>1 DEF MainInv
    <3>3. \A i \in Ids : pc'[Primary(i)] = pc[Primary(i)]
               \/ (pc[Primary(i)] = "unborn" /\ pc'[Primary(i)] = "loop")
      BY <2>3, <3>1, <3>2 DEF TypeOK
    <3>4. QED BY <2>1, <3>3 DEF StealInv, CanSteal
  <2>4. QED BY <1>1, <2>1, <2>2, <2>3 DEF TypeOK
<1>11. CASE UNCHANGED vars
  BY <1>11, StealStays DEF vars, flagVars, loopVars, cacheVars
<1>12. QED BY <1>3, <1>4, <1>5, <1>6, <1>7, <1>9, <1>10, <1>11, PrimarySteals, Steps
-----------------------------------------------------------------------------
(* The places of works. *)
LEMMA AppendPlace ==
  ASSUME NEW s \in Seq(Works), NEW w \in Works
  PROVE  /\ Elements(Append(s, w)) = Elements(s) \cup {w}
         /\ Distinct(s) /\ w \notin Elements(s) => Distinct(Append(s, w))
<1>1. /\ Len(s) \in Nat /\ DOMAIN s = 1..Len(s)
      /\ Append(s, w) \in Seq(Works) /\ DOMAIN Append(s, w) = 1..(Len(s) + 1)
      /\ \A k \in 1..Len(s) : Append(s, w)[k] = s[k]
      /\ Append(s, w)[Len(s) + 1] = w
  OBVIOUS
<1> DEFINE a == Append(s, w) n == Len(s)
<1> HIDE DEF a, n
<1>2. \A k \in 1..(n + 1) : k \in 1..n \/ k = n + 1
  BY <1>1 DEF n
<1>3. 1..n \subseteq 1..(n + 1) /\ n + 1 \in 1..(n + 1) /\ n + 1 \notin 1..n
  BY <1>1 DEF n
<1>4. Elements(a) = Elements(s) \cup {w}
  BY <1>1, <1>2, <1>3 DEF Elements, a, n
<1>5. ASSUME Distinct(s), w \notin Elements(s) PROVE Distinct(a)
  BY <1>1, <1>2, <1>3, <1>5 DEF Distinct, Elements, a, n
<1>6. QED BY <1>4, <1>5 DEF a

LEMMA TailPlace ==
  ASSUME NEW s \in Seq(Works), s # <<>>, Distinct(s)
  PROVE  /\ Elements(Tail(s)) = Elements(s) \ {Head(s)} /\ Head(s) \in Elements(s)
         /\ Distinct(Tail(s))
<1>1. /\ Len(s) \in Nat /\ Len(s) > 0 /\ DOMAIN s = 1..Len(s) /\ Head(s) = s[1]
      /\ Len(Tail(s)) = Len(s) - 1 /\ DOMAIN Tail(s) = 1..(Len(s) - 1)
      /\ \A k \in 1..(Len(s) - 1) : Tail(s)[k] = s[k + 1]
  OBVIOUS
<1> DEFINE a == Tail(s) n == Len(s)
<1> HIDE DEF a, n
<1>2. /\ 1 \in 1..n /\ \A k \in 1..(n - 1) : k + 1 \in 1..n /\ k + 1 # 1
      /\ \A k \in 1..n : k = 1 \/ (k - 1 \in 1..(n - 1) /\ k = (k - 1) + 1)
      /\ \A k, l \in 1..(n - 1) : k + 1 = l + 1 => k = l
  BY <1>1 DEF n
<1>3. Distinct(a) BY <1>1, <1>2 DEF Distinct, a, n
<1>4. Elements(a) \subseteq Elements(s) \ {Head(s)}
  BY <1>1, <1>2 DEF Distinct, Elements, a, n
<1>5. ASSUME NEW k \in 1..n, s[k] # Head(s) PROVE s[k] \in Elements(a)
  <2>1. k - 1 \in 1..(n - 1) /\ k = (k - 1) + 1 BY <1>1, <1>2, <1>5
  <2>2. a[k - 1] = s[k] BY <1>1, <2>1 DEF a, n
  <2>3. QED BY <1>1, <2>1, <2>2 DEF Elements, a, n
<1>6. Elements(s) \ {Head(s)} \subseteq Elements(a)
  BY <1>1, <1>5 DEF Elements, n
<1>7. Head(s) \in Elements(s) BY <1>1, <1>2 DEF Elements, n
<1>8. QED BY <1>3, <1>4, <1>6, <1>7 DEF a

(* A batch taken from the front of r goes behind s. *)
LEMMA BatchPlace ==
  ASSUME NEW s \in Seq(Works), NEW r \in Seq(Works), NEW k \in 0..Len(r),
         Distinct(s), Distinct(r), Elements(s) \cap Elements(r) = {}
  PROVE  \E S \in SUBSET Elements(r) :
           /\ Elements(s \o SubSeq(r, 1, k)) = Elements(s) \cup S
           /\ Elements(Without(r, k)) = Elements(r) \ S
           /\ Distinct(s \o SubSeq(r, 1, k)) /\ Distinct(Without(r, k))
<1> DEFINE m == Len(s) n == Len(r) a == s \o SubSeq(r, 1, k) b == Without(r, k)
           S == {r[j] : j \in 1..k}
<1>1. /\ m \in Nat /\ n \in Nat /\ k \in Nat /\ k <= n
      /\ DOMAIN s = 1..m /\ DOMAIN r = 1..n
  OBVIOUS
<1>2. /\ DOMAIN a = 1..(m + k)
      /\ \A j \in 1..m : a[j] = s[j]
      /\ \A j \in 1..k : a[m + j] = r[j]
  <2>1. /\ SubSeq(r, 1, k) \in Seq(Works) /\ Len(SubSeq(r, 1, k)) = k
        /\ \A j \in 1..k : SubSeq(r, 1, k)[j] = r[j]
    BY <1>1
  <2>2. QED BY <1>1, <2>1
<1>3. DOMAIN b = 1..(n - k) /\ \A j \in 1..(n - k) : b[j] = r[k + j]
  BY <1>1 DEF Without
<1> HIDE DEF m, n, a, b
<1>4. /\ \A j \in 1..(m + k) : j \in 1..m \/ (j - m \in 1..k /\ j = m + (j - m))
      /\ \A j \in 1..k : m + j \in 1..(m + k) /\ j \in 1..n
      /\ \A j \in 1..m : j \in 1..(m + k)
      /\ \A j, l \in 1..k : m + j = m + l => j = l
  BY <1>1
<1>5. /\ \A j \in 1..(n - k) : k + j \in 1..n /\ k + j \notin 1..k
      /\ \A j \in 1..n : j \in 1..k \/ (j - k \in 1..(n - k) /\ j = k + (j - k))
      /\ \A j, l \in 1..(n - k) : k + j = k + l => j = l
  BY <1>1
<1>6. S \subseteq Elements(r) BY <1>1, <1>4 DEF Elements
<1>7. \A j \in 1..(m + k) : \/ j \in 1..m /\ a[j] = s[j]
                            \/ j - m \in 1..k /\ a[j] = r[j - m] /\ j = m + (j - m)
  BY <1>2, <1>4
<1>8. Elements(a) = Elements(s) \cup S
  <2>1. Elements(a) \subseteq Elements(s) \cup S BY <1>1, <1>2, <1>7 DEF Elements
  <2>2. Elements(s) \subseteq Elements(a) BY <1>1, <1>2, <1>4 DEF Elements
  <2>3. S \subseteq Elements(a) BY <1>1, <1>2, <1>4 DEF Elements
  <2>4. QED BY <2>1, <2>2, <2>3
<1>9. Elements(b) = Elements(r) \ S
  <2>1. Elements(b) \subseteq Elements(r) \ S
    <3>1. ASSUME NEW j \in 1..(n - k) PROVE b[j] \in Elements(r) \ S
      <4>1. k + j \in 1..n /\ k + j \notin 1..k /\ b[j] = r[k + j] BY <1>3, <1>5
      <4> DEFINE x == k + j
      <4> HIDE DEF x
      <4>2. x \in 1..n /\ x \notin 1..k /\ b[j] = r[x] BY <4>1 DEF x
      <4>3. \A l \in 1..k : l \in 1..n BY <1>4
      <4>4. \A l \in 1..k : r[x] # r[l] BY <1>1, <4>2, <4>3 DEF Distinct
      <4>5. QED BY <1>1, <4>2, <4>4 DEF Elements
    <3>2. QED BY <1>3, <3>1 DEF Elements
  <2>2. ASSUME NEW j \in 1..n, r[j] \notin S PROVE r[j] \in Elements(b)
    <3>1. j - k \in 1..(n - k) /\ j = k + (j - k) BY <1>5, <2>2
    <3>2. b[j - k] = r[j] BY <1>3, <3>1
    <3>3. QED BY <1>3, <3>1, <3>2 DEF Elements
  <2>3. Elements(r) \ S \subseteq Elements(b) BY <1>1, <2>2 DEF Elements
  <2>4. QED BY <2>1, <2>3
<1>10. Distinct(a)
  <2> SUFFICES ASSUME NEW j \in 1..(m + k), NEW l \in 1..(m + k), a[j] = a[l] PROVE j = l
    BY <1>2 DEF Distinct
  <2>1. \A x \in 1..m, y \in 1..k : s[x] # r[y]
    <3>1. \A y \in 1..k : y \in 1..n BY <1>4
    <3>2. \A x \in 1..m : s[x] \in Elements(s) BY <1>1 DEF Elements
    <3>3. \A y \in 1..n : r[y] \in Elements(r) BY <1>1 DEF Elements
    <3>4. QED BY <3>1, <3>2, <3>3
  <2>2. CASE j \in 1..m /\ l \in 1..m BY <1>1, <1>2, <2>2 DEF Distinct
  <2>3. CASE j \notin 1..m /\ l \notin 1..m
    <3>1. /\ j - m \in 1..k /\ l - m \in 1..k /\ r[j - m] = r[l - m]
          /\ j = m + (j - m) /\ l = m + (l - m)
      BY <1>7, <2>3
    <3>2. j - m = l - m BY <1>1, <1>4, <3>1 DEF Distinct
    <3>3. QED BY <3>1, <3>2
  <2>4. CASE j \in 1..m /\ l \notin 1..m
    <3>1. l - m \in 1..k /\ a[l] = r[l - m] /\ a[j] = s[j] BY <1>2, <1>7, <2>4
    <3>2. QED BY <2>1, <2>4, <3>1
  <2>5. CASE j \notin 1..m /\ l \in 1..m
    <3>1. j - m \in 1..k /\ a[j] = r[j - m] /\ a[l] = s[l] BY <1>2, <1>7, <2>5
    <3>2. QED BY <2>1, <2>5, <3>1
  <2>6. QED BY <2>2, <2>3, <2>4, <2>5
<1>11. Distinct(b)
  <2> SUFFICES ASSUME NEW j \in 1..(n - k), NEW l \in 1..(n - k), b[j] = b[l] PROVE j = l
    BY <1>3 DEF Distinct
  <2>1. k + j \in 1..n /\ k + l \in 1..n /\ r[k + j] = r[k + l] BY <1>3, <1>5
  <2>2. k + j = k + l BY <1>1, <2>1 DEF Distinct
  <2>3. QED BY <1>5, <2>2
<1>12. QED BY <1>6, <1>8, <1>9, <1>10, <1>11 DEF a, b

LEMMA Places7 ==
  /\ \A i \in Ids : /\ Contents(<<"queue", i>>) = Elements(work_pool[i])
                    /\ Contents(<<"cache", i>>) = Elements(cache_queue_[i])
                    /\ Contents(<<"stolen", i>>) = Elements(stolen[i])
                    /\ <<"queue", i>> \in Containers /\ <<"cache", i>> \in Containers
                    /\ <<"stolen", i>> \in Containers
  /\ Contents(<<"timer", 0>>) = Elements(timer_queue) /\ <<"timer", 0>> \in Containers
  /\ Contents(<<"held", 0>>) = priority_queue_ /\ <<"held", 0>> \in Containers
  /\ \A t \in Threads : /\ Contents(<<"work", t>>) = {work[t]} \ {Null}
                        /\ Contents(<<"arg", t>>) = {arg[t]} \ {Null}
                        /\ <<"work", t>> \in Containers /\ <<"arg", t>> \in Containers
BY DEF Contents, Containers

(* The containers outside S that an action leaves alone. *)
LEMMA Kept ==
  ASSUME NEW S,
         \A i \in Ids : <<"queue", i>> \in S \/ work_pool'[i] = work_pool[i],
         \A i \in Ids : <<"cache", i>> \in S \/ cache_queue_'[i] = cache_queue_[i],
         \A i \in Ids : <<"stolen", i>> \in S \/ stolen'[i] = stolen[i],
         <<"timer", 0>> \in S \/ timer_queue' = timer_queue,
         <<"held", 0>> \in S \/ priority_queue_' = priority_queue_,
         \A t \in Threads : <<"work", t>> \in S \/ work'[t] = work[t],
         \A t \in Threads : <<"arg", t>> \in S \/ arg'[t] = arg[t]
  PROVE  \A c \in Containers \ S : Contents(c)' = Contents(c)
BY DEF Containers, Contents

(* Works of container c go to container d. *)
LEMMA Shift ==
  ASSUME Disjoint, NEW c \in Containers, NEW d \in Containers, c # d, NEW S \in SUBSET Contents(c),
         \A e \in Containers \ {c, d} : Contents(e)' = Contents(e),
         Contents(c)' = Contents(c) \ S, Contents(d)' = Contents(d) \cup S
  PROVE  Disjoint' /\ \A w : Held(w)' <=> Held(w)
BY DEF Disjoint, Held, Containers

(* Works of container c are given up. *)
LEMMA GiveUp ==
  ASSUME Disjoint, NEW c \in Containers, NEW S \in SUBSET Contents(c),
         \A e \in Containers \ {c} : Contents(e)' = Contents(e),
         Contents(c)' = Contents(c) \ S
  PROVE  Disjoint' /\ \A w : Held(w)' <=> Held(w) /\ w \notin S
BY DEF Disjoint, Held, Containers

(* A work that nobody held comes into container d. *)
LEMMA Receive ==
  ASSUME Disjoint, NEW d \in Containers, NEW w, ~Held(w),
         \A e \in Containers \ {d} : Contents(e)' = Contents(e),
         Contents(d)' = Contents(d) \cup {w}
  PROVE  Disjoint' /\ \A v : Held(v)' <=> Held(v) \/ v = w
BY DEF Disjoint, Held, Containers

LEMMA NoneTwiceKept ==
  ASSUME NoneTwice,
         \A i \in Ids : work_pool'[i] = work_pool[i] \/ Distinct(work_pool'[i]),
         \A i \in Ids : cache_queue_'[i] = cache_queue_[i] \/ Distinct(cache_queue_'[i]),
         \A i \in Ids : stolen'[i] = stolen[i] \/ Distinct(stolen'[i]),
         timer_queue' = timer_queue \/ Distinct(timer_queue')
  PROVE  NoneTwice'
BY DEF NoneTwice, Distinct

(* The pool does not start over. *)
Onward == /\ has_stop_ => has_stop_'
          /\ pc'[Main] \in {"create", "init"} => pc[Main] \in {"create", "init"}

WorksInv == Disjoint /\ NoneTwice /\ LiveInv
workPlaces == <<work_pool, cache_queue_, stolen, timer_queue, priority_queue_, work, arg>>

LEMMA LiveMoved ==
  ASSUME LiveInv, Onward, UNCHANGED <<state, promise>>, \A w : Held(w)' <=> Held(w)
  PROVE  LiveInv'
<1>1. /\ \A w : (Held(w))' <=> Held(w)
      /\ (pc[Main])' = pc'[Main] /\ (has_stop_ => has_stop_')
  BY DEF Onward
<1> HIDE DEF Held
<1>2. QED BY <1>1 DEF LiveInv, Onward

LEMMA NobodyMoves ==
  ASSUME WorksInv, Onward, UNCHANGED workPlaces, UNCHANGED <<state, promise>>
  PROVE  WorksInv'
<1>1. \A c : Contents(c)' = Contents(c) BY DEF Contents, workPlaces
<1>2. Disjoint' /\ \A w : Held(w)' <=> Held(w) BY <1>1 DEF WorksInv, Disjoint, Held, Containers
<1>3. NoneTwice' BY DEF WorksInv, NoneTwice, Distinct, workPlaces
<1>4. QED BY <1>2, <1>3, LiveMoved DEF WorksInv

(* The works S, which were held, are deleted. *)
LEMMA LiveDeleted ==
  ASSUME LiveInv, Onward, NEW S, Delete(S), \A w \in S : Held(w),
         \A w : Held(w)' <=> Held(w) /\ w \notin S,
         \A w \in Works : promise'[w] => promise[w] \/ w \in S
  PROVE  LiveInv'
<1>1. \A w \in Works : state'[w] = IF w \in S THEN "deleted" ELSE state[w] BY DEF Delete
<1>2. \A w : (Held(w))' <=> Held(w) /\ w \notin S OBVIOUS
<1>3. \A w \in Works : pc[Main] \in {"create", "init"} => w \notin S BY DEF LiveInv
<1> HIDE DEF Held
<1>4. QED BY <1>1, <1>2, <1>3 DEF LiveInv, Onward

(* The works S are lost with what held them, which only Exit does. *)
LEMMA LiveLost ==
  ASSUME LiveInv, Onward, has_stop_, UNCHANGED <<state, promise>>, \A w : Held(w)' => Held(w)
  PROVE  LiveInv'
<1>1. has_stop_' /\ \A w : (Held(w))' => Held(w) BY DEF Onward
<1> HIDE DEF Held
<1>2. QED BY <1>1 DEF LiveInv, Onward

(* A fresh work comes to the pool. *)
LEMMA LiveCommitted ==
  ASSUME LiveInv, Onward, TypeOK, NEW w \in Works, state[w] = "fresh",
         state' = [state EXCEPT ![w] = "live"], UNCHANGED promise,
         \A v : Held(v)' <=> Held(v) \/ v = w, pc[Main] \notin {"create", "init"}
  PROVE  LiveInv'
<1>1. /\ state'[w] = "live" /\ \A v \in Works \ {w} : state'[v] = state[v]
  BY DEF TypeOK
<1>2. \A v : (Held(v))' <=> Held(v) \/ v = w OBVIOUS
<1> HIDE DEF Held
<1>3. QED BY <1>1, <1>2 DEF LiveInv, Onward

(* What a call holds. *)
LEMMA CallHolds ==
  ASSUME TypeOK, CallInv, NEW t \in Threads
  PROVE  /\ pc[t] \in Pushing => arg[t] \in Works /\ Contents(<<"arg", t>>) = {arg[t]}
         /\ pc[t] \notin Pushing => Contents(<<"arg", t>>) = {}
         /\ t \in Workers /\ pc[t] \in {"run", "work"} =>
              work[t] \in Works /\ Contents(<<"work", t>>) = {work[t]}
         /\ pc[t] \notin {"run", "work"} \cup Pushing => Contents(<<"work", t>>) = {}
<1>1. CallAt(t) BY DEF CallInv
<1>2. arg[t] \in Works \cup {Null} /\ work[t] \in Works \cup {Null} BY DEF TypeOK
<1>3. QED BY <1>1, <1>2, Places7, WorksAssumption DEF CallAt, Employed

(* PushBack and PushTimerBack move the argument, or give it up.            *)
LEMMA PushMoves ==
  ASSUME IInv, Onward, NEW t \in Threads, Push(t)
  PROVE  WorksInv'
<1> USE DEF flagVars, lifeVars, poolVars, cacheVars, timerVars, sizeVars, loopVars,
            callVars, workVars, At, Goto
<1> DEFINE c == <<"arg", t>> w == arg[t]
<1>1. /\ TypeOK /\ CallInv /\ MainInv /\ Disjoint /\ NoneTwice /\ LiveInv /\ WorksInv
  BY DEF IInv, WorksInv
<1>2. arg \in [Threads -> Works \cup {Null}] BY <1>1 DEF TypeOK
<1>3. c \in Containers BY Places7
<1>4. ASSUME pc[t] \in Pushing, EndPush(t)
      PROVE  /\ w \in Works /\ Contents(c) = {w} /\ Contents(c)' = {} /\ Held(w)
             /\ \A s \in Threads \ {t} : arg'[s] = arg[s]
  <2>1. w \in Works /\ Contents(c) = {w} BY <1>1, <1>4, CallHolds
  <2>2. arg'[t] = Null /\ \A s \in Threads \ {t} : arg'[s] = arg[s]
    BY <1>2, <1>4 DEF EndPush
  <2>3. Contents(c)' = {} BY <2>2 DEF Contents
  <2>4. QED BY <1>3, <2>1, <2>2, <2>3 DEF Held
<1>5. CASE PushIndex(t) \/ TimerPushCheck(t)
  BY <1>1, <1>5, NobodyMoves DEF PushIndex, TimerPushCheck, workPlaces
<1>6. ASSUME pc[t] \in Pushing, EndPush(t), UNCHANGED <<work_pool, cache_queue_, stolen, timer_queue,
             priority_queue_, work>>
      PROVE  Disjoint' /\ NoneTwice' /\ \A v : Held(v)' <=> Held(v) /\ v \notin {w}
  <2>1. \A e \in Containers \ {c} : Contents(e)' = Contents(e)
    BY <1>4, <1>6, Kept
  <2>2. NoneTwice' BY <1>1, <1>6 DEF NoneTwice, Distinct
  <2>3. QED BY <1>1, <1>3, <1>4, <1>6, <2>1, <2>2, GiveUp
<1>7. CASE PushStopped(t)
  <2>1. pc[t] \in Pushing /\ EndPush(t) /\ Delete({w})
        /\ UNCHANGED <<work_pool, cache_queue_, stolen, timer_queue, priority_queue_, work, promise>>
    BY <1>7 DEF PushStopped, Pushing
  <2>2. LiveInv' BY <1>1, <1>4, <1>6, <2>1, LiveDeleted
  <2>3. QED BY <1>6, <2>1, <2>2 DEF WorksInv
<1>8. ASSUME pc[t] \in Pushing, EndPush(t), has_stop_,
             UNCHANGED <<work_pool, cache_queue_, stolen, timer_queue, priority_queue_, work,
                         state, promise>>
      PROVE  WorksInv'
  BY <1>1, <1>6, <1>8, LiveLost DEF WorksInv
<1>9. ASSUME NEW d \in Containers, c # d, Contents(d)' = Contents(d) \cup {w},
             \A e \in Containers \ {c, d} : Contents(e)' = Contents(e),
             pc[t] \in Pushing, EndPush(t), UNCHANGED <<state, promise>>
      PROVE  Disjoint' /\ LiveInv'
  <2>1. /\ Contents(c)' = Contents(c) \ {w} /\ {w} \in SUBSET Contents(c) BY <1>4, <1>9
  <2>2. Disjoint' /\ \A v : Held(v)' <=> Held(v)
    BY <1>1, <1>3, <1>9, <2>1, Shift
  <2>3. QED BY <1>1, <1>9, <2>2, LiveMoved
<1>10. CASE PushLink(t)
  <2>0. PICK i \in Ids : i = target[t]
    BY <1>1, <1>10 DEF PushLink, CallInv, CallAt
  <2> DEFINE d == <<"queue", i>>
  <2>1. /\ pc[t] = "link" /\ EndPush(t)
        /\ UNCHANGED <<cache_queue_, stolen, timer_queue, priority_queue_, work, state, promise>>
        /\ \/ work_pool' = [work_pool EXCEPT ![i] = Append(@, w)]
           \/ queue_stop[i] /\ UNCHANGED work_pool
    BY <1>10, <2>0 DEF PushLink
  <2>2. pc[t] \in Pushing BY <2>1 DEF Pushing
  <2>3. CASE queue_stop[i] /\ UNCHANGED work_pool
    <3>1. has_stop_ BY <1>1, <2>1, <2>3 DEF MainInv
    <3>2. QED BY <1>8, <2>1, <2>2, <2>3, <3>1
  <2>4. CASE work_pool' = [work_pool EXCEPT ![i] = Append(@, w)]
    <3>1. work_pool[i] \in Seq(Works) /\ work_pool'[i] = Append(work_pool[i], w)
          /\ \A j \in Ids \ {i} : work_pool'[j] = work_pool[j]
      BY <1>1, <2>1, <2>4 DEF TypeOK
    <3>2. /\ d \in Containers /\ c # d /\ Contents(d) = Elements(work_pool[i])
          /\ Contents(d)' = Elements(work_pool'[i])
      BY <2>1, Places7 DEF Contents
    <3>3. w \notin Elements(work_pool[i]) /\ Distinct(work_pool[i])
      BY <1>1, <1>3, <1>4, <2>1, <2>2, <3>2 DEF Disjoint, NoneTwice
    <3>4. Contents(d)' = Contents(d) \cup {w} /\ Distinct(work_pool'[i])
      BY <1>4, <2>1, <2>2, <3>1, <3>2, <3>3, AppendPlace
    <3>5. \A e \in Containers \ {c, d} : Contents(e)' = Contents(e)
      BY <1>4, <2>1, <2>2, <3>1, Kept
    <3>6. Disjoint' /\ LiveInv' BY <1>9, <2>1, <2>2, <3>2, <3>4, <3>5
    <3>7. NoneTwice' BY <1>1, <2>1, <3>1, <3>4, NoneTwiceKept
    <3>8. QED BY <3>6, <3>7 DEF WorksInv
  <2>5. QED BY <2>1, <2>3, <2>4
<1>11. ASSUME TimerPushLink(t), EndPush(t) PROVE WorksInv'
  <2> DEFINE d == <<"timer", 0>>
  <2>1. /\ pc[t] \in Pushing /\ EndPush(t)
        /\ UNCHANGED <<work_pool, cache_queue_, stolen, priority_queue_, work, state, promise>>
        /\ \/ timer_queue' = Append(timer_queue, w)
           \/ (timer_queue_stop \/ TimerDeleted) /\ UNCHANGED timer_queue
    BY <1>11 DEF TimerPushLink, Pushing
  <2>2. CASE (timer_queue_stop \/ TimerDeleted) /\ UNCHANGED timer_queue
    <3>1. has_stop_
      BY <1>1, <2>2 DEF MainInv, TimerDeleted, AfterExit, AfterSizes, LoopEndAt, LastAt
    <3>2. QED BY <1>8, <2>1, <2>2, <3>1
  <2>3. CASE timer_queue' = Append(timer_queue, w)
    <3>1. timer_queue \in Seq(Works) BY <1>1 DEF TypeOK
    <3>2. /\ d \in Containers /\ c # d /\ Contents(d) = Elements(timer_queue)
          /\ Contents(d)' = Elements(timer_queue')
      BY Places7 DEF Contents
    <3>3. w \notin Elements(timer_queue) /\ Distinct(timer_queue)
      BY <1>1, <1>3, <1>4, <2>1, <3>2 DEF Disjoint, NoneTwice
    <3>4. Contents(d)' = Contents(d) \cup {w} /\ Distinct(timer_queue')
      BY <1>4, <2>1, <2>3, <3>1, <3>2, <3>3, AppendPlace
    <3>5. \A e \in Containers \ {c, d} : Contents(e)' = Contents(e)
      <4>1. \A s \in Threads : c = <<"arg", s>> \/ arg'[s] = arg[s] BY <1>4, <2>1
      <4>2. QED BY <2>1, <4>1, Kept
    <3>6. Disjoint' /\ LiveInv' BY <1>9, <2>1, <3>2, <3>4, <3>5
    <3>7. NoneTwice' BY <1>1, <2>1, <3>4, NoneTwiceKept
    <3>8. QED BY <3>6, <3>7 DEF WorksInv
  <2>4. QED BY <2>1, <2>2, <2>3
<1>12. CASE TimerPushLink(t) /\ UNCHANGED <<timer_queue, arg>>
  BY <1>1, <1>12, NobodyMoves DEF TimerPushLink, workPlaces
<1>13. QED BY <1>5, <1>7, <1>10, <1>11, <1>12 DEF Push, TimerPushLink

LEMMA WorksShift ==
  ASSUME WorksInv, Onward, NEW c \in Containers, NEW d \in Containers, c # d,
         NEW S \in SUBSET Contents(c),
         \A e \in Containers \ {c, d} : Contents(e)' = Contents(e),
         Contents(c)' = Contents(c) \ S, Contents(d)' = Contents(d) \cup S,
         UNCHANGED <<state, promise>>, NoneTwice'
  PROVE  WorksInv'
<1>1. Disjoint' /\ \A v : Held(v)' <=> Held(v) BY Shift DEF WorksInv
<1>2. QED BY <1>1, LiveMoved DEF WorksInv

(* Work() and what surrounds it.                                           *)
LEMMA RunMoves ==
  ASSUME IInv, Onward, NEW t \in Workers, RunBegin(t) \/ RunCommit(t) \/ RunEnd(t)
  PROVE  WorksInv'
<1> USE DEF flagVars, lifeVars, poolVars, cacheVars, timerVars, sizeVars, loopVars,
            callVars, workVars, At, Goto
<1>1. /\ TypeOK /\ CallInv /\ MainInv /\ Disjoint /\ NoneTwice /\ LiveInv /\ WorksInv
      /\ t \in Threads
  BY ThreadFacts DEF IInv, WorksInv
<1>2. arg \in [Threads -> Works \cup {Null}] /\ work \in [Threads -> Works \cup {Null}]
  BY <1>1 DEF TypeOK
<1> DEFINE b == <<"work", t>> c == <<"arg", t>> w == work[t]
<1>3. b \in Containers /\ c \in Containers /\ b # c BY <1>1, Places7
<1>4. /\ pc[t] \in {"run", "work"} /\ w \in Works /\ Contents(b) = {w} /\ Contents(c) = {}
      /\ Held(w) /\ state[w] = "live" /\ pc[Main] \notin {"create", "init"}
  <2>1. pc[t] \in {"run", "work"} BY RunFrame, <1>1
  <2>2. w \in Works /\ Contents(b) = {w} /\ Contents(c) = {}
    BY <1>1, <2>1, CallHolds DEF Pushing
  <2>3. Held(w) BY <1>3, <2>2 DEF Held
  <2>4. state[w] = "live" /\ pc[Main] \notin {"create", "init"}
    BY <1>1, <2>2, <2>3 DEF LiveInv
  <2>5. QED BY <2>1, <2>2, <2>3, <2>4
<1>5. CASE RunBegin(t)
  <2>1. UNCHANGED <<work_pool, cache_queue_, stolen, timer_queue, priority_queue_, arg, promise>>
    BY <1>5 DEF RunBegin
  <2>2. CASE UNCHANGED <<state, work>>
    BY <1>1, <2>1, <2>2, NobodyMoves DEF workPlaces
  <2>3. CASE Delete({w}) /\ work' = [work EXCEPT ![t] = Null]
    <3>1. work'[t] = Null /\ \A s \in Threads \ {t} : work'[s] = work[s]
      BY <1>1, <1>2, <2>3
    <3>2. Contents(b)' = Contents(b) \ {w} BY <1>4, <3>1 DEF Contents
    <3>3. \A e \in Containers \ {b} : Contents(e)' = Contents(e) BY <2>1, <3>1, Kept
    <3>4. Disjoint' /\ \A v : Held(v)' <=> Held(v) /\ v \notin {w}
      BY <1>1, <1>3, <1>4, <3>2, <3>3, GiveUp
    <3>5. LiveInv' BY <1>1, <1>4, <2>1, <2>3, <3>4, LiveDeleted
    <3>6. NoneTwice' BY <1>1, <2>1, NoneTwiceKept
    <3>7. QED BY <3>4, <3>5, <3>6 DEF WorksInv
  <2>4. QED BY <1>5, <2>2, <2>3 DEF RunBegin
<1>6. CASE RunCommit(t)
  <2>0. PICK v \in Works : v = Child[w]
    BY <1>4, <1>6, WorksAssumption DEF RunCommit
  <2>1. /\ UNCHANGED <<work_pool, cache_queue_, stolen, timer_queue, priority_queue_, work, promise>>
        /\ state[v] = "fresh" /\ state' = [state EXCEPT ![v] = "live"]
        /\ arg' = [arg EXCEPT ![t] = v]
    BY <1>6, <2>0 DEF RunCommit, StartPush
  <2>2. arg'[t] = v /\ \A s \in Threads \ {t} : arg'[s] = arg[s]
    BY <1>1, <1>2, <2>1
  <2>3. Contents(c)' = Contents(c) \cup {v}
    BY <1>4, <2>0, <2>2, WorksAssumption DEF Contents
  <2>4. \A e \in Containers \ {c} : Contents(e)' = Contents(e) BY <2>1, <2>2, Kept
  <2>5. ~Held(v) BY <1>1, <2>0, <2>1 DEF LiveInv
  <2>6. Disjoint' /\ \A u : Held(u)' <=> Held(u) \/ u = v
    BY <1>1, <1>3, <2>3, <2>4, <2>5, Receive
  <2>7. LiveInv' BY <1>1, <1>4, <2>0, <2>1, <2>6, LiveCommitted
  <2>8. NoneTwice' BY <1>1, <2>1, NoneTwiceKept
  <2>9. QED BY <2>6, <2>7, <2>8 DEF WorksInv
<1>7. CASE RunEnd(t)
  <2>1. /\ UNCHANGED <<work_pool, cache_queue_, stolen, timer_queue, priority_queue_>>
        /\ promise' = [promise EXCEPT ![w] = @ \/ times_[w] = 1]
        /\ times_' = [times_ EXCEPT ![w] = IF @ > 0 THEN @ - 1 ELSE @]
        /\ work' = [work EXCEPT ![t] = Null]
    BY <1>7 DEF RunEnd
  <2>2. work'[t] = Null /\ \A s \in Threads \ {t} : work'[s] = work[s]
    BY <1>1, <1>2, <2>1
  <2>3. Contents(b)' = {} BY <2>2 DEF Contents
  <2>4. NoneTwice' BY <1>1, <2>1, NoneTwiceKept
  <2>5. CASE Delete({w}) /\ UNCHANGED <<arg, back>>
    <3>1. \A e \in Containers \ {b} : Contents(e)' = Contents(e) BY <2>1, <2>2, <2>5, Kept
    <3>2. Disjoint' /\ \A v : Held(v)' <=> Held(v) /\ v \notin {w}
      <4>1. {w} \in SUBSET Contents(b) /\ Contents(b)' = Contents(b) \ {w} BY <1>4, <2>3
      <4>2. QED BY <1>1, <1>3, <3>1, <4>1, GiveUp
    <3>3. \A v \in Works : promise'[v] => promise[v] \/ v \in {w}
      BY <1>1, <2>1 DEF TypeOK
    <3>4. LiveInv' BY <1>1, <1>4, <2>5, <3>2, <3>3, LiveDeleted
    <3>5. QED BY <2>4, <3>2, <3>4 DEF WorksInv
  <2>6. CASE times_'[w] # 0 /\ StartPush(t, w, "loop") /\ UNCHANGED state
    <3>1. arg'[t] = w /\ \A s \in Threads \ {t} : arg'[s] = arg[s]
      BY <1>1, <1>2, <2>6 DEF StartPush
    <3>2. Contents(c)' = {w}
      BY <1>4, <3>1, WorksAssumption DEF Contents
    <3>3. \A e \in Containers \ {b, c} : Contents(e)' = Contents(e)
      BY <2>1, <2>2, <3>1, Kept
    <3>4. UNCHANGED promise
      <4>1. times_ \in [Works -> Int] /\ promise \in [Works -> BOOLEAN] BY <1>1 DEF TypeOK
      <4>2. times_[w] # 1 BY <1>4, <2>1, <2>6, <4>1
      <4>3. promise' = [promise EXCEPT ![w] = @] BY <1>4, <2>1, <4>1, <4>2
      <4>4. QED BY <4>1, <4>3
    <3>5. /\ Contents(b)' = Contents(b) \ {w} /\ Contents(c)' = Contents(c) \cup {w}
          /\ {w} \in SUBSET Contents(b)
      BY <1>4, <2>3, <3>2
    <3>6. QED BY <1>1, <1>3, <2>4, <2>6, <3>3, <3>4, <3>5, WorksShift
  <2>7. QED BY <1>7, <2>5, <2>6 DEF RunEnd
<1>8. QED BY <1>5, <1>6, <1>7

LEMMA WorkStepMoves ==
  ASSUME IInv, Onward, NEW t \in Workers, WorkStep(t)
  PROVE  WorksInv'
BY ThreadFacts, PushMoves, RunMoves DEF WorkStep

(* A batch goes from queue i to the cache of i. *)
LEMMA RefillMoves ==
  ASSUME TypeOK, WorksInv, Onward, NEW i \in Ids, NEW k \in 0..Len(work_pool[i]), Refill(i, k),
         UNCHANGED <<stolen, timer_queue, priority_queue_, work, arg, state, promise>>
  PROVE  WorksInv'
<1> DEFINE c == <<"queue", i>> d == <<"cache", i>>
<1>1. work_pool[i] \in Seq(Works) /\ cache_queue_[i] \in Seq(Works) BY DEF TypeOK
<1>2. /\ c \in Containers /\ d \in Containers /\ c # d
      /\ Contents(c) = Elements(work_pool[i]) /\ Contents(d) = Elements(cache_queue_[i])
  BY Places7
<1>3. /\ cache_queue_'[i] = cache_queue_[i] \o SubSeq(work_pool[i], 1, k)
      /\ work_pool'[i] = Without(work_pool[i], k)
      /\ \A j \in Ids \ {i} : work_pool'[j] = work_pool[j] /\ cache_queue_'[j] = cache_queue_[j]
  BY DEF Refill, TypeOK
<1>4. Distinct(work_pool[i]) /\ Distinct(cache_queue_[i])
  BY DEF WorksInv, NoneTwice
<1>5. Elements(cache_queue_[i]) \cap Elements(work_pool[i]) = {}
  BY <1>2 DEF WorksInv, Disjoint
<1>6. PICK S \in SUBSET Elements(work_pool[i]) :
         /\ Elements(cache_queue_'[i]) = Elements(cache_queue_[i]) \cup S
         /\ Elements(work_pool'[i]) = Elements(work_pool[i]) \ S
         /\ Distinct(cache_queue_'[i]) /\ Distinct(work_pool'[i])
  <2>1. \E S \in SUBSET Elements(work_pool[i]) :
         LET q == cache_queue_[i] \o SubSeq(work_pool[i], 1, k) r == Without(work_pool[i], k)
         IN  /\ Elements(q) = Elements(cache_queue_[i]) \cup S
             /\ Elements(r) = Elements(work_pool[i]) \ S
             /\ Distinct(q) /\ Distinct(r)
    BY <1>1, <1>4, <1>5, BatchPlace
  <2>2. QED BY <1>3, <2>1
<1>7. Contents(c)' = Contents(c) \ S /\ Contents(d)' = Contents(d) \cup S
  BY <1>2, <1>6 DEF Contents
<1>8. \A e \in Containers \ {c, d} : Contents(e)' = Contents(e) BY <1>3, Kept
<1>9. NoneTwice' BY <1>3, <1>6, NoneTwiceKept DEF WorksInv
<1>10. QED BY <1>2, <1>6, <1>7, <1>8, <1>9, WorksShift

(* The first work of sequence s, at container c, goes to thread t.         *)
LEMMA HeadMoves ==
  ASSUME TypeOK, WorksInv, Onward, NEW t \in Threads, Contents(<<"work", t>>) = {},
         NEW c \in Containers, c # <<"work", t>>, NEW s \in Seq(Works), s # <<>>, Contents(c) = Elements(s), Distinct(s),
         Contents(c)' = Elements(Tail(s)), work' = [work EXCEPT ![t] = Head(s)],
         \A e \in Containers \ {c, <<"work", t>>} : Contents(e)' = Contents(e),
         UNCHANGED <<state, promise>>, NoneTwice'
  PROVE  WorksInv'
<1> DEFINE d == <<"work", t>>
<1>1. d \in Containers BY Places7
<1>2. Elements(Tail(s)) = Elements(s) \ {Head(s)} /\ Head(s) \in Elements(s)
  BY TailPlace
<1>3. Head(s) \in Works BY WorkSeqs
<1>4. Contents(d)' = Contents(d) \cup {Head(s)}
  <2>1. work'[t] = Head(s) BY DEF TypeOK
  <2>2. QED BY <1>3, <2>1, WorksAssumption DEF Contents
<1>5. {Head(s)} \in SUBSET Contents(c) /\ Contents(c)' = Contents(c) \ {Head(s)} BY <1>2
<1>6. QED BY <1>1, <1>4, <1>5, WorksShift

LEMMA PrimaryMoves ==
  ASSUME IInv, Onward, NEW i \in Ids, PrimaryStep(i)
  PROVE  WorksInv'
<1> USE DEF flagVars, lifeVars, poolVars, cacheVars, timerVars, sizeVars, loopVars,
            callVars, workVars, At, Goto
<1> DEFINE t == Primary(i)
<1>1. /\ TypeOK /\ CallInv /\ StealInv /\ Disjoint /\ NoneTwice /\ LiveInv /\ WorksInv
      /\ t \in Threads /\ t \in Workers
  BY ThreadFacts DEF IInv, WorksInv
<1> HIDE DEF t
<1>2. /\ work_pool \in [Ids -> Seq(Works)] /\ cache_queue_ \in [Ids -> Seq(Works)]
      /\ stolen \in [Ids -> Seq(Works)]
  BY <1>1 DEF TypeOK
<1>3. CASE PrimaryLoop(i) \/ PrimaryLock(i) \/ StealBegin(i) \/ StealTryLock(i)
  BY <1>1, <1>3, NobodyMoves
  DEF PrimaryLoop, PrimaryLock, StealBegin, StealTryLock, workPlaces
<1>4. CASE PrimaryPick(i)
  <2>1. /\ UNCHANGED <<work_pool, stolen, timer_queue, priority_queue_, arg, state, promise>>
        /\ pc[t] = "fill"
        /\ \/ /\ cache_queue_[i] # <<>>
              /\ work' = [work EXCEPT ![t] = Head(cache_queue_[i])]
              /\ cache_queue_' = [cache_queue_ EXCEPT ![i] = Tail(@)]
           \/ UNCHANGED <<work, cache_queue_>>
    BY <1>4 DEF PrimaryPick, t
  <2>2. CASE UNCHANGED <<work, cache_queue_>>
    BY <1>1, <2>1, <2>2, NobodyMoves DEF workPlaces
  <2>3. CASE /\ cache_queue_[i] # <<>>
             /\ work' = [work EXCEPT ![t] = Head(cache_queue_[i])]
             /\ cache_queue_' = [cache_queue_ EXCEPT ![i] = Tail(@)]
    <3> DEFINE c == <<"cache", i>> s == cache_queue_[i]
    <3>1. /\ s \in Seq(Works) /\ cache_queue_'[i] = Tail(s)
          /\ \A j \in Ids \ {i} : cache_queue_'[j] = cache_queue_[j]
          /\ \A u \in Threads \ {t} : work'[u] = work[u]
      BY <1>1, <1>2, <2>3 DEF TypeOK
    <3>2. c \in Containers /\ c # <<"work", t>> /\ Contents(c) = Elements(s) /\ Distinct(s)
      BY <1>1, Places7 DEF NoneTwice
    <3>3. Contents(c)' = Elements(Tail(s)) BY <3>1 DEF Contents
    <3>4. Distinct(Tail(s)) BY <2>3, <3>1, <3>2, TailPlace
    <3>5. \A e \in Containers \ {c, <<"work", t>>} : Contents(e)' = Contents(e)
      BY <2>1, <3>1, Kept
    <3>6. NoneTwice' BY <1>1, <2>1, <3>1, <3>4, NoneTwiceKept
    <3>7. Contents(<<"work", t>>) = {} BY <1>1, <2>1, CallHolds DEF Pushing
    <3> HIDE DEF s, c
    <3>8. work' = [work EXCEPT ![t] = Head(s)] /\ s # <<>> BY <2>3 DEF s
    <3>9. QED BY <1>1, <2>1, <3>1, <3>2, <3>3, <3>5, <3>6, <3>7, <3>8, HeadMoves
  <2>4. QED BY <2>1, <2>2, <2>3
<1>5. CASE StealTake(i)
  <2>0. PICK j \in Ids : j = idx[t] /\ j # i
    BY <1>1, <1>5 DEF StealInv, CanSteal, StealTake, t
  <2> DEFINE k == Least(1, Len(cache_queue_[j]))
             c == <<"cache", j>> d == <<"stolen", i>>
  <2>1. /\ stolen' = [stolen EXCEPT ![i] = @ \o SubSeq(cache_queue_[j], 1, k)]
        /\ cache_queue_' = [cache_queue_ EXCEPT ![j] = Without(@, k)]
        /\ UNCHANGED <<work_pool, timer_queue, priority_queue_, work, arg, state, promise>>
    BY <1>5, <2>0 DEF StealTake, t
  <2>2. cache_queue_[j] \in Seq(Works) /\ stolen[i] \in Seq(Works) BY <1>2
  <2>3. k \in 0..Len(cache_queue_[j])
    <3>1. Len(cache_queue_[j]) \in Nat BY <2>2, WorkSeqs
    <3>2. QED BY <3>1, AtMostOne
  <2> HIDE DEF k
  <2>4. /\ c \in Containers /\ d \in Containers /\ c # d
        /\ Contents(c) = Elements(cache_queue_[j]) /\ Contents(d) = Elements(stolen[i])
    BY Places7
  <2>5. Distinct(stolen[i]) /\ Distinct(cache_queue_[j]) BY <1>1 DEF NoneTwice
  <2>6. Elements(stolen[i]) \cap Elements(cache_queue_[j]) = {}
    BY <1>1, <2>4 DEF Disjoint
  <2>7. /\ stolen'[i] = stolen[i] \o SubSeq(cache_queue_[j], 1, k)
        /\ cache_queue_'[j] = Without(cache_queue_[j], k)
        /\ \A l \in Ids \ {i} : stolen'[l] = stolen[l]
        /\ \A l \in Ids \ {j} : cache_queue_'[l] = cache_queue_[l]
    BY <1>2, <2>1
  <2>8. PICK S \in SUBSET Elements(cache_queue_[j]) :
          /\ Elements(stolen'[i]) = Elements(stolen[i]) \cup S
          /\ Elements(cache_queue_'[j]) = Elements(cache_queue_[j]) \ S
          /\ Distinct(stolen'[i]) /\ Distinct(cache_queue_'[j])
    <3>1. \E S \in SUBSET Elements(cache_queue_[j]) :
           LET q == stolen[i] \o SubSeq(cache_queue_[j], 1, k) r == Without(cache_queue_[j], k)
           IN  /\ Elements(q) = Elements(stolen[i]) \cup S
               /\ Elements(r) = Elements(cache_queue_[j]) \ S
               /\ Distinct(q) /\ Distinct(r)
      BY <2>2, <2>3, <2>5, <2>6, BatchPlace
    <3>2. QED BY <2>7, <3>1
  <2>9. Contents(c)' = Contents(c) \ S /\ Contents(d)' = Contents(d) \cup S
    BY <2>4, <2>8 DEF Contents
  <2>10. \A e \in Containers \ {c, d} : Contents(e)' = Contents(e) BY <2>1, <2>7, Kept
  <2>11. NoneTwice' BY <1>1, <2>1, <2>7, <2>8, NoneTwiceKept
  <2>12. QED BY <1>1, <2>1, <2>4, <2>8, <2>9, <2>10, <2>11, WorksShift
<1>6. CASE StealEnd(i)
  <2> DEFINE c == <<"stolen", i>> d == <<"cache", i>>
  <2>1. /\ UNCHANGED <<work_pool, timer_queue, priority_queue_, work, arg, state, promise>>
        /\ stolen' = [stolen EXCEPT ![i] = <<>>]
        /\ cache_queue_' = [cache_queue_ EXCEPT ![i] = stolen[i]]
        /\ cache_queue_[i] = <<>>
    BY <1>1, <1>6 DEF StealEnd, StealInv, t
  <2>2. /\ stolen'[i] = <<>> /\ cache_queue_'[i] = stolen[i]
        /\ \A l \in Ids \ {i} : stolen'[l] = stolen[l] /\ cache_queue_'[l] = cache_queue_[l]
    BY <1>2, <2>1
  <2>3. /\ c \in Containers /\ d \in Containers /\ c # d
        /\ Contents(c) = Elements(stolen[i]) /\ Contents(d) = Elements(cache_queue_[i])
    BY Places7
  <2>4. Elements(<<>>) = {} BY DEF Elements
  <2>5. /\ Contents(c)' = Contents(c) \ Contents(c) /\ Contents(d)' = Contents(d) \cup Contents(c)
    BY <2>1, <2>2, <2>3, <2>4 DEF Contents
  <2>6. \A e \in Containers \ {c, d} : Contents(e)' = Contents(e) BY <2>1, <2>2, Kept
  <2>7. Distinct(stolen'[i]) /\ Distinct(cache_queue_'[i])
    <3>1. Distinct(<<>>) BY DEF Distinct
    <3>2. QED BY <1>1, <2>2, <3>1 DEF NoneTwice
  <2>8. NoneTwice' BY <1>1, <2>1, <2>2, <2>7, NoneTwiceKept
  <2>9. QED BY <1>1, <2>1, <2>3, <2>5, <2>6, <2>8, WorksShift
<1>7. CASE PopFrontBatch(i) \/ TryPopFrontBatch(i)
  <2> DEFINE n == Len(work_pool[i]) room == CacheSize - Len(cache_queue_[i])
  <2>1. /\ UNCHANGED <<stolen, timer_queue, priority_queue_, work, arg, state, promise>>
        /\ \/ Refill(i, Least(CacheSize, n)) \/ Refill(i, Least(room, n))
           \/ UNCHANGED <<work_pool, cache_queue_>>
    BY <1>7 DEF PopFrontBatch, TryPopFrontBatch
  <2>2. n \in Nat /\ room \in Nat /\ CacheSize \in Nat
    <3>1. n \in Nat /\ Len(cache_queue_[i]) \in Nat BY <1>2, WorkSeqs
    <3>2. Len(cache_queue_[i]) <= CacheSize BY <1>1 DEF TypeOK
    <3>3. QED BY <3>1, <3>2, PoolAssumption
  <2>3. Least(CacheSize, n) \in 0..n /\ Least(room, n) \in 0..n BY <2>2, LeastFacts
  <2>4. CASE UNCHANGED <<work_pool, cache_queue_>>
    BY <1>1, <2>1, <2>4, NobodyMoves DEF workPlaces
  <2>5. QED BY <1>1, <2>1, <2>3, <2>4, RefillMoves
<1>8. CASE WorkStep(Primary(i))
  BY <1>1, <1>8, WorkStepMoves DEF t
<1>9. QED BY <1>3, <1>4, <1>5, <1>6, <1>7, <1>8 DEF PrimaryStep

LEMMA SecondaryMoves ==
  ASSUME IInv, Onward, NEW t \in Secondaries, SecondaryStep(t)
  PROVE  WorksInv'
<1> USE DEF flagVars, lifeVars, poolVars, cacheVars, timerVars, sizeVars, loopVars,
            callVars, workVars, At, Goto
<1>1. /\ TypeOK /\ CallInv /\ Disjoint /\ NoneTwice /\ LiveInv /\ WorksInv
      /\ t \in Threads /\ t \in Workers
  BY ThreadFacts DEF IInv, WorksInv
<1>2. CASE SecondaryLoop(t)
  BY <1>1, <1>2, NobodyMoves DEF SecondaryLoop, workPlaces
<1>3. CASE SecondaryPop(t)
  <2>0. PICK i \in Ids : i = serves[t] BY <1>1 DEF TypeOK
  <2>1. /\ UNCHANGED <<cache_queue_, stolen, timer_queue, priority_queue_, arg, state, promise>>
        /\ pc[t] = "pop"
        /\ \/ /\ work_pool[i] # <<>>
              /\ work' = [work EXCEPT ![t] = Head(work_pool[i])]
              /\ work_pool' = [work_pool EXCEPT ![i] = Tail(@)]
           \/ UNCHANGED <<work, work_pool>>
    BY <1>3, <2>0 DEF SecondaryPop
  <2>2. CASE UNCHANGED <<work, work_pool>>
    BY <1>1, <2>1, <2>2, NobodyMoves DEF workPlaces
  <2>3. CASE /\ work_pool[i] # <<>>
             /\ work' = [work EXCEPT ![t] = Head(work_pool[i])]
             /\ work_pool' = [work_pool EXCEPT ![i] = Tail(@)]
    <3> DEFINE c == <<"queue", i>> s == work_pool[i]
    <3>1. /\ s \in Seq(Works) /\ work_pool'[i] = Tail(s)
          /\ \A j \in Ids \ {i} : work_pool'[j] = work_pool[j]
          /\ \A u \in Threads \ {t} : work'[u] = work[u]
      BY <1>1, <2>3 DEF TypeOK
    <3>2. c \in Containers /\ c # <<"work", t>> /\ Contents(c) = Elements(s) /\ Distinct(s)
      BY <1>1, Places7 DEF NoneTwice
    <3>3. Contents(c)' = Elements(Tail(s)) BY <3>1 DEF Contents
    <3>4. Distinct(Tail(s)) BY <2>3, <3>1, <3>2, TailPlace
    <3>5. \A e \in Containers \ {c, <<"work", t>>} : Contents(e)' = Contents(e)
      BY <2>1, <3>1, Kept
    <3>6. NoneTwice' BY <1>1, <2>1, <3>1, <3>4, NoneTwiceKept
    <3>7. Contents(<<"work", t>>) = {} BY <1>1, <2>1, CallHolds DEF Pushing
    <3> HIDE DEF s, c
    <3>8. work' = [work EXCEPT ![t] = Head(s)] /\ s # <<>> BY <2>3 DEF s
    <3>9. QED BY <1>1, <2>1, <3>1, <3>2, <3>3, <3>5, <3>6, <3>7, <3>8, HeadMoves
  <2>4. QED BY <2>1, <2>2, <2>3
<1>4. CASE WorkStep(t)
  BY <1>1, <1>4, WorkStepMoves
<1>5. QED BY <1>2, <1>3, <1>4 DEF SecondaryStep

LEMMA TimerMoves ==
  ASSUME IInv, Onward, TimerStep
  PROVE  WorksInv'
<1> USE DEF flagVars, lifeVars, poolVars, cacheVars, timerVars, sizeVars, loopVars,
            callVars, workVars, At, Goto
<1> DEFINE b == <<"timer", 0>> c == <<"held", 0>> d == <<"arg", Timer>>
<1>1. /\ TypeOK /\ CallInv /\ Disjoint /\ NoneTwice /\ LiveInv /\ WorksInv
      /\ Timer \in Threads
  BY ThreadFacts DEF IInv, WorksInv
<1>2. /\ b \in Containers /\ c \in Containers /\ d \in Containers /\ b # c /\ c # d
      /\ Contents(b) = Elements(timer_queue) /\ Contents(c) = priority_queue_
  BY <1>1, Places7
<1>3. CASE TimerLoop \/ TimerNothingDue \/ TimerStopped \/ TimerTimeout
  BY <1>1, <1>3, NobodyMoves
  DEF TimerLoop, TimerNothingDue, TimerStopped, TimerTimeout, workPlaces
<1>4. ASSUME NEW w \in Works, TimerFire(w) PROVE WorksInv'
  <2>1. /\ UNCHANGED <<work_pool, cache_queue_, stolen, timer_queue, work, state, promise>>
        /\ w \in priority_queue_ /\ priority_queue_' = priority_queue_ \ {w}
        /\ pc[Timer] \in {"due", "timeout"} /\ arg' = [arg EXCEPT ![Timer] = w]
    BY <1>4 DEF TimerFire, StartPush
  <2>2. arg'[Timer] = w /\ \A s \in Threads \ {Timer} : arg'[s] = arg[s]
    BY <1>1, <2>1 DEF TypeOK
  <2>3. Contents(d) = {} BY <1>1, <2>1, CallHolds DEF Pushing
  <2>4. Contents(d)' = Contents(d) \cup {w} /\ Contents(c)' = Contents(c) \ {w}
    BY <1>2, <2>1, <2>2, <2>3, WorksAssumption DEF Contents
  <2>5. \A e \in Containers \ {c, d} : Contents(e)' = Contents(e) BY <2>1, <2>2, Kept
  <2>6. NoneTwice' BY <1>1, <2>1, NoneTwiceKept
  <2>7. {w} \in SUBSET Contents(c) BY <1>2, <2>1
  <2>8. QED BY <1>1, <1>2, <2>1, <2>4, <2>5, <2>6, <2>7, WorksShift
<1>5. CASE TimerTake
  <2> DEFINE w == Head(timer_queue)
  <2>1. /\ UNCHANGED <<work_pool, cache_queue_, stolen, work, arg, state, promise>>
        /\ timer_queue # <<>> /\ timer_queue' = Tail(timer_queue)
        /\ priority_queue_' = priority_queue_ \cup {w}
    BY <1>5 DEF TimerTake
  <2>2. timer_queue \in Seq(Works) /\ Distinct(timer_queue) BY <1>1 DEF TypeOK, NoneTwice
  <2>3. /\ Elements(timer_queue') = Elements(timer_queue) \ {w} /\ w \in Elements(timer_queue)
        /\ Distinct(timer_queue')
    BY <2>1, <2>2, TailPlace
  <2>4. Contents(b)' = Contents(b) \ {w} /\ Contents(c)' = Contents(c) \cup {w}
    BY <1>2, <2>1, <2>3 DEF Contents
  <2>5. \A e \in Containers \ {b, c} : Contents(e)' = Contents(e) BY <2>1, Kept
  <2>6. NoneTwice' BY <1>1, <2>1, <2>3, NoneTwiceKept
  <2>7. {w} \in SUBSET Contents(b) BY <1>2, <2>3
  <2>8. QED BY <1>1, <1>2, <2>1, <2>4, <2>5, <2>6, <2>7, WorksShift
<1>6. CASE Push(Timer) BY <1>1, <1>6, PushMoves
<1>7. QED BY <1>3, <1>4, <1>5, <1>6 DEF TimerStep

(* Containers lose works when what holds them is deleted. *)
LEMMA Shrink ==
  ASSUME Disjoint, \A c \in Containers : Contents(c)' \subseteq Contents(c)
  PROVE  Disjoint' /\ \A w : Held(w)' => Held(w)
BY DEF Disjoint, Held, Containers

LEMMA LiveShrunk ==
  ASSUME LiveInv, Onward, has_stop_, NEW S, Delete(S), UNCHANGED promise,
         \A w : Held(w)' => Held(w) /\ w \notin S, pc[Main] \notin {"create", "init"}
  PROVE  LiveInv'
<1>1. \A w \in Works : state'[w] = IF w \in S THEN "deleted" ELSE state[w] BY DEF Delete
<1>2. has_stop_' /\ pc'[Main] \notin {"create", "init"} /\ \A w : (Held(w))' => Held(w) /\ w \notin S
  BY DEF Onward
<1> HIDE DEF Held
<1>3. QED BY <1>1, <1>2 DEF LiveInv

LEMMA CommitMoves ==
  ASSUME IInv, Onward, NEW w \in Works, Commit(w)
  PROVE  WorksInv'
<1> DEFINE d == <<"arg", Main>>
<1>1. /\ TypeOK /\ CallInv /\ Disjoint /\ NoneTwice /\ LiveInv /\ WorksInv
      /\ Main \in Threads
  BY ThreadFacts DEF IInv, WorksInv
<1>2. /\ UNCHANGED <<work_pool, cache_queue_, stolen, timer_queue, priority_queue_, work, promise>>
      /\ state[w] = "fresh" /\ state' = [state EXCEPT ![w] = "live"] /\ pc[Main] = "user"
      /\ arg' = [arg EXCEPT ![Main] = w]
  BY DEF Commit, StartPush, poolVars, cacheVars, timerVars, At
<1>3. arg'[Main] = w /\ \A s \in Threads \ {Main} : arg'[s] = arg[s]
  BY <1>1, <1>2 DEF TypeOK
<1>4. d \in Containers BY <1>1, Places7
<1>5. Contents(d) = {} BY <1>1, <1>2, CallHolds DEF Pushing
<1>6. Contents(d)' = Contents(d) \cup {w}
  BY <1>3, <1>5, WorksAssumption DEF Contents
<1>7. \A e \in Containers \ {d} : Contents(e)' = Contents(e) BY <1>2, <1>3, Kept
<1>8. ~Held(w) BY <1>1, <1>2 DEF LiveInv
<1>9. Disjoint' /\ \A u : Held(u)' <=> Held(u) \/ u = w
  BY <1>1, <1>4, <1>6, <1>7, <1>8, Receive
<1>10. LiveInv' BY <1>1, <1>2, <1>9, LiveCommitted
<1>11. NoneTwice' BY <1>1, <1>2, NoneTwiceKept
<1>12. QED BY <1>9, <1>10, <1>11 DEF WorksInv

LEMMA ExitMoves ==
  ASSUME IInv, Onward, MainGoes
  PROVE  WorksInv'
<1> USE DEF flagVars, lifeVars, poolVars, cacheVars, timerVars, sizeVars, loopVars,
            callVars, workVars, At, Goto
<1>1. /\ TypeOK /\ CallInv /\ Disjoint /\ NoneTwice /\ LiveInv /\ WorksInv /\ MainInv
  BY DEF IInv, WorksInv
<1>2. CASE \/ SetInit \/ Exit \/ StopMonitor \/ JoinMonitor \/ StopTimer \/ StopTimerQueue
           \/ StopPrimary \/ StopQueue \/ JoinPrimary
  BY <1>1, <1>2, NobodyMoves
  DEF SetInit, Exit, StopMonitor, JoinMonitor, StopTimer, StopTimerQueue, StopPrimary, StopQueue,
      JoinPrimary, StopThread, workPlaces
<1>3. Elements(<<>>) = {} /\ Distinct(<<>>) BY DEF Elements, Distinct
<1>4. pc[Main] \in {"join_timer", "stop_primary", "delete_queues"} =>
        has_stop_ /\ pc[Main] \notin {"create", "init"}
  BY <1>1 DEF MainInv, AfterExit, AfterSizes, TimerEndAt, LoopEndAt, LastAt
<1>5. CASE JoinTimer
  <2> DEFINE b == <<"timer", 0>> c == <<"held", 0>>
  <2>1. /\ UNCHANGED <<work_pool, cache_queue_, stolen, work, arg, promise>>
        /\ timer_queue' = <<>> /\ priority_queue_' = {} /\ Delete(priority_queue_)
        /\ pc[Main] = "join_timer"
    BY <1>5 DEF JoinTimer
  <2>2. \A e \in Containers \ {b, c} : Contents(e)' = Contents(e) BY <2>1, Kept
  <2>3. Contents(b)' = {} /\ Contents(c)' = {} BY <1>3, <2>1 DEF Contents
  <2>4. Disjoint' /\ \A w : Held(w)' => Held(w)
    <3>1. \A e \in Containers : Contents(e)' \subseteq Contents(e)
      BY <2>2, <2>3
    <3>2. QED BY <1>1, <3>1, Shrink
  <2>5. ASSUME NEW w \in priority_queue_, Held(w)' PROVE FALSE
    <3>1. PICK e \in Containers : w \in Contents(e)' BY <2>5 DEF Held, Containers
    <3>2. e \notin {b, c} /\ w \in Contents(e) BY <2>2, <2>3, <3>1
    <3>3. w \in Contents(c) /\ c \in Containers BY Places7
    <3>4. QED BY <1>1, <3>2, <3>3 DEF Disjoint
  <2>6. LiveInv' BY <1>1, <1>4, <2>1, <2>4, <2>5, LiveShrunk
  <2>7. NoneTwice' BY <1>1, <1>3, <2>1, NoneTwiceKept
  <2>8. QED BY <2>4, <2>6, <2>7 DEF WorksInv
<1>6. CASE DeleteRunnables
  <2> DEFINE S == UNION {Elements(cache_queue_[i]) : i \in Ids}
             C == {<<"cache", i>> : i \in Ids}
  <2>1. /\ UNCHANGED <<work_pool, stolen, timer_queue, priority_queue_, work, arg, promise>>
        /\ cache_queue_' = [i \in Ids |-> <<>>] /\ Delete(S)
        /\ pc[Main] = "stop_primary"
    BY <1>6 DEF DeleteRunnables
  <2>2. \A e \in Containers \ C : Contents(e)' = Contents(e) BY <2>1, Kept
  <2>3. \A e \in C : Contents(e)' = {} BY <1>3, <2>1 DEF Contents
  <2>4. Disjoint' /\ \A w : Held(w)' => Held(w)
    <3>1. \A e \in Containers : Contents(e)' \subseteq Contents(e)
      BY <2>2, <2>3
    <3>2. QED BY <1>1, <3>1, Shrink
  <2>5. ASSUME NEW w \in S, Held(w)' PROVE FALSE
    <3>1. PICK e \in Containers : w \in Contents(e)' BY <2>5 DEF Held, Containers
    <3>2. e \notin C /\ w \in Contents(e) BY <2>2, <2>3, <3>1
    <3>3. PICK i \in Ids : w \in Elements(cache_queue_[i]) OBVIOUS
    <3>4. w \in Contents(<<"cache", i>>) /\ <<"cache", i>> \in Containers
      BY <3>3, Places7
    <3>5. QED BY <1>1, <3>2, <3>4 DEF Disjoint
  <2>6. LiveInv' BY <1>1, <1>4, <2>1, <2>4, <2>5, LiveShrunk
  <2>7. NoneTwice' BY <1>1, <1>3, <2>1, NoneTwiceKept
  <2>8. QED BY <2>4, <2>6, <2>7 DEF WorksInv
<1>7. CASE DeleteQueues
  <2> DEFINE C == {<<"queue", i>> : i \in Ids}
  <2>1. /\ UNCHANGED <<cache_queue_, stolen, timer_queue, priority_queue_, work, arg, state, promise>>
        /\ work_pool' = [i \in Ids |-> <<>>] /\ pc[Main] = "delete_queues"
    BY <1>7 DEF DeleteQueues
  <2>2. \A e \in Containers \ C : Contents(e)' = Contents(e) BY <2>1, Kept
  <2>3. \A e \in C : Contents(e)' = {} BY <1>3, <2>1 DEF Contents
  <2>4. Disjoint' /\ \A w : Held(w)' => Held(w)
    <3>1. \A e \in Containers : Contents(e)' \subseteq Contents(e)
      BY <2>2, <2>3
    <3>2. QED BY <1>1, <3>1, Shrink
  <2>5. LiveInv' BY <1>1, <1>4, <2>1, <2>4, LiveLost
  <2>6. NoneTwice' BY <1>1, <1>3, <2>1, NoneTwiceKept
  <2>7. QED BY <2>4, <2>5, <2>6 DEF WorksInv
<1>8. QED BY <1>2, <1>5, <1>6, <1>7 DEF MainGoes

LEMMA NextOnward == IInv /\ [Next]_vars => Onward
<1> SUFFICES ASSUME IInv, [Next]_vars PROVE Onward
  OBVIOUS
<1> USE DEF IInv
<1>1. /\ {Main, Timer, Monitor} \subseteq Threads /\ Main # Timer /\ Main # Monitor
      /\ Primaries \subseteq Threads /\ Secondaries \subseteq Threads
      /\ Main \notin Primaries \cup Secondaries /\ \A i \in Ids : Primary(i) \in Primaries
  BY ThreadFacts
<1>2. ASSUME NEW t \in Threads \ {Main}, Frame(t), UNCHANGED has_stop_ PROVE Onward
  BY <1>1, <1>2 DEF Frame, Onward
<1>3. ASSUME NEW i \in Ids, PrimaryStep(i) PROVE Onward
  <2>1. Frame(Primary(i)) /\ UNCHANGED has_stop_ BY <1>3, PrimaryFrame DEF SamePool
  <2>2. QED BY <1>1, <1>2, <2>1
<1>4. ASSUME NEW t \in Secondaries, SecondaryStep(t) PROVE Onward
  <2>1. Frame(t) /\ UNCHANGED has_stop_ BY <1>4, SecondaryFrame DEF SamePool
  <2>2. QED BY <1>1, <1>2, <2>1
<1>5. CASE TimerStep
  <2>1. Frame(Timer) /\ UNCHANGED has_stop_ BY <1>5, TimerFrame DEF SamePool
  <2>2. QED BY <1>1, <1>2, <2>1
<1>6. CASE MonitorWake \/ MonitorScan
  <2>1. Frame(Monitor) /\ UNCHANGED has_stop_ BY <1>6, MonitorFrame
  <2>2. QED BY <1>1, <1>2, <2>1
<1>7. CASE Push(Main) \/ \E w \in Works : Commit(w)
  <2>1. UNCHANGED has_stop_ /\ pc'[Main] \in Pushing \cup {"user"}
    BY <1>1, <1>7, PushFrame, CommitFrame DEF SamePool, Pushing, Returns
  <2>2. QED BY <2>1 DEF Onward, Pushing
<1>8. CASE MainGoes
  <2>1. pc'[Main] \in {"user"} \cup AfterExit BY <1>8, MainFrame
  <2>2. UNCHANGED has_stop_ \/ has_stop_' = TRUE
    BY <1>8 DEF MainGoes, SetInit, Exit, StopMonitor, JoinMonitor, StopTimer, StopTimerQueue,
       JoinTimer, StopPrimary, StopQueue, JoinPrimary, DeleteRunnables, DeleteQueues,
       StopThread, flagVars
  <2>3. QED BY <2>1, <2>2
    DEF Onward, AfterExit, SizesAt, AfterSizes, TimerEndAt, LoopEndAt, LastAt
<1>9. CASE ChangeStep(Main)
  <2>1. UNCHANGED has_stop_ /\ pc'[Main] \in {"change", "join"}
    BY <1>1, <1>9, MainChanges DEF ChangeMove, Scanning
  <2>2. QED BY <2>1 DEF Onward
<1>10. CASE ChangeStep(Monitor)
  <2>1. UNCHANGED has_stop_ /\ pc'[Main] = pc[Main]
    BY <1>1, <1>10, MonitorChanges DEF ChangeMove
  <2>2. QED BY <2>1 DEF Onward
<1>11. CASE StartPrimary \/ StartOthers
  BY <1>11, StartFrame DEF Onward
<1>12. CASE UNCHANGED vars
  BY <1>12 DEF vars, flagVars, Onward
<1>13. QED BY <1>3, <1>4, <1>5, <1>6, <1>7, <1>8, <1>9, <1>10, <1>11, <1>12, Steps

LEMMA NextWorks == IInv /\ [Next]_vars => WorksInv'
<1> SUFFICES ASSUME IInv, [Next]_vars PROVE WorksInv'
  OBVIOUS
<1>1. Onward BY NextOnward
<1>2. WorksInv BY DEF IInv, WorksInv
<1>3. ASSUME UNCHANGED workPlaces, UNCHANGED <<state, promise>> PROVE WorksInv'
  BY <1>1, <1>2, <1>3, NobodyMoves
<1>4. CASE \/ MonitorWake \/ MonitorScan \/ ChangeStep(Main) \/ ChangeStep(Monitor)
           \/ StartPrimary \/ StartOthers \/ UNCHANGED vars
  BY <1>3, <1>4 DEF MonitorWake, MonitorScan, ChangeStep, Change, Enlarge, Reduce, StartPrimary,
     StartOthers, workPlaces, vars, poolVars, cacheVars, timerVars, callVars, workVars
<1>5. CASE \/ \E i \in Ids : PrimaryStep(i)
           \/ \E t \in Secondaries : SecondaryStep(t)
           \/ TimerStep \/ Push(Main) \/ \E w \in Works : Commit(w)
           \/ MainGoes
  <2>1. Main \in Threads BY ThreadFacts
  <2>2. QED BY <1>1, <1>5, <2>1, PrimaryMoves, SecondaryMoves, TimerMoves, PushMoves, CommitMoves,
               ExitMoves
<1>6. \/ \/ MonitorWake \/ MonitorScan \/ ChangeStep(Main) \/ ChangeStep(Monitor)
         \/ StartPrimary \/ StartOthers \/ UNCHANGED vars
      \/ \/ \E i \in Ids : PrimaryStep(i)
         \/ \E t \in Secondaries : SecondaryStep(t)
         \/ TimerStep \/ Push(Main) \/ \E w \in Works : Commit(w)
         \/ MainGoes
  BY Steps
<1>7. QED BY <1>4, <1>5, <1>6
-----------------------------------------------------------------------------
(* The theorems. *)
LEMMA InitInv == Init => IInv
<1> SUFFICES ASSUME Init PROVE IInv
  OBVIOUS
<1>1. TypeOK BY InitType
<1>2. \A t \in Threads : /\ pc[t] = IF t = Main THEN "create" ELSE "unborn"
                         /\ back[t] = "loop" /\ idx[t] = 0 /\ target[t] = 0
                         /\ work[t] = Null /\ arg[t] = Null
  BY DEF Init
<1>3. /\ {Main, Timer, Monitor} \subseteq Threads /\ Main # Timer /\ Main # Monitor
      /\ \A i \in Ids : Primary(i) \in Threads /\ Primary(i) # Main
      /\ \A t \in Secondaries : t \in Threads /\ t # Main
      /\ \A i \in Ids, k \in Slots : Secondary(i, k) \in Secondaries
  BY ThreadFacts
<1>4. ControlInv
  BY <1>2, <1>3 DEF ControlInv, PrimaryAt, SecondaryAt, TimerAt, MonitorAt, MainAt
<1>5. CallInv BY <1>2 DEF CallInv, CallAt, Employed, Pushing
<1>6. SecondaryInv BY <1>2, <1>3 DEF SecondaryInv
<1>7. ChangeInv
  <2>1. wanted[Main] = 0 BY DEF Init
  <2>2. QED BY <1>2, <1>3, <2>1 DEF ChangeInv
<1>8. MainInv
  <2>1. runnables = 0..(created - 1)
    BY DEF Init
  <2>2. /\ has_stop_ = FALSE /\ has_init_ = FALSE /\ queues = Ids /\ timer_queue_stop = FALSE
        /\ \A i \in Ids : queue_stop[i] = FALSE
    BY DEF Init
  <2>3. pc[Main] = "create" /\ pc[Timer] = "unborn" /\ pc[Monitor] = "unborn"
        /\ \A i \in Ids : pc[Primary(i)] = "unborn"
    BY <1>2, <1>3
  <2>4. QED BY <2>1, <2>2, <2>3
    DEF MainInv, AfterExit, SizesAt, AfterSizes, TimerEndAt, LoopEndAt, LastAt
<1>9. StealInv
  <2>1. \A i \in Ids : pc[Primary(i)] = "unborn" /\ stolen[i] = <<>>
    BY <1>2, <1>3 DEF Init
  <2>2. CacheSize \div 2 >= 0 /\ Len(<<>>) = 0 BY PoolAssumption
  <2>3. QED BY <2>1, <2>2 DEF StealInv
<1>10. \A c \in Containers : Contents(c) = {}
  <2>1. /\ \A i \in Ids : work_pool[i] = <<>> /\ cache_queue_[i] = <<>> /\ stolen[i] = <<>>
        /\ timer_queue = <<>> /\ priority_queue_ = {}
    BY DEF Init
  <2>2. Elements(<<>>) = {} BY DEF Elements
  <2>3. QED BY <1>2, <2>1, <2>2 DEF Containers, Contents
<1>11. Disjoint /\ \A w : ~Held(w) BY <1>10 DEF Disjoint, Held
<1>12. NoneTwice BY DEF Init, NoneTwice, Distinct
<1>13. LiveInv
  <2>1. \A w \in Works : state[w] = "fresh" /\ promise[w] = FALSE BY DEF Init
  <2>2. QED BY <1>11, <2>1 DEF LiveInv
<1>14. QED BY <1>1, <1>4, <1>5, <1>6, <1>7, <1>8, <1>9, <1>11, <1>12, <1>13 DEF IInv

(* Everything the proofs need is invariant: control, the threads of the    *)
(* secondary pools, the stages of Initialize and Exit, and who holds which *)
(* work.                                                                   *)
THEOREM PoolInvariant == Spec => []IInv
<1>1. Init => IInv BY InitInv
<1>2. IInv /\ [Next]_vars => IInv'
  <2> SUFFICES ASSUME IInv, [Next]_vars PROVE IInv'
    OBVIOUS
  <2>1. TypeOK' BY NextType
  <2>2. ControlInv' /\ CallInv' BY NextControl, NextCall
  <2>3. SecondaryInv' /\ ChangeInv' BY NextSecondary, NextChange
  <2>4. MainInv' /\ StealInv' BY NextMain, NextSteal
  <2>5. Disjoint' /\ NoneTwice' /\ LiveInv' BY NextWorks DEF WorksInv
  <2>6. QED BY <2>1, <2>2, <2>3, <2>4, <2>5 DEF IInv
<1>3. QED BY <1>1, <1>2, PTL DEF Spec

(* A thief looks at runnables that exist. *)
LEMMA ThievesAreSafe == IInv => StealersFindRunnables
<1> SUFFICES ASSUME IInv, NEW i \in Ids, pc[Primary(i)] \in {"steal", "peek"}
             PROVE  created = PoolSize /\ runnables = Ids
  BY DEF StealersFindRunnables
<1>1. MainInv /\ has_init_ BY DEF IInv, StealInv
<1>2. pc[Main] # "create" /\ pc[Main] \notin LastAt BY <1>1 DEF MainInv
<1>3. QED BY <1>1, <1>2 DEF MainInv

LEMMA PlaceCases ==
  ASSUME NEW w, NEW x
  PROVE  x \in Places(w) <=>
           \/ \E i \in Ids : \E k \in Positions(work_pool[i], w) : x = <<"queue", i, k>>
           \/ \E i \in Ids : \E k \in Positions(cache_queue_[i], w) : x = <<"cache", i, k>>
           \/ \E i \in Ids : \E k \in Positions(stolen[i], w) : x = <<"stolen", i, k>>
           \/ \E k \in Positions(timer_queue, w) : x = <<"timer", 0, k>>
           \/ w \in priority_queue_ /\ x = <<"held", 0, 0>>
           \/ \E t \in Threads : work[t] = w /\ x = <<"work", t, 0>>
           \/ \E t \in Threads : arg[t] = w /\ x = <<"arg", t, 0>>
<1> DEFINE P(i) ==      {<<"queue", i, k>> : k \in Positions(work_pool[i], w)}
                   \cup {<<"cache", i, k>> : k \in Positions(cache_queue_[i], w)}
                   \cup {<<"stolen", i, k>> : k \in Positions(stolen[i], w)}
           U == UNION {P(i) : i \in Ids}
           Q == {<<"timer", 0, k>> : k \in Positions(timer_queue, w)}
           R == {<<"held", 0, 0>> : v \in priority_queue_ \cap {w}}
           A == {<<"work", t, 0>> : t \in {t \in Threads : work[t] = w}}
           B == {<<"arg", t, 0>> : t \in {t \in Threads : arg[t] = w}}
<1>1. Places(w) = U \cup Q \cup R \cup A \cup B
  BY DEF Places
<1>2. x \in U <=> \E i \in Ids : x \in P(i)
  OBVIOUS
<1>3. \A i \in Ids : x \in P(i) <=>
        \/ \E k \in Positions(work_pool[i], w) : x = <<"queue", i, k>>
        \/ \E k \in Positions(cache_queue_[i], w) : x = <<"cache", i, k>>
        \/ \E k \in Positions(stolen[i], w) : x = <<"stolen", i, k>>
  OBVIOUS
<1>4. x \in Q <=> \E k \in Positions(timer_queue, w) : x = <<"timer", 0, k>>
  OBVIOUS
<1>5. x \in R <=> w \in priority_queue_ /\ x = <<"held", 0, 0>>
  OBVIOUS
<1>6. x \in A <=> \E t \in Threads : work[t] = w /\ x = <<"work", t, 0>>
  OBVIOUS
<1>7. x \in B <=> \E t \in Threads : arg[t] = w /\ x = <<"arg", t, 0>>
  OBVIOUS
<1> HIDE DEF P, U, Q, R, A, B
<1>8. (\E i \in Ids : x \in P(i)) <=>
        \/ \E i \in Ids : \E k \in Positions(work_pool[i], w) : x = <<"queue", i, k>>
        \/ \E i \in Ids : \E k \in Positions(cache_queue_[i], w) : x = <<"cache", i, k>>
        \/ \E i \in Ids : \E k \in Positions(stolen[i], w) : x = <<"stolen", i, k>>
  BY <1>3
<1>9. x \in Places(w) <=> (\E i \in Ids : x \in P(i)) \/ x \in Q \/ x \in R \/ x \in A \/ x \in B
  BY <1>1, <1>2
<1>10. QED BY <1>4, <1>5, <1>6, <1>7, <1>8, <1>9

(* A place of Places belongs to the container that holds the work, and     *)
(* within a container a work has one position.                             *)
LEMMA WorksHaveOnePlace == IInv => OnePlace
<1> SUFFICES ASSUME IInv, NEW w \in Works
             PROVE  /\ \A x, y \in Places(w) : x = y
                    /\ state[w] # "live" => Places(w) = {}
                    /\ state[w] = "live" /\ ~has_stop_ => Places(w) # {}
  BY DEF OnePlace
<1>1. Disjoint /\ NoneTwice /\ LiveInv BY DEF IInv
<1>2. Null # w BY WorksAssumption
<1> DEFINE Seat(c, k, x) ==
             /\ c \in Containers /\ w \in Contents(c) /\ x = <<c[1], c[2], k>>
             /\ \/ c[1] \in {"held", "work", "arg"} /\ k = 0
                \/ c[1] = "queue" /\ c[2] \in Ids /\ k \in Positions(work_pool[c[2]], w)
                \/ c[1] = "cache" /\ c[2] \in Ids /\ k \in Positions(cache_queue_[c[2]], w)
                \/ c[1] = "stolen" /\ c[2] \in Ids /\ k \in Positions(stolen[c[2]], w)
                \/ c[1] = "timer" /\ k \in Positions(timer_queue, w)
<1>3. ASSUME NEW x \in Places(w)
      PROVE  \E c, k : Seat(c, k, x)
  <2>1. \A s, k : k \in Positions(s, w) => w \in Elements(s) BY DEF Positions, Elements
  <2>2. ASSUME NEW i \in Ids, NEW k \in Positions(work_pool[i], w), x = <<"queue", i, k>>
        PROVE  \E c, l : Seat(c, l, x)
    <3>0. <<"queue", i>> \in Containers /\ w \in Contents(<<"queue", i>>)
      BY <2>1, <2>2, Places7
    <3>1. Seat(<<"queue", i>>, k, x) BY <2>2, <3>0
    <3> HIDE DEF Seat
    <3>2. QED BY <3>1
  <2>3. ASSUME NEW i \in Ids, NEW k \in Positions(cache_queue_[i], w), x = <<"cache", i, k>>
        PROVE  \E c, l : Seat(c, l, x)
    <3>0. <<"cache", i>> \in Containers /\ w \in Contents(<<"cache", i>>)
      BY <2>1, <2>3, Places7
    <3>1. Seat(<<"cache", i>>, k, x) BY <2>3, <3>0
    <3> HIDE DEF Seat
    <3>2. QED BY <3>1
  <2>4. ASSUME NEW i \in Ids, NEW k \in Positions(stolen[i], w), x = <<"stolen", i, k>>
        PROVE  \E c, l : Seat(c, l, x)
    <3>0. <<"stolen", i>> \in Containers /\ w \in Contents(<<"stolen", i>>)
      BY <2>1, <2>4, Places7
    <3>1. Seat(<<"stolen", i>>, k, x) BY <2>4, <3>0
    <3> HIDE DEF Seat
    <3>2. QED BY <3>1
  <2>5. ASSUME NEW k \in Positions(timer_queue, w), x = <<"timer", 0, k>>
        PROVE  \E c, l : Seat(c, l, x)
    <3>1. Seat(<<"timer", 0>>, k, x) BY <2>1, <2>5, Places7
    <3> HIDE DEF Seat
    <3>2. QED BY <3>1
  <2>6. ASSUME w \in priority_queue_, x = <<"held", 0, 0>> 
        PROVE  \E c, l : Seat(c, l, x)
    <3>1. Seat(<<"held", 0>>, 0, x) BY <2>6, Places7
    <3> HIDE DEF Seat
    <3>2. QED BY <3>1
  <2>7. ASSUME NEW t \in Threads, work[t] = w, x = <<"work", t, 0>>
        PROVE  \E c, l : Seat(c, l, x)
    <3>1. Seat(<<"work", t>>, 0, x) BY <1>2, <2>7, Places7
    <3> HIDE DEF Seat
    <3>2. QED BY <3>1
  <2>8. ASSUME NEW t \in Threads, arg[t] = w, x = <<"arg", t, 0>>
        PROVE  \E c, l : Seat(c, l, x)
    <3>1. Seat(<<"arg", t>>, 0, x) BY <1>2, <2>8, Places7
    <3> HIDE DEF Seat
    <3>2. QED BY <3>1
  <2> HIDE DEF Seat
  <2>9. x \in Places(w) OBVIOUS
  <2>10. QED BY <2>2, <2>3, <2>4, <2>5, <2>6, <2>7, <2>8, <2>9, PlaceCases
<1>4. ASSUME NEW x \in Places(w), NEW y \in Places(w) PROVE x = y
  <2>1. PICK c, k : Seat(c, k, x) BY <1>3
  <2>2. PICK d, l : Seat(d, l, y) BY <1>3
  <2>3. c = d BY <1>1, <2>1, <2>2 DEF Disjoint
  <2>4. k = l
    <3>1. \A s, m, n : Distinct(s) /\ m \in Positions(s, w) /\ n \in Positions(s, w) => m = n
      BY DEF Distinct, Positions
    <3>2. CASE c[1] \in {"held", "work", "arg"} BY <2>1, <2>2, <2>3, <3>2
    <3>3. CASE c[1] = "queue" BY <1>1, <2>1, <2>2, <2>3, <3>1, <3>3 DEF NoneTwice
    <3>4. CASE c[1] = "cache" BY <1>1, <2>1, <2>2, <2>3, <3>1, <3>4 DEF NoneTwice
    <3>5. CASE c[1] = "stolen" BY <1>1, <2>1, <2>2, <2>3, <3>1, <3>5 DEF NoneTwice
    <3>6. CASE c[1] = "timer" BY <1>1, <2>1, <2>2, <2>3, <3>1, <3>6 DEF NoneTwice
    <3>7. QED BY <2>1, <3>2, <3>3, <3>4, <3>5, <3>6
  <2>5. QED BY <2>1, <2>2, <2>3, <2>4
<1>5. state[w] # "live" => Places(w) = {}
  BY <1>1, <1>3 DEF LiveInv, Held
<1>6. ASSUME state[w] = "live", ~has_stop_ PROVE Places(w) # {}
  <2>1. PICK c \in Containers : w \in Contents(c) BY <1>1, <1>6 DEF LiveInv, Held
  <2>2. \A s : w \in Elements(s) => \E k : k \in Positions(s, w) BY DEF Elements, Positions
  <2>3. ASSUME NEW i \in Ids, c \in {<<"queue", i>>, <<"cache", i>>, <<"stolen", i>>}
        PROVE  \E x : x \in Places(w)
    <3>1. w \in Elements(work_pool[i]) \/ w \in Elements(cache_queue_[i]) \/ w \in Elements(stolen[i])
      BY <2>1, <2>3, Places7
    <3>2. CASE w \in Elements(work_pool[i])
      <4>1. PICK k : k \in Positions(work_pool[i], w) BY <2>2, <3>2
      <4>2. <<"queue", i, k>> \in Places(w) BY <4>1, PlaceCases
      <4>3. QED BY <4>2
    <3>3. CASE w \in Elements(cache_queue_[i])
      <4>1. PICK k : k \in Positions(cache_queue_[i], w) BY <2>2, <3>3
      <4>2. <<"cache", i, k>> \in Places(w) BY <4>1, PlaceCases
      <4>3. QED BY <4>2
    <3>4. CASE w \in Elements(stolen[i])
      <4>1. PICK k : k \in Positions(stolen[i], w) BY <2>2, <3>4
      <4>2. <<"stolen", i, k>> \in Places(w) BY <4>1, PlaceCases
      <4>3. QED BY <4>2
    <3>5. QED BY <3>1, <3>2, <3>3, <3>4
  <2>4. CASE c = <<"timer", 0>>
    <3>1. w \in Elements(timer_queue) BY <2>1, <2>4, Places7
    <3>2. PICK k : k \in Positions(timer_queue, w) BY <2>2, <3>1
    <3>3. <<"timer", 0, k>> \in Places(w) BY <3>2, PlaceCases
    <3>4. QED BY <3>3
  <2>5. CASE c = <<"held", 0>>
    <3>1. w \in priority_queue_ BY <2>1, <2>5, Places7
    <3>2. <<"held", 0, 0>> \in Places(w) BY <3>1, PlaceCases
    <3>3. QED BY <3>2
  <2>6. ASSUME NEW t \in Threads, c \in {<<"work", t>>, <<"arg", t>>}
        PROVE  \E x : x \in Places(w)
    <3>1. work[t] = w \/ arg[t] = w BY <2>1, <2>6, Places7
    <3>2. <<"work", t, 0>> \in Places(w) \/ <<"arg", t, 0>> \in Places(w) BY <3>1, PlaceCases
    <3>3. QED BY <3>2
  <2>7. \/ \E i \in Ids : c \in {<<"queue", i>>, <<"cache", i>>, <<"stolen", i>>}
        \/ c = <<"timer", 0>> \/ c = <<"held", 0>>
        \/ \E t \in Threads : c \in {<<"work", t>>, <<"arg", t>>}
    BY <2>1 DEF Containers
  <2>8. QED BY <2>3, <2>4, <2>5, <2>6, <2>7
<1>7. QED BY <1>4, <1>5, <1>6

(* Until Exit every committed work is at exactly one place, whatever the   *)
(* threads steal, batch, push and delay, and nobody holds a deleted one;   *)
(* and no thief looks at a runnable that does not exist.                   *)
THEOREM PoolStaysConsistent == Spec => []PoolConsistent
<1>1. IInv => PoolConsistent
  BY ThievesAreSafe, WorksHaveOnePlace DEF PoolConsistent, IInv
<1>2. QED BY <1>1, PoolInvariant, PTL

(* Exit deletes a queue of the pool only when no thread is in a call on    *)
(* it, and returns only when every thread of the pool has ended; the timer *)
(* queue, too, but for primary threads that are in PushTimerBack.  With a  *)
(* refused thread Initialize itself deletes queues that threads are        *)
(* blocked in: see QueuesStoppedBeforeDelete.                              *)
THEOREM QueuesAreDeletedUnused ==
  ASSUME StartedThreads = PoolSize
  PROVE  Spec => []OnlyLateTimerPushesDangle
<1>1. IInv => OnlyLateTimerPushesDangle
  <2> SUFFICES ASSUME IInv PROVE OnlyLateTimerPushesDangle
    OBVIOUS
  <2> USE DEF IInv
  <2>1. ASSUME pc[Main] \in AfterSizes
        PROVE  /\ pc[Monitor] = "exited"
               /\ \A i \in Ids, k \in Slots : pc[Secondary(i, k)] = "unborn"
    <3>1. pc[Monitor] = "exited" /\ \A i \in Ids : secondaries[i] = 0
      BY <2>1 DEF MainInv
    <3>2. \A k \in Slots : k > 0 BY PoolAssumption DEF Slots
    <3>3. QED BY <3>1, <3>2 DEF SecondaryInv
  <2>2. ASSUME pc[Main] = "done", NEW t \in Threads \ {Main}
        PROVE  pc[t] \in {"unborn", "exited"}
    <3>1. pc[Main] \in LastAt /\ pc[Main] \in AfterSizes BY <2>2 DEF LastAt, AfterSizes
    <3>2. pc[Timer] = "exited" /\ \A i \in Ids : pc[Primary(i)] = "exited"
      BY <3>1 DEF MainInv
    <3>3. QED BY <2>1, <3>1, <3>2, ThreadFacts
  <2>3. ASSUME NEW t \in Threads, NEW i \in Ids, UsesQueue(t, i) PROVE i \in queues
    <3>1. CASE pc[Main] = "create"
      BY <3>1, PoolAssumption DEF MainInv
    <3>2. CASE pc[Main] = "done"
      <4>1. t # Main BY <2>3, <3>2, ThreadFacts DEF UsesQueue, At
      <4>2. pc[t] \in {"unborn", "exited"} BY <2>2, <3>2, <4>1
      <4>3. QED BY <2>3, <4>2 DEF UsesQueue, At
    <3>3. QED BY <3>1, <3>2 DEF MainInv
  <2>4. ASSUME TimerDeleted, NEW t \in Threads, UsesTimerQueue(t)
        PROVE  t \in Primaries /\ pc[t] \in {"timer_link", "dangling"}
    <3>1. pc[Main] \in AfterSizes /\ pc[Main] \in LoopEndAt \cup LastAt
      BY <2>4 DEF TimerDeleted, AfterSizes, LoopEndAt, LastAt
    <3>2. pc[Timer] = "exited" BY <3>1 DEF MainInv
    <3>3. pc[Main] \notin {"timer_link", "dangling", "stop_timer_queue"}
      BY <2>4 DEF TimerDeleted
    <3>4. QED BY <2>1, <2>4, <3>1, <3>2, <3>3, ThreadFacts
      DEF UsesTimerQueue, At, Primaries
  <2>5. QED BY <2>2, <2>3, <2>4 DEF OnlyLateTimerPushesDangle, At
<1>2. QED BY <1>1, PoolInvariant, PTL
-----------------------------------------------------------------------------
(* The refinement of WorkService. *)

(* The work that worker t is inside of.                                    *)
Doing(t) == IF pc[t] = "run" THEN Null ELSE work[t]

LEMMA BusyMeans == \A w \in Works : Busy(w) <=> \E t \in Workers : Doing(t) = w
BY WorksAssumption DEF Busy, Doing, At

(* Whoever holds a work outside Work() waits for its turn; whoever is in   *)
(* Work() is the only one.                                                 *)
LEMMA HeldStatus ==
  ASSUME IInv, NEW c \in Containers, NEW w \in Works, w \in Contents(c)
  PROVE  /\ state[w] = "live" /\ promise[w] = FALSE
         /\ \A t \in Workers : Doing(t) = w => c = <<"work", t>>
         /\ Busy(w) => Status(w) = "running"
         /\ ~Busy(w) => Status(w) = "pending"
<1>1. state[w] = "live" /\ promise[w] = FALSE
  BY DEF IInv, LiveInv, Held, TypeOK
<1>2. ASSUME NEW t \in Workers, Doing(t) = w PROVE c = <<"work", t>>
  <2>1. t \in Threads /\ work[t] = w /\ w # Null
    BY <1>2, ThreadFacts, WorksAssumption DEF Doing
  <2>2. <<"work", t>> \in Containers /\ w \in Contents(<<"work", t>>)
    BY <2>1, Places7
  <2>3. QED BY <2>2 DEF IInv, Disjoint
<1>3. QED BY <1>1, <1>2 DEF Status

(* A work that nobody runs waits for its turn.                             *)
LEMMA PendingOutside ==
  ASSUME IInv, NEW c \in Containers, NEW w \in Works, w \in Contents(c),
         \A t \in Workers : c # <<"work", t>>
  PROVE  Status(w) = "pending" /\ ~Busy(w)
BY HeldStatus, BusyMeans

(* A work that is not touched keeps its status.                            *)
LEMMA StatusKept ==
  ASSUME NEW w \in Works, state'[w] = state[w], promise'[w] = promise[w],
         \A t \in Workers : Doing(t)' = w <=> Doing(t) = w
  PROVE  Status(w)' = Status(w) /\ Busy(w)' = Busy(w)
<1>1. Busy(w)' <=> \E t \in Workers : Doing(t)' = w
  BY WorksAssumption DEF Busy, Doing, At
<1>2. Busy(w)' <=> Busy(w) BY <1>1, BusyMeans
<1>3. Busy(w)' \in BOOLEAN /\ Busy(w) \in BOOLEAN BY DEF Busy
<1>4. (state[w])' = state[w] /\ (promise[w])' = promise[w] OBVIOUS
<1> HIDE DEF Busy
<1>5. Status(w)' = Status(w) BY <1>2, <1>4 DEF Status
<1>6. QED BY <1>2, <1>3, <1>5

(* A step that changes neither is a stutter of WorkService.                *)
LEMMA Unseen ==
  ASSUME UNCHANGED <<has_stop_, state, times_, promise>>,
         \A t \in Workers : Doing(t)' = Doing(t)
  PROVE  UNCHANGED Service!wvars
<1>1. \A w \in Works : Status(w)' = Status(w) BY StatusKept
<1> HIDE DEF Status
<1>2. QED BY <1>1 DEF Service!wvars

(* One work changes its status.                                            *)
LEMMA Moved ==
  ASSUME NEW w \in Works, NEW a, NEW b, Status(w) = a, Status(w)' = b,
         \A v \in Works \ {w} : Status(v)' = Status(v)
  PROVE  Service!Move(w, a, b)
<1> HIDE DEF Status
<1>1. QED BY DEF Service!Move

(* The works S, which wait for their turn, are deleted after Exit.         *)
LEMMA Dropped ==
  ASSUME has_stop_, UNCHANGED <<has_stop_, times_, promise>>, NEW S \in SUBSET Works, Delete(S),
         \A w \in S : Status(w) = "pending", \A w \in S : promise[w] = FALSE,
         \A t \in Workers : Doing(t)' = Doing(t)
  PROVE  Service!DropAll(S)
<1>1. \A w \in Works : state'[w] = IF w \in S THEN "deleted" ELSE state[w] BY DEF Delete
<1>2. \A w \in Works \ S : Status(w)' = Status(w) BY <1>1, StatusKept
<1>3. \A w \in S : Status(w)' = "dropped" BY <1>1 DEF Status
<1> HIDE DEF Status
<1>4. QED BY <1>2, <1>3 DEF Service!DropAll

(* A thread that keeps its work and is not about to begin it.              *)
LEMMA DoingKept ==
  ASSUME NEW t, work'[t] = work[t], pc[t] # "run", pc'[t] # "run"
  PROVE  Doing(t)' = Doing(t)
BY DEF Doing

(* The threads that do not move stay in their works.                       *)
LEMMA OthersDo ==
  ASSUME NEW t \in Threads, Frame(t)
  PROVE  \A s \in Workers \ {t} : Doing(s)' = Doing(s)
<1>1. Workers \subseteq Threads BY ThreadFacts
<1>2. QED BY <1>1 DEF Frame, Doing

(* PushBack drops its argument or is not seen.                             *)
LEMMA PushServes ==
  ASSUME IInv, NEW t \in Threads, Push(t)
  PROVE  Service!Next \/ UNCHANGED Service!wvars
<1> USE DEF flagVars, lifeVars, poolVars, cacheVars, timerVars, sizeVars, loopVars,
            callVars, workVars, At, Goto
<1>1. TypeOK /\ CallInv BY DEF IInv
<1>2. /\ Frame(t) /\ SamePool /\ pc[t] \in Pushing
      /\ pc'[t] \in Pushing \/ pc'[t] \in Returns(t)
  BY <1>1, PushFrame DEF Pushing
<1>3. pc[t] # "run" /\ pc'[t] # "run" BY <1>2 DEF Pushing, Returns
<1>4. UNCHANGED <<work, times_, promise>>
  BY DEF Push, PushStopped, PushIndex, PushLink, TimerPushCheck, TimerPushLink
<1>5. \A s \in Workers : Doing(s)' = Doing(s)
  BY <1>2, <1>3, <1>4, OthersDo, DoingKept
<1>6. UNCHANGED has_stop_ BY <1>2 DEF SamePool
<1>7. CASE PushStopped(t)
  <2>1. has_stop_ /\ Delete({arg[t]}) BY <1>7 DEF PushStopped
  <2>2. /\ arg[t] \in Works /\ <<"arg", t>> \in Containers
        /\ arg[t] \in Contents(<<"arg", t>>)
    BY <1>1, <1>2, CallHolds, Places7
  <2>3. Status(arg[t]) = "pending" BY <2>2, PendingOutside
  <2>4. promise[arg[t]] = FALSE BY <2>2, HeldStatus
  <2>5. Service!DropAll({arg[t]}) BY <1>4, <1>5, <1>6, <2>1, <2>2, <2>3, <2>4, Dropped
  <2>6. QED BY <2>2, <2>5 DEF Service!Next
<1>8. CASE PushIndex(t) \/ PushLink(t) \/ TimerPushCheck(t) \/ TimerPushLink(t)
  <2>1. UNCHANGED state
    BY <1>8 DEF PushIndex, PushLink, TimerPushCheck, TimerPushLink
  <2>2. QED BY <1>4, <1>5, <1>6, <2>1, Unseen
<1>9. QED BY <1>7, <1>8 DEF Push

(* A fresh work that is committed. *)
LEMMA Committed ==
  ASSUME IInv, NEW w \in Works, state[w] = "fresh", state' = [state EXCEPT ![w] = "live"],
         UNCHANGED <<has_stop_, times_, promise>>, \A t \in Workers : Doing(t)' = Doing(t)
  PROVE  Service!Commit(w)
<1>1. /\ state'[w] = "live" /\ \A v \in Works \ {w} : state'[v] = state[v]
  BY DEF IInv, TypeOK
<1>2. promise[w] = FALSE BY DEF IInv, LiveInv, TypeOK
<1>3. ASSUME NEW t \in Workers, Doing(t) = w PROVE FALSE
  <2>1. t \in Threads /\ work[t] = w /\ w # Null
    BY <1>3, ThreadFacts, WorksAssumption DEF Doing
  <2>2. Held(w) BY <2>1, Places7 DEF Held
  <2>3. QED BY <2>2 DEF IInv, LiveInv
<1>4. Busy(w)' <=> \E t \in Workers : Doing(t)' = w
  BY WorksAssumption DEF Busy, Doing, At
<1>5. ~Busy(w)' BY <1>3, <1>4
<1>6. \A v \in Works \ {w} : Status(v)' = Status(v) BY <1>1, StatusKept
<1>7. Status(w) = "fresh" BY DEF Status
<1>8. Status(w)' = "pending"
  <2>1. (state[w])' = "live" /\ (promise[w])' = FALSE BY <1>1, <1>2
  <2> HIDE DEF Busy
  <2>2. QED BY <1>5, <2>1 DEF Status
<1>9. Service!Move(w, "fresh", "pending") BY <1>6, <1>7, <1>8, Moved
<1>10. QED BY <1>9 DEF Service!Commit

(* Work() begins, commits another work, or ends. *)
LEMMA RunServes ==
  ASSUME IInv, NEW t \in Workers, RunBegin(t) \/ RunCommit(t) \/ RunEnd(t)
  PROVE  Service!Next
<1> USE DEF flagVars, lifeVars, poolVars, cacheVars, timerVars, sizeVars, loopVars,
            callVars, workVars, At, Goto
<1> DEFINE b == <<"work", t>>
<1>1. TypeOK /\ CallInv /\ t \in Threads BY ThreadFacts DEF IInv
<1>2. /\ Frame(t) /\ UNCHANGED has_stop_ /\ pc[t] \in {"run", "work"}
      /\ pc'[t] \in {"loop", "work", "push", "timer_push"}
  BY <1>1, RunFrame DEF SamePool
<1>3. PICK w \in Works : w = work[t] BY <1>1, <1>2, CallHolds
<1>4. w # Null /\ b \in Containers /\ w \in Contents(b)
  BY <1>1, <1>3, Places7, WorksAssumption
<1>5. state[w] = "live" /\ promise[w] = FALSE BY <1>4, HeldStatus
<1>6. \A s \in Workers \ {t} : Doing(s)' = Doing(s) /\ Doing(s) # w
  <2>1. \A s \in Workers \ {t} : Doing(s)' = Doing(s) BY <1>1, <1>2, OthersDo
  <2>2. \A s \in Workers : Doing(s) = w => b = <<"work", s>> BY <1>4, HeldStatus
  <2>3. QED BY <2>1, <2>2
<1>7. Doing(t)' = work'[t] BY <1>2 DEF Doing
<1>8. Busy(w)' <=> \E s \in Workers : Doing(s)' = w
  BY <1>3, WorksAssumption DEF Busy, Doing
<1>9. CASE RunBegin(t)
  <2>1. pc[t] = "run" /\ UNCHANGED <<times_, promise>> BY <1>9 DEF RunBegin
  <2>2. Doing(t) = Null BY <2>1 DEF Doing
  <2>3. ~Busy(w) BY <1>4, <1>6, <2>2, BusyMeans
  <2>4. Status(w) = "pending" BY <1>4, <2>3, HeldStatus
  <2>5. CASE w \in InitFails /\ Delete({w}) /\ work' = [work EXCEPT ![t] = Null]
    <3>1. /\ state'[w] = "deleted" /\ \A v \in Works \ {w} : state'[v] = state[v]
      BY <2>5 DEF Delete
    <3>2. Doing(t)' = Null BY <1>1, <1>7, <2>5 DEF TypeOK
    <3>3. \A v \in Works \ {w} : Status(v)' = Status(v)
      BY <1>6, <2>1, <2>2, <3>1, <3>2, StatusKept
    <3>4. Status(w)' = "dropped"
      <4>1. (state[w])' = "deleted" /\ (promise[w])' = FALSE BY <1>5, <2>1, <3>1
      <4>2. QED BY <4>1 DEF Status
    <3>5. Service!Move(w, "pending", "dropped") BY <2>4, <3>3, <3>4, Moved
    <3>6. Service!Reject(w) BY <1>2, <2>1, <2>5, <3>5 DEF Service!Reject
    <3>7. QED BY <3>6 DEF Service!Next
  <2>6. CASE w \notin InitFails /\ pc' = [pc EXCEPT ![t] = "work"] /\ UNCHANGED <<state, work>>
    <3>1. Doing(t)' = w BY <1>3, <1>7, <2>6
    <3>2. \A v \in Works \ {w} : Status(v)' = Status(v)
      BY <1>6, <2>1, <2>2, <2>6, <3>1, WorksAssumption, StatusKept
    <3>3. Status(w)' = "running"
      <4>1. (state[w])' = "live" /\ (promise[w])' = FALSE BY <1>5, <2>1, <2>6
      <4>2. Busy(w)' BY <1>8, <3>1
      <4> HIDE DEF Busy
      <4>3. QED BY <4>1, <4>2 DEF Status
    <3>4. Service!Move(w, "pending", "running") BY <2>4, <3>2, <3>3, Moved
    <3>5. Service!Start(w) BY <1>2, <2>1, <2>6, <3>4 DEF Service!Start
    <3>6. QED BY <3>5 DEF Service!Next
  <2>7. QED BY <1>3, <1>9, <2>5, <2>6 DEF RunBegin
<1>10. CASE RunCommit(t)
  <2>1. PICK c \in Works : c = Child[w]
    BY <1>3, <1>10, WorksAssumption DEF RunCommit
  <2>2. /\ state[c] = "fresh" /\ state' = [state EXCEPT ![c] = "live"]
        /\ UNCHANGED <<work, times_, promise>> /\ pc[t] = "work"
    BY <1>3, <1>10, <2>1 DEF RunCommit
  <2>3. Doing(t)' = Doing(t) BY <1>7, <2>2 DEF Doing
  <2>4. Service!Commit(c) BY <1>2, <1>6, <2>2, <2>3, Committed
  <2>5. QED BY <2>4 DEF Service!Next
<1>11. CASE RunEnd(t)
  <2>1. /\ promise' = [promise EXCEPT ![w] = @ \/ times_[w] = 1]
        /\ times_' = [times_ EXCEPT ![w] = IF @ > 0 THEN @ - 1 ELSE @]
        /\ work' = [work EXCEPT ![t] = Null] /\ pc[t] = "work"
        /\ \/ times_'[w] = 0 /\ Delete({w})
           \/ times_'[w] # 0 /\ UNCHANGED state
    BY <1>3, <1>11 DEF RunEnd
  <2>2. Doing(t) = w BY <1>3, <2>1 DEF Doing
  <2>3. Doing(t)' = Null BY <1>1, <1>7, <2>1 DEF TypeOK
  <2>4. Busy(w) /\ ~Busy(w)' BY <1>4, <1>6, <1>8, <2>2, <2>3, BusyMeans
  <2>5. Status(w) = "running" BY <1>4, <2>4, HeldStatus
  <2>6. /\ times_[w] \in Int /\ times_ \in [Works -> Int] /\ promise \in [Works -> BOOLEAN]
        /\ times_'[w] = IF times_[w] > 0 THEN times_[w] - 1 ELSE times_[w]
        /\ promise'[w] = (times_[w] = 1)
        /\ \A v \in Works \ {w} : state'[v] = state[v] /\ promise'[v] = promise[v]
    BY <1>1, <1>5, <2>1 DEF TypeOK, Delete
  <2>7. \A v \in Works \ {w} : Status(v)' = Status(v)
    BY <1>6, <2>2, <2>3, <2>6, WorksAssumption, StatusKept
  <2>8. times_'[w] = 0 <=> times_[w] \in {0, 1} BY <2>6
  <2>9. CASE times_[w] = 1
    <3>1. state'[w] = "deleted" BY <2>1, <2>8, <2>9 DEF Delete
    <3>2. Status(w)' = "done"
      <4>1. (state[w])' = "deleted" /\ (promise[w])' = TRUE BY <2>6, <2>9, <3>1
      <4>2. QED BY <4>1 DEF Status
    <3>3. Service!Move(w, "running", "done") BY <2>5, <2>7, <3>2, Moved
    <3>4. times_' = [times_ EXCEPT ![w] = 0] BY <2>1, <2>6, <2>9
    <3>5. Service!FinishLast(w) BY <1>2, <2>9, <3>3, <3>4 DEF Service!FinishLast
    <3>6. QED BY <3>5 DEF Service!Next
  <2>10. CASE times_[w] = 0
    <3>1. state'[w] = "deleted" BY <2>1, <2>8, <2>10 DEF Delete
    <3>2. Status(w)' = "dropped"
      <4>1. times_[w] # 1 BY <2>10
      <4>2. (state[w])' = "deleted" /\ (promise[w])' = FALSE BY <2>6, <3>1, <4>1
      <4>3. QED BY <4>2 DEF Status
    <3>3. Service!Move(w, "running", "dropped") BY <2>5, <2>7, <3>2, Moved
    <3>4. times_' = times_ BY <2>1, <2>6, <2>10
    <3>5. Service!FinishNone(w) BY <1>2, <2>10, <3>3, <3>4 DEF Service!FinishNone
    <3>6. QED BY <3>5 DEF Service!Next
  <2>11. CASE times_[w] \notin {0, 1}
    <3>1. UNCHANGED state BY <2>1, <2>8, <2>11
    <3>2. Status(w)' = "pending"
      <4>1. (state[w])' = "live" /\ (promise[w])' = FALSE BY <1>5, <2>6, <2>11, <3>1
      <4> HIDE DEF Busy
      <4>2. QED BY <2>4, <4>1 DEF Status
    <3>3. Service!Move(w, "running", "pending") BY <2>5, <2>7, <3>2, Moved
    <3>4. Service!FinishOne(w) BY <1>2, <2>1, <2>11, <3>3 DEF Service!FinishOne
    <3>5. QED BY <3>4 DEF Service!Next
  <2>12. QED BY <2>9, <2>10, <2>11
<1>12. QED BY <1>9, <1>10, <1>11

(* A worker takes works without being seen; the pool sees it run them.     *)
LEMMA WorkersServe ==
  ASSUME IInv, NEW t \in Workers,
         (\E i \in Ids : t = Primary(i) /\ PrimaryStep(i))
           \/ (t \in Secondaries /\ SecondaryStep(t))
  PROVE  Service!Next \/ UNCHANGED Service!wvars
<1> USE DEF flagVars, lifeVars, poolVars, cacheVars, timerVars, sizeVars, loopVars,
            callVars, workVars, At, Goto
<1>1. TypeOK /\ CallInv /\ StealInv /\ t \in Threads BY ThreadFacts DEF IInv
<1>2. Frame(t) /\ UNCHANGED has_stop_
  BY <1>1, PrimaryFrame, SecondaryFrame DEF SamePool
<1>3. CASE WorkStep(t)
  BY <1>1, <1>3, RunServes, PushServes DEF WorkStep
<1>4. ASSUME UNCHANGED <<state, times_, promise>>, Doing(t)' = Doing(t)
      PROVE  UNCHANGED Service!wvars
  <2>1. \A s \in Workers : Doing(s)' = Doing(s) BY <1>1, <1>2, <1>4, OthersDo
  <2>2. QED BY <1>2, <1>4, <2>1, Unseen
<1>5. pc[t] \notin {"run", "work"} \cup Pushing => work[t] = Null
  BY <1>1 DEF CallInv, CallAt, Employed
<1>6. ASSUME NEW i \in Ids, t = Primary(i), PrimaryStep(i), ~WorkStep(t)
      PROVE  UNCHANGED Service!wvars
  <2>1. UNCHANGED <<state, times_, promise>> /\ pc[t] \in {"loop"} \cup Filling
    BY <1>6 DEF PrimaryStep, PrimaryLoop, PrimaryLock, PrimaryPick, StealBegin, StealTryLock,
       StealTake, StealEnd, PopFrontBatch, TryPopFrontBatch, Filling
  <2>2. CASE PrimaryPick(i)
    <3>1. pc'[t] = "run" \/ work'[t] = work[t]
      BY <1>1, <1>6, <2>2 DEF PrimaryPick, TypeOK
    <3>2. work[t] = Null /\ pc[t] # "run" BY <1>5, <2>1 DEF Filling, Pushing
    <3>3. Doing(t)' = Doing(t) BY <3>1, <3>2 DEF Doing
    <3>4. QED BY <1>4, <2>1, <3>3
  <2>3. CASE \/ PrimaryLoop(i) \/ PrimaryLock(i) \/ StealBegin(i) \/ StealTryLock(i)
             \/ StealTake(i) \/ StealEnd(i) \/ PopFrontBatch(i) \/ TryPopFrontBatch(i)
    <3>1. UNCHANGED work
      BY <2>3 DEF PrimaryLoop, PrimaryLock, StealBegin, StealTryLock,
         StealTake, StealEnd, PopFrontBatch, TryPopFrontBatch
    <3>2. work[t] = Null BY <1>5, <2>1 DEF Filling, Pushing
    <3>3. Doing(t)' = Doing(t) BY <3>1, <3>2 DEF Doing
    <3>4. QED BY <1>4, <2>1, <3>3
  <2>4. QED BY <1>6, <2>2, <2>3 DEF PrimaryStep
<1>7. ASSUME SecondaryStep(t), ~WorkStep(t)
      PROVE  UNCHANGED Service!wvars
  <2>1. /\ UNCHANGED <<state, times_, promise>> /\ pc[t] \in {"loop", "pop"}
        /\ (pc'[t] = "run" \/ work'[t] = work[t])
    BY <1>1, <1>7 DEF SecondaryStep, SecondaryLoop, SecondaryPop, TypeOK
  <2>2. work[t] = Null BY <1>5, <2>1 DEF Pushing
  <2>3. Doing(t)' = Doing(t) BY <2>1, <2>2 DEF Doing
  <2>4. QED BY <1>4, <2>1, <2>3
<1>8. QED BY <1>3, <1>6, <1>7

(* Timer, monitor and main thread: only Exit is seen, and what it deletes. *)
LEMMA OthersServe ==
  ASSUME IInv, \/ TimerStep \/ MonitorWake \/ MonitorScan \/ ChangeStep(Main)
               \/ ChangeStep(Monitor) \/ StartPrimary \/ StartOthers \/ MainGoes
               \/ \E w \in Works : Commit(w)
  PROVE  Service!Next \/ UNCHANGED Service!wvars
<1> USE DEF flagVars, lifeVars, poolVars, cacheVars, timerVars, sizeVars, loopVars,
            callVars, workVars, At, Goto
<1>1. TypeOK /\ CallInv /\ ControlInv /\ SecondaryInv /\ ChangeInv /\ MainInv BY DEF IInv
<1>2. /\ {Main, Timer, Monitor} \subseteq Threads /\ {Main, Timer, Monitor} \cap Workers = {}
      /\ Workers \subseteq Threads
  BY ThreadFacts
<1>3. ASSUME NEW t \in {Main, Timer, Monitor}, Frame(t)
      PROVE  \A s \in Workers : Doing(s)' = Doing(s)
  BY <1>2, <1>3, OthersDo
<1>4. CASE TimerStep
  <2>1. Frame(Timer) /\ UNCHANGED has_stop_ BY <1>1, <1>4, TimerFrame DEF SamePool
  <2>2. CASE Push(Timer) BY <1>2, <2>2, PushServes
  <2>3. CASE ~Push(Timer)
    <3>1. UNCHANGED <<state, times_, promise>>
      BY <1>4, <2>3 DEF TimerStep, TimerLoop, TimerFire, TimerNothingDue, TimerTake, TimerStopped,
         TimerTimeout
    <3>2. QED BY <1>3, <2>1, <3>1, Unseen
  <2>4. QED BY <2>2, <2>3
<1>5. CASE MonitorWake \/ MonitorScan
  <2>1. Frame(Monitor) /\ UNCHANGED has_stop_ BY <1>1, <1>5, MonitorFrame
  <2>2. UNCHANGED <<state, times_, promise>> BY <1>5 DEF MonitorWake, MonitorScan
  <2>3. QED BY <1>3, <2>1, <2>2, Unseen
<1>6. ASSUME NEW m \in {Main, Monitor}, ChangeMove(m), UNCHANGED <<has_stop_, workVars>>
      PROVE  UNCHANGED Service!wvars
  <2>1. ASSUME NEW s \in Workers PROVE Doing(s)' = Doing(s)
    <3>1. s \in Threads \ {m} BY <1>2
    <3>2. work'[s] = work[s] /\ \/ pc'[s] = pc[s]
                                \/ pc[s] \in {"unborn", "exited"} /\ pc'[s] \in {"unborn", "loop"}
      BY <1>6, <3>1 DEF ChangeMove
    <3>3. QED BY <3>2 DEF Doing
  <2>2. QED BY <1>6, <2>1, Unseen
<1>7. CASE ChangeStep(Main) \/ ChangeStep(Monitor)
  BY <1>1, <1>6, <1>7, MainChanges, MonitorChanges
<1>8. CASE StartPrimary \/ StartOthers
  <2>1. /\ UNCHANGED <<has_stop_, state, times_, promise, work>>
        /\ \/ pc' = [pc EXCEPT ![Primary(created)] = "loop"] /\ pc[Primary(created)] = "unborn"
           \/ UNCHANGED pc
           \/ pc' = [pc EXCEPT ![Main] = "init", ![Timer] = "loop", ![Monitor] = "sleep"]
    BY <1>1, <1>8, StartFrame
  <2>2. ASSUME NEW s \in Workers PROVE Doing(s)' = Doing(s)
    <3>1. s \in Threads /\ s \notin {Main, Timer, Monitor} BY <1>2
    <3>2. pc \in [Threads -> PcValues] BY <1>1 DEF TypeOK
    <3>3. CASE s = Primary(created)
      <4>1. pc'[s] = pc[s] \/ (pc[s] = "unborn" /\ pc'[s] = "loop")
        BY <2>1, <3>1, <3>2, <3>3
      <4>2. QED BY <2>1, <4>1 DEF Doing
    <3>4. CASE s # Primary(created)
      <4>1. pc'[s] = pc[s] BY <2>1, <3>1, <3>2, <3>4
      <4>2. QED BY <2>1, <4>1 DEF Doing
    <3>5. QED BY <3>3, <3>4
  <2>3. QED BY <2>1, <2>2, Unseen
<1>9. ASSUME NEW w \in Works, Commit(w) PROVE Service!Next
  <2>1. Frame(Main) /\ UNCHANGED has_stop_ BY <1>1, <1>9, CommitFrame DEF SamePool
  <2>2. /\ state[w] = "fresh" /\ state' = [state EXCEPT ![w] = "live"]
        /\ UNCHANGED <<times_, promise>>
    BY <1>9 DEF Commit
  <2>3. Service!Commit(w) BY <1>3, <2>1, <2>2, Committed
  <2>4. QED BY <2>3 DEF Service!Next
<1>10. CASE MainGoes
  <2>1. Frame(Main) BY <1>1, <1>10, MainFrame
  <2>2. \A s \in Workers : Doing(s)' = Doing(s) BY <1>3, <2>1
  <2>3. UNCHANGED <<times_, promise>>
    BY <1>10 DEF MainGoes, SetInit, Exit, StopMonitor, JoinMonitor, StopTimer, StopTimerQueue,
       JoinTimer, StopPrimary, StopQueue, JoinPrimary, DeleteRunnables, DeleteQueues, StopThread
  <2>4. pc[Main] \in {"join_timer", "stop_primary"} => has_stop_
    BY <1>1 DEF MainInv, AfterExit, AfterSizes, TimerEndAt, LoopEndAt
  <2>5. CASE Exit
    <3>1. has_stop_' = TRUE /\ UNCHANGED state BY <2>5 DEF Exit
    <3>2. \A w \in Works : Status(w)' = Status(w) BY <2>2, <2>3, <3>1, StatusKept
    <3> HIDE DEF Status
    <3>3. Service!Exit BY <2>3, <3>1, <3>2 DEF Service!Exit
    <3>4. QED BY <3>3 DEF Service!Next
  <2>6. CASE JoinTimer
    <3>1. /\ has_stop_ /\ UNCHANGED has_stop_ /\ Delete(priority_queue_)
      BY <2>4, <2>6 DEF JoinTimer
    <3>2. priority_queue_ \in SUBSET Works BY <1>1 DEF TypeOK
    <3>3. ASSUME NEW w \in priority_queue_
          PROVE  Status(w) = "pending" /\ promise[w] = FALSE
      <4>1. w \in Works /\ w \in Contents(<<"held", 0>>) /\ <<"held", 0>> \in Containers
        BY <3>2, Places7
      <4>2. QED BY <4>1, PendingOutside, HeldStatus
    <3>4. Service!DropAll(priority_queue_) BY <2>2, <2>3, <3>1, <3>2, <3>3, Dropped
    <3>5. QED BY <3>2, <3>4 DEF Service!Next
  <2>7. CASE DeleteRunnables
    <3> DEFINE S == UNION {Elements(cache_queue_[i]) : i \in Ids}
    <3>1. /\ has_stop_ /\ UNCHANGED has_stop_ /\ Delete(S)
      BY <2>4, <2>7 DEF DeleteRunnables
    <3>2. S \in SUBSET Works
      <4>1. \A i \in Ids : cache_queue_[i] \in Seq(Works) BY <1>1 DEF TypeOK
      <4>2. QED BY <4>1, WorkSeqs
    <3>3. ASSUME NEW w \in S
          PROVE  Status(w) = "pending" /\ promise[w] = FALSE
      <4>1. PICK i \in Ids : w \in Elements(cache_queue_[i]) OBVIOUS
      <4>2. /\ w \in Works /\ w \in Contents(<<"cache", i>>) /\ <<"cache", i>> \in Containers
        BY <3>2, <4>1, Places7
      <4>3. QED BY <4>2, PendingOutside, HeldStatus
    <3> HIDE DEF S
    <3>4. Service!DropAll(S) BY <2>2, <2>3, <3>1, <3>2, <3>3, Dropped
    <3>5. QED BY <3>2, <3>4 DEF Service!Next
  <2>8. CASE \/ SetInit \/ StopMonitor \/ JoinMonitor \/ StopTimer \/ StopTimerQueue
             \/ StopPrimary \/ StopQueue \/ JoinPrimary \/ DeleteQueues
    <3>1. UNCHANGED <<has_stop_, state>>
      BY <2>8 DEF SetInit, StopMonitor, JoinMonitor, StopTimer, StopTimerQueue, StopPrimary,
         StopQueue, JoinPrimary, DeleteQueues, StopThread
    <3>2. QED BY <2>2, <2>3, <3>1, Unseen
  <2>9. QED BY <1>10, <2>5, <2>6, <2>7, <2>8 DEF MainGoes
<1>11. QED BY <1>4, <1>5, <1>7, <1>8, <1>9, <1>10

(* A work is run by one thread at a time and as often as it asked for; its *)
(* last run and no other releases its future, and it is given up only when *)
(* its Init fails or after Exit.                                           *)
THEOREM PoolImplements == Spec => ImplementsWorkService
<1>1. Init => Service!Init
  <2> SUFFICES ASSUME Init PROVE Service!Init
    OBVIOUS
  <2>1. has_stop_ = FALSE /\ times_ = Times /\ \A w \in Works : state[w] = "fresh"
    BY DEF Init
  <2>2. \A w \in Works : Status(w) = "fresh" BY <2>1 DEF Status
  <2> HIDE DEF Status
  <2>3. QED BY <2>1, <2>2 DEF Service!Init
<1>2. IInv /\ [Next]_vars => [Service!Next]_(Service!wvars)
  <2> SUFFICES ASSUME IInv, [Next]_vars PROVE Service!Next \/ UNCHANGED Service!wvars
    OBVIOUS
  <2>1. ASSUME NEW i \in Ids, PrimaryStep(i) PROVE Service!Next \/ UNCHANGED Service!wvars
    <3>1. Primary(i) \in Workers BY ThreadFacts
    <3>2. QED BY <2>1, <3>1, WorkersServe
  <2>2. ASSUME NEW t \in Secondaries, SecondaryStep(t)
        PROVE  Service!Next \/ UNCHANGED Service!wvars
    <3>1. t \in Workers BY ThreadFacts
    <3>2. QED BY <2>2, <3>1, WorkersServe
  <2>3. CASE Push(Main)
    <3>1. Main \in Threads BY ThreadFacts
    <3>2. QED BY <2>3, <3>1, PushServes
  <2>4. CASE UNCHANGED vars
    <3>1. \A t \in Workers : Doing(t)' = Doing(t) BY <2>4 DEF vars, callVars, Doing
    <3>2. QED BY <2>4, <3>1, Unseen DEF vars, flagVars, workVars
  <2>5. QED BY <2>1, <2>2, <2>3, <2>4, OthersServe, Steps
<1>3. QED BY <1>1, <1>2, PoolInvariant, PTL DEF Spec, ImplementsWorkService, Service!Spec
-----------------------------------------------------------------------------
(* Exit stops every queue before it deletes them, one by one.              *)
StoppedInv ==
  /\ pc[Main] \in LoopEndAt => \A i \in Ids : i < idx[Main] => queue_stop[i]
  /\ pc[Main] = "join_primary" => queue_stop[idx[Main]]
  /\ pc[Main] \in LastAt => \A i \in Ids : queue_stop[i]

(* Steps of the other threads, and of the main one before it stops queues. *)
LEMMA StoppedStays ==
  ASSUME StoppedInv, queue_stop' = queue_stop,
         \/ pc'[Main] = pc[Main] /\ idx'[Main] = idx[Main]
         \/ pc'[Main] \notin LoopEndAt \cup LastAt
  PROVE  StoppedInv'
<1>1. CASE pc'[Main] \notin LoopEndAt \cup LastAt
  BY <1>1 DEF StoppedInv, LoopEndAt
<1>2. CASE pc'[Main] = pc[Main] /\ idx'[Main] = idx[Main]
  BY <1>2 DEF StoppedInv
<1> QED
  BY <1>1, <1>2

(* The loop over the queues: none is passed that was not stopped.          *)
LEMMA StoppedGoes ==
  ASSUME TypeOK, MainInv, StoppedInv, MainGoes
  PROVE  StoppedInv'
<1> USE DEF At, Goto
<1>1. /\ Main \in Threads /\ pc \in [Threads -> PcValues] /\ idx \in [Threads -> 0..PoolSize]
      /\ queue_stop \in [Ids -> BOOLEAN]
  BY ThreadFacts DEF TypeOK
<1>2. \A i \in Ids : i \in Nat /\ i < PoolSize /\ ~(i < 0)
  BY PoolAssumption DEF Ids
<1>3. CASE SetInit \/ Exit \/ StopMonitor \/ JoinMonitor \/ StopTimer \/ StopTimerQueue
  <2>1. queue_stop' = queue_stop
    BY <1>3 DEF SetInit, Exit, StopMonitor, JoinMonitor, StopTimer, StopTimerQueue, StopThread,
       lifeVars
  <2>2. pc'[Main] \in {"user", "stop_monitor", "join_monitor", "change", "stop_timer_queue",
                       "join_timer"}
    BY <1>1, <1>3 DEF SetInit, Exit, StopMonitor, JoinMonitor, StopTimer, StopTimerQueue,
       StopThread
  <2> QED
    BY <2>1, <2>2, StoppedStays DEF LoopEndAt, LastAt
<1>4. CASE JoinTimer
  <2>1. pc'[Main] = "stop_primary" /\ idx'[Main] = 0
    BY <1>1, <1>4 DEF JoinTimer
  <2> QED
    BY <1>2, <2>1 DEF StoppedInv, LastAt
<1>5. CASE StopPrimary
  <2>1. /\ pc[Main] = "stop_primary" /\ pc'[Main] = "stop_queue"
        /\ idx' = idx /\ queue_stop' = queue_stop
    BY <1>1, <1>5 DEF StopPrimary, StopThread, loopVars, lifeVars
  <2> QED
    BY <2>1 DEF StoppedInv, LoopEndAt, LastAt
<1>6. CASE StopQueue
  <2>1. /\ pc[Main] = "stop_queue" /\ pc'[Main] = "join_primary" /\ idx' = idx
        /\ queue_stop' = [queue_stop EXCEPT ![idx[Main]] = TRUE]
    BY <1>1, <1>6 DEF StopQueue, loopVars
  <2>2. idx[Main] \in Ids
    BY <2>1 DEF MainInv
  <2>3. \A i \in Ids : queue_stop[i] => queue_stop'[i]
    BY <1>1, <2>1, <2>2
  <2>4. queue_stop'[idx[Main]]
    BY <1>1, <2>1, <2>2
  <2> QED
    BY <2>1, <2>3, <2>4 DEF StoppedInv, LoopEndAt, LastAt
<1>7. CASE JoinPrimary
  <2>1. /\ pc[Main] = "join_primary" /\ pc'[Main] = "stop_primary"
        /\ idx'[Main] = idx[Main] + 1 /\ queue_stop' = queue_stop
    BY <1>1, <1>7 DEF JoinPrimary, lifeVars
  <2>2. idx[Main] \in Nat
    BY <1>1
  <2>3. \A i \in Ids : i < idx'[Main] => i < idx[Main] \/ i = idx[Main]
    BY <1>2, <2>1, <2>2
  <2>4. \A i \in Ids : i < idx'[Main] => queue_stop[i]
    BY <2>1, <2>3 DEF StoppedInv, LoopEndAt
  <2> QED
    BY <2>1, <2>4 DEF StoppedInv, LastAt
<1>8. CASE DeleteRunnables
  <2>1. /\ pc[Main] = "stop_primary" /\ idx[Main] = PoolSize
        /\ pc'[Main] = "delete_queues" /\ queue_stop' = queue_stop
    BY <1>1, <1>8 DEF DeleteRunnables
  <2>2. \A i \in Ids : queue_stop[i]
    BY <1>2, <2>1 DEF StoppedInv, LoopEndAt
  <2> QED
    BY <2>1, <2>2 DEF StoppedInv, LoopEndAt
<1>9. CASE DeleteQueues
  <2>1. pc[Main] = "delete_queues" /\ pc'[Main] = "done" /\ queue_stop' = queue_stop
    BY <1>1, <1>9 DEF DeleteQueues
  <2> QED
    BY <2>1 DEF StoppedInv, LoopEndAt, LastAt
<1> QED
  BY <1>3, <1>4, <1>5, <1>6, <1>7, <1>8, <1>9 DEF MainGoes

(* Every step of the pool keeps it.                                        *)
LEMMA NextStopped ==
  ASSUME IInv, StoppedInv, [Next]_vars
  PROVE  StoppedInv'
<1>1. /\ TypeOK /\ ControlInv /\ CallInv /\ SecondaryInv /\ ChangeInv /\ MainInv /\ StealInv
      /\ Main \in Threads
  BY ThreadFacts DEF IInv
<1>2. ASSUME NEW t \in Threads \ {Main}, Frame(t), queue_stop' = queue_stop PROVE StoppedInv'
  <2>1. pc'[Main] = pc[Main] /\ idx'[Main] = idx[Main]
    BY <1>1, <1>2 DEF Frame
  <2> QED
    BY <1>2, <2>1, StoppedStays
<1>3. ASSUME NEW i \in Ids, PrimaryStep(i) PROVE StoppedInv'
  <2>1. Frame(Primary(i)) /\ queue_stop' = queue_stop /\ Primary(i) \in Threads \ {Main}
    BY <1>1, <1>3, PrimaryFrame, ThreadFacts DEF SamePool, lifeVars
  <2> QED
    BY <1>2, <2>1
<1>4. ASSUME NEW t \in Secondaries, SecondaryStep(t) PROVE StoppedInv'
  <2>1. Frame(t) /\ queue_stop' = queue_stop /\ t \in Threads \ {Main}
    BY <1>1, <1>4, SecondaryFrame, ThreadFacts DEF SamePool, lifeVars
  <2> QED
    BY <1>2, <2>1
<1>5. CASE TimerStep
  <2>1. Frame(Timer) /\ queue_stop' = queue_stop /\ Timer \in Threads \ {Main}
    BY <1>1, <1>5, TimerFrame, ThreadFacts DEF SamePool, lifeVars
  <2> QED
    BY <1>2, <2>1
<1>6. CASE MonitorWake \/ MonitorScan
  <2>1. Frame(Monitor) /\ queue_stop' = queue_stop /\ Monitor \in Threads \ {Main}
    BY <1>1, <1>6, MonitorFrame, ThreadFacts DEF lifeVars
  <2> QED
    BY <1>2, <2>1
<1>7. CASE Push(Main) \/ \E w \in Works : Commit(w)
  <2>1. queue_stop' = queue_stop /\ pc'[Main] \in UserAt
    BY <1>1, <1>7, PushFrame, CommitFrame DEF SamePool, lifeVars, UserAt, Pushing, Returns
  <2> QED
    BY <2>1, StoppedStays DEF UserAt, Pushing, LoopEndAt, LastAt
<1>8. CASE ChangeStep(Main)
  <2>1. queue_stop' = queue_stop /\ pc'[Main] \in SizesAt
    BY <1>1, <1>8, MainChanges, ThreadFacts DEF ChangeMove, Scanning, SizesAt, lifeVars
  <2> QED
    BY <2>1, StoppedStays DEF SizesAt, LoopEndAt, LastAt
<1>9. CASE ChangeStep(Monitor)
  <2>1. queue_stop' = queue_stop /\ pc'[Main] = pc[Main] /\ idx'[Main] = idx[Main]
    BY <1>1, <1>9, MonitorChanges, ThreadFacts DEF ChangeMove, lifeVars
  <2> QED
    BY <2>1, StoppedStays
<1>10. CASE StartPrimary \/ StartOthers
  <2>1. queue_stop' = queue_stop /\ pc'[Main] \in {"create", "init"}
    BY <1>1, <1>10, StartFrame
  <2> QED
    BY <2>1, StoppedStays DEF LoopEndAt, LastAt
<1>11. CASE UNCHANGED vars
  BY <1>11, StoppedStays DEF vars, lifeVars, loopVars
<1> QED
  BY <1>1, <1>3, <1>4, <1>5, <1>6, <1>7, <1>8, <1>9, <1>10, <1>11, Steps, StoppedGoes

(* If the system grants all primary threads, every queue is stopped before *)
(* it is deleted: the destructor of ProducerConsumerQueue finds its        *)
(* assertion true in Exit, and only the loop of Initialize that follows a  *)
(* refused thread breaks it.                                               *)
THEOREM StartedPoolStopsItsQueues ==
  ASSUME StartedThreads = PoolSize
  PROVE  Spec => []QueuesStoppedBeforeDelete
<1>1. Init => StoppedInv
  <2>1. Init => pc[Main] = "create"
    BY ThreadFacts DEF Init
  <2> QED
    BY <2>1 DEF StoppedInv, LoopEndAt, LastAt
<1>2. IInv /\ StoppedInv /\ [Next]_vars => StoppedInv'
  BY NextStopped
<1>3. IInv /\ StoppedInv => QueuesStoppedBeforeDelete
  <2> SUFFICES ASSUME IInv, StoppedInv, NEW i \in Ids, i \notin queues PROVE queue_stop[i]
    BY DEF QueuesStoppedBeforeDelete
  <2>1. MainInv
    BY DEF IInv
  <2>2. pc[Main] = "done"
    BY <2>1 DEF MainInv
  <2> QED
    BY <2>2 DEF StoppedInv, LastAt
<1> QED
  BY <1>1, <1>2, <1>3, PoolInvariant, PTL DEF Spec
=============================================================================
