-------------------- MODULE ProducerConsumerQueue_proofs --------------------
(***************************************************************************)
(* Theorems about ProducerConsumerQueue for any finite sets of producers   *)
(* and consumers, any set of values and any width of size_.                *)
(***************************************************************************)
EXTENDS ProducerConsumerQueue, Integers, FiniteSetTheorems, SequenceTheorems, TLAPS

USE DEF Threads, At, Goto, Acquire, Release, Waiting

(* lock_ is held exactly by the thread that is in a critical section. *)
LockInv == \A t \in Threads : Holding(t) <=> lock = t

(* has_stop_ tells how far Stop has come. *)
StopInv == has_stop_ <=> pc[Stopper] \in {"notify", "done"}

(* What a consumer knows about the queue while it holds lock_, and that    *)
(* its call still has something to take until it has taken it.             *)
CallInv ==
  \A c \in Consumers :
    /\ At(c, "block") => queue = <<>> /\ ~has_stop_
    /\ At(c, "take") => queue # <<>> /\ ~has_stop_
    /\ pc[c] \in {"lock", "check", "block", "wait", "take"} => left[c] # 0

BaseInv == TypeOK /\ LockInv /\ StopInv /\ CallInv

LEMMA InitBase == Init => BaseInv
<1> SUFFICES ASSUME Init PROVE BaseInv
  OBVIOUS
<1> USE ThreadsAssumption, BoundsAssumption DEF Init
<1>1. TypeOK
  <2> USE DEF ProducerAt, ConsumerAt, StopperAt
  <2>1. queue \in Seq(Values) /\ result \in [Consumers -> Seq(Values)]
    OBVIOUS
  <2>2. lock \in Threads \cup {Null} /\ size_ \in 0..(SizeModulus - 1)
    OBVIOUS
  <2>6. has_stop_ \in BOOLEAN
    BY Zenon
  <2>3. /\ pc \in [Threads -> ProducerAt \cup ConsumerAt \cup StopperAt]
        /\ \A t \in Threads : pc[t] = "idle"
    <3>1. pc = [t \in Threads |-> "idle"]
      OBVIOUS
    <3>2. "idle" \in ProducerAt \cup ConsumerAt \cup StopperAt
      OBVIOUS
    <3> HIDE DEF Threads, Init
    <3> QED
      BY <3>1, <3>2
  <2>4. fresh \in SUBSET Values /\ value \in [Producers -> Values \cup {Null}]
    OBVIOUS
  <2>5. /\ op \in [Consumers -> Ops] /\ timed_out \in [Consumers -> BOOLEAN]
        /\ left \in [Consumers -> Nat]
    BY DEF Ops, Single, Batch
  <2> QED
    BY <2>1, <2>2, <2>3, <2>4, <2>5, <2>6 DEF TypeOK
<1>2. LockInv
  BY DEF LockInv, Holding
<1>3. StopInv
  BY DEF StopInv
<1>4. CallInv
  BY DEF CallInv
<1> QED
  BY <1>1, <1>2, <1>3, <1>4 DEF BaseInv

(* size_ stays in the range of its type. *)
LEMMA SizeRange ==
  ASSUME NEW s \in 0..(SizeModulus - 1)
  PROVE  /\ (s + 1) % SizeModulus \in 0..(SizeModulus - 1)
         /\ (s + SizeModulus - 1) % SizeModulus \in 0..(SizeModulus - 1)
  BY BoundsAssumption

(* PushNotify wakes one of the sleepers or nobody. *)
LEMMA NotifyWakes ==
  ASSUME NEW p \in Producers, PushNotify(p)
  PROVE  \/ pc' = [pc EXCEPT ![p] = "idle"]
         \/ \E c \in Consumers : /\ pc[c] = "wait"
                                 /\ pc' = [pc EXCEPT ![p] = "idle", ![c] = "lock"]
  BY Zenon DEF PushNotify

LEMMA PushType ==
  ASSUME TypeOK, NEW p \in Producers,
         PushStep(p) \/ \E v \in Values : PushBegin(p, v)
  PROVE  TypeOK'
<1> USE ThreadsAssumption DEF TypeOK, pushing, popping, ProducerAt
<1>1. ASSUME NEW v \in Values, PushBegin(p, v) PROVE TypeOK'
  <2>1. \/ pc' = pc /\ value' = value
        \/ /\ pc' = [pc EXCEPT ![p] = "lock"]
           /\ value' = [value EXCEPT ![p] = v]
    BY <1>1, Zenon DEF PushBegin
  <2>2. /\ queue' = queue /\ lock' = lock /\ has_stop_' = has_stop_
        /\ size_' = size_ /\ op' = op /\ timed_out' = timed_out
        /\ left' = left /\ result' = result /\ fresh' \in SUBSET Values
    BY <1>1 DEF PushBegin
  <2>3. CASE pc' = pc /\ value' = value
    BY <2>2, <2>3
  <2>4. CASE /\ pc' = [pc EXCEPT ![p] = "lock"]
             /\ value' = [value EXCEPT ![p] = v]
    BY <2>2, <2>4
  <2> QED
    BY <2>1, <2>3, <2>4
<1>2. CASE PushLock(p)
  BY <1>2 DEF PushLock
<1>3. CASE PushLink(p)
  BY <1>3 DEF PushLink
<1>4. CASE PushCount(p)
  <2>1. size_' \in 0..(SizeModulus - 1)
    BY <1>4, SizeRange DEF PushCount
  <2>2. /\ pc[p] = "count" /\ pc' = [pc EXCEPT ![p] = "notify"]
        /\ UNCHANGED <<queue, lock, has_stop_, pushing, popping>>
    BY <1>4, Zenon DEF PushCount
  <2> QED
    BY <2>1, <2>2
<1>5. CASE PushNotify(p)
  <2>1. UNCHANGED <<queue, lock, has_stop_, size_, pushing, popping>>
    BY <1>5, Zenon DEF PushNotify
  <2>2. CASE pc' = [pc EXCEPT ![p] = "idle"]
    BY <2>1, <2>2
  <2>3. ASSUME NEW c \in Consumers, pc' = [pc EXCEPT ![p] = "idle", ![c] = "lock"]
        PROVE  TypeOK'
    <3>1. /\ pc' \in [Threads -> ProducerAt \cup ConsumerAt \cup StopperAt]
          /\ pc'[c] = "lock" /\ pc'[p] = "idle"
          /\ \A t \in Threads \ {c, p} : pc'[t] = pc[t]
      BY <2>3 DEF ConsumerAt
    <3> QED
      BY <2>1, <3>1 DEF ConsumerAt
  <2> QED
    BY <1>5, <2>2, <2>3, NotifyWakes
<1> QED
  BY <1>1, <1>2, <1>3, <1>4, <1>5 DEF PushStep

LEMMA PopType ==
  ASSUME TypeOK, CallInv, NEW c \in Consumers,
         \/ PopStep(c) \/ PopSpuriousWakeup(c) \/ PopTimeout(c)
         \/ \E o \in Ops : PopBegin(c, o) \/ TryPopBegin(c, o)
  PROVE  TypeOK'
<1> USE ThreadsAssumption DEF TypeOK, pushing, popping, ConsumerAt
<1>1. ASSUME NEW o \in Ops, PopBegin(c, o) \/ TryPopBegin(c, o) PROVE TypeOK'
  <2>1. /\ op' \in [Consumers -> Ops] /\ timed_out' \in [Consumers -> BOOLEAN]
        /\ left' \in [Consumers -> Nat]
    <3>1. StartCall(c, o)
      BY <1>1 DEF PopBegin, TryPopBegin
    <3>2. (IF o \in Batch THEN MaxNum ELSE 1) \in Nat
      BY BoundsAssumption
    <3> QED
      BY <3>1, <3>2 DEF StartCall
  <2>2. CASE PopBegin(c, o)
    BY <2>1, <2>2 DEF PopBegin
  <2>3. CASE TryPopBegin(c, o)
    BY <2>1, <2>3 DEF TryPopBegin
  <2> QED
    BY <1>1, <2>2, <2>3
<1>2. CASE PopLock(c)
  BY <1>2 DEF PopLock
<1>3. CASE PopStopped(c)
  BY <1>3 DEF PopStopped
<1>4. CASE PopFound(c)
  BY <1>4 DEF PopFound
<1>5. CASE PopEmpty(c)
  <2>1. /\ \/ lock' = Null /\ pc' = [pc EXCEPT ![c] = "idle"]
           \/ lock' = lock /\ pc' = [pc EXCEPT ![c] = "block"]
        /\ UNCHANGED <<queue, has_stop_, size_, pushing, popping>>
    BY <1>5, Zenon DEF PopEmpty
  <2> QED
    BY <2>1
<1>6. CASE PopBlock(c)
  BY <1>6 DEF PopBlock
<1>7. CASE PopSpuriousWakeup(c)
  BY <1>7 DEF PopSpuriousWakeup
<1>8. CASE PopTimeout(c)
  BY <1>8 DEF PopTimeout
<1>9. ASSUME At(c, "take"), Unlink(c)
      PROVE  /\ queue' \in Seq(Values) /\ left' \in [Consumers -> Nat]
             /\ result' \in [Consumers -> Seq(Values)]
  <2>1. queue # <<>> /\ left[c] \in Nat \ {0}
    BY <1>9 DEF CallInv
  <2>2. Head(queue) \in Values /\ Tail(queue) \in Seq(Values)
    BY <2>1
  <2> QED
    BY <1>9, <2>1, <2>2 DEF Unlink
<1>10. CASE PopTake(c)
  BY <1>9, <1>10 DEF PopTake
<1>11. CASE PopCount(c)
  <2>1. size_' \in 0..(SizeModulus - 1)
    BY <1>11, SizeRange DEF PopCount
  <2>2. /\ pc' = [pc EXCEPT ![c] = "return"]
        /\ UNCHANGED <<queue, lock, has_stop_, pushing, popping>>
    BY <1>11, Zenon DEF PopCount
  <2> QED
    BY <2>1, <2>2
<1>12. CASE PopTakeBatch(c)
  <2>1. size_' \in 0..(SizeModulus - 1)
    BY <1>12, SizeRange DEF PopTakeBatch
  <2>2. /\ At(c, "take") /\ Unlink(c)
        /\ \/ lock' = lock /\ pc' = pc
           \/ Release /\ pc' = [pc EXCEPT ![c] = "return"]
        /\ UNCHANGED <<has_stop_, pushing, op, timed_out>>
    BY <1>12, Zenon DEF PopTakeBatch
  <2>3. /\ queue' \in Seq(Values) /\ left' \in [Consumers -> Nat]
        /\ result' \in [Consumers -> Seq(Values)]
    BY <1>9, <2>2
  <2>4. CASE lock' = lock /\ pc' = pc
    BY <2>1, <2>2, <2>3, <2>4
  <2>5. CASE Release /\ pc' = [pc EXCEPT ![c] = "return"]
    BY <2>1, <2>2, <2>3, <2>5
  <2> QED
    BY <2>2, <2>4, <2>5
<1>13. CASE PopReturn(c)
  BY <1>13 DEF PopReturn
<1> QED
  BY <1>1, <1>2, <1>3, <1>4, <1>5, <1>6, <1>7, <1>8, <1>10, <1>11, <1>12,
     <1>13 DEF PopStep

LEMMA StopType ==
  ASSUME TypeOK, StopStep
  PROVE  TypeOK'
<1> USE ThreadsAssumption DEF TypeOK, pushing, popping
<1>1. CASE StopLock
  BY <1>1 DEF StopLock, StopperAt
<1>2. CASE StopSet
  BY <1>2 DEF StopSet, StopperAt
<1>3. CASE StopNotify
  BY <1>3 DEF StopNotify, StopperAt, ConsumerAt
<1> QED
  BY <1>1, <1>2, <1>3 DEF StopStep

(* Every step keeps the types. *)
LEMMA NextType ==
  ASSUME TypeOK, CallInv, [Next]_vars
  PROVE  TypeOK'
<1>1. CASE UNCHANGED vars
  BY <1>1 DEF vars, TypeOK
<1> QED
  BY <1>1, PushType, PopType, StopType DEF Next

(* A step of thread t moves t, and only NotifyOne and NotifyAll move other *)
(* threads: from wait to lock.                                             *)
LEMMA NextLock ==
  ASSUME TypeOK, LockInv, [Next]_vars
  PROVE  LockInv'
<1> USE ThreadsAssumption DEF TypeOK, LockInv, Holding, pushing, popping
<1>1. ASSUME NEW p \in Producers,
             PushStep(p) \/ \E v \in Values : PushBegin(p, v)
      PROVE  LockInv'
  <2>1. ASSUME NEW v \in Values, PushBegin(p, v) PROVE LockInv'
    BY <2>1 DEF PushBegin
  <2>2. CASE PushLock(p)
    BY <2>2 DEF PushLock
  <2>3. CASE PushLink(p)
    BY <2>3 DEF PushLink
  <2>4. CASE PushCount(p)
    <3>1. /\ pc[p] = "count" /\ pc' = [pc EXCEPT ![p] = "notify"]
          /\ UNCHANGED <<queue, lock, has_stop_, pushing, popping>>
      BY <2>4, Zenon DEF PushCount
    <3> QED
      BY <3>1
  <2>5. CASE PushNotify(p)
    <3>1. UNCHANGED <<queue, lock, has_stop_, pushing, popping>> /\ pc[p] = "notify"
      BY <2>5, Zenon DEF PushNotify
    <3>2. CASE pc' = [pc EXCEPT ![p] = "idle"]
      BY <3>1, <3>2
    <3>3. ASSUME NEW c \in Consumers, pc[c] = "wait",
                 pc' = [pc EXCEPT ![p] = "idle", ![c] = "lock"]
          PROVE  LockInv'
      BY <3>1, <3>3
    <3> QED
      BY <2>5, <3>2, <3>3, NotifyWakes
  <2> QED
    BY <1>1, <2>1, <2>2, <2>3, <2>4, <2>5 DEF PushStep
<1>2. ASSUME NEW c \in Consumers,
             \/ PopStep(c) \/ PopSpuriousWakeup(c) \/ PopTimeout(c)
             \/ \E o \in Ops : PopBegin(c, o) \/ TryPopBegin(c, o)
      PROVE  LockInv'
  <2>1. ASSUME NEW o \in Ops, PopBegin(c, o) PROVE LockInv'
    BY <2>1 DEF PopBegin
  <2>2. ASSUME NEW o \in Ops, TryPopBegin(c, o) PROVE LockInv'
    BY <2>2 DEF TryPopBegin
  <2>3. CASE PopLock(c)
    BY <2>3 DEF PopLock
  <2>4. CASE PopStopped(c)
    BY <2>4 DEF PopStopped
  <2>5. CASE PopFound(c)
    BY <2>5 DEF PopFound
  <2>6. CASE PopEmpty(c)
    BY <2>6 DEF PopEmpty
  <2>7. CASE PopBlock(c)
    BY <2>7 DEF PopBlock
  <2>8. CASE PopSpuriousWakeup(c)
    BY <2>8 DEF PopSpuriousWakeup
  <2>9. CASE PopTimeout(c)
    BY <2>9 DEF PopTimeout
  <2>10. CASE PopTake(c)
    BY <2>10 DEF PopTake
  <2>11. CASE PopCount(c)
    BY <2>11 DEF PopCount
  <2>12. CASE PopTakeBatch(c)
    BY <2>12 DEF PopTakeBatch
  <2>13. CASE PopReturn(c)
    BY <2>13 DEF PopReturn
  <2> QED
    BY <1>2, <2>1, <2>2, <2>3, <2>4, <2>5, <2>6, <2>7, <2>8, <2>9, <2>10,
       <2>11, <2>12, <2>13 DEF PopStep
<1>3. CASE StopStep
  <2>1. CASE StopLock
    BY <2>1 DEF StopLock
  <2>2. CASE StopSet
    BY <2>2 DEF StopSet
  <2>3. CASE StopNotify
    BY <2>3 DEF StopNotify
  <2> QED
    BY <1>3, <2>1, <2>2, <2>3 DEF StopStep
<1>4. CASE UNCHANGED vars
  BY <1>4 DEF vars
<1> QED
  BY <1>1, <1>2, <1>3, <1>4 DEF Next

LEMMA NextStop ==
  ASSUME TypeOK, StopInv, [Next]_vars
  PROVE  StopInv'
<1> USE ThreadsAssumption DEF TypeOK, StopInv, pushing, popping
<1>1. ASSUME NEW p \in Producers,
             PushStep(p) \/ \E v \in Values : PushBegin(p, v)
      PROVE  StopInv'
  BY <1>1 DEF PushStep, PushBegin, PushLock, PushLink, PushCount, PushNotify
<1>2. ASSUME NEW c \in Consumers,
             \/ PopStep(c) \/ PopSpuriousWakeup(c) \/ PopTimeout(c)
             \/ \E o \in Ops : PopBegin(c, o) \/ TryPopBegin(c, o)
      PROVE  StopInv'
  <2>1. has_stop_' = has_stop_ /\ pc'[Stopper] = pc[Stopper]
    BY <1>2 DEF PopStep, PopBegin, TryPopBegin, PopLock, PopStopped, PopFound,
       PopEmpty, PopBlock, PopSpuriousWakeup, PopTimeout, PopTake, PopCount,
       PopTakeBatch, PopReturn
  <2> QED
    BY <2>1
<1>3. CASE StopLock
  BY <1>3 DEF StopLock
<1>4. CASE StopSet
  BY <1>4 DEF StopSet
<1>5. CASE StopNotify
  BY <1>5 DEF StopNotify
<1>6. CASE UNCHANGED vars
  BY <1>6 DEF vars
<1> QED
  BY <1>1, <1>2, <1>3, <1>4, <1>5, <1>6 DEF Next, StopStep

(* While one thread is in a critical section nobody else changes the queue *)
(* or sets has_stop_.                                                      *)
LEMMA NextCall ==
  ASSUME TypeOK, LockInv, CallInv, [Next]_vars
  PROVE  CallInv'
<1> USE ThreadsAssumption DEF TypeOK, LockInv, Holding, CallInv, pushing, popping
<1>1. ASSUME NEW p \in Producers,
             PushStep(p) \/ \E v \in Values : PushBegin(p, v)
      PROVE  CallInv'
  <2>1. ASSUME NEW v \in Values, PushBegin(p, v) PROVE CallInv'
    BY <2>1 DEF PushBegin
  <2>2. CASE PushLock(p)
    BY <2>2 DEF PushLock
  <2>3. CASE PushLink(p)
    BY <2>3 DEF PushLink
  <2>4. CASE PushCount(p)
    <3>1. /\ pc[p] = "count" /\ pc' = [pc EXCEPT ![p] = "notify"]
          /\ UNCHANGED <<queue, lock, has_stop_, pushing, popping>>
      BY <2>4, Zenon DEF PushCount
    <3> QED
      BY <3>1
  <2>5. CASE PushNotify(p)
    <3>1. UNCHANGED <<queue, lock, has_stop_, pushing, popping>> /\ pc[p] = "notify"
      BY <2>5, Zenon DEF PushNotify
    <3>2. CASE pc' = [pc EXCEPT ![p] = "idle"]
      BY <3>1, <3>2
    <3>3. ASSUME NEW c \in Consumers, pc[c] = "wait",
                 pc' = [pc EXCEPT ![p] = "idle", ![c] = "lock"]
          PROVE  CallInv'
      BY <3>1, <3>3
    <3> QED
      BY <2>5, <3>2, <3>3, NotifyWakes
  <2> QED
    BY <1>1, <2>1, <2>2, <2>3, <2>4, <2>5 DEF PushStep
<1>2. ASSUME NEW c \in Consumers,
             \/ PopStep(c) \/ PopSpuriousWakeup(c) \/ PopTimeout(c)
             \/ \E o \in Ops : PopBegin(c, o) \/ TryPopBegin(c, o)
      PROVE  CallInv'
  <2>1. ASSUME NEW o \in Ops, PopBegin(c, o) PROVE CallInv'
    BY <2>1, BoundsAssumption DEF PopBegin, StartCall
  <2>2. ASSUME NEW o \in Ops, TryPopBegin(c, o) PROVE CallInv'
    BY <2>2, BoundsAssumption DEF TryPopBegin, StartCall
  <2>3. CASE PopLock(c)
    BY <2>3 DEF PopLock
  <2>4. CASE PopStopped(c)
    BY <2>4 DEF PopStopped
  <2>5. CASE PopFound(c)
    BY <2>5 DEF PopFound
  <2>6. CASE PopEmpty(c)
    BY <2>6 DEF PopEmpty
  <2>7. CASE PopBlock(c)
    BY <2>7 DEF PopBlock
  <2>8. CASE PopSpuriousWakeup(c)
    BY <2>8 DEF PopSpuriousWakeup
  <2>9. CASE PopTimeout(c)
    BY <2>9 DEF PopTimeout
  <2>10. CASE PopTake(c)
    BY <2>10 DEF PopTake, Unlink
  <2>11. CASE PopCount(c)
    BY <2>11 DEF PopCount
  <2>12. CASE PopTakeBatch(c)
    <3>1. /\ At(c, "take") /\ has_stop_' = has_stop_
          /\ queue' = Tail(queue) /\ left' = [left EXCEPT ![c] = @ - 1]
          /\ \/ pc' = pc /\ queue' # <<>> /\ left'[c] # 0
             \/ pc' = [pc EXCEPT ![c] = "return"]
      BY <2>12, Zenon DEF PopTakeBatch, Unlink
    <3>2. CASE pc' = pc /\ queue' # <<>> /\ left'[c] # 0
      BY <3>1, <3>2
    <3>3. CASE pc' = [pc EXCEPT ![c] = "return"]
      BY <3>1, <3>3
    <3> QED
      BY <3>1, <3>2, <3>3
  <2>13. CASE PopReturn(c)
    BY <2>13 DEF PopReturn
  <2> QED
    BY <1>2, <2>1, <2>2, <2>3, <2>4, <2>5, <2>6, <2>7, <2>8, <2>9, <2>10,
       <2>11, <2>12, <2>13 DEF PopStep
<1>3. CASE StopLock
  BY <1>3 DEF StopLock
<1>4. CASE StopSet
  BY <1>4 DEF StopSet
<1>5. CASE StopNotify
  BY <1>5 DEF StopNotify
<1>6. CASE UNCHANGED vars
  BY <1>6 DEF vars
<1> QED
  BY <1>1, <1>2, <1>3, <1>4, <1>5, <1>6 DEF Next, StopStep

LEMMA NextBase == BaseInv /\ [Next]_vars => BaseInv'
  BY NextType, NextLock, NextStop, NextCall DEF BaseInv

LEMMA BaseAlways == Spec => []BaseInv
  BY InitBase, NextBase, PTL DEF Spec

(* Type correctness of the queue for any number of threads and values. *)
THEOREM TypeCorrect == Spec => []TypeOK
<1>1. BaseInv => TypeOK
  BY DEF BaseInv
<1> QED
  BY <1>1, BaseAlways, PTL
-----------------------------------------------------------------------------
(* The sets of threads that the deep invariants count are finite. *)
LEMMA CountedFinite ==
  /\ IsFiniteSet(Signalling) /\ Cardinality(Signalling) \in Nat
  /\ IsFiniteSet(Looking) /\ Cardinality(Looking) \in Nat
  /\ IsFiniteSet(CountingUp) /\ Cardinality(CountingUp) \in Nat
  /\ IsFiniteSet(CountingDown) /\ Cardinality(CountingDown) \in Nat
<1>1. ASSUME NEW S, IsFiniteSet(S), NEW T \in SUBSET S
      PROVE  IsFiniteSet(T) /\ Cardinality(T) \in Nat
  BY <1>1, FS_Subset, FS_CardinalityType
<1>2. /\ Signalling \in SUBSET Producers /\ CountingUp \in SUBSET Producers
      /\ Looking \in SUBSET Consumers /\ CountingDown \in SUBSET Consumers
  BY DEF Signalling, CountingUp, Looking, CountingDown
<1> QED
  BY <1>1, <1>2, ThreadsAssumption

LEMMA CountedFiniteNext ==
  /\ IsFiniteSet(Signalling') /\ Cardinality(Signalling)' \in Nat
  /\ IsFiniteSet(Looking') /\ Cardinality(Looking)' \in Nat
  /\ IsFiniteSet(CountingUp') /\ Cardinality(CountingUp)' \in Nat
  /\ IsFiniteSet(CountingDown') /\ Cardinality(CountingDown)' \in Nat
<1>1. ASSUME NEW S, IsFiniteSet(S), NEW T \in SUBSET S
      PROVE  IsFiniteSet(T) /\ Cardinality(T) \in Nat
  BY <1>1, FS_Subset, FS_CardinalityType
<1>2. /\ Signalling' \in SUBSET Producers /\ CountingUp' \in SUBSET Producers
      /\ Looking' \in SUBSET Consumers /\ CountingDown' \in SUBSET Consumers
  BY DEF Signalling, CountingUp, Looking, CountingDown
<1> QED
  BY <1>1, <1>2, ThreadsAssumption

(* A step that neither adds a value nor takes a thread out of the two sets *)
(* keeps every wakeup.                                                     *)
LEMMA WakeupsGrow ==
  ASSUME TypeOK, TypeOK', NoLostWakeup, has_stop_' = has_stop_,
         Len(queue') <= Len(queue), Waiting' \subseteq Waiting,
         Signalling \subseteq Signalling', Looking \subseteq Looking'
  PROVE  NoLostWakeup'
<1>1. Cardinality(Signalling) <= Cardinality(Signalling)'
  BY CountedFiniteNext, FS_Subset
<1>2. Cardinality(Looking) <= Cardinality(Looking)'
  BY CountedFiniteNext, FS_Subset
<1>3. Len(queue) \in Nat /\ Len(queue') \in Nat
  BY DEF TypeOK
<1>4. Waiting' # {} => Waiting # {}
  OBVIOUS
<1> HIDE DEF Waiting
<1> QED
  BY <1>1, <1>2, <1>3, <1>4, CountedFinite, CountedFiniteNext DEF NoLostWakeup

LEMMA PushWakeups ==
  ASSUME TypeOK, TypeOK', NoLostWakeup, NEW p \in Producers,
         PushStep(p) \/ \E v \in Values : PushBegin(p, v)
  PROVE  NoLostWakeup'
<1> USE ThreadsAssumption DEF pushing, popping
<1>1. ASSUME NEW v \in Values, PushBegin(p, v) PROVE NoLostWakeup'
  <2>1. /\ queue' = queue /\ has_stop_' = has_stop_
        /\ pc' = pc \/ pc' = [pc EXCEPT ![p] = "lock"]
    BY <1>1, Zenon DEF PushBegin
  <2>2. /\ Waiting' = Waiting /\ Signalling \subseteq Signalling'
        /\ Looking' = Looking
    BY <1>1, <2>1 DEF PushBegin, TypeOK, Signalling, Looking
  <2> QED
    BY <2>1, <2>2, WakeupsGrow DEF TypeOK
<1>2. CASE PushLock(p)
  <2>1. /\ Waiting' = Waiting /\ Signalling' = Signalling /\ Looking' = Looking
        /\ queue' = queue /\ has_stop_' = has_stop_
    BY <1>2 DEF PushLock, TypeOK, Signalling, Looking
  <2> QED
    BY <2>1, WakeupsGrow DEF TypeOK
<1>3. CASE PushLink(p)
  <2>1. /\ Waiting' = Waiting /\ Looking' = Looking /\ has_stop_' = has_stop_
        /\ Signalling' = Signalling \cup {p} /\ p \notin Signalling
    BY <1>3 DEF PushLink, TypeOK, Signalling, Looking
  <2>2. Len(queue') = Len(queue) + 1 /\ Len(queue) \in Nat
    BY <1>3 DEF PushLink, TypeOK
  <2>3. Cardinality(Signalling)' = Cardinality(Signalling) + 1
    BY <2>1, CountedFinite, FS_AddElement
  <2> HIDE DEF Waiting
  <2> QED
    BY <2>1, <2>2, <2>3, CountedFinite DEF NoLostWakeup
<1>4. CASE PushCount(p)
  <2>1. /\ Waiting' = Waiting /\ Signalling' = Signalling /\ Looking' = Looking
        /\ queue' = queue /\ has_stop_' = has_stop_
    BY <1>4 DEF PushCount, TypeOK, Signalling, Looking
  <2> QED
    BY <2>1, WakeupsGrow DEF TypeOK
<1>5. CASE PushNotify(p)
  <2>1. CASE Waiting = {}
    <3>1. Waiting' = {}
      BY <1>5, <2>1 DEF PushNotify, TypeOK
    <3> HIDE DEF Waiting
    <3> QED
      BY <3>1 DEF NoLostWakeup
  <2>2. ASSUME NEW c \in Waiting,
               pc' = [pc EXCEPT ![p] = "idle", ![c] = "lock"]
        PROVE  NoLostWakeup'
    <3>1. /\ Signalling' = Signalling \ {p} /\ p \in Signalling
          /\ Looking' = Looking \cup {c} /\ c \notin Looking
          /\ queue' = queue /\ has_stop_' = has_stop_
      BY <1>5, <2>2 DEF PushNotify, TypeOK, Signalling, Looking
    <3>2. /\ Cardinality(Signalling)' = Cardinality(Signalling) - 1
          /\ Cardinality(Looking)' = Cardinality(Looking) + 1
      BY <3>1, CountedFinite, FS_AddElement, FS_RemoveElement
    <3>3. Waiting # {} /\ Len(queue) \in Nat
      BY <2>2 DEF TypeOK
    <3> HIDE DEF Waiting
    <3> QED
      BY <3>1, <3>2, <3>3, CountedFinite DEF NoLostWakeup
  <2> QED
    BY <1>5, <2>1, <2>2 DEF PushNotify
<1> QED
  BY <1>1, <1>2, <1>3, <1>4, <1>5 DEF PushStep

LEMMA PopWakeups ==
  ASSUME TypeOK, TypeOK', CallInv, NoLostWakeup, NEW c \in Consumers,
         \/ PopStep(c) \/ PopSpuriousWakeup(c) \/ PopTimeout(c)
         \/ \E o \in Ops : PopBegin(c, o) \/ TryPopBegin(c, o)
  PROVE  NoLostWakeup'
<1> USE ThreadsAssumption DEF pushing, popping
<1>1. ASSUME NEW o \in Ops, PopBegin(c, o) \/ TryPopBegin(c, o)
      PROVE  NoLostWakeup'
  <2>1. /\ Waiting' = Waiting /\ Signalling' = Signalling
        /\ Looking \subseteq Looking'
        /\ queue' = queue /\ has_stop_' = has_stop_
    BY <1>1 DEF PopBegin, TryPopBegin, TypeOK, Signalling, Looking
  <2> QED
    BY <2>1, WakeupsGrow DEF TypeOK
<1>2. CASE PopLock(c) \/ PopFound(c) \/ PopCount(c) \/ PopReturn(c)
  <2>1. /\ Waiting' = Waiting /\ Signalling' = Signalling
        /\ Looking' = Looking
        /\ queue' = queue /\ has_stop_' = has_stop_
    BY <1>2 DEF PopLock, PopFound, PopCount, PopReturn, TypeOK, Signalling,
                Looking
  <2> QED
    BY <2>1, WakeupsGrow DEF TypeOK
<1>3. CASE PopStopped(c)
  BY <1>3 DEF PopStopped, NoLostWakeup
<1>4. CASE PopEmpty(c) \/ PopBlock(c)
  <2>1. queue' = <<>>
    BY <1>4 DEF PopEmpty, PopBlock, CallInv
  <2> QED
    BY <2>1, CountedFiniteNext DEF NoLostWakeup
<1>5. CASE PopSpuriousWakeup(c) \/ PopTimeout(c)
  <2>1. /\ queue' = queue /\ has_stop_' = has_stop_
        /\ pc[c] = "wait" /\ pc' = [pc EXCEPT ![c] = "lock"]
    BY <1>5 DEF PopSpuriousWakeup, PopTimeout
  <2>2. /\ Waiting' \subseteq Waiting /\ Signalling' = Signalling
        /\ Looking \subseteq Looking'
    BY <2>1 DEF TypeOK, Signalling, Looking
  <2> QED
    BY <2>1, <2>2, WakeupsGrow DEF TypeOK
<1>6. CASE PopTake(c) \/ PopTakeBatch(c)
  <2>1. queue # <<>> /\ queue' = Tail(queue) /\ has_stop_' = has_stop_
    BY <1>6 DEF PopTake, PopTakeBatch, Unlink, CallInv
  <2>2. Len(queue') = Len(queue) - 1 /\ Len(queue) \in Nat
    BY <2>1 DEF TypeOK
  <2>3. Waiting' = Waiting /\ Signalling' = Signalling
    BY <1>6 DEF PopTake, PopTakeBatch, TypeOK, Signalling
  <2>4. Looking' = Looking \/ (Looking' = Looking \ {c} /\ c \in Looking)
    BY <1>6 DEF PopTake, PopTakeBatch, TypeOK, Looking
  <2>5. Cardinality(Looking)' >= Cardinality(Looking) - 1
    <3>1. /\ Cardinality(Looking) \in Nat
          /\ c \in Looking =>
               Cardinality(Looking \ {c}) = Cardinality(Looking) - 1
      BY CountedFinite, FS_RemoveElement
    <3>2. CASE Looking' = Looking
      BY <3>1, <3>2
    <3>3. CASE Looking' = Looking \ {c} /\ c \in Looking
      BY <3>1, <3>3
    <3> QED
      BY <2>4, <3>2, <3>3
  <2> HIDE DEF Waiting
  <2> QED
    BY <2>1, <2>2, <2>3, <2>5, CountedFinite, CountedFiniteNext
    DEF NoLostWakeup
<1> QED
  BY <1>1, <1>2, <1>3, <1>4, <1>5, <1>6 DEF PopStep

LEMMA StopWakeups ==
  ASSUME TypeOK, TypeOK', StopInv, NoLostWakeup, StopStep
  PROVE  NoLostWakeup'
<1> USE ThreadsAssumption DEF pushing, popping
<1>1. CASE StopLock
  <2>1. /\ Waiting' = Waiting /\ Signalling' = Signalling
        /\ Looking' = Looking
        /\ queue' = queue /\ has_stop_' = has_stop_
    BY <1>1 DEF StopLock, TypeOK, Signalling, Looking
  <2> QED
    BY <2>1, WakeupsGrow DEF TypeOK
<1>2. CASE StopSet
  BY <1>2 DEF StopSet, NoLostWakeup
<1>3. CASE StopNotify
  BY <1>3 DEF StopNotify, StopInv, NoLostWakeup
<1> QED
  BY <1>1, <1>2, <1>3 DEF StopStep

(* No interleaving of the queue's callers loses a wakeup: a sleeping       *)
(* consumer never misses a value that nobody else is about to take.        *)
THEOREM WakeupsKept == Spec => []NoLostWakeup
<1>1. Init => NoLostWakeup
  <2> SUFFICES ASSUME Init PROVE NoLostWakeup
    OBVIOUS
  <2>1. Len(queue) = 0
    BY DEF Init
  <2> QED
    BY <2>1, CountedFinite DEF NoLostWakeup
<1>2. BaseInv /\ BaseInv' /\ NoLostWakeup /\ [Next]_vars => NoLostWakeup'
  <2> SUFFICES ASSUME BaseInv, BaseInv', NoLostWakeup, [Next]_vars
               PROVE  NoLostWakeup'
    OBVIOUS
  <2>1. CASE UNCHANGED vars
    BY <2>1 DEF vars, NoLostWakeup, Signalling, Looking
  <2> QED
    BY <2>1, PushWakeups, PopWakeups, StopWakeups DEF Next, BaseInv
<1> QED
  BY <1>1, <1>2, BaseAlways, PTL DEF Spec
-----------------------------------------------------------------------------
(* Only PopBlock adds a sleeper, and never after has_stop_ was set. *)
LEMMA SleepersShrink ==
  ASSUME BaseInv, [Next]_vars, has_stop_
  PROVE  Waiting' \subseteq Waiting
<1> USE ThreadsAssumption DEF BaseInv, TypeOK, CallInv, pushing, popping
<1>1. ASSUME NEW p \in Producers,
             PushStep(p) \/ \E v \in Values : PushBegin(p, v)
      PROVE  Waiting' \subseteq Waiting
  <2>1. ASSUME NEW v \in Values, PushBegin(p, v)
        PROVE  Waiting' \subseteq Waiting
    BY <2>1 DEF PushBegin
  <2>2. CASE PushNotify(p)
    BY <2>2 DEF PushNotify
  <2>3. CASE PushLock(p) \/ PushLink(p) \/ PushCount(p)
    BY <2>3 DEF PushLock, PushLink, PushCount
  <2> QED
    BY <1>1, <2>1, <2>2, <2>3 DEF PushStep
<1>2. ASSUME NEW c \in Consumers,
             \/ PopStep(c) \/ PopSpuriousWakeup(c) \/ PopTimeout(c)
             \/ \E o \in Ops : PopBegin(c, o) \/ TryPopBegin(c, o)
      PROVE  Waiting' \subseteq Waiting
  <2>1. \E l \in ConsumerAt \ {"wait"} : pc' = [pc EXCEPT ![c] = l] \/ pc' = pc
    BY <1>2 DEF PopStep, PopBegin, TryPopBegin, PopLock, PopStopped, PopFound,
       PopEmpty, PopBlock, PopSpuriousWakeup, PopTimeout, PopTake, PopCount,
       PopTakeBatch, PopReturn, ConsumerAt
  <2> QED
    BY <2>1
<1>3. CASE StopStep
  <2>1. CASE StopLock \/ StopSet
    BY <2>1 DEF StopLock, StopSet
  <2>2. CASE StopNotify
    BY <2>2 DEF StopNotify
  <2> QED
    BY <1>3, <2>1, <2>2 DEF StopStep
<1>4. CASE UNCHANGED vars
  BY <1>4 DEF vars
<1> QED
  BY <1>1, <1>2, <1>3, <1>4 DEF Next

(* Stop wakes everybody for good. *)
THEOREM StopWakesAll == Spec => []NobodySleepsThroughStop
<1> DEFINE Woken == At(Stopper, "done") => Waiting = {}
<1>1. Init => Woken
  BY ThreadsAssumption DEF Init
<1>2. BaseInv /\ Woken /\ [Next]_vars => Woken'
  <2> SUFFICES ASSUME BaseInv, Woken, [Next]_vars, pc'[Stopper] = "done"
               PROVE  Waiting' = {}
    OBVIOUS
  <2>1. CASE pc[Stopper] = "done"
    <3>1. has_stop_
      BY <2>1 DEF BaseInv, StopInv
    <3> QED
      BY <2>1, <3>1, SleepersShrink
  <2>2. CASE pc[Stopper] # "done"
    <3>1. ASSUME NEW p \in Producers,
                 PushStep(p) \/ \E v \in Values : PushBegin(p, v)
          PROVE  pc'[Stopper] = pc[Stopper]
      BY <3>1, ThreadsAssumption DEF PushStep, PushBegin, PushLock, PushLink,
         PushCount, PushNotify, BaseInv, TypeOK
    <3>2. ASSUME NEW c \in Consumers,
                 \/ PopStep(c) \/ PopSpuriousWakeup(c) \/ PopTimeout(c)
                 \/ \E o \in Ops : PopBegin(c, o) \/ TryPopBegin(c, o)
          PROVE  pc'[Stopper] = pc[Stopper]
      BY <3>2, ThreadsAssumption DEF PopStep, PopBegin, TryPopBegin, PopLock,
         PopStopped, PopFound, PopEmpty, PopBlock, PopSpuriousWakeup,
         PopTimeout, PopTake, PopCount, PopTakeBatch, PopReturn, BaseInv, TypeOK
    <3>3. CASE StopLock \/ StopSet
      BY <3>3, ThreadsAssumption DEF StopLock, StopSet, BaseInv, TypeOK
    <3>4. CASE StopNotify
      BY <3>4, ThreadsAssumption DEF StopNotify
    <3>5. CASE UNCHANGED vars
      BY <2>2, <3>5 DEF vars
    <3> QED
      BY <2>2, <3>1, <3>2, <3>3, <3>4, <3>5 DEF Next, StopStep
  <2> QED
    BY <2>1, <2>2
<1>3. BaseInv /\ Woken => NobodySleepsThroughStop
  BY DEF BaseInv, CallInv, NobodySleepsThroughStop
<1> HIDE DEF Woken
<1> QED
  BY <1>1, <1>2, <1>3, BaseAlways, PTL DEF Spec

(* A stopped queue gives nothing out: every pop tests has_stop_ and        *)
(* unlinks in one critical section, and Stop needs the lock to set it.     *)
THEOREM StopIsFinal == Spec => NothingTakenAfterStop
<1> DEFINE Kept == has_stop_ =>
             /\ Len(queue') >= Len(queue)
             /\ \A c \in Consumers : result'[c] \in {result[c], <<>>}
<1>1. ASSUME BaseInv, [Next]_vars, has_stop_
      PROVE  /\ Len(queue') >= Len(queue)
             /\ \A c \in Consumers : result'[c] \in {result[c], <<>>}
  <2> USE DEF pushing, popping
  <2>1. Len(queue) \in Nat /\ queue \in Seq(Values)
    BY <1>1 DEF BaseInv, TypeOK
  <2>2. ASSUME NEW p \in Producers,
               PushStep(p) \/ \E v \in Values : PushBegin(p, v)
        PROVE  result' = result /\ Len(queue') >= Len(queue)
    <3>1. CASE PushLink(p)
      BY <2>1, <3>1, <1>1, ThreadsAssumption DEF PushLink, BaseInv, TypeOK
    <3> QED
      BY <2>1, <2>2, <3>1
      DEF PushStep, PushBegin, PushLock, PushCount, PushNotify
  <2>3. ASSUME NEW c \in Consumers,
               \/ PopStep(c) \/ PopSpuriousWakeup(c) \/ PopTimeout(c)
               \/ \E o \in Ops : PopBegin(c, o) \/ TryPopBegin(c, o)
        PROVE  /\ queue' = queue
               /\ result' = result \/ result' = [result EXCEPT ![c] = <<>>]
    <3>1. ~At(c, "take")
      BY <1>1, <2>3 DEF BaseInv, CallInv
    <3> QED
      BY <2>3, <3>1 DEF PopStep, PopBegin, TryPopBegin, PopLock, PopStopped,
         PopFound, PopEmpty, PopBlock, PopSpuriousWakeup, PopTimeout, PopTake,
         PopCount, PopTakeBatch, PopReturn
  <2>4. StopStep => result' = result /\ queue' = queue
    BY DEF StopStep, StopLock, StopSet, StopNotify
  <2>5. UNCHANGED vars => result' = result /\ queue' = queue
    BY DEF vars
  <2>6. Len(queue') >= Len(queue)
    BY <1>1, <2>1, <2>2, <2>3, <2>4, <2>5 DEF Next
  <2>7. \A c \in Consumers : result'[c] \in {result[c], <<>>}
    BY <1>1, <2>2, <2>3, <2>4, <2>5 DEF Next, BaseInv, TypeOK
  <2> QED
    BY <2>6, <2>7
<1>2. BaseInv /\ [Next]_vars => [Kept]_vars
  BY <1>1
<1> HIDE DEF Kept
<1>3. Spec => [][Kept]_vars
  BY <1>2, BaseAlways, PTL DEF Spec
<1> QED
  BY <1>3 DEF NothingTakenAfterStop, Kept
-----------------------------------------------------------------------------
(* Arithmetic of the wrapping counter size_. *)
LEMMA RemainderUnique ==
  ASSUME NEW M \in Nat \ {0}, NEW q \in Int, NEW r \in 0..(M - 1)
  PROVE  (M * q + r) % M = r
  OBVIOUS

LEMMA DivMod ==
  ASSUME NEW M \in Nat \ {0}, NEW x \in Int
  PROVE  /\ x = M * (x \div M) + (x % M)
         /\ x % M \in 0..(M - 1)
         /\ x \div M \in Int
  OBVIOUS

LEMMA ModPeriodic ==
  ASSUME NEW M \in Nat \ {0}, NEW x \in Int, NEW k \in Int
  PROVE  (x + M * k) % M = x % M
<1> DEFINE q == (x \div M) + k
           r == x % M
<1>1. q \in Int /\ r \in 0..(M - 1)
  BY DivMod
<1>2. x + M * k = M * q + r
  BY DivMod
<1> HIDE DEF q
<1>3. (M * q + r) % M = r
  BY <1>1, RemainderUnique
<1> QED
  BY <1>2, <1>3

LEMMA ModAbsorb ==
  ASSUME NEW M \in Nat \ {0}, NEW x \in Int, NEW y \in Int
  PROVE  ((x % M) + y) % M = (x + y) % M
<1> DEFINE k == -(x \div M)
           z == x + y
<1>1. k \in Int /\ z \in Int
  BY DivMod
<1>2. (x % M) + y = z + M * k
  BY DivMod
<1> HIDE DEF k, z
<1>3. (z + M * k) % M = z % M
  BY <1>1, ModPeriodic
<1> QED
  BY <1>2, <1>3 DEF z

(* ++size_ catches up with a link, --size_ with an unlink. *)
LEMMA CountUp ==
  ASSUME NEW M \in Nat \ {0}, NEW s \in Nat, NEW u \in Nat
  PROVE  (((s + 1) % M) + (u - 1)) % M = (s + u) % M
<1> DEFINE x == s + 1
           y == u - 1
<1>1. x \in Int /\ y \in Int /\ x + y = s + u
  OBVIOUS
<1> HIDE DEF x, y
<1>2. ((x % M) + y) % M = (x + y) % M
  BY <1>1, ModAbsorb
<1> QED
  BY <1>1, <1>2 DEF x, y

LEMMA CountDown ==
  ASSUME NEW M \in Nat \ {0}, NEW s \in Nat, NEW u \in Nat, NEW n \in Int,
         (s + u) % M = n % M
  PROVE  (((s + M - 1) % M) + u) % M = (n - 1) % M
<1> DEFINE x == s + M - 1
           a == s + u
           b == a - 1
           y == -1
<1>1. x \in Int /\ a \in Int /\ b \in Int /\ y \in Int /\ u \in Int
  OBVIOUS
<1>2. x + u = b + M * 1 /\ a + y = b /\ n + y = n - 1
  OBVIOUS
<1>3. a % M = n % M
  OBVIOUS
<1> HIDE DEF x, a, b, y
<1>4. ((x % M) + u) % M = (x + u) % M
  BY ONLY M \in Nat \ {0}, <1>1, ModAbsorb
<1>5. (b + M * 1) % M = b % M
  BY ONLY M \in Nat \ {0}, 1 \in Int, <1>1, ModPeriodic
<1>6. (a + y) % M = (n + y) % M
  <2>1. ((a % M) + y) % M = (a + y) % M
    BY ONLY M \in Nat \ {0}, <1>1, ModAbsorb
  <2>2. ((n % M) + y) % M = (n + y) % M
    BY ONLY M \in Nat \ {0}, n \in Int, <1>1, ModAbsorb
  <2> QED
    BY ONLY <1>3, <2>1, <2>2
<1> QED
  BY <1>2, <1>4, <1>5, <1>6 DEF x

LEMMA CountLink ==
  ASSUME NEW M \in Nat \ {0}, NEW a \in Int, NEW b \in Int, a % M = b % M
  PROVE  (a + 1) % M = (b + 1) % M
<1>1. ((a % M) + 1) % M = (a + 1) % M
  BY ONLY M \in Nat \ {0}, a \in Int, 1 \in Int, ModAbsorb
<1>2. ((b % M) + 1) % M = (b + 1) % M
  BY ONLY M \in Nat \ {0}, b \in Int, 1 \in Int, ModAbsorb
<1> QED
  BY ONLY a % M = b % M, <1>1, <1>2

(* The four numbers of SizeAccounting. *)
Ups   == Cardinality(CountingUp)
Downs == Cardinality(CountingDown)

LEMMA SizeNumbers ==
  ASSUME TypeOK
  PROVE  /\ size_ \in Nat /\ Ups \in Nat /\ Len(queue) \in Nat
         /\ Downs \in Nat
  BY CountedFinite, BoundsAssumption DEF TypeOK, Ups, Downs

LEMMA SameSize ==
  ASSUME SizeAccounting, size_' = size_, Ups' = Ups,
         Len(queue') + Downs' = Len(queue) + Downs
  PROVE  SizeAccounting'
  BY DEF SizeAccounting, Ups, Downs

LEMMA PushSize ==
  ASSUME TypeOK, TypeOK', SizeAccounting, NEW p \in Producers,
         PushStep(p) \/ \E v \in Values : PushBegin(p, v)
  PROVE  SizeAccounting'
<1> USE ThreadsAssumption DEF pushing, popping
<1>1. ASSUME \/ \E v \in Values : PushBegin(p, v)
             \/ PushLock(p) \/ PushNotify(p)
      PROVE  SizeAccounting'
  <2>1. queue' = queue /\ size_' = size_
    BY <1>1 DEF PushBegin, PushLock, PushNotify
  <2>2. CountingUp' = CountingUp /\ CountingDown' = CountingDown
    <3>1. ASSUME NEW v \in Values, PushBegin(p, v)
          PROVE  CountingUp' = CountingUp /\ CountingDown' = CountingDown
      <4>1. pc[p] = "idle" /\ (pc' = pc \/ pc' = [pc EXCEPT ![p] = "lock"])
        BY <3>1, Zenon DEF PushBegin
      <4> QED
        BY <4>1 DEF TypeOK, CountingUp, CountingDown
    <3>2. CASE PushLock(p)
      BY <3>2 DEF PushLock, TypeOK, CountingUp, CountingDown
    <3>3. CASE PushNotify(p)
      <4>1. pc[p] = "notify"
        BY <3>3, Zenon DEF PushNotify
      <4>2. CASE pc' = [pc EXCEPT ![p] = "idle"]
        BY <4>1, <4>2 DEF TypeOK, CountingUp, CountingDown
      <4>3. ASSUME NEW c \in Consumers, pc[c] = "wait",
                   pc' = [pc EXCEPT ![p] = "idle", ![c] = "lock"]
            PROVE  CountingUp' = CountingUp /\ CountingDown' = CountingDown
        BY <4>1, <4>3 DEF TypeOK, CountingUp, CountingDown
      <4> QED
        BY <3>3, <4>2, <4>3, NotifyWakes
    <3> QED
      BY <1>1, <3>1, <3>2, <3>3
  <2> QED
    BY <2>1, <2>2, SameSize DEF Ups, Downs
<1>2. CASE PushLink(p)
  <2>1. CountingUp' = CountingUp \cup {p} /\ p \notin CountingUp
    BY <1>2 DEF PushLink, TypeOK, CountingUp
  <2>2. CountingDown' = CountingDown /\ size_' = size_
    BY <1>2 DEF PushLink, TypeOK, CountingDown
  <2>3. Ups' = Ups + 1
    BY <2>1, CountedFinite, FS_AddElement DEF Ups
  <2>4. Len(queue') = Len(queue) + 1
    BY <1>2 DEF PushLink, TypeOK
  <2> DEFINE a == size_ + Ups
             b == Len(queue) + Downs
  <2>5. a \in Int /\ b \in Int /\ a % SizeModulus = b % SizeModulus
    BY SizeNumbers DEF SizeAccounting, Ups, Downs
  <2>6. size_' + Ups' = a + 1 /\ Len(queue') + Downs' = b + 1
    BY <2>2, <2>3, <2>4, SizeNumbers DEF Downs
  <2> HIDE DEF a, b
  <2>7. (a + 1) % SizeModulus = (b + 1) % SizeModulus
    BY <2>5, BoundsAssumption, CountLink
  <2> QED
    BY <2>6, <2>7 DEF SizeAccounting, Ups, Downs
<1>3. CASE PushCount(p)
  <2>1. CountingUp' = CountingUp \ {p} /\ p \in CountingUp
    BY <1>3 DEF PushCount, TypeOK, CountingUp
  <2>2. CountingDown' = CountingDown /\ queue' = queue
    BY <1>3 DEF PushCount, TypeOK, CountingDown
  <2>3. Ups' = Ups - 1
    BY <2>1, CountedFinite, FS_RemoveElement DEF Ups
  <2>4. size_' = (size_ + 1) % SizeModulus
    BY <1>3 DEF PushCount
  <2>5. (((size_ + 1) % SizeModulus) + (Ups - 1)) % SizeModulus
          = (size_ + Ups) % SizeModulus
    <3>1. size_ \in Nat /\ Ups \in Nat /\ SizeModulus \in Nat \ {0}
      BY SizeNumbers, BoundsAssumption
    <3> QED
      BY ONLY <3>1, CountUp
  <2>6. (size_' + Ups') % SizeModulus = (size_ + Ups) % SizeModulus
    BY <2>3, <2>4, <2>5
  <2> QED
    BY <2>2, <2>6 DEF SizeAccounting, Ups
<1> QED
  BY <1>1, <1>2, <1>3 DEF PushStep

LEMMA PopSize ==
  ASSUME TypeOK, TypeOK', CallInv, SizeAccounting, NEW c \in Consumers,
         \/ PopStep(c) \/ PopSpuriousWakeup(c) \/ PopTimeout(c)
         \/ \E o \in Ops : PopBegin(c, o) \/ TryPopBegin(c, o)
  PROVE  SizeAccounting'
<1> USE ThreadsAssumption DEF pushing, popping
<1> DEFINE n == Len(queue) + Downs
<1>1. ASSUME size_' = (size_ + SizeModulus - 1) % SizeModulus,
             CountingUp' = CountingUp, Len(queue') + Downs' = n - 1
      PROVE  SizeAccounting'
  <2>1. n \in Int /\ (size_ + Ups) % SizeModulus = n % SizeModulus
    BY SizeNumbers DEF SizeAccounting, Ups, Downs
  <2> HIDE DEF n
  <2>2. (((size_ + SizeModulus - 1) % SizeModulus) + Ups) % SizeModulus
          = (n - 1) % SizeModulus
    <3>1. size_ \in Nat /\ Ups \in Nat /\ SizeModulus \in Nat \ {0}
      BY SizeNumbers, BoundsAssumption
    <3> QED
      BY ONLY <2>1, <3>1, CountDown
  <2>3. Ups' = Ups
    BY <1>1 DEF Ups
  <2>4. (size_' + Ups') % SizeModulus = (n - 1) % SizeModulus
    BY <1>1, <2>2, <2>3
  <2> QED
    BY <1>1, <2>4 DEF SizeAccounting, Ups, Downs
<1>2. ASSUME \/ PopLock(c) \/ PopStopped(c) \/ PopFound(c) \/ PopEmpty(c)
             \/ PopBlock(c) \/ PopReturn(c)
             \/ PopSpuriousWakeup(c) \/ PopTimeout(c)
             \/ \E o \in Ops : PopBegin(c, o) \/ TryPopBegin(c, o)
      PROVE  SizeAccounting'
  <2>1. queue' = queue /\ size_' = size_
    BY <1>2 DEF PopLock, PopStopped, PopFound, PopEmpty, PopBlock, PopReturn,
       PopSpuriousWakeup, PopTimeout, PopBegin, TryPopBegin
  <2>2. \E l \in ConsumerAt \ {"count"} :
            pc[c] # "count" /\ (pc' = [pc EXCEPT ![c] = l] \/ pc' = pc)
    BY <1>2 DEF PopLock, PopStopped, PopFound, PopEmpty, PopBlock, PopReturn,
       PopSpuriousWakeup, PopTimeout, PopBegin, TryPopBegin, ConsumerAt
  <2>3. CountingUp' = CountingUp /\ CountingDown' = CountingDown
    BY <2>2 DEF TypeOK, CountingUp, CountingDown
  <2> QED
    BY <2>1, <2>3, SameSize DEF Ups, Downs
<1>3. CASE PopTake(c)
  <2>1. /\ CountingUp' = CountingUp /\ size_' = size_
        /\ CountingDown' = CountingDown \cup {c} /\ c \notin CountingDown
    BY <1>3 DEF PopTake, TypeOK, CountingUp, CountingDown
  <2>2. Len(queue') = Len(queue) - 1
    BY <1>3 DEF PopTake, Unlink, TypeOK, CallInv
  <2>3. Downs' = Downs + 1
    BY <2>1, CountedFinite, FS_AddElement DEF Downs
  <2>4. Len(queue') + Downs' = Len(queue) + Downs /\ Ups' = Ups
    BY <2>1, <2>2, <2>3, SizeNumbers DEF Ups
  <2> QED
    BY <2>1, <2>4, SameSize
<1>4. CASE PopCount(c)
  <2>1. /\ CountingUp' = CountingUp /\ queue' = queue
        /\ CountingDown' = CountingDown \ {c} /\ c \in CountingDown
    BY <1>4 DEF PopCount, TypeOK, CountingUp, CountingDown
  <2>2. Downs' = Downs - 1
    BY <2>1, CountedFinite, FS_RemoveElement DEF Downs
  <2>3. Len(queue') + Downs' = n - 1
    BY <2>1, <2>2, SizeNumbers
  <2>4. size_' = (size_ + SizeModulus - 1) % SizeModulus
    BY <1>4 DEF PopCount
  <2> QED
    BY <1>1, <2>1, <2>3, <2>4
<1>5. CASE PopTakeBatch(c)
  <2>1. pc[c] = "take" /\ (pc' = pc \/ pc' = [pc EXCEPT ![c] = "return"])
    BY <1>5 DEF PopTakeBatch
  <2>2. CountingUp' = CountingUp /\ CountingDown' = CountingDown
    BY <2>1 DEF TypeOK, CountingUp, CountingDown
  <2>3. Len(queue') = Len(queue) - 1
    BY <1>5 DEF PopTakeBatch, Unlink, TypeOK, CallInv
  <2>4. Len(queue') + Downs' = n - 1
    BY <2>2, <2>3, SizeNumbers DEF Downs
  <2>5. size_' = (size_ + SizeModulus - 1) % SizeModulus
    BY <1>5 DEF PopTakeBatch
  <2> QED
    BY <1>1, <2>2, <2>4, <2>5
<1> QED
  BY <1>2, <1>3, <1>4, <1>5 DEF PopStep

(* The rough size is the length of the queue up to the calls that are      *)
(* between their link and their count, modulo the width of size_.          *)
THEOREM RoughSizeIsRight == Spec => []SizeAccounting
<1>1. Init => SizeAccounting
  <2> SUFFICES ASSUME Init PROVE SizeAccounting
    OBVIOUS
  <2>1. CountingUp = {} /\ CountingDown = {} /\ Len(queue) = 0 /\ size_ = 0
    BY DEF Init, CountingUp, CountingDown
  <2> QED
    BY <2>1 DEF SizeAccounting
<1>2. BaseInv /\ BaseInv' /\ SizeAccounting /\ [Next]_vars => SizeAccounting'
  <2> SUFFICES ASSUME BaseInv, BaseInv', SizeAccounting, [Next]_vars
               PROVE  SizeAccounting'
    OBVIOUS
  <2>1. CASE StopStep
    <3>1. queue' = queue /\ size_' = size_
      BY <2>1 DEF StopStep, StopLock, StopSet, StopNotify
    <3>2. CountingUp' = CountingUp /\ CountingDown' = CountingDown
      BY <2>1, ThreadsAssumption DEF StopStep, StopLock, StopSet, StopNotify,
         BaseInv, TypeOK, CountingUp, CountingDown
    <3> QED
      BY <3>1, <3>2, SameSize DEF Ups, Downs
  <2>2. CASE UNCHANGED vars
    BY <2>2 DEF vars, SizeAccounting, CountingUp, CountingDown
  <2> QED
    BY <2>1, <2>2, PushSize, PopSize DEF Next, BaseInv
<1> QED
  BY <1>1, <1>2, BaseAlways, PTL DEF Spec
-----------------------------------------------------------------------------
(* The queue implements StoppableQueue: a batch is one piece although its *)
(* values are unlinked one by one.                                         *)
USE DEF Threads, At, Goto, Acquire, Release, Waiting

Queued == {queue[i] : i \in DOMAIN queue}
Carries(p) == pc[p] \in {"lock", "link"}

(* A value is in one place: with the callers, with a push, or queued.      *)
ValueInv ==
  /\ Queued \cap fresh = {}
  /\ \A p \in Producers : Carries(p) =>
       /\ value[p] \notin Queued \cup fresh
       /\ \A q \in Producers \ {p} : Carries(q) => value[q] # value[p]

(* What a pop has taken, and how much it may still take.                   *)
ResultAt(c) ==
  /\ pc[c] \in {"idle", "lock", "check", "block", "wait"} => result[c] = <<>>
  /\ pc[c] \in {"count", "return"} => result[c] # <<>>
  /\ pc[c] \in {"lock", "check", "block", "wait", "take"} =>
       left[c] <= MaxNum /\ (op[c] \in Single => left[c] = 1)

ResultInv == \A c \in Consumers : ResultAt(c)

QueueInv == BaseInv /\ ValueInv /\ ResultInv

(* What a consumer has obtained, in the eyes of StoppableQueue.            *)
TakenBy(c)    == result[c] \o SubSeq(queue, 1, Promised(c))
AbstractTaken == [c \in Consumers |-> TakenBy(c)]
-----------------------------------------------------------------------------
(* The values of a sequence, as it grows and shrinks.                      *)
LEMMA ElementsAppend ==
  ASSUME NEW s \in Seq(Values), NEW v \in Values
  PROVE  {Append(s, v)[i] : i \in DOMAIN Append(s, v)}
           \subseteq {s[i] : i \in DOMAIN s} \cup {v}
<1>1. DOMAIN s = 1..Len(s) /\ DOMAIN Append(s, v) = 1..(Len(s) + 1) /\ Len(s) \in Nat
  BY AppendProperties
<1>2. ASSUME NEW i \in 1..(Len(s) + 1)
      PROVE  Append(s, v)[i] = v \/ (i \in 1..Len(s) /\ Append(s, v)[i] = s[i])
  BY <1>1, AppendProperties
<1> QED
  BY <1>1, <1>2

LEMMA ElementsTail ==
  ASSUME NEW s \in Seq(Values), s # <<>>
  PROVE  {Tail(s)[i] : i \in DOMAIN Tail(s)} \subseteq {s[i] : i \in DOMAIN s}
<1>1. ASSUME NEW i \in DOMAIN Tail(s)
      PROVE  i + 1 \in DOMAIN s /\ Tail(s)[i] = s[i + 1]
  OBVIOUS
<1> QED
  BY <1>1

LEMMA AppendConcat ==
  ASSUME NEW r \in Seq(Values), NEW h \in Values, NEW t \in Seq(Values)
  PROVE  Append(r, h) \o t = r \o (<<h>> \o t)
  OBVIOUS

(* The first n values of a sequence move to another one by one.            *)
LEMMA MoveHead ==
  ASSUME NEW s \in Seq(Values), NEW r \in Seq(Values), NEW n \in 1..Len(s)
  PROVE  /\ Append(r, Head(s)) \o SubSeq(Tail(s), 1, n - 1) = r \o SubSeq(s, 1, n)
         /\ SubSeq(Tail(s), n, Len(Tail(s))) = SubSeq(s, n + 1, Len(s))
<1>1. s # <<>> /\ Tail(s) = SubSeq(s, 2, Len(s)) /\ Len(Tail(s)) = Len(s) - 1
  BY TailIsSubSeq
<1>2. Len(s) \in Nat /\ n \in Nat /\ 1 <= n /\ n <= Len(s) /\ Tail(s) \in Seq(Values)
  BY <1>1
<1>3. SubSeq(Tail(s), 1, n - 1) = SubSeq(s, 2, n)
  <2>1. CASE n = 1
    BY <2>1, SubSeqEmpty
  <2>2. CASE n > 1
    <3>1. 2 \in 1..Len(s) /\ Len(s) \in 1..Len(s) /\ n - 1 \in 1..(Len(s) - 2 + 1)
          /\ 1 \in 1..(Len(s) - 2 + 1)
      BY <1>2, <2>2
    <3>2. SubSeq(SubSeq(s, 2, Len(s)), 1, n - 1) = SubSeq(s, 2 + 1 - 1, 2 + (n - 1) - 1)
      BY <3>1, SubSeqOfSubSeq
    <3>3. 2 + 1 - 1 = 2 /\ 2 + (n - 1) - 1 = n
      BY <1>2
    <3> QED
      BY <1>1, <3>2, <3>3
  <2> QED
    BY <1>2, <2>1, <2>2
<1>4. SubSeq(Tail(s), n, Len(Tail(s))) = SubSeq(s, n + 1, Len(s))
  <2>1. CASE n = Len(s)
    BY <1>1, <1>2, <2>1, SubSeqEmpty
  <2>2. CASE n < Len(s)
    <3>1. 2 \in 1..Len(s) /\ Len(s) \in 1..Len(s) /\ n \in 1..(Len(s) - 2 + 1)
          /\ Len(s) - 1 \in 1..(Len(s) - 2 + 1)
      BY <1>2, <2>2
    <3>2. SubSeq(SubSeq(s, 2, Len(s)), n, Len(s) - 1) = SubSeq(s, 2 + n - 1, 2 + (Len(s) - 1) - 1)
      BY <3>1, SubSeqOfSubSeq
    <3>3. 2 + n - 1 = n + 1 /\ 2 + (Len(s) - 1) - 1 = Len(s)
      BY <1>2
    <3> QED
      BY <1>1, <3>2, <3>3
  <2> QED
    BY <1>2, <2>1, <2>2
<1>5. Append(r, Head(s)) \o SubSeq(Tail(s), 1, n - 1) = r \o SubSeq(s, 1, n)
  <2>1. Head(s) = s[1] /\ Head(s) \in Values
    BY <1>1
  <2>2. SubSeq(s, 1, n) = <<s[1]>> \o SubSeq(s, 2, n)
    BY <1>2, SubSeqRecursiveFirst
  <2>3. SubSeq(s, 2, n) \in Seq(Values)
    BY <1>2
  <2>4. Append(r, s[1]) \o SubSeq(s, 2, n) = r \o (<<s[1]>> \o SubSeq(s, 2, n))
    BY <2>1, <2>3, AppendConcat
  <2> QED
    BY <1>3, <2>1, <2>2, <2>4, Zenon
<1> QED
  BY <1>4, <1>5
-----------------------------------------------------------------------------
LEMMA InitQueue == Init => QueueInv
<1> SUFFICES ASSUME Init PROVE QueueInv
  OBVIOUS
<1>1. ValueInv
  BY DEF Init, ValueInv, Queued, Carries
<1>2. ResultInv
  BY DEF Init, ResultInv, ResultAt
<1> QED
  BY <1>1, <1>2, InitBase DEF QueueInv

(* A step that neither adds a value to the queue nor starts a push.        *)
LEMMA ValueFrame ==
  ASSUME ValueInv, Queued' \subseteq Queued, fresh' = fresh, value' = value,
         \A p \in Producers : Carries(p)' => Carries(p)
  PROVE  ValueInv'
  BY DEF ValueInv

LEMMA PushValue ==
  ASSUME QueueInv, NEW p \in Producers,
         PushStep(p) \/ \E v \in Values : PushBegin(p, v)
  PROVE  ValueInv'
<1> USE ThreadsAssumption DEF QueueInv, BaseInv
<1>1. ASSUME NEW v \in Values, PushBegin(p, v) PROVE ValueInv'
  <2>1. queue' = queue /\ fresh' = fresh \ {v} /\ v \in fresh
    BY <1>1 DEF PushBegin
  <2>2. CASE pc' = pc /\ value' = value
    BY <2>1, <2>2 DEF ValueInv, Queued, Carries
  <2>3. CASE pc' = [pc EXCEPT ![p] = "lock"] /\ value' = [value EXCEPT ![p] = v]
    <3>1. /\ \A q \in Producers : q # p => (Carries(q)' <=> Carries(q)) /\ value'[q] = value[q]
          /\ value'[p] = v
      BY <2>3 DEF Carries, TypeOK
    <3>2. Queued' = Queued
      BY <2>1 DEF Queued
    <3> QED
      BY <2>1, <3>1, <3>2 DEF ValueInv
  <2> QED
    BY <1>1, <2>2, <2>3, Zenon DEF PushBegin
<1>2. ASSUME PushLink(p) PROVE ValueInv'
  <2>1. value[p] \in Values /\ queue \in Seq(Values) /\ Carries(p)
    BY <1>2 DEF PushLink, TypeOK, Carries
  <2>2. Queued' \subseteq Queued \cup {value[p]} /\ fresh' = fresh /\ value' = value
    BY <1>2, <2>1, ElementsAppend DEF PushLink, Queued, pushing
  <2>3. ~Carries(p)' /\ \A q \in Producers : Carries(q)' => Carries(q)
    BY <1>2 DEF PushLink, Carries, TypeOK
  <2>4. value[p] \notin fresh /\ \A q \in Producers \ {p} : Carries(q) => value[q] # value[p]
    BY <2>1 DEF ValueInv
  <2> QED
    BY <2>2, <2>3, <2>4 DEF ValueInv
<1>3. ASSUME PushLock(p) \/ PushCount(p) PROVE ValueInv'
  <2>1. queue' = queue /\ fresh' = fresh /\ value' = value
    BY <1>3 DEF PushLock, PushCount, pushing
  <2>2. \A q \in Producers : Carries(q)' => Carries(q)
    BY <1>3 DEF PushLock, PushCount, Carries, TypeOK
  <2> QED
    BY <2>1, <2>2, ValueFrame DEF Queued
<1>4. ASSUME PushNotify(p) PROVE ValueInv'
  <2>1. queue' = queue /\ fresh' = fresh /\ value' = value
    BY <1>4, Zenon DEF PushNotify, pushing
  <2>2. \A q \in Producers : Carries(q)' => Carries(q)
    BY <1>4, NotifyWakes DEF Carries, TypeOK
  <2> QED
    BY <2>1, <2>2, ValueFrame DEF Queued
<1> QED
  BY <1>1, <1>2, <1>3, <1>4 DEF PushStep

(* A pop takes values away and starts no push.                             *)
LEMMA PopPlaces ==
  ASSUME TypeOK, NEW c \in Consumers,
         \/ PopStep(c) \/ PopSpuriousWakeup(c) \/ PopTimeout(c)
         \/ \E o \in Ops : PopBegin(c, o) \/ TryPopBegin(c, o)
  PROVE  /\ fresh' = fresh /\ value' = value
         /\ \A t \in Threads \ {c} : pc'[t] = pc[t]
         /\ queue' = queue \/ (At(c, "take") /\ Unlink(c))
         /\ \A d \in Consumers \ {c} : /\ result'[d] = result[d] /\ left'[d] = left[d]
                                        /\ op'[d] = op[d]
<1> USE DEF TypeOK, pushing, popping
<1>1. ASSUME NEW o \in Ops, PopBegin(c, o) \/ TryPopBegin(c, o)
      PROVE  /\ UNCHANGED <<fresh, value, queue, result>>
             /\ \A t \in Threads \ {c} : pc'[t] = pc[t]
             /\ \A d \in Consumers \ {c} : left'[d] = left[d] /\ op'[d] = op[d]
  BY <1>1 DEF PopBegin, TryPopBegin, StartCall
<1>2. CASE PopLock(c) \/ PopStopped(c) \/ PopFound(c) \/ PopBlock(c) \/ PopCount(c)
           \/ PopSpuriousWakeup(c) \/ PopTimeout(c)
  BY <1>2 DEF PopLock, PopStopped, PopFound, PopBlock, PopCount, PopSpuriousWakeup, PopTimeout
<1>3. CASE PopEmpty(c)
  <2>1. UNCHANGED <<fresh, value, queue, result, left, op>>
    BY <1>3, Zenon DEF PopEmpty
  <2>2. pc' = [pc EXCEPT ![c] = "idle"] \/ pc' = [pc EXCEPT ![c] = "block"]
    BY <1>3, Zenon DEF PopEmpty
  <2> QED
    BY <2>1, <2>2
<1>4. CASE PopTake(c)
  BY <1>4 DEF PopTake, Unlink
<1>5. CASE PopTakeBatch(c)
  <2>1. pc' = pc \/ pc' = [pc EXCEPT ![c] = "return"]
    BY <1>5, Zenon DEF PopTakeBatch
  <2>2. UNCHANGED <<fresh, value, op>> /\ At(c, "take") /\ Unlink(c)
    BY <1>5 DEF PopTakeBatch
  <2> QED
    BY <2>1, <2>2 DEF Unlink
<1>6. CASE PopReturn(c)
  BY <1>6 DEF PopReturn
<1> QED
  BY <1>1, <1>2, <1>3, <1>4, <1>5, <1>6 DEF PopStep

LEMMA PopValue ==
  ASSUME QueueInv, NEW c \in Consumers,
         \/ PopStep(c) \/ PopSpuriousWakeup(c) \/ PopTimeout(c)
         \/ \E o \in Ops : PopBegin(c, o) \/ TryPopBegin(c, o)
  PROVE  ValueInv'
<1>1. \A p \in Producers : Carries(p)' => Carries(p)
  BY PopPlaces, ThreadsAssumption DEF Carries, QueueInv, BaseInv
<1>2. Queued' \subseteq Queued
  <2>1. CASE queue' = queue
    BY <2>1 DEF Queued
  <2>2. CASE At(c, "take") /\ Unlink(c)
    BY <2>2, ElementsTail DEF Queued, Unlink, QueueInv, BaseInv, TypeOK, CallInv
  <2> QED
    BY <2>1, <2>2, PopPlaces DEF QueueInv, BaseInv
<1> QED
  BY <1>1, <1>2, PopPlaces, ValueFrame DEF QueueInv, BaseInv

LEMMA PopResult ==
  ASSUME QueueInv, NEW c \in Consumers,
         \/ PopStep(c) \/ PopSpuriousWakeup(c) \/ PopTimeout(c)
         \/ \E o \in Ops : PopBegin(c, o) \/ TryPopBegin(c, o)
  PROVE  ResultInv'
<1> USE DEF QueueInv, BaseInv
<1>1. ASSUME NEW d \in Consumers, d # c PROVE ResultAt(d)'
  BY <1>1, PopPlaces DEF ResultInv, ResultAt
<1>2. TypeOK /\ CallInv /\ ResultAt(c)
  BY DEF ResultInv
<1>3. ResultAt(c)'
  <2> USE <1>2 DEF ResultAt, TypeOK, popping
  <2>1. ASSUME NEW o \in Ops, PopBegin(c, o) \/ TryPopBegin(c, o) PROVE ResultAt(c)'
    <3>1. left'[c] = (IF o \in Batch THEN MaxNum ELSE 1) /\ op'[c] = o /\ result' = result
      BY <2>1 DEF PopBegin, TryPopBegin, StartCall
    <3>2. pc[c] = "idle" /\ pc'[c] \in {"lock", "check"}
      BY <2>1 DEF PopBegin, TryPopBegin
    <3>3. left'[c] <= MaxNum /\ (o \in Single => left'[c] = 1)
      BY <3>1, BoundsAssumption DEF Single, Batch
    <3> QED
      BY <3>1, <3>2, <3>3
  <2>2. CASE PopLock(c) \/ PopStopped(c) \/ PopFound(c) \/ PopBlock(c) \/ PopCount(c)
             \/ PopSpuriousWakeup(c) \/ PopTimeout(c) \/ PopReturn(c)
    BY <2>2 DEF PopLock, PopStopped, PopFound, PopBlock, PopCount, PopSpuriousWakeup,
       PopTimeout, PopReturn
  <2>3. CASE PopEmpty(c)
    <3>1. pc[c] = "check" /\ UNCHANGED <<result, left, op>>
      BY <2>3, Zenon DEF PopEmpty
    <3>2. pc' = [pc EXCEPT ![c] = "idle"] \/ pc' = [pc EXCEPT ![c] = "block"]
      BY <2>3, Zenon DEF PopEmpty
    <3> QED
      BY <3>1, <3>2
  <2>4. CASE At(c, "take") /\ Unlink(c) /\ op' = op
             /\ \/ pc' = [pc EXCEPT ![c] = "count"] \/ pc' = [pc EXCEPT ![c] = "return"]
                \/ pc' = pc /\ op[c] \in Batch
    <3>1. queue # <<>> /\ left[c] \in Nat \ {0}
      BY <2>4 DEF CallInv
    <3>2. result'[c] # <<>> /\ left'[c] <= MaxNum
      <4>1. result'[c] = Append(result[c], Head(queue)) /\ left'[c] = left[c] - 1
        BY <2>4 DEF Unlink
      <4>2. result[c] \in Seq(Values) /\ Head(queue) \in Values
        BY <3>1
      <4> QED
        BY <2>4, <3>1, <4>1, <4>2, AppendProperties, BoundsAssumption
    <3>3. op[c] \in Batch => op[c] \notin Single
      BY DEF Batch, Single
    <3> QED
      BY <2>4, <3>2, <3>3
  <2>5. PopTake(c) => At(c, "take") /\ Unlink(c) /\ op' = op
                      /\ pc' = [pc EXCEPT ![c] = "count"]
    BY DEF PopTake
  <2>6. PopTakeBatch(c) => At(c, "take") /\ Unlink(c) /\ op' = op /\ op[c] \in Batch
                           /\ (pc' = [pc EXCEPT ![c] = "return"] \/ pc' = pc)
    BY Zenon DEF PopTakeBatch
  <2> QED
    BY <2>1, <2>2, <2>3, <2>4, <2>5, <2>6 DEF PopStep
<1> QED
  BY <1>1, <1>3 DEF ResultInv

(* Pushes and Stop leave the pops alone but for waking them.               *)
LEMMA OthersPlaces ==
  ASSUME TypeOK, StopStep \/ UNCHANGED vars \/
           \E p \in Producers : PushStep(p) \/ \E v \in Values : PushBegin(p, v)
  PROVE  /\ UNCHANGED popping
         /\ \A c \in Consumers : pc'[c] = pc[c] \/ (pc[c] = "wait" /\ pc'[c] = "lock")
<1> USE ThreadsAssumption DEF TypeOK
<1>1. ASSUME NEW p \in Producers, NEW v \in Values, PushBegin(p, v)
      PROVE  UNCHANGED popping /\ (pc' = pc \/ pc' = [pc EXCEPT ![p] = "lock"])
  BY <1>1, Zenon DEF PushBegin
<1>2. ASSUME NEW p \in Producers, PushNotify(p)
      PROVE  UNCHANGED popping
  BY <1>2, Zenon DEF PushNotify
<1>3. ASSUME NEW p \in Producers, PushNotify(p)
      PROVE  \A c \in Consumers : pc'[c] = pc[c] \/ (pc[c] = "wait" /\ pc'[c] = "lock")
  <2>1. CASE pc' = [pc EXCEPT ![p] = "idle"]
    BY <2>1
  <2>2. ASSUME NEW c \in Consumers, pc[c] = "wait",
               pc' = [pc EXCEPT ![p] = "idle", ![c] = "lock"]
        PROVE  \A d \in Consumers : pc'[d] = pc[d] \/ (pc[d] = "wait" /\ pc'[d] = "lock")
    BY <2>2
  <2> QED
    BY <1>3, <2>1, <2>2, NotifyWakes
<1>4. ASSUME NEW p \in Producers, PushLock(p) \/ PushLink(p) \/ PushCount(p)
      PROVE  UNCHANGED popping /\ \A c \in Consumers : pc'[c] = pc[c]
  BY <1>4 DEF PushLock, PushLink, PushCount
<1>5. ASSUME StopStep
      PROVE  /\ UNCHANGED popping
             /\ \A c \in Consumers : pc'[c] = pc[c] \/ (pc[c] = "wait" /\ pc'[c] = "lock")
  BY <1>5 DEF StopStep, StopLock, StopSet, StopNotify
<1>6. ASSUME UNCHANGED vars PROVE UNCHANGED popping /\ pc' = pc
  BY <1>6 DEF vars, popping
<1>7. ASSUME NEW p \in Producers, NEW v \in Values, PushBegin(p, v)
      PROVE  \A c \in Consumers : pc'[c] = pc[c]
  BY <1>1, <1>7
<1> QED
  BY <1>1, <1>2, <1>3, <1>4, <1>5, <1>6, <1>7 DEF PushStep

LEMMA NextQueue == ASSUME QueueInv, [Next]_vars PROVE QueueInv'
<1>1. BaseInv'
  BY NextBase DEF QueueInv
<1>2. ASSUME NEW c \in Consumers,
             \/ PopStep(c) \/ PopSpuriousWakeup(c) \/ PopTimeout(c)
             \/ \E o \in Ops : PopBegin(c, o) \/ TryPopBegin(c, o)
      PROVE  ValueInv' /\ ResultInv'
  BY <1>2, PopValue, PopResult
<1>3. ASSUME StopStep \/ UNCHANGED vars \/
               \E p \in Producers : PushStep(p) \/ \E v \in Values : PushBegin(p, v)
      PROVE  ResultInv'
  BY <1>3, OthersPlaces DEF QueueInv, BaseInv, ResultInv, ResultAt, popping
<1>4. ASSUME NEW p \in Producers, PushStep(p) \/ \E v \in Values : PushBegin(p, v)
      PROVE  ValueInv'
  BY <1>4, PushValue
<1>5. ASSUME StopStep PROVE ValueInv'
  <2>1. UNCHANGED <<queue, fresh, value>>
    BY <1>5 DEF StopStep, StopLock, StopSet, StopNotify, pushing
  <2>2. \A p \in Producers : Carries(p)' => Carries(p)
    BY <1>5, ThreadsAssumption DEF StopStep, StopLock, StopSet, StopNotify, Carries,
       QueueInv, BaseInv, TypeOK
  <2> QED
    BY <2>1, <2>2, ValueFrame DEF Queued, QueueInv
<1>6. ASSUME UNCHANGED vars PROVE ValueInv'
  BY <1>6, ValueFrame DEF vars, Queued, QueueInv, Carries
<1> QED
  BY <1>1, <1>2, <1>3, <1>4, <1>5, <1>6 DEF Next, QueueInv
-----------------------------------------------------------------------------
(* Who is in the loop of a pop, and what StoppableQueue sees of the queue.  *)
LEMMA OneTaker ==
  ASSUME BaseInv, NEW t \in Threads, Holding(t)
  PROVE  Takers = IF t \in Consumers /\ pc[t] = "take" THEN {t} ELSE {}
  BY DEF BaseInv, LockInv, Holding, Takers

LEMMA OneTakerNext ==
  ASSUME BaseInv', NEW t \in Threads, Holding(t)'
  PROVE  Takers' = IF t \in Consumers /\ pc'[t] = "take" THEN {t} ELSE {}
  BY DEF BaseInv, LockInv, Holding, Takers

LEMMA ItemsSeen ==
  ASSUME BaseInv, NEW c
  PROVE  /\ Takers = {} => AbstractItems = queue
         /\ Takers = {c} => AbstractItems = SubSeq(queue, Promised(c) + 1, Len(queue))
<1>1. Takers = {} => AbstractItems = SubSeq(queue, 1, Len(queue))
  BY DEF AbstractItems
<1>2. Takers = {c} => AbstractItems = SubSeq(queue, Promised(c) + 1, Len(queue))
  BY DEF AbstractItems
<1> QED
  BY <1>1, <1>2, SubSeqFull DEF BaseInv, TypeOK

LEMMA ItemsSeenNext ==
  ASSUME BaseInv', NEW c
  PROVE  /\ Takers' = {} => AbstractItems' = queue'
         /\ Takers' = {c} =>
              AbstractItems' = SubSeq(queue', Promised(c)' + 1, Len(queue'))
<1>1. Takers' = {} => AbstractItems' = SubSeq(queue', 1, Len(queue'))
  BY DEF AbstractItems
<1>2. Takers' = {c} => AbstractItems' = SubSeq(queue', Promised(c)' + 1, Len(queue'))
  BY DEF AbstractItems
<1> QED
  BY <1>1, <1>2, SubSeqFull DEF BaseInv, TypeOK

LEMMA NothingPromised ==
  ASSUME BaseInv, NEW c \in Consumers, pc[c] # "take"
  PROVE  Promised(c) = 0 /\ TakenBy(c) = result[c]
<1>1. Promised(c) = 0 /\ SubSeq(queue, 1, 0) = <<>>
  BY SubSeqEmpty DEF Promised
<1> QED
  BY <1>1 DEF TakenBy, BaseInv, TypeOK

LEMMA NothingPromisedNext ==
  ASSUME BaseInv', NEW c \in Consumers, pc'[c] # "take"
  PROVE  Promised(c)' = 0 /\ TakenBy(c)' = result'[c]
<1>1. Promised(c)' = 0 /\ SubSeq(queue', 1, 0) = <<>>
  BY SubSeqEmpty DEF Promised
<1> QED
  BY <1>1 DEF TakenBy, BaseInv, TypeOK

(* A step that StoppableQueue does not see.                                *)
LEMMA Unseen ==
  ASSUME queue' = queue, result' = result, left' = left,
         \A c \in Consumers : pc'[c] = "take" <=> pc[c] = "take"
  PROVE  AbstractItems' = AbstractItems /\ AbstractTaken' = AbstractTaken
<1>1. \A c \in Consumers : Promised(c)' = Promised(c)
  BY DEF Promised
<1>2. Takers' = Takers
  BY DEF Takers
<1>3. AbstractTaken' = AbstractTaken
  BY <1>1 DEF AbstractTaken, TakenBy
<1>4. CASE Takers = {}
  BY <1>2, <1>3, <1>4 DEF AbstractItems
<1>5. CASE Takers # {}
  <2>1. (CHOOSE c \in Takers : TRUE) \in Consumers
    BY <1>5 DEF Takers
  <2> QED
    BY <1>1, <1>2, <1>3, <1>5, <2>1 DEF AbstractItems
<1> QED
  BY <1>4, <1>5

(* The link of a PushBack is Put.                                          *)
LEMMA PushLinkIsPut ==
  ASSUME QueueInv, QueueInv', NEW p \in Producers, PushLink(p)
  PROVE  Abstract!Put(value[p])
<1> USE ThreadsAssumption DEF QueueInv
<1>1. Takers = {} /\ \A c \in Consumers : pc[c] # "take"
  <2>1. Takers = {}
    BY OneTaker DEF PushLink, Holding
  <2> QED
    BY <2>1 DEF Takers
<1>2. \A c \in Consumers : pc'[c] = pc[c]
  BY DEF PushLink, BaseInv, TypeOK
<1>3. Takers' = {}
  BY <1>1, <1>2 DEF Takers
<1>4. AbstractItems = queue /\ AbstractItems' = Append(queue, value[p])
  BY <1>1, <1>3, ItemsSeen, ItemsSeenNext DEF PushLink
<1>5. AbstractTaken' = AbstractTaken
  <2>1. ASSUME NEW c \in Consumers PROVE TakenBy(c)' = TakenBy(c)
    BY <1>1, <1>2, NothingPromised, NothingPromisedNext DEF PushLink, popping
  <2> QED
    BY <2>1 DEF AbstractTaken
<1>6. value[p] \notin Abstract!Elements(AbstractItems)
  BY <1>4 DEF PushLink, ValueInv, Carries, Queued, Abstract!Elements
<1>7. has_stop_' = has_stop_
  BY DEF PushLink
<1> QED
  BY <1>4, <1>5, <1>6, <1>7 DEF Abstract!Put, AbstractTaken, TakenBy

(* A pop that finds values takes, for StoppableQueue, at once all that its *)
(* loop is going to take.                                                  *)
LEMMA PopFoundIsTake ==
  ASSUME QueueInv, QueueInv', NEW c \in Consumers, PopFound(c)
  PROVE  \E k \in 1..MaxNum : Abstract!Take(c, k)
<1> USE DEF QueueInv
<1>0. PICK k : k = Promised(c)'
  OBVIOUS
<1>1. /\ pc[c] = "check" /\ ~has_stop_ /\ queue # <<>> /\ queue' = queue /\ has_stop_' = has_stop_
      /\ left' = left /\ result' = result /\ pc'[c] = "take"
      /\ \A d \in Consumers \ {c} : pc'[d] = pc[d]
  BY DEF PopFound, popping, BaseInv, TypeOK
<1>2. Takers = {} /\ Takers' = {c} /\ \A d \in Consumers : pc[d] # "take"
  <2>1. Takers = {}
    BY <1>1, OneTaker DEF Holding
  <2> QED
    BY <1>1, <2>1 DEF Takers
<1>3. k \in 1..MaxNum /\ k \in 1..Len(queue)
  <2>1. left[c] \in Nat \ {0} /\ left[c] <= MaxNum /\ MaxNum \in Nat
    BY <1>1, BoundsAssumption DEF BaseInv, TypeOK, CallInv, ResultInv, ResultAt
  <2>2. Len(queue) \in Nat \ {0}
    BY <1>1 DEF BaseInv, TypeOK
  <2>3. k = IF left[c] <= Len(queue) THEN left[c] ELSE Len(queue)
    BY <1>0, <1>1 DEF Promised
  <2> QED
    BY <2>1, <2>2, <2>3
<1>4. AbstractItems = queue /\ AbstractItems' = SubSeq(queue, k + 1, Len(queue))
  BY <1>0, <1>1, <1>2, ItemsSeen, ItemsSeenNext
<1>5. TakenBy(c) = <<>> /\ TakenBy(c)' = SubSeq(queue, 1, k)
  <2>1. result[c] = <<>>
    BY <1>1 DEF ResultInv, ResultAt
  <2>2. SubSeq(queue, 1, k) \in Seq(Values)
    BY <1>3 DEF BaseInv, TypeOK
  <2>3. TakenBy(c)' = <<>> \o SubSeq(queue, 1, k)
    BY <1>0, <1>1, <2>1 DEF TakenBy
  <2> QED
    BY <1>2, <2>1, <2>2, <2>3, ConcatEmptySeq, NothingPromised
<1>6. \A d \in Consumers \ {c} : TakenBy(d)' = TakenBy(d)
  BY <1>1, <1>2, NothingPromised, NothingPromisedNext
<1>7. AbstractTaken' = [AbstractTaken EXCEPT ![c] = SubSeq(AbstractItems, 1, k)]
  BY <1>4, <1>5, <1>6 DEF AbstractTaken
<1>8. AbstractTaken[c] = <<>> /\ k <= Len(AbstractItems)
  BY <1>3, <1>4, <1>5 DEF AbstractTaken
<1>9. Abstract!Take(c, k)
  BY <1>1, <1>4, <1>7, <1>8 DEF Abstract!Take, AbstractTaken, TakenBy
<1> QED
  BY <1>3, <1>9

(* One turn of its loop, or the only one, changes nothing then.            *)
LEMMA UnlinkUnseen ==
  ASSUME QueueInv, QueueInv', NEW c \in Consumers, PopTake(c) \/ PopTakeBatch(c)
  PROVE  AbstractItems' = AbstractItems /\ AbstractTaken' = AbstractTaken
<1> USE DEF QueueInv
<1>1. /\ pc[c] = "take" /\ Unlink(c) /\ has_stop_' = has_stop_
      /\ \/ pc'[c] # "take" /\ (left'[c] = 0 \/ queue' = <<>>)
         \/ pc'[c] = "take"
      /\ \A d \in Consumers \ {c} : pc'[d] = pc[d]
  <2>1. CASE PopTake(c)
    <3>1. left[c] = 1
      BY <2>1 DEF PopTake, ResultInv, ResultAt
    <3> QED
      BY <2>1, <3>1 DEF PopTake, Unlink, BaseInv, TypeOK
  <2>2. CASE PopTakeBatch(c)
    <3>1. \/ pc' = pc
          \/ pc' = [pc EXCEPT ![c] = "return"] /\ (left'[c] = 0 \/ queue' = <<>>)
      BY <2>2, Zenon DEF PopTakeBatch
    <3>2. pc[c] = "take" /\ Unlink(c) /\ has_stop_' = has_stop_
      BY <2>2 DEF PopTakeBatch
    <3> QED
      BY <3>1, <3>2 DEF BaseInv, TypeOK
  <2> QED
    BY <2>1, <2>2
<1>2. Takers = {c}
  BY <1>1, OneTaker DEF Holding
<1>3. queue # <<>> /\ queue \in Seq(Values) /\ left[c] \in Nat \ {0}
      /\ result[c] \in Seq(Values)
  BY <1>1 DEF BaseInv, TypeOK, CallInv
<1>0. PICK n : n = Promised(c)
  OBVIOUS
<1>4. n \in 1..Len(queue) /\ Promised(c)' = n - 1
  <2>1. Len(queue') = Len(queue) - 1 /\ Len(queue) \in Nat \ {0} /\ left'[c] = left[c] - 1
    BY <1>1, <1>3 DEF Unlink, BaseInv, TypeOK
  <2>2. n = IF left[c] <= Len(queue) THEN left[c] ELSE Len(queue)
    BY <1>0, <1>1 DEF Promised
  <2>3. Promised(c)' = IF pc'[c] # "take" THEN 0
                       ELSE IF left'[c] <= Len(queue') THEN left'[c] ELSE Len(queue')
    BY DEF Promised
  <2>4. pc'[c] # "take" => left'[c] = 0 \/ Len(queue') = 0
    BY <1>1
  <2> QED
    BY <1>3, <2>1, <2>2, <2>3, <2>4
<1>5. queue' = Tail(queue) /\ result'[c] = Append(result[c], Head(queue))
      /\ \A d \in Consumers \ {c} : result'[d] = result[d]
  BY <1>1 DEF Unlink, BaseInv, TypeOK
<1>6. AbstractItems' = AbstractItems
  <2>1. AbstractItems = SubSeq(queue, n + 1, Len(queue))
    BY <1>0, <1>2, ItemsSeen
  <2>2. AbstractItems' = SubSeq(queue', n, Len(queue'))
    <3>1. CASE pc'[c] = "take"
      <4>1. Takers' = {c}
        BY <3>1, OneTakerNext DEF Holding
      <4>2. (n - 1) + 1 = n
        BY <1>4
      <4> QED
        BY <1>4, <4>1, <4>2, ItemsSeenNext
    <3>2. CASE pc'[c] # "take"
      <4>1. Takers' = {}
        BY <1>1, <1>2, <3>2 DEF Takers
      <4>3. Promised(c)' = 0
        BY <3>2 DEF Promised
      <4>4. n = 1
        BY <1>4, <4>3
      <4>2. queue' = SubSeq(queue', 1, Len(queue'))
        BY SubSeqFull DEF BaseInv, TypeOK
      <4> QED
        BY <4>1, <4>2, <4>4, ItemsSeenNext
    <3> QED
      BY <3>1, <3>2
  <2> QED
    BY <1>3, <1>4, <1>5, <2>1, <2>2, MoveHead
<1>7. TakenBy(c)' = TakenBy(c)
  <2>1. TakenBy(c)' = Append(result[c], Head(queue)) \o SubSeq(Tail(queue), 1, n - 1)
    BY <1>4, <1>5 DEF TakenBy
  <2>2. TakenBy(c) = result[c] \o SubSeq(queue, 1, n)
    BY <1>0 DEF TakenBy
  <2> QED
    BY <1>3, <1>4, <2>1, <2>2, MoveHead
<1>8. ASSUME NEW d \in Consumers, d # c PROVE TakenBy(d)' = TakenBy(d)
  <2>1. pc[d] # "take" /\ pc'[d] # "take"
    BY <1>1, <1>2, <1>8 DEF Takers
  <2> QED
    BY <1>5, <1>8, <2>1, NothingPromised, NothingPromisedNext
<1> QED
  BY <1>6, <1>7, <1>8 DEF AbstractTaken

(* The end of a pop is Return.                                             *)
LEMMA PopReturnIsReturn ==
  ASSUME QueueInv, QueueInv', NEW c \in Consumers, PopReturn(c)
  PROVE  Abstract!Return(c)
<1> USE DEF QueueInv
<1>1. /\ pc[c] = "return" /\ pc'[c] = "idle" /\ result[c] # <<>> /\ result'[c] = <<>>
      /\ UNCHANGED <<queue, left, has_stop_>>
      /\ \A d \in Consumers \ {c} : pc'[d] = pc[d] /\ result'[d] = result[d]
  BY DEF PopReturn, BaseInv, TypeOK, ResultInv, ResultAt
<1>2. \A d \in Consumers : Promised(d)' = Promised(d)
  BY <1>1 DEF Promised
<1>3. AbstractItems' = AbstractItems
  <2>1. Takers' = Takers
    BY <1>1 DEF Takers
  <2>2. CASE Takers = {}
    BY <1>1, <2>1, <2>2 DEF AbstractItems
  <2>3. CASE Takers # {}
    <3>1. (CHOOSE d \in Takers : TRUE) \in Consumers
      BY <2>3 DEF Takers
    <3> QED
      BY <1>1, <1>2, <2>1, <2>3, <3>1 DEF AbstractItems
  <2> QED
    BY <2>2, <2>3
<1>4. TakenBy(c) = result[c] /\ TakenBy(c)' = <<>>
  BY <1>1, NothingPromised, NothingPromisedNext
<1>5. \A d \in Consumers \ {c} : TakenBy(d)' = TakenBy(d)
  BY <1>1, <1>2 DEF TakenBy
<1>6. AbstractTaken[c] # <<>> /\ AbstractTaken' = [AbstractTaken EXCEPT ![c] = <<>>]
  BY <1>1, <1>4, <1>5 DEF AbstractTaken
<1> QED
  BY <1>1, <1>3, <1>6 DEF Abstract!Return, AbstractTaken, TakenBy

(* Every other step is Stop or is not seen.                                *)
LEMMA OtherPopsUnseen ==
  ASSUME QueueInv, NEW c \in Consumers,
         \/ PopLock(c) \/ PopStopped(c) \/ PopEmpty(c) \/ PopBlock(c) \/ PopCount(c)
         \/ PopSpuriousWakeup(c) \/ PopTimeout(c)
         \/ \E o \in Ops : PopBegin(c, o) \/ TryPopBegin(c, o)
  PROVE  AbstractItems' = AbstractItems /\ AbstractTaken' = AbstractTaken
         /\ has_stop_' = has_stop_
<1>1. queue' = queue /\ result' = result /\ has_stop_' = has_stop_
  <2>1. CASE PopEmpty(c)
    BY <2>1, Zenon DEF PopEmpty, popping
  <2> QED
    BY <2>1 DEF PopLock, PopStopped, PopBlock, PopCount, PopSpuriousWakeup, PopTimeout,
       PopBegin, TryPopBegin, popping
<1>2. pc[c] # "take" /\ pc'[c] # "take" /\ \A d \in Consumers \ {c} : pc'[d] = pc[d]
  <2> USE DEF QueueInv, BaseInv, TypeOK
  <2>1. CASE PopEmpty(c)
    <3>1. pc[c] = "check" /\ (pc' = [pc EXCEPT ![c] = "idle"] \/ pc' = [pc EXCEPT ![c] = "block"])
      BY <2>1, Zenon DEF PopEmpty
    <3> QED
      BY <3>1
  <2> QED
    BY <2>1 DEF PopLock, PopStopped, PopBlock, PopCount, PopSpuriousWakeup, PopTimeout,
       PopBegin, TryPopBegin
<1>3. \A d \in Consumers \ {c} : left'[d] = left[d]
  BY PopPlaces DEF PopStep, QueueInv, BaseInv
<1>4. Takers' = Takers /\ \A d \in Consumers : Promised(d)' = Promised(d)
  BY <1>1, <1>2, <1>3 DEF Takers, Promised
<1>5. AbstractTaken' = AbstractTaken
  BY <1>1, <1>4 DEF AbstractTaken, TakenBy
<1>6. CASE Takers = {}
  BY <1>1, <1>4, <1>5, <1>6 DEF AbstractItems
<1>7. CASE Takers # {}
  <2>1. (CHOOSE d \in Takers : TRUE) \in Consumers
    BY <1>7 DEF Takers
  <2> QED
    BY <1>1, <1>4, <1>5, <1>7, <2>1 DEF AbstractItems
<1> QED
  BY <1>6, <1>7

LEMMA OthersUnseen ==
  ASSUME QueueInv, StopStep \/ UNCHANGED vars \/
           \E p \in Producers : PushStep(p) \/ \E v \in Values : PushBegin(p, v),
         \A p \in Producers : ~PushLink(p)
  PROVE  AbstractItems' = AbstractItems /\ AbstractTaken' = AbstractTaken
         /\ has_stop_' \in {has_stop_, TRUE}
<1>1. queue' = queue /\ has_stop_' \in {has_stop_, TRUE}
  <2>1. ASSUME NEW p \in Producers, NEW v \in Values, PushBegin(p, v)
        PROVE  queue' = queue /\ has_stop_' = has_stop_
    BY <2>1 DEF PushBegin
  <2>2. ASSUME NEW p \in Producers, PushNotify(p)
        PROVE  queue' = queue /\ has_stop_' = has_stop_
    BY <2>2, Zenon DEF PushNotify
  <2>3. ASSUME NEW p \in Producers, PushLock(p) \/ PushCount(p)
        PROVE  queue' = queue /\ has_stop_' = has_stop_
    BY <2>3 DEF PushLock, PushCount
  <2>4. ASSUME StopStep PROVE queue' = queue /\ has_stop_' \in {has_stop_, TRUE}
    BY <2>4 DEF StopStep, StopLock, StopSet, StopNotify
  <2>5. ASSUME UNCHANGED vars PROVE queue' = queue /\ has_stop_' = has_stop_
    BY <2>5 DEF vars
  <2> QED
    BY <2>1, <2>2, <2>3, <2>4, <2>5 DEF PushStep
<1>2. UNCHANGED popping
      /\ \A c \in Consumers : pc'[c] = pc[c] \/ (pc[c] = "wait" /\ pc'[c] = "lock")
  BY OthersPlaces DEF QueueInv, BaseInv
<1> QED
  BY <1>1, <1>2, Unseen DEF popping

LEMMA StepIsAllowed ==
  ASSUME QueueInv, QueueInv', [Next]_vars
  PROVE  [Abstract!Next]_(Abstract!svars)
<1>1. ASSUME NEW p \in Producers, PushLink(p) PROVE Abstract!Next
  <2>1. value[p] \in Values
    BY <1>1 DEF PushLink, QueueInv, BaseInv, TypeOK
  <2> QED
    BY <1>1, <2>1, PushLinkIsPut DEF Abstract!Next
<1>2. ASSUME NEW c \in Consumers, PopFound(c) PROVE Abstract!Next
  BY <1>2, PopFoundIsTake DEF Abstract!Next
<1>3. ASSUME NEW c \in Consumers, PopReturn(c) PROVE Abstract!Next
  BY <1>3, PopReturnIsReturn DEF Abstract!Next
<1>4. ASSUME AbstractItems' = AbstractItems, AbstractTaken' = AbstractTaken,
             has_stop_' \in {has_stop_, TRUE}
      PROVE  [Abstract!Next]_(Abstract!svars)
  BY <1>4 DEF Abstract!Next, Abstract!Stop, Abstract!svars, AbstractTaken, TakenBy
<1>5. ASSUME NEW c \in Consumers, PopTake(c) \/ PopTakeBatch(c)
      PROVE  [Abstract!Next]_(Abstract!svars)
  <2>1. has_stop_' = has_stop_
    BY <1>5, Zenon DEF PopTake, PopTakeBatch
  <2> QED
    BY <1>4, <1>5, <2>1, UnlinkUnseen
<1>6. ASSUME NEW c \in Consumers,
             \/ PopLock(c) \/ PopStopped(c) \/ PopEmpty(c) \/ PopBlock(c) \/ PopCount(c)
             \/ PopSpuriousWakeup(c) \/ PopTimeout(c)
             \/ \E o \in Ops : PopBegin(c, o) \/ TryPopBegin(c, o)
      PROVE  [Abstract!Next]_(Abstract!svars)
  BY <1>4, <1>6, OtherPopsUnseen
<1>7. ASSUME StopStep \/ UNCHANGED vars \/
               \E p \in Producers : PushStep(p) \/ \E v \in Values : PushBegin(p, v)
      PROVE  [Abstract!Next]_(Abstract!svars)
  BY <1>1, <1>4, <1>7, OthersUnseen
<1> QED
  BY <1>2, <1>3, <1>5, <1>6, <1>7 DEF Next, PopStep

(* The invariant of the refinement holds in every reachable state.         *)
THEOREM ValuesAndResults == Spec => []QueueInv
  BY InitQueue, NextQueue, PTL DEF Spec

(* The code implements StoppableQueue: FIFO, batches in one piece, nothing *)
(* given out once has_stop_ is set, whatever threads there are             *)
(* (ProducerConsumerQueue.h, the five pops, PushBack and Stop).            *)
THEOREM QueueImplements == Spec => ImplementsQueue
<1>1. Init => Abstract!Init
  <2> SUFFICES ASSUME Init PROVE Abstract!Init
    OBVIOUS
  <2>1. QueueInv /\ Takers = {}
    BY InitQueue DEF Init, Takers
  <2>2. \A c \in Consumers : pc[c] # "take" /\ result[c] = <<>>
    BY DEF Init
  <2>3. AbstractItems = <<>>
    BY <2>1, ItemsSeen DEF QueueInv, Init
  <2>4. \A c \in Consumers : TakenBy(c) = <<>>
    BY <2>1, <2>2, NothingPromised DEF QueueInv
  <2> QED
    BY <2>3, <2>4 DEF Abstract!Init, Init, TakenBy
<1>2. QueueInv /\ QueueInv' /\ [Next]_vars => [Abstract!Next]_(Abstract!svars)
  BY StepIsAllowed
<1> QED
  BY <1>1, <1>2, ValuesAndResults, PTL DEF Spec, ImplementsQueue, Abstract!Spec
=============================================================================
