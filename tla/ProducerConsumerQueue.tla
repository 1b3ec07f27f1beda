----------------------- MODULE ProducerConsumerQueue -----------------------
(***************************************************************************)
(* Container/ProducerConsumerQueue.h: the multi-producer multi-consumer    *)
(* queue of the work threads, at the grain of its mutex, its condition     *)
(* variable and its two atomics.  The linked list between head_->next_ and *)
(* tail_ is only touched with lock_ held and is the sequence "queue".      *)
(* has_stop_ and size_ are atomics that are also used without the lock.    *)
(***************************************************************************)
EXTENDS Naturals, Sequences, FiniteSets

CONSTANTS Producers,   (* threads that call PushBack                       *)
          Consumers,   (* threads that call one of the five pop operations *)
          Stopper,     (* the thread that calls Stop, once                 *)
          Null,        (* nullptr, and "nobody holds lock_"                *)
          Values,      (* the pointers that are pushed, each once          *)
          MaxNum,      (* the max_num of the batch operations              *)
          SizeModulus  (* size_ counts modulo this: 2^32 in the code       *)

Threads == Producers \cup Consumers \cup {Stopper}

(* The threads are distinct; the width of size_ is not constrained. *)
ASSUME ThreadsAssumption ==
  /\ IsFiniteSet(Producers) /\ IsFiniteSet(Consumers)
  /\ Producers \cap Consumers = {}
  /\ Stopper \notin Producers \cup Consumers
  /\ Null \notin Threads \cup Values

ASSUME BoundsAssumption == /\ MaxNum \in Nat \ {0}
                           /\ SizeModulus \in Nat \ {0}

VARIABLES
  queue,      (* data_ of the nodes from head_->next_ to tail_             *)
  lock,       (* owner of lock_                                            *)
  has_stop_,
  size_,      (* the rough size the monitor thread reads                   *)
  pc,         (* where each thread is in its call                          *)
  fresh,      (* values nobody has passed to PushBack yet                  *)
  value,      (* value[p]: argument of the running PushBack of p           *)
  op,         (* op[c]: the pop operation c runs                           *)
  timed_out,  (* timed_out[c]: wait_until of c returned timeout            *)
  left,       (* left[c]: how many elements the call of c may still take   *)
  result      (* result[c]: what the running call of c has taken           *)

vars == <<queue, lock, has_stop_, size_, pc, fresh, value, op, timed_out,
          left, result>>

pushing == <<fresh, value>>
popping == <<op, timed_out, left, result>>

Single   == {"PopFront", "TryPopFront", "PopFrontUntil"}
Batch    == {"PopFrontBatch", "TryPopFrontBatch"}
Try      == {"TryPopFront", "TryPopFrontBatch"}
Blocking == {"PopFront", "PopFrontBatch", "PopFrontUntil"}
Ops      == Single \cup Batch

At(t, l)     == pc[t] = l
Goto(t, l)   == pc' = [pc EXCEPT ![t] = l]
Acquire(t)   == lock = Null /\ lock' = t
Release      == lock' = Null

(* The threads blocked inside cond_variable_.wait or wait_until. *)
Waiting == {c \in Consumers : At(c, "wait")}

Init == /\ queue = <<>>
        /\ lock = Null
        /\ has_stop_ = FALSE
        /\ size_ = 0
        /\ pc = [t \in Threads |-> "idle"]
        /\ fresh = Values
        /\ value = [p \in Producers |-> Null]
        /\ op = [c \in Consumers |-> "PopFront"]
        /\ timed_out = [c \in Consumers |-> FALSE]
        /\ left = [c \in Consumers |-> 0]
        /\ result = [c \in Consumers |-> <<>>]
-----------------------------------------------------------------------------
(* PushBack *)

(* has_stop_ is read before lock_ is taken: a stopped queue refuses the    *)
(* value and leaves it to the caller.                                      *)
PushBegin(p, v) ==
  /\ At(p, "idle")
  /\ v \in fresh
  /\ fresh' = fresh \ {v}
  /\ IF has_stop_
     THEN UNCHANGED <<pc, value>>
     ELSE Goto(p, "lock") /\ value' = [value EXCEPT ![p] = v]
  /\ UNCHANGED <<queue, lock, has_stop_, size_, popping>>

PushLock(p) ==
  /\ At(p, "lock") /\ Acquire(p) /\ Goto(p, "link")
  /\ UNCHANGED <<queue, has_stop_, size_, pushing, popping>>

(* Mutant: the value is linked before the others. *)
PushLinkFirst(p) ==
  /\ At(p, "link") /\ Release /\ Goto(p, "count")
  /\ queue' = <<value[p]>> \o queue
  /\ UNCHANGED <<has_stop_, size_, pushing, popping>>

PushLink(p) ==
  /\ At(p, "link") /\ Release /\ Goto(p, "count")
  /\ queue' = Append(queue, value[p])
  /\ UNCHANGED <<has_stop_, size_, pushing, popping>>

(* ++size_ comes after the unlock: a consumer may decrement first. *)
PushCount(p) ==
  /\ At(p, "count") /\ Goto(p, "notify")
  /\ size_' = (size_ + 1) % SizeModulus
  /\ UNCHANGED <<queue, lock, has_stop_, pushing, popping>>

(* Mutant: only the push that finds the queue empty notifies. *)
PushNotifyFirst(p) ==
  /\ At(p, "notify")
  /\ \/ (Waiting = {} \/ Len(queue) # 1) /\ Goto(p, "idle")
     \/ /\ Len(queue) = 1
        /\ \E c \in Waiting : pc' = [pc EXCEPT ![p] = "idle", ![c] = "lock"]
  /\ UNCHANGED <<queue, lock, has_stop_, size_, pushing, popping>>

(* Mutant: PushBack does not notify. *)
PushSilently(p) ==
  /\ At(p, "notify") /\ Goto(p, "idle")
  /\ UNCHANGED <<queue, lock, has_stop_, size_, pushing, popping>>

(* NotifyOne wakes one of the blocked threads if there is one. *)
PushNotify(p) ==
  /\ At(p, "notify")
  /\ \/ Waiting = {} /\ Goto(p, "idle")
     \/ \E c \in Waiting : pc' = [pc EXCEPT ![p] = "idle", ![c] = "lock"]
  /\ UNCHANGED <<queue, lock, has_stop_, size_, pushing, popping>>
-----------------------------------------------------------------------------
(* PopFront, PopFrontBatch, PopFrontUntil, TryPopFront, TryPopFrontBatch *)

StartCall(c, o) ==
  /\ op' = [op EXCEPT ![c] = o]
  /\ timed_out' = [timed_out EXCEPT ![c] = FALSE]
  /\ left' = [left EXCEPT ![c] = IF o \in Batch THEN MaxNum ELSE 1]

PopBegin(c, o) ==
  /\ At(c, "idle") /\ o \in Blocking
  /\ StartCall(c, o) /\ Goto(c, "lock")
  /\ UNCHANGED <<queue, lock, has_stop_, size_, pushing, result>>

(* try_lock: when lock_ is held the call returns at once with nothing and  *)
(* no state changes, so only the successful attempt is a step.             *)
TryPopBegin(c, o) ==
  /\ At(c, "idle") /\ o \in Try
  /\ Acquire(c)
  /\ StartCall(c, o) /\ Goto(c, "check")
  /\ UNCHANGED <<queue, has_stop_, size_, pushing, result>>

(* The first acquisition and the one at the end of every wait. *)
PopLock(c) ==
  /\ At(c, "lock") /\ Acquire(c) /\ Goto(c, "check")
  /\ UNCHANGED <<queue, has_stop_, size_, pushing, popping>>

(* The wait predicate and the tests after it, with lock_ held. *)
PopStopped(c) ==
  /\ At(c, "check") /\ has_stop_
  /\ Release /\ Goto(c, "idle")
  /\ UNCHANGED <<queue, has_stop_, size_, pushing, popping>>

PopFound(c) ==
  /\ At(c, "check") /\ ~has_stop_ /\ queue # <<>>
  /\ Goto(c, "take")
  /\ UNCHANGED <<queue, lock, has_stop_, size_, pushing, popping>>

PopEmpty(c) ==
  /\ At(c, "check") /\ ~has_stop_ /\ queue = <<>>
  /\ IF op[c] \in Try \/ timed_out[c]
     THEN Release /\ Goto(c, "idle")
     ELSE Goto(c, "block") /\ UNCHANGED lock
  /\ UNCHANGED <<queue, has_stop_, size_, pushing, popping>>

(* wait gives up lock_ and blocks in one step. *)
PopBlock(c) ==
  /\ At(c, "block") /\ Release /\ Goto(c, "wait")
  /\ UNCHANGED <<queue, has_stop_, size_, pushing, popping>>

(* A wait may end without a notification. *)
PopSpuriousWakeup(c) ==
  /\ At(c, "wait") /\ Goto(c, "lock")
  /\ UNCHANGED <<queue, lock, has_stop_, size_, pushing, popping>>

(* The time point of PopFrontUntil passes. *)
PopTimeout(c) ==
  /\ At(c, "wait") /\ op[c] = "PopFrontUntil"
  /\ Goto(c, "lock")
  /\ timed_out' = [timed_out EXCEPT ![c] = TRUE]
  /\ UNCHANGED <<queue, lock, has_stop_, size_, pushing, op, left, result>>

Unlink(c) ==
  /\ queue' = Tail(queue)
  /\ result' = [result EXCEPT ![c] = Append(@, Head(queue))]
  /\ left' = [left EXCEPT ![c] = @ - 1]

(* A single pop gives up lock_ before it decrements size_. *)
PopTake(c) ==
  /\ At(c, "take") /\ op[c] \in Single
  /\ Unlink(c)
  /\ Release /\ Goto(c, "count")
  /\ UNCHANGED <<has_stop_, size_, pushing, op, timed_out>>

PopCount(c) ==
  /\ At(c, "count") /\ Goto(c, "return")
  /\ size_' = (size_ + SizeModulus - 1) % SizeModulus
  /\ UNCHANGED <<queue, lock, has_stop_, pushing, popping>>

(* Mutant: a batch pop does not count its values. *)
PopTakeUncounted(c) ==
  /\ At(c, "take") /\ op[c] \in Batch
  /\ Unlink(c)
  /\ IF queue' # <<>> /\ left'[c] # 0
     THEN UNCHANGED <<lock, pc>>
     ELSE Release /\ Goto(c, "return")
  /\ UNCHANGED <<size_, has_stop_, pushing, op, timed_out>>

(* One turn of the loop of a batch pop; size_ goes down with lock_ held. *)
PopTakeBatch(c) ==
  /\ At(c, "take") /\ op[c] \in Batch
  /\ Unlink(c)
  /\ size_' = (size_ + SizeModulus - 1) % SizeModulus
  /\ IF queue' # <<>> /\ left'[c] # 0
     THEN UNCHANGED <<lock, pc>>
     ELSE Release /\ Goto(c, "return")
  /\ UNCHANGED <<has_stop_, pushing, op, timed_out>>

PopReturn(c) ==
  /\ At(c, "return") /\ Goto(c, "idle")
  /\ result' = [result EXCEPT ![c] = <<>>]
  /\ UNCHANGED <<queue, lock, has_stop_, size_, pushing, op, timed_out, left>>
-----------------------------------------------------------------------------
(* Stop *)

(* Mutant: has_stop_ is set without lock_. *)
StopUnlocked ==
  /\ At(Stopper, "idle") /\ Goto(Stopper, "notify")
  /\ has_stop_' = TRUE
  /\ UNCHANGED <<queue, lock, size_, pushing, popping>>

StopLock ==
  /\ At(Stopper, "idle") /\ Acquire(Stopper) /\ Goto(Stopper, "set")
  /\ UNCHANGED <<queue, has_stop_, size_, pushing, popping>>

StopSet ==
  /\ At(Stopper, "set") /\ Release /\ Goto(Stopper, "notify")
  /\ has_stop_' = TRUE
  /\ UNCHANGED <<queue, size_, pushing, popping>>

(* Mutant: NotifyOne in the place of NotifyAll. *)
StopNotifyOne ==
  /\ At(Stopper, "notify")
  /\ \/ Waiting = {} /\ Goto(Stopper, "done")
     \/ \E c \in Waiting : pc' = [pc EXCEPT ![Stopper] = "done", ![c] = "lock"]
  /\ UNCHANGED <<queue, lock, has_stop_, size_, pushing, popping>>

StopNotify ==
  /\ At(Stopper, "notify")
  /\ pc' = [t \in Threads |-> IF t = Stopper THEN "done"
                              ELSE IF t \in Waiting THEN "lock" ELSE pc[t]]
  /\ UNCHANGED <<queue, lock, has_stop_, size_, pushing, popping>>
-----------------------------------------------------------------------------
PushStep(p) == PushLock(p) \/ PushLink(p) \/ PushCount(p) \/ PushNotify(p)

(* The part of a pop that runs without the environment's help. *)
PopStep(c) == \/ PopLock(c) \/ PopStopped(c) \/ PopFound(c) \/ PopEmpty(c)
              \/ PopBlock(c) \/ PopTake(c) \/ PopCount(c) \/ PopTakeBatch(c)
              \/ PopReturn(c)

StopStep == StopLock \/ StopSet \/ StopNotify

Next == \/ \E p \in Producers : PushStep(p) \/ \E v \in Values : PushBegin(p, v)
        \/ \E c \in Consumers :
             \/ PopStep(c) \/ PopSpuriousWakeup(c) \/ PopTimeout(c)
             \/ \E o \in Ops : PopBegin(c, o) \/ TryPopBegin(c, o)
        \/ StopStep

Spec == Init /\ [][Next]_vars

(* Fairness: threads keep running between two lines of one call, and a     *)
(* thread that keeps finding lock_ free gets it.  Nothing is assumed about *)
(* callers here: no PushBack, pop or Stop has to be called, no time point  *)
(* has to pass and no wait has to end by itself.                           *)
Fairness ==
  /\ \A p \in Producers : WF_vars(PushStep(p)) /\ SF_vars(PushLock(p))
  /\ \A c \in Consumers : WF_vars(PopStep(c)) /\ SF_vars(PopLock(c))
  /\ WF_vars(StopSet \/ StopNotify)

(* The loops of the work threads: a thread that returned from a blocking   *)
(* pop calls one again.                                                    *)
CallersLoop ==
  \A c \in Consumers : WF_vars(\E o \in Blocking : PopBegin(c, o))

FairSpec == Spec /\ Fairness
LoopSpec == FairSpec /\ CallersLoop
-----------------------------------------------------------------------------
ProducerAt == {"idle", "lock", "link", "count", "notify"}
ConsumerAt == {"idle", "lock", "check", "block", "wait", "take", "count",
               "return"}
StopperAt  == {"idle", "set", "notify", "done"}

(* Every variable has its type. *)
TypeOK ==
  /\ queue \in Seq(Values)
  /\ lock \in Threads \cup {Null}
  /\ has_stop_ \in BOOLEAN
  /\ size_ \in 0..(SizeModulus - 1)
  /\ pc \in [Threads -> ProducerAt \cup ConsumerAt \cup StopperAt]
  /\ \A p \in Producers : pc[p] \in ProducerAt
  /\ \A c \in Consumers : pc[c] \in ConsumerAt
  /\ pc[Stopper] \in StopperAt
  /\ fresh \in SUBSET Values
  /\ value \in [Producers -> Values \cup {Null}]
  /\ \A p \in Producers : pc[p] \in {"lock", "link"} => value[p] \in Values
  /\ op \in [Consumers -> Ops]
  /\ timed_out \in [Consumers -> BOOLEAN]
  /\ left \in [Consumers -> Nat]
  /\ result \in [Consumers -> Seq(Values)]

(* The threads that are inside a critical section of lock_. *)
Holding(t) == pc[t] \in {"link", "check", "block", "take", "set"}

(* Producers that linked a value whose NotifyOne is still to come, and     *)
(* consumers that will look at the queue before they can block.            *)
Signalling == {p \in Producers : pc[p] \in {"count", "notify"}}
Looking    == {c \in Consumers : pc[c] \in {"lock", "check", "take"}}

(* No wakeup of PushBack is lost: while some consumer sleeps in wait, each *)
(* queued value is matched by a notification still to be sent or by a      *)
(* consumer that is awake and will look, however PushBack, the five pops,  *)
(* time-outs and spurious wakeups interleave (lines 120-135, 139-234).     *)
NoLostWakeup ==
  ~has_stop_ /\ Waiting # {} =>
    Len(queue) <= Cardinality(Signalling) + Cardinality(Looking)

(* No consumer goes to sleep, or sleeps on, after Stop has set has_stop_   *)
(* and called NotifyAll (lines 92-97): the flag is set under lock_, so it  *)
(* cannot fall between the test of the predicate and the wait.             *)
NobodySleepsThroughStop ==
  has_stop_ => /\ \A c \in Consumers : ~At(c, "block")
               /\ At(Stopper, "done") => Waiting = {}

CountingUp   == {p \in Producers : At(p, "count")}
CountingDown == {c \in Consumers : At(c, "count")}

(* GetRoughSize is off only by the calls between their link or unlink and  *)
(* their ++size_ or --size_; it may pass below zero and wrap, and it is    *)
(* exact again when those calls are over (lines 114, 131, 151, 169, 231).  *)
SizeAccounting ==
  (size_ + Cardinality(CountingUp)) % SizeModulus
    = (Len(queue) + Cardinality(CountingDown)) % SizeModulus

(* Once has_stop_ is set no pop obtains a value: what is queued then, or   *)
(* is linked later by a PushBack that had passed its test, stays queued    *)
(* until the destructor frees the nodes (lines 121, 144, 163, 183, 224).   *)
NothingTakenAfterStop ==
  [][has_stop_ => /\ Len(queue') >= Len(queue)
                  /\ \A c \in Consumers : result'[c] \in {result[c], <<>>}]_vars

(* The values a consumer inside the loop of a pop is still going to take:  *)
(* lock_ is held to the end of the loop, so they are as good as taken.     *)
Promised(c) == IF ~At(c, "take") THEN 0
               ELSE IF left[c] <= Len(queue) THEN left[c] ELSE Len(queue)

Takers == {c \in Consumers : At(c, "take")}

AbstractItems ==
  LET n == IF Takers = {} THEN 0 ELSE Promised(CHOOSE c \in Takers : TRUE)
  IN  SubSeq(queue, n + 1, Len(queue))

Abstract == INSTANCE StoppableQueue WITH
  items   <- AbstractItems,
  stopped <- has_stop_,
  taken   <- [c \in Consumers |-> result[c] \o SubSeq(queue, 1, Promised(c))]

(* A batch pop takes its values in one piece although it unlinks them one  *)
(* by one, and the queue is FIFO: the code implements StoppableQueue.      *)
ImplementsQueue == Abstract!Spec

(* Stop releases every blocked caller: each pop that is running when       *)
(* has_stop_ is set returns.                                               *)
StopReleasesConsumers ==
  \A c \in Consumers : (has_stop_ /\ ~At(c, "idle")) ~> At(c, "idle")

(* A queued value is taken if the work threads keep calling blocking pops, *)
(* unless the queue is stopped.                                            *)
EveryValueIsTaken ==
  \A v \in Values : (v \in Abstract!Elements(queue))
                      ~> (v \notin Abstract!Elements(queue) \/ has_stop_)
=============================================================================
