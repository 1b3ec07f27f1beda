----------------------------- MODULE AsyncThread -----------------------------
(* Threads on Linux and AsyncLanuchAsync on top of them.  A call of        *)
(* AsyncLanuchAsync makes a runnable with a promise, a thread object and   *)
(* the argument of the new thread, starts that thread, and returns an      *)
(* AsyncFuture, which owns the runnable and the thread object.  Futures    *)
(* are moved, asked, waited for and destroyed while the threads run.       *)
EXTENDS Integers, FiniteSets

CONSTANTS
  Users,       \* the threads that call AsyncLanuchAsync
  Slots,       \* the AsyncFuture variables of each of them
  Temp,        \* the temporary one that a call returns
  Tasks,       \* the calls; the new thread of a call goes by its name
  CreateFails, \* those for which pthread_create may fail
  Null

ASSUME AsyncAssumption ==
  /\ CreateFails \subseteq Tasks /\ IsFiniteSet(Tasks)
  /\ Null \notin Tasks \cup Users \cup Slots \cup {Temp}
  /\ Temp \notin Slots /\ Users \cap Tasks = {}

VARIABLES
  pc,      \* pc[u]: where the call of the user u is
  task,    \* the task its AsyncLanuchAsync starts
  slot,    \* the future the call is about
  from,    \* the future a move takes from, or Null: the destructor
  seen,    \* the value of the static counter that it has read
  future,  \* future[u][s]: future_ (a task or no state), runnable_, runnable_thread_
  heap,    \* the objects that are allocated: <<kind, task>>
  counter, \* the static variable thread_id of SetupThread
  thread_id_, joinable_, lock_, \* of the thread objects; lock_ by its owner
  tpc,     \* where the new thread is
  ThisThread, \* its thread_local thread_id_
  ready,   \* the tasks whose promise is fulfilled
  raced    \* history: two calls were at the static counter together

userVars   == <<pc, task, slot, from, seen, future>>
objectVars == <<heap, counter, thread_id_, joinable_, lock_, raced>>
threadVars == <<tpc, ThisThread, ready>>
vars == <<userVars, objectVars, threadVars>>

AllSlots == Slots \cup {Temp}
Empty    == [future_ |-> Null, runnable_ |-> Null, runnable_thread_ |-> Null]
Futures  == [future_ : Tasks \cup {Null}, runnable_ : Tasks \cup {Null},
             runnable_thread_ : Tasks \cup {Null}]
Objects(t) == {<<"runnable", t>>, <<"thread", t>>, <<"param", t>>}
-----------------------------------------------------------------------------
Init ==
  /\ pc = [u \in Users |-> "idle"] /\ task = [u \in Users |-> Null]
  /\ slot = [u \in Users |-> Temp] /\ from = [u \in Users |-> Null]
  /\ seen = [u \in Users |-> 0]
  /\ future = [u \in Users |-> [s \in AllSlots |-> Empty]]
  /\ heap = {} /\ counter = 0
  /\ thread_id_ = [t \in Tasks |-> -1] /\ joinable_ = [t \in Tasks |-> FALSE]
  /\ lock_ = [t \in Tasks |-> Null]
  /\ tpc = [t \in Tasks |-> "none"] /\ ThisThread = [t \in Tasks |-> -1]
  /\ ready = {} /\ raced = FALSE

Goto(u, place) == pc' = [pc EXCEPT ![u] = place]

Cur(u) == future[u][slot[u]]
SetCur(u, f) == future' = [future EXCEPT ![u][slot[u]] = f]
-----------------------------------------------------------------------------
(* AsyncLanuchAsync, its result assigned to the future s.                  *)

Fresh == {t \in Tasks : tpc[t] = "none" /\ \A u \in Users : task[u] # t}

(* The objects; nobody else knows them, so lock_ is free.                  *)
Launch(u, t, s) ==
  /\ pc[u] = "idle" /\ t \in Fresh
  /\ task' = [task EXCEPT ![u] = t] /\ slot' = [slot EXCEPT ![u] = s]
  /\ from' = [from EXCEPT ![u] = Temp]
  /\ heap' = heap \cup Objects(t)
  /\ lock_' = [lock_ EXCEPT ![t] = u]
  /\ Goto(u, "create")
  /\ UNCHANGED <<seen, future, counter, thread_id_, joinable_, raced, threadVars>>

\* mutant: lock_ is not held while the object is filled in
CreateUnlocked(u) ==
  /\ pc[u] = "create"
  /\ tpc' = [tpc EXCEPT ![task[u]] = "lock"]
  /\ lock_' = [lock_ EXCEPT ![task[u]] = Null]
  /\ Goto(u, "setup")
  /\ UNCHANGED <<task, slot, from, seen, future, heap, counter, thread_id_, joinable_,
                 raced, ThisThread, ready>>

Create(u) ==
  /\ pc[u] = "create"
  /\ tpc' = [tpc EXCEPT ![task[u]] = "lock"]
  /\ Goto(u, "setup")
  /\ UNCHANGED <<task, slot, from, seen, future, objectVars, ThisThread, ready>>

(* thread_id_ = thread_id++, with a lock that other thread objects do not  *)
(* share: two such calls may read the same value.                          *)
ReadCounter(u) ==
  /\ pc[u] = "setup"
  /\ seen' = [seen EXCEPT ![u] = counter]
  /\ joinable_' = [joinable_ EXCEPT ![task[u]] = TRUE]
  /\ raced' = (raced \/ \E v \in Users \ {u} : pc[v] = "number")
  /\ Goto(u, "number")
  /\ UNCHANGED <<task, slot, from, future, heap, counter, thread_id_, lock_, threadVars>>

Returned(t, thread) == [future_ |-> t, runnable_ |-> t, runnable_thread_ |-> thread]

SetupThread(u) ==
  LET t == task[u] IN
  /\ pc[u] = "number"
  /\ thread_id_' = [thread_id_ EXCEPT ![t] = seen[u]] /\ counter' = seen[u] + 1
  /\ lock_' = [lock_ EXCEPT ![t] = Null]
  /\ future' = [future EXCEPT ![u][Temp] = Returned(t, t)]
  /\ Goto(u, "exit")
  /\ UNCHANGED <<task, slot, from, seen, heap, joinable_, raced, threadVars>>

(* CreateNativeThread deletes the thread object and returns nullptr.       *)
CreateFailed(u) ==
  LET t == task[u] IN
  /\ pc[u] = "create" /\ t \in CreateFails
  /\ heap' = heap \ {<<"thread", t>>, <<"param", t>>}
  /\ lock_' = [lock_ EXCEPT ![t] = Null]
  /\ tpc' = [tpc EXCEPT ![t] = "never"]
  /\ future' = [future EXCEPT ![u][Temp] = Returned(t, Null)]
  /\ Goto(u, "exit")
  /\ UNCHANGED <<task, slot, from, seen, counter, thread_id_, joinable_, raced,
                 ThisThread, ready>>
-----------------------------------------------------------------------------
(* AsyncFuture.                                                            *)

Used(u, s) == future[u][s] # Empty

(* operator= of a future from another one, and the destructor.             *)
Move(u, s, r) ==
  /\ pc[u] = "idle" /\ Used(u, r)
  /\ slot' = [slot EXCEPT ![u] = s] /\ from' = [from EXCEPT ![u] = r]
  /\ Goto(u, "exit")
  /\ UNCHANGED <<task, seen, future, objectVars, threadVars>>

Destruct(u, s) ==
  /\ pc[u] = "idle" /\ Used(u, s)
  /\ slot' = [slot EXCEPT ![u] = s] /\ from' = [from EXCEPT ![u] = Null]
  /\ Goto(u, "exit")
  /\ UNCHANGED <<task, seen, future, objectVars, threadVars>>

(* Exit: Get if the future has a state, then the thread object ...         *)
ExitGet(u) ==
  /\ pc[u] = "exit"
  /\ Cur(u).future_ \in ready \cup {Null}
  /\ SetCur(u, [Cur(u) EXCEPT !.future_ = Null])
  /\ Goto(u, IF Cur(u).runnable_thread_ # Null THEN "kill" ELSE "delete")
  /\ UNCHANGED <<task, slot, from, seen, objectVars, threadVars>>

(* ... whose destructor is Kill(true): it stops the runnable,              *)
Kill(u) ==
  LET t == Cur(u).runnable_thread_ IN
  /\ pc[u] = "kill"
  /\ thread_id_' = [thread_id_ EXCEPT ![t] = -1]
  /\ Goto(u, IF thread_id_[t] = -1 THEN "freed" ELSE IF joinable_[t] THEN "join" ELSE "param")
  /\ UNCHANGED <<task, slot, from, seen, future, heap, counter, joinable_, lock_, raced,
                 threadVars>>

\* mutant: the thread is not joined
JoinNot(u) ==
  /\ pc[u] = "join"
  /\ joinable_' = [joinable_ EXCEPT ![Cur(u).runnable_thread_] = FALSE]
  /\ Goto(u, "param")
  /\ UNCHANGED <<task, slot, from, seen, future, heap, counter, thread_id_, lock_, raced,
                 threadVars>>

(* joins the thread,                                                       *)
Join(u) ==
  LET t == Cur(u).runnable_thread_ IN
  /\ pc[u] = "join" /\ tpc[t] = "gone"
  /\ joinable_' = [joinable_ EXCEPT ![t] = FALSE]
  /\ Goto(u, "param")
  /\ UNCHANGED <<task, slot, from, seen, future, heap, counter, thread_id_, lock_, raced,
                 threadVars>>

(* and frees the argument; then the object itself goes,                    *)
DeleteParam(u) ==
  /\ pc[u] = "param"
  /\ heap' = heap \ {<<"param", Cur(u).runnable_thread_>>}
  /\ Goto(u, "freed")
  /\ UNCHANGED <<task, slot, from, seen, future, counter, thread_id_, joinable_, lock_,
                 raced, threadVars>>

DeleteThread(u) ==
  /\ pc[u] = "freed"
  /\ heap' = heap \ {<<"thread", Cur(u).runnable_thread_>>}
  /\ SetCur(u, [Cur(u) EXCEPT !.runnable_thread_ = Null])
  /\ Goto(u, "delete")
  /\ UNCHANGED <<task, slot, from, seen, counter, thread_id_, joinable_, lock_, raced,
                 threadVars>>

(* and last the runnable.                                                  *)
DeleteRunnable(u) ==
  /\ pc[u] = "delete"
  /\ heap' = heap \ {<<"runnable", Cur(u).runnable_>>}
  /\ SetCur(u, [Cur(u) EXCEPT !.runnable_ = Null])
  /\ Goto(u, IF from[u] = Null THEN "idle" ELSE "assign")
  /\ UNCHANGED <<task, slot, from, seen, counter, thread_id_, joinable_, lock_, raced,
                 threadVars>>

(* operator= takes the three members over; from itself it leaves nothing.  *)
Assign(u) ==
  /\ pc[u] = "assign"
  /\ future' = [future EXCEPT ![u] =
                  [s \in AllSlots |-> IF s = from[u] THEN Empty
                                      ELSE IF s = slot[u] THEN @[from[u]] ELSE @[s]]]
  /\ Goto(u, "idle")
  /\ UNCHANGED <<task, slot, from, seen, objectVars, threadVars>>

(* Get and Wait of a future with a state.                                  *)
Ask(u, s, call) ==
  /\ pc[u] = "idle" /\ future[u][s].future_ # Null
  /\ slot' = [slot EXCEPT ![u] = s]
  /\ Goto(u, call)
  /\ UNCHANGED <<task, from, seen, future, objectVars, threadVars>>

Get(u) ==
  /\ pc[u] = "get" /\ Cur(u).future_ \in ready
  /\ SetCur(u, [Cur(u) EXCEPT !.future_ = Null])
  /\ Goto(u, "idle")
  /\ UNCHANGED <<task, slot, from, seen, objectVars, threadVars>>

Wait(u) ==
  /\ pc[u] = "wait" /\ Cur(u).future_ \in ready
  /\ Goto(u, "idle")
  /\ UNCHANGED <<task, slot, from, seen, future, objectVars, threadVars>>
-----------------------------------------------------------------------------
(* The new thread: _Run, which copies its number under lock_,              *)
RunLock(t) ==
  /\ tpc[t] = "lock" /\ lock_[t] = Null
  /\ lock_' = [lock_ EXCEPT ![t] = t]
  /\ tpc' = [tpc EXCEPT ![t] = "copy"]
  /\ UNCHANGED <<userVars, heap, counter, thread_id_, joinable_, raced, ThisThread, ready>>

RunCopy(t) ==
  /\ tpc[t] = "copy"
  /\ ThisThread' = [ThisThread EXCEPT ![t] = thread_id_[t]]
  /\ lock_' = [lock_ EXCEPT ![t] = Null]
  /\ tpc' = [tpc EXCEPT ![t] = "run"]
  /\ UNCHANGED <<userVars, heap, counter, thread_id_, joinable_, raced, ready>>

\* mutant: Run of the void variant does not fulfil the promise
RunVoid(t) ==
  /\ tpc[t] = "run"
  /\ tpc' = [tpc EXCEPT ![t] = "store"]
  /\ UNCHANGED <<userVars, objectVars, ThisThread, ready>>

(* Init, the function, set_value,                                          *)
Run(t) ==
  /\ tpc[t] = "run"
  /\ ready' = ready \cup {t}
  /\ tpc' = [tpc EXCEPT ![t] = "store"]
  /\ UNCHANGED <<userVars, objectVars, ThisThread>>

(* Destroy, and the status into the argument.                              *)
RunStore(t) ==
  /\ tpc[t] = "store"
  /\ tpc' = [tpc EXCEPT ![t] = "gone"]
  /\ UNCHANGED <<userVars, objectVars, ThisThread, ready>>
-----------------------------------------------------------------------------
UserStep(u) ==
  \/ Create(u) \/ ReadCounter(u) \/ SetupThread(u) \/ CreateFailed(u)
  \/ ExitGet(u) \/ Kill(u) \/ Join(u) \/ DeleteParam(u) \/ DeleteThread(u)
  \/ DeleteRunnable(u) \/ Assign(u) \/ Get(u) \/ Wait(u)

UserCall(u) ==
  \E s \in Slots :
    \/ \E t \in Tasks : Launch(u, t, s)
    \/ \E r \in Slots : Move(u, s, r)
    \/ Destruct(u, s)
    \/ \E call \in {"get", "wait"} : Ask(u, s, call)

ThreadStep(t) == RunLock(t) \/ RunCopy(t) \/ Run(t) \/ RunStore(t)

Next ==
  \/ \E u \in Users : UserCall(u) \/ UserStep(u)
  \/ \E t \in Tasks : ThreadStep(t)

Spec == Init /\ [][Next]_vars

(* A call that has begun and a thread that was created keep running; the   *)
(* function returns.  Nobody has to make another call.                     *)
FairSpec ==
  Spec /\ (\A u \in Users : WF_vars(UserStep(u))) /\ (\A t \in Tasks : WF_vars(ThreadStep(t)))
-----------------------------------------------------------------------------
TypeOK ==
  /\ pc \in [Users -> {"idle", "create", "setup", "number", "exit", "kill", "join", "param",
                       "freed", "delete", "assign", "get", "wait"}]
  /\ task \in [Users -> Tasks \cup {Null}] /\ slot \in [Users -> AllSlots]
  /\ from \in [Users -> AllSlots \cup {Null}] /\ seen \in [Users -> Nat]
  /\ future \in [Users -> [AllSlots -> Futures]]
  /\ heap \subseteq {"runnable", "thread", "param"} \X Tasks /\ counter \in Nat
  /\ thread_id_ \in [Tasks -> Int] /\ joinable_ \in [Tasks -> BOOLEAN]
  /\ lock_ \in [Tasks -> Users \cup Tasks \cup {Null}]
  /\ tpc \in [Tasks -> {"none", "never", "lock", "copy", "run", "store", "gone"}]
  /\ ThisThread \in [Tasks -> Int] /\ ready \subseteq Tasks /\ raced \in BOOLEAN

(* A user in the middle of AsyncLanuchAsync has the objects in hand.       *)
Launching(t) == \E u \in Users : task[u] = t /\ pc[u] \in {"create", "setup", "number"}
Owners(t)    == {x \in Users \X AllSlots : future[x[1]][x[2]].runnable_ = t}
ThreadOwners(t) == {x \in Users \X AllSlots : future[x[1]][x[2]].runnable_thread_ = t}

(* Every object has one owner, a call or a future, and is gone with it; a  *)
(* thread that runs finds its thread object, its argument and its runnable *)
(* alive; a future that has a state owns the runnable with the promise.    *)
ObjectsOwned ==
  /\ TypeOK
  /\ \A t \in Tasks :
       /\ tpc[t] \in {"lock", "copy", "run", "store"} => Objects(t) \subseteq heap
       /\ Cardinality(Owners(t)) + (IF Launching(t) THEN 1 ELSE 0)
            = IF <<"runnable", t>> \in heap THEN 1 ELSE 0
       /\ Cardinality(ThreadOwners(t)) + (IF Launching(t) THEN 1 ELSE 0)
            = IF <<"thread", t>> \in heap THEN 1 ELSE 0
       /\ <<"param", t>> \in heap => <<"thread", t>> \in heap
  /\ \A u \in Users, s \in AllSlots :
       LET f == future[u][s] IN
       /\ f.future_ # Null => f.runnable_ = f.future_
       /\ f.runnable_thread_ # Null => f.runnable_ = f.runnable_thread_

(* A thread sees the number its SetupThread has given it, although it may  *)
(* run before that is written and Kill overwrites it; the numbers of two   *)
(* threads differ unless two calls met at the static counter.              *)
ThreadSeesItsId ==
  \A t \in Tasks : tpc[t] \in {"run", "store", "gone"} =>
    /\ ThisThread[t] \in 0..(counter - 1) \/ raced
    /\ ThisThread[t] # -1 /\ thread_id_[t] \in {-1, ThisThread[t]}
    /\ raced \/ \A x \in Tasks \ {t} : ThisThread[x] # ThisThread[t] \/ ThisThread[x] = -1

(* Every call returns, but for those that wait for the future of a thread  *)
(* that could not be created: nobody fulfils its promise, and the runnable *)
(* that holds the promise lives until the wait ends.                       *)
CallsReturn ==
  \A u \in Users :
    pc[u] # "idle" ~>
      \/ pc[u] = "idle"
      \/ /\ pc[u] \in {"exit", "get", "wait"} /\ Cur(u).future_ # Null
         /\ tpc[Cur(u).future_] = "never"
=============================================================================
