------------------------- MODULE AsyncThread_proofs -------------------------
(***************************************************************************)
(* Theorems about AsyncThread for any sets of users, futures and tasks,    *)
(* whichever threads cannot be created.                                    *)
(***************************************************************************)
EXTENDS AsyncThread, FiniteSetTheorems, TLAPS

Starting(u) == pc[u] \in {"create", "setup", "number"}
Started(t)  == \E u \in Users : Starting(u) /\ task[u] = t
Ending(u)   == pc[u] \in {"join", "param", "freed"}

(* The call that starts a task holds its lock_ and is the only one to know *)
(* it.                                                                     *)
LaunchInv ==
  \A u \in Users :
    /\ task[u] # Null =>
         /\ \A v \in Users \ {u} : task[v] # task[u]
         /\ tpc[task[u]] = "none" <=> pc[u] = "create"
    /\ Starting(u) =>
         /\ task[u] # Null /\ from[u] = Temp /\ lock_[task[u]] = u
         /\ pc[u] # "create" => tpc[task[u]] = "lock"
         /\ pc[u] = "number" => joinable_[task[u]]
         /\ Objects(task[u]) \subseteq heap

(* The temporary future is empty but while its result is moved.            *)
CallInv ==
  \A u \in Users :
    /\ pc[u] # "idle" => slot[u] \in Slots
    /\ future[u][Temp] # Empty =>
         from[u] = Temp /\ (pc[u] \in {"exit", "kill", "delete", "assign"} \/ Ending(u))

(* What belongs to a future: its runnable, its thread object with number   *)
(* and argument unless its Exit has taken them, and nobody else's.         *)
OwnAt(u, s) ==
  LET f == future[u][s] t == f.runnable_ IN
  /\ f.future_ # Null => f.runnable_ = f.future_
  /\ f.runnable_thread_ # Null => f.runnable_ = f.runnable_thread_
  /\ t # Null =>
       /\ <<"runnable", t>> \in heap /\ tpc[t] # "none" /\ ~Started(t)
       /\ \A v \in Users, r \in AllSlots : future[v][r].runnable_ = t => v = u /\ r = s
       /\ f.future_ = Null => t \in ready
       /\ f.runnable_thread_ = Null =>
            /\ tpc[t] \in {"never", "gone"}
            /\ <<"thread", t>> \notin heap /\ <<"param", t>> \notin heap
  /\ f.runnable_thread_ # Null =>
       /\ <<"thread", t>> \in heap /\ tpc[t] # "never"
       /\ \/ slot[u] = s /\ Ending(u)
          \/ thread_id_[t] # -1 /\ joinable_[t] /\ <<"param", t>> \in heap

OwnInv == \A u \in Users, s \in AllSlots : OwnAt(u, s)

(* What is allocated belongs to the call that starts it or to a future.    *)
HeapInv ==
  \A k \in {"runnable", "thread", "param"}, t \in Tasks :
    <<k, t>> \in heap =>
      Started(t) \/ \E u \in Users, s \in AllSlots : future[u][s].runnable_ = t

(* How far the Exit of a future is.                                        *)
ExitAt(u) ==
  /\ pc[u] \in {"kill", "delete"} \/ Ending(u) => Cur(u).future_ = Null
  /\ pc[u] = "kill" \/ Ending(u) => Cur(u).runnable_thread_ # Null
  /\ pc[u] = "delete" => Cur(u).runnable_thread_ = Null
  /\ pc[u] = "assign" => Cur(u) = Empty /\ from[u] # Null
  /\ pc[u] \in {"join", "param"} => <<"param", Cur(u).runnable_thread_>> \in heap
  /\ pc[u] \in {"param", "freed"} => tpc[Cur(u).runnable_thread_] = "gone"
  /\ pc[u] = "freed" => <<"param", Cur(u).runnable_thread_>> \notin heap

ExitInv == \A u \in Users : ExitAt(u)

(* What a thread uses is there; how far it is.                              *)
AliveInv ==
  \A t \in Tasks : tpc[t] \in {"lock", "copy", "run", "store"} => Objects(t) \subseteq heap

ThreadInv ==
  \A t \in Tasks :
    /\ t \in ready <=> tpc[t] \in {"store", "gone"}
    /\ tpc[t] = "copy" <=> lock_[t] = t
    /\ tpc[t] \in {"lock", "copy"} /\ lock_[t] \in {Null, t} => thread_id_[t] # -1
    /\ tpc[t] \in {"run", "store", "gone"} =>
         ThisThread[t] # -1 /\ thread_id_[t] \in {-1, ThisThread[t]}

(* While no two calls met at the static counter, it is above all numbers   *)
(* it has given out, and they differ.                                      *)
Numbers(t) == {thread_id_[t], ThisThread[t]} \ {-1}
CounterInv ==
  raced \/ /\ \A u \in Users : pc[u] = "number" =>
                seen[u] = counter /\ \A v \in Users : pc[v] = "number" => v = u
           /\ \A t \in Tasks : \A n \in Numbers(t) : n \in 0..(counter - 1)
           /\ \A t, x \in Tasks : x # t => Numbers(t) \cap Numbers(x) = {}

IInv ==
  /\ TypeOK
  /\ LaunchInv
  /\ CallInv
  /\ OwnInv
  /\ HeapInv
  /\ ExitInv
  /\ AliveInv
  /\ ThreadInv
  /\ CounterInv
-----------------------------------------------------------------------------
(* Every step is one of these.                                             *)
LEMMA StepCases ==
  ASSUME [Next]_vars
  PROVE  \/ \E u \in Users, s \in Slots, t \in Tasks : Launch(u, t, s)
         \/ \E u \in Users, s, r \in Slots : Move(u, s, r)
         \/ \E u \in Users, s \in Slots : Destruct(u, s)
         \/ \E u \in Users, s \in Slots, call \in {"get", "wait"} : Ask(u, s, call)
         \/ \E u \in Users : UserStep(u)
         \/ \E t \in Tasks : ThreadStep(t)
         \/ UNCHANGED vars
  BY Zenon DEF Next, UserCall

(* A future that is written, and the others.                               *)
LEMMA SetFuture ==
  ASSUME TypeOK, NEW u \in Users, NEW s \in AllSlots, NEW f \in Futures,
         future' = [future EXCEPT ![u][s] = f]
  PROVE  /\ future' \in [Users -> [AllSlots -> Futures]]
         /\ \A v \in Users, r \in AllSlots :
              future'[v][r] = IF v = u /\ r = s THEN f ELSE future[v][r]
  BY DEF TypeOK

(* The future in the hand of a call is written.                            *)
LEMMA SetCurIs ==
  ASSUME TypeOK, NEW u \in Users, NEW f \in Futures, SetCur(u, f)
  PROVE  \A v \in Users, r \in AllSlots :
           future'[v][r] = IF v = u /\ r = slot[u] THEN f ELSE future[v][r]
  BY SetFuture DEF TypeOK, SetCur

(* What a call has in its hand.                                            *)
LEMMA CurType ==
  ASSUME TypeOK, NEW u \in Users
  PROVE  Cur(u) \in Futures /\ slot[u] \in AllSlots
  BY DEF TypeOK, Cur

(* A number that is written.                                               *)
LEMMA SetNumber ==
  ASSUME NEW f \in [Tasks -> Int], NEW t, NEW n \in Int
  PROVE  [f EXCEPT ![t] = n] \in [Tasks -> Int]
  OBVIOUS

(* A future of which one member is cleared.                                *)
LEMMA Cleared ==
  ASSUME NEW f \in Futures
  PROVE  /\ [f EXCEPT !.future_ = Null] \in Futures
         /\ [f EXCEPT !.runnable_ = Null] \in Futures
         /\ [f EXCEPT !.runnable_thread_ = Null] \in Futures
         /\ [f EXCEPT !.future_ = Null].future_ = Null
         /\ [f EXCEPT !.future_ = Null].runnable_ = f.runnable_
         /\ [f EXCEPT !.future_ = Null].runnable_thread_ = f.runnable_thread_
         /\ [f EXCEPT !.runnable_ = Null].future_ = f.future_
         /\ [f EXCEPT !.runnable_ = Null].runnable_ = Null
         /\ [f EXCEPT !.runnable_ = Null].runnable_thread_ = f.runnable_thread_
         /\ [f EXCEPT !.runnable_thread_ = Null].future_ = f.future_
         /\ [f EXCEPT !.runnable_thread_ = Null].runnable_ = f.runnable_
         /\ [f EXCEPT !.runnable_thread_ = Null].runnable_thread_ = Null
         /\ f.future_ \in Tasks \cup {Null} /\ f.runnable_ \in Tasks \cup {Null}
         /\ f.runnable_thread_ \in Tasks \cup {Null}
  BY DEF Futures

(* What belongs to the future in the hand of a call.                       *)
LEMMA CurOwnAt ==
  ASSUME IInv, NEW u \in Users
  PROVE  OwnAt(u, slot[u])
  BY DEF IInv, TypeOK, OwnInv

(* A future without members is the empty one.                              *)
LEMMA IsEmpty ==
  ASSUME NEW f \in Futures, f.future_ = Null, f.runnable_ = Null, f.runnable_thread_ = Null
  PROVE  f = Empty
  BY DEF Futures, Empty

(* An Exit that deletes is about a task that nobody is starting.           *)
LEMMA CurOwned ==
  ASSUME IInv, NEW u \in Users, pc[u] \in {"kill", "delete"} \/ Ending(u)
  PROVE  /\ slot[u] \in Slots /\ Cur(u).future_ = Null
         /\ Cur(u).runnable_thread_ # Null => Cur(u).runnable_ = Cur(u).runnable_thread_
         /\ Cur(u).runnable_ # Null =>
              /\ tpc[Cur(u).runnable_] # "none" /\ Cur(u).runnable_ \in ready
              /\ \A v \in Users : Starting(v) => task[v] # Cur(u).runnable_
<1>1. slot[u] \in Slots /\ Cur(u).future_ = Null /\ slot[u] \in AllSlots
  BY DEF IInv, CallInv, ExitInv, ExitAt, Ending, AllSlots
<1>2. Cur(u).runnable_thread_ # Null => Cur(u).runnable_ = Cur(u).runnable_thread_
  BY CurOwnAt DEF OwnAt, Cur
<1>3. ASSUME Cur(u).runnable_ # Null
      PROVE  tpc[Cur(u).runnable_] # "none" /\ Cur(u).runnable_ \in ready /\
             ~Started(Cur(u).runnable_)
  BY <1>1, <1>3, CurOwnAt DEF OwnAt, Cur
<1> QED
  BY <1>1, <1>2, <1>3 DEF Started

(* What it deletes, no thread uses.                                        *)
LEMMA CurGone ==
  ASSUME IInv, NEW u \in Users, pc[u] \in {"param", "freed", "delete"}, Cur(u).runnable_ # Null
  PROVE  tpc[Cur(u).runnable_] \in {"never", "gone"}
<1>1. slot[u] \in AllSlots
  BY DEF IInv, TypeOK
<1>2. CASE pc[u] = "delete"
  BY <1>2, CurOwnAt DEF IInv, ExitInv, ExitAt, OwnAt, Cur
<1>3. CASE pc[u] \in {"param", "freed"}
  BY <1>1, <1>3, CurOwned DEF IInv, ExitInv, ExitAt, Ending
<1> QED
  BY <1>2, <1>3

(* The type invariant holds at first,                                      *)
LEMMA InitTypeOK == ASSUME Init PROVE TypeOK
<1>1. Empty \in Futures
  BY DEF Empty, Futures
<1>2. future \in [Users -> [AllSlots -> Futures]]
  BY <1>1 DEF Init
<1>3. seen \in [Users -> Nat] /\ counter \in Nat
  BY DEF Init
<1>4. thread_id_ \in [Tasks -> Int] /\ ThisThread \in [Tasks -> Int]
  BY DEF Init
<1> QED
  BY <1>2, <1>3, <1>4 DEF Init, TypeOK, AllSlots

(* and in every step; Assign needs to know where it moves from.            *)
LEMMA StepTypeOK == ASSUME TypeOK, ExitInv, [Next]_vars PROVE TypeOK'
<1>1. ASSUME NEW u \in Users, NEW s \in Slots, NEW t \in Tasks, Launch(u, t, s)
      PROVE  TypeOK'
  <2>1. Objects(t) \subseteq {"runnable", "thread", "param"} \X Tasks
    BY DEF Objects
  <2> QED
    BY <1>1, <2>1 DEF Launch, TypeOK, Goto, userVars, objectVars, threadVars, AllSlots
<1>2. ASSUME NEW u \in Users, NEW s \in Slots, NEW r \in Slots, Move(u, s, r)
      PROVE  TypeOK'
  BY <1>2 DEF TypeOK, Goto, userVars, objectVars, threadVars, AllSlots, Move
<1>3. ASSUME NEW u \in Users, NEW s \in Slots, Destruct(u, s) PROVE TypeOK'
  BY <1>3 DEF TypeOK, Goto, userVars, objectVars, threadVars, AllSlots, Destruct
<1>4. ASSUME NEW u \in Users, NEW s \in Slots, NEW call \in {"get", "wait"}, Ask(u, s, call)
      PROVE  TypeOK'
  BY <1>4 DEF TypeOK, Goto, userVars, objectVars, threadVars, AllSlots, Ask
<1>5. ASSUME NEW u \in Users, Create(u) PROVE TypeOK'
  BY <1>5 DEF TypeOK, Goto, userVars, objectVars, threadVars, AllSlots, Create
<1>6. ASSUME NEW u \in Users, ReadCounter(u) PROVE TypeOK'
  BY <1>6 DEF TypeOK, Goto, userVars, objectVars, threadVars, AllSlots, ReadCounter
<1>7. ASSUME NEW u \in Users, SetupThread(u) PROVE TypeOK'
  <2>1. Returned(task[u], task[u]) \in Futures
    BY <1>7 DEF SetupThread, Futures, Returned, TypeOK
  <2>2. future' \in [Users -> [AllSlots -> Futures]]
    BY <1>7, <2>1, SetFuture DEF SetupThread, AllSlots
  <2>3. seen[u] \in Int /\ counter' \in Nat
    BY <1>7 DEF SetupThread, TypeOK
  <2>4. thread_id_' \in [Tasks -> Int]
    BY <1>7, <2>3, SetNumber DEF SetupThread, TypeOK
  <2> QED
    BY <1>7, <2>2, <2>3, <2>4 DEF SetupThread, TypeOK, Goto, userVars, objectVars,
       threadVars, AllSlots
<1>8. ASSUME NEW u \in Users, CreateFailed(u) PROVE TypeOK'
  <2>1. Returned(task[u], Null) \in Futures
    BY <1>8 DEF CreateFailed, Futures, Returned, TypeOK
  <2>2. future' \in [Users -> [AllSlots -> Futures]]
    BY <1>8, <2>1, CurType, SetFuture DEF CreateFailed, SetCur, AllSlots
  <2> QED
    BY <1>8, <2>2, CurType DEF CreateFailed, TypeOK, Goto, userVars, objectVars,
       threadVars, AllSlots
<1>9. ASSUME NEW u \in Users, ExitGet(u) PROVE TypeOK'
  <2>1. [Cur(u) EXCEPT !.future_ = Null] \in Futures
    BY <1>9, CurType, Cleared DEF TypeOK
  <2>2. future' \in [Users -> [AllSlots -> Futures]]
    BY <1>9, <2>1, CurType, SetFuture DEF ExitGet, SetCur, AllSlots
  <2> QED
    BY <1>9, <2>2, CurType DEF ExitGet, TypeOK, Goto, userVars, objectVars, threadVars,
       AllSlots
<1>10. ASSUME NEW u \in Users, Kill(u) PROVE TypeOK'
  <2>1. thread_id_' \in [Tasks -> Int]
    BY <1>10, SetNumber DEF Kill, TypeOK
  <2>2. pc' = [pc EXCEPT ![u] = "freed"] \/ pc' = [pc EXCEPT ![u] = "join"]
          \/ pc' = [pc EXCEPT ![u] = "param"]
    BY <1>10 DEF Kill, Goto
  <2> QED
    BY <1>10, <2>1, <2>2 DEF Kill, TypeOK, Goto, userVars, objectVars, threadVars,
       AllSlots
<1>11. ASSUME NEW u \in Users, Join(u) PROVE TypeOK'
  BY <1>11 DEF TypeOK, Goto, userVars, objectVars, threadVars, AllSlots, Join
<1>12. ASSUME NEW u \in Users, DeleteParam(u) PROVE TypeOK'
  BY <1>12 DEF TypeOK, Goto, userVars, objectVars, threadVars, AllSlots, DeleteParam
<1>13. ASSUME NEW u \in Users, DeleteThread(u) PROVE TypeOK'
  <2>1. [Cur(u) EXCEPT !.runnable_thread_ = Null] \in Futures
    BY <1>13, CurType, Cleared DEF TypeOK
  <2>2. future' \in [Users -> [AllSlots -> Futures]]
    BY <1>13, <2>1, CurType, SetFuture DEF DeleteThread, SetCur, AllSlots
  <2> QED
    BY <1>13, <2>2, CurType DEF DeleteThread, TypeOK, Goto, userVars, objectVars,
       threadVars, AllSlots
<1>14. ASSUME NEW u \in Users, DeleteRunnable(u) PROVE TypeOK'
  <2>1. [Cur(u) EXCEPT !.runnable_ = Null] \in Futures
    BY <1>14, CurType, Cleared DEF TypeOK
  <2>2. future' \in [Users -> [AllSlots -> Futures]]
    BY <1>14, <2>1, CurType, SetFuture DEF DeleteRunnable, SetCur, AllSlots
  <2> QED
    BY <1>14, <2>2, CurType DEF DeleteRunnable, TypeOK, Goto, userVars, objectVars,
       threadVars, AllSlots
<1>15. ASSUME NEW u \in Users, Assign(u) PROVE TypeOK'
  <2>1. Empty \in Futures /\ from[u] \in AllSlots
    BY <1>15 DEF Empty, Futures, Assign, ExitInv, ExitAt, TypeOK
  <2>2. ASSUME NEW v \in Users
        PROVE  future'[v] \in [AllSlots -> Futures]
    BY <1>15, <2>1 DEF Assign, TypeOK
  <2>3. future' \in [Users -> [AllSlots -> Futures]]
    BY <1>15, <2>2 DEF Assign, TypeOK
  <2> QED
    BY <1>15, <2>3 DEF Assign, TypeOK, Goto, userVars, objectVars, threadVars, AllSlots
<1>16. ASSUME NEW u \in Users, Get(u) PROVE TypeOK'
  <2>1. [Cur(u) EXCEPT !.future_ = Null] \in Futures
    BY <1>16, CurType, Cleared DEF TypeOK
  <2>2. future' \in [Users -> [AllSlots -> Futures]]
    BY <1>16, <2>1, CurType, SetFuture DEF Get, SetCur, AllSlots
  <2> QED
    BY <1>16, <2>2, CurType DEF Get, TypeOK, Goto, userVars, objectVars, threadVars,
       AllSlots
<1>17. ASSUME NEW u \in Users, Wait(u) PROVE TypeOK'
  BY <1>17 DEF TypeOK, Goto, userVars, objectVars, threadVars, AllSlots, Wait
<1>18. ASSUME NEW t \in Tasks, RunLock(t) PROVE TypeOK'
  BY <1>18 DEF TypeOK, Goto, userVars, objectVars, threadVars, AllSlots, RunLock
<1>19. ASSUME NEW t \in Tasks, RunCopy(t) PROVE TypeOK'
  BY <1>19 DEF TypeOK, Goto, userVars, objectVars, threadVars, AllSlots, RunCopy
<1>20. ASSUME NEW t \in Tasks, Run(t) PROVE TypeOK'
  BY <1>20 DEF TypeOK, Goto, userVars, objectVars, threadVars, AllSlots, Run
<1>21. ASSUME NEW t \in Tasks, RunStore(t) PROVE TypeOK'
  BY <1>21 DEF TypeOK, Goto, userVars, objectVars, threadVars, AllSlots, RunStore
<1>22. ASSUME UNCHANGED vars PROVE TypeOK'
  BY <1>22 DEF TypeOK, Goto, userVars, objectVars, threadVars, AllSlots, vars
<1>23. QED
  BY StepCases, <1>1, <1>2, <1>3, <1>4, <1>5, <1>6, <1>7, <1>8, <1>9, <1>10, <1>11,
     <1>12, <1>13, <1>14, <1>15, <1>16, <1>17, <1>18, <1>19, <1>20, <1>21, <1>22
     DEF UserStep, ThreadStep

(* The part of the invariant about calls that start a task.                *)
LEMMA StepLaunchInv == ASSUME IInv, [Next]_vars PROVE LaunchInv'
<1>1. ASSUME NEW u \in Users, NEW s \in Slots, NEW t \in Tasks, Launch(u, t, s)
      PROVE  LaunchInv'
  BY <1>1, AsyncAssumption DEF IInv, TypeOK, LaunchInv, Starting, Goto, userVars,
     objectVars, threadVars, Launch, Objects, Fresh
<1>2. ASSUME NEW u \in Users, NEW s \in Slots, NEW r \in Slots, Move(u, s, r)
      PROVE  LaunchInv'
  BY <1>2, AsyncAssumption DEF IInv, TypeOK, LaunchInv, Starting, Goto, userVars,
     objectVars, threadVars, Move
<1>3. ASSUME NEW u \in Users, NEW s \in Slots, Destruct(u, s) PROVE LaunchInv'
  BY <1>3, AsyncAssumption DEF IInv, TypeOK, LaunchInv, Starting, Goto, userVars,
     objectVars, threadVars, Destruct
<1>4. ASSUME NEW u \in Users, NEW s \in Slots, NEW call \in {"get", "wait"}, Ask(u, s, call)
      PROVE  LaunchInv'
  BY <1>4, AsyncAssumption DEF IInv, TypeOK, LaunchInv, Starting, Goto, userVars,
     objectVars, threadVars, Ask
<1>5. ASSUME NEW u \in Users, Create(u) PROVE LaunchInv'
  BY <1>5, AsyncAssumption DEF IInv, TypeOK, LaunchInv, Starting, Goto, userVars,
     objectVars, threadVars, Create
<1>6. ASSUME NEW u \in Users, ReadCounter(u) PROVE LaunchInv'
  BY <1>6, AsyncAssumption DEF IInv, TypeOK, LaunchInv, Starting, Goto, userVars,
     objectVars, threadVars, ReadCounter
<1>7. ASSUME NEW u \in Users, SetupThread(u) PROVE LaunchInv'
  BY <1>7, AsyncAssumption DEF IInv, TypeOK, LaunchInv, Starting, Goto, userVars,
     objectVars, threadVars, SetupThread
<1>8. ASSUME NEW u \in Users, CreateFailed(u) PROVE LaunchInv'
  BY <1>8, AsyncAssumption DEF IInv, TypeOK, LaunchInv, Starting, Goto, userVars,
     objectVars, threadVars, CreateFailed, Objects
<1>9. ASSUME NEW u \in Users, ExitGet(u) PROVE LaunchInv'
  BY <1>9, AsyncAssumption DEF IInv, TypeOK, LaunchInv, Starting, Goto, userVars,
     objectVars, threadVars, ExitGet
<1>10. ASSUME NEW u \in Users, Kill(u) PROVE LaunchInv'
  BY <1>10, AsyncAssumption DEF IInv, TypeOK, LaunchInv, Starting, Goto, userVars,
     objectVars, threadVars, Kill
<1>11. ASSUME NEW u \in Users, Join(u) PROVE LaunchInv'
  BY <1>11, AsyncAssumption, CurOwned DEF IInv, TypeOK, LaunchInv, Starting, Goto,
     userVars, objectVars, threadVars, Join, ExitInv, ExitAt, Ending
<1>12. ASSUME NEW u \in Users, DeleteParam(u) PROVE LaunchInv'
  BY <1>12, AsyncAssumption, CurOwned DEF IInv, TypeOK, LaunchInv, Starting, Goto,
     userVars, objectVars, threadVars, DeleteParam, Objects, Ending, ExitInv, ExitAt
<1>13. ASSUME NEW u \in Users, DeleteThread(u) PROVE LaunchInv'
  BY <1>13, AsyncAssumption, CurOwned DEF IInv, TypeOK, LaunchInv, Starting, Goto,
     userVars, objectVars, threadVars, DeleteThread, Objects, Ending, ExitInv, ExitAt
<1>14. ASSUME NEW u \in Users, DeleteRunnable(u) PROVE LaunchInv'
  <2>1. \A v \in Users : Starting(v) => task[v] # Cur(u).runnable_
    BY <1>14, CurOwned DEF DeleteRunnable, IInv, LaunchInv
  <2>2. pc' = [pc EXCEPT ![u] = "idle"] \/ pc' = [pc EXCEPT ![u] = "assign"]
    BY <1>14 DEF DeleteRunnable, Goto
  <2>3. \A v \in Users : /\ v # u => pc'[v] = pc[v]
                         /\ pc[u] = "delete" /\ pc'[u] \in {"idle", "assign"}
    BY <1>14, <2>2 DEF DeleteRunnable, IInv, TypeOK
  <2> QED
    BY <1>14, <2>1, <2>3 DEF DeleteRunnable, Objects, IInv, LaunchInv, Starting,
       threadVars
<1>15. ASSUME NEW u \in Users, Assign(u) PROVE LaunchInv'
  BY <1>15, AsyncAssumption DEF IInv, TypeOK, LaunchInv, Starting, Goto, userVars,
     objectVars, threadVars, Assign
<1>16. ASSUME NEW u \in Users, Get(u) PROVE LaunchInv'
  BY <1>16, AsyncAssumption DEF IInv, TypeOK, LaunchInv, Starting, Goto, userVars,
     objectVars, threadVars, Get
<1>17. ASSUME NEW u \in Users, Wait(u) PROVE LaunchInv'
  BY <1>17, AsyncAssumption DEF IInv, TypeOK, LaunchInv, Starting, Goto, userVars,
     objectVars, threadVars, Wait
<1>18. ASSUME NEW t \in Tasks, RunLock(t) PROVE LaunchInv'
  BY <1>18, AsyncAssumption DEF IInv, TypeOK, LaunchInv, Starting, Goto, userVars,
     objectVars, threadVars, RunLock
<1>19. ASSUME NEW t \in Tasks, RunCopy(t) PROVE LaunchInv'
  BY <1>19, AsyncAssumption DEF IInv, TypeOK, LaunchInv, Starting, Goto, userVars,
     objectVars, threadVars, RunCopy, ThreadInv
<1>20. ASSUME NEW t \in Tasks, Run(t) PROVE LaunchInv'
  BY <1>20, AsyncAssumption DEF IInv, TypeOK, LaunchInv, Starting, Goto, userVars,
     objectVars, threadVars, Run
<1>21. ASSUME NEW t \in Tasks, RunStore(t) PROVE LaunchInv'
  BY <1>21, AsyncAssumption DEF IInv, TypeOK, LaunchInv, Starting, Goto, userVars,
     objectVars, threadVars, RunStore
<1>22. ASSUME UNCHANGED vars PROVE LaunchInv'
  BY <1>22, AsyncAssumption DEF IInv, TypeOK, LaunchInv, Starting, Goto, userVars,
     objectVars, threadVars, vars
<1>23. QED
  BY StepCases, <1>1, <1>2, <1>3, <1>4, <1>5, <1>6, <1>7, <1>8, <1>9, <1>10, <1>11,
     <1>12, <1>13, <1>14, <1>15, <1>16, <1>17, <1>18, <1>19, <1>20, <1>21, <1>22
     DEF UserStep, ThreadStep

(* The part about the temporary futures.                                   *)
LEMMA StepCallInv == ASSUME IInv, [Next]_vars PROVE CallInv'
<1>1. ASSUME NEW u \in Users, NEW s \in Slots, NEW t \in Tasks, Launch(u, t, s)
      PROVE  CallInv'
  BY <1>1, AsyncAssumption DEF IInv, TypeOK, CallInv, Ending, Goto, userVars,
     objectVars, threadVars, AllSlots, Launch
<1>2. ASSUME NEW u \in Users, NEW s \in Slots, NEW r \in Slots, Move(u, s, r)
      PROVE  CallInv'
  BY <1>2, AsyncAssumption DEF IInv, TypeOK, CallInv, Ending, Goto, userVars,
     objectVars, threadVars, AllSlots, Move
<1>3. ASSUME NEW u \in Users, NEW s \in Slots, Destruct(u, s) PROVE CallInv'
  BY <1>3, AsyncAssumption DEF IInv, TypeOK, CallInv, Ending, Goto, userVars,
     objectVars, threadVars, AllSlots, Destruct
<1>4. ASSUME NEW u \in Users, NEW s \in Slots, NEW call \in {"get", "wait"}, Ask(u, s, call)
      PROVE  CallInv'
  BY <1>4, AsyncAssumption DEF IInv, TypeOK, CallInv, Ending, Goto, userVars,
     objectVars, threadVars, AllSlots, Ask
<1>5. ASSUME NEW u \in Users, Create(u) PROVE CallInv'
  BY <1>5, AsyncAssumption DEF IInv, TypeOK, CallInv, Ending, Goto, userVars,
     objectVars, threadVars, AllSlots, Create
<1>6. ASSUME NEW u \in Users, ReadCounter(u) PROVE CallInv'
  BY <1>6, AsyncAssumption DEF IInv, TypeOK, CallInv, Ending, Goto, userVars,
     objectVars, threadVars, AllSlots, ReadCounter
<1>7. ASSUME NEW u \in Users, SetupThread(u) PROVE CallInv'
  <2>1. from[u] = Temp /\ Returned(task[u], task[u]) \in Futures
    BY <1>7 DEF SetupThread, IInv, TypeOK, LaunchInv, Starting, Returned, Futures
  <2>2. \A v \in Users : v # u => future'[v][Temp] = future[v][Temp]
    BY <1>7, <2>1, SetFuture DEF SetupThread, IInv, AllSlots
  <2> QED
    BY <1>7, <2>1, <2>2, AsyncAssumption DEF SetupThread, IInv, TypeOK, CallInv, Ending,
       Goto, AllSlots
<1>8. ASSUME NEW u \in Users, CreateFailed(u) PROVE CallInv'
  <2>1. from[u] = Temp /\ Returned(task[u], Null) \in Futures
    BY <1>8 DEF CreateFailed, IInv, TypeOK, LaunchInv, Starting, Returned, Futures
  <2>2. \A v \in Users : v # u => future'[v][Temp] = future[v][Temp]
    BY <1>8, <2>1, SetFuture DEF CreateFailed, IInv, AllSlots
  <2> QED
    BY <1>8, <2>1, <2>2, AsyncAssumption DEF CreateFailed, IInv, TypeOK, CallInv,
       Ending, Goto, AllSlots
<1>9. ASSUME NEW u \in Users, ExitGet(u) PROVE CallInv'
  <2>1. slot[u] \in Slots /\ [Cur(u) EXCEPT !.future_ = Null] \in Futures
    BY <1>9, CurType, Cleared DEF ExitGet, IInv, CallInv, Ending
  <2>2. \A v \in Users : future'[v][Temp] = future[v][Temp]
    BY <1>9, <2>1, SetCurIs, AsyncAssumption DEF ExitGet, IInv, AllSlots
  <2> QED
    BY <1>9, <2>2, AsyncAssumption DEF ExitGet, IInv, TypeOK, CallInv, Ending, Goto,
       AllSlots
<1>10. ASSUME NEW u \in Users, Kill(u) PROVE CallInv'
  BY <1>10, AsyncAssumption DEF IInv, TypeOK, CallInv, Ending, Goto, userVars,
     objectVars, threadVars, AllSlots, Kill
<1>11. ASSUME NEW u \in Users, Join(u) PROVE CallInv'
  BY <1>11, AsyncAssumption DEF IInv, TypeOK, CallInv, Ending, Goto, userVars,
     objectVars, threadVars, AllSlots, Join
<1>12. ASSUME NEW u \in Users, DeleteParam(u) PROVE CallInv'
  BY <1>12, AsyncAssumption DEF IInv, TypeOK, CallInv, Ending, Goto, userVars,
     objectVars, threadVars, AllSlots, DeleteParam
<1>13. ASSUME NEW u \in Users, DeleteThread(u) PROVE CallInv'
  <2>1. slot[u] \in Slots /\ [Cur(u) EXCEPT !.runnable_thread_ = Null] \in Futures
    BY <1>13, CurType, Cleared DEF DeleteThread, IInv, CallInv, Ending
  <2>2. \A v \in Users : future'[v][Temp] = future[v][Temp]
    BY <1>13, <2>1, SetCurIs, AsyncAssumption DEF DeleteThread, IInv, AllSlots
  <2> QED
    BY <1>13, <2>2, AsyncAssumption DEF DeleteThread, IInv, TypeOK, CallInv, Ending,
       Goto, AllSlots
<1>14. ASSUME NEW u \in Users, DeleteRunnable(u) PROVE CallInv'
  <2>1. slot[u] \in Slots /\ [Cur(u) EXCEPT !.runnable_ = Null] \in Futures
    BY <1>14, CurType, Cleared DEF DeleteRunnable, IInv, CallInv, Ending
  <2>2. \A v \in Users : future'[v][Temp] = future[v][Temp]
    BY <1>14, <2>1, SetCurIs, AsyncAssumption DEF DeleteRunnable, IInv, AllSlots
  <2> QED
    BY <1>14, <2>2, AsyncAssumption DEF DeleteRunnable, IInv, TypeOK, CallInv, Ending,
       Goto, AllSlots
<1>15. ASSUME NEW u \in Users, Assign(u) PROVE CallInv'
  <2>1. slot[u] # Temp
    BY <1>15, AsyncAssumption DEF Assign, IInv, CallInv
  <2>2. \A v \in Users : future'[v][Temp] = IF v = u /\ from[u] = Temp THEN Empty
          ELSE future[v][Temp]
    BY <1>15, <2>1 DEF Assign, IInv, TypeOK, AllSlots
  <2> QED
    BY <1>15, <2>2 DEF Assign, IInv, TypeOK, CallInv, Ending, Goto
<1>16. ASSUME NEW u \in Users, Get(u) PROVE CallInv'
  <2>1. slot[u] \in Slots /\ [Cur(u) EXCEPT !.future_ = Null] \in Futures
    BY <1>16, CurType, Cleared DEF Get, IInv, CallInv, Ending
  <2>2. \A v \in Users : future'[v][Temp] = future[v][Temp]
    BY <1>16, <2>1, SetCurIs, AsyncAssumption DEF Get, IInv, AllSlots
  <2> QED
    BY <1>16, <2>2, AsyncAssumption DEF Get, IInv, TypeOK, CallInv, Ending, Goto,
       AllSlots
<1>17. ASSUME NEW u \in Users, Wait(u) PROVE CallInv'
  BY <1>17, AsyncAssumption DEF IInv, TypeOK, CallInv, Ending, Goto, userVars,
     objectVars, threadVars, AllSlots, Wait
<1>18. ASSUME NEW t \in Tasks, RunLock(t) PROVE CallInv'
  BY <1>18, AsyncAssumption DEF IInv, TypeOK, CallInv, Ending, Goto, userVars,
     objectVars, threadVars, AllSlots, RunLock
<1>19. ASSUME NEW t \in Tasks, RunCopy(t) PROVE CallInv'
  BY <1>19, AsyncAssumption DEF IInv, TypeOK, CallInv, Ending, Goto, userVars,
     objectVars, threadVars, AllSlots, RunCopy
<1>20. ASSUME NEW t \in Tasks, Run(t) PROVE CallInv'
  BY <1>20, AsyncAssumption DEF IInv, TypeOK, CallInv, Ending, Goto, userVars,
     objectVars, threadVars, AllSlots, Run
<1>21. ASSUME NEW t \in Tasks, RunStore(t) PROVE CallInv'
  BY <1>21, AsyncAssumption DEF IInv, TypeOK, CallInv, Ending, Goto, userVars,
     objectVars, threadVars, AllSlots, RunStore
<1>22. ASSUME UNCHANGED vars PROVE CallInv'
  BY <1>22, AsyncAssumption DEF IInv, TypeOK, CallInv, Ending, Goto, userVars,
     objectVars, threadVars, AllSlots, vars
<1>23. QED
  BY StepCases, <1>1, <1>2, <1>3, <1>4, <1>5, <1>6, <1>7, <1>8, <1>9, <1>10, <1>11,
     <1>12, <1>13, <1>14, <1>15, <1>16, <1>17, <1>18, <1>19, <1>20, <1>21, <1>22
     DEF UserStep, ThreadStep

(* The part about the progress of threads.                                 *)
LEMMA StepThreadInv == ASSUME IInv, [Next]_vars PROVE ThreadInv'
<1>1. ASSUME NEW u \in Users, NEW s \in Slots, NEW t \in Tasks, Launch(u, t, s)
      PROVE  ThreadInv'
  BY <1>1, AsyncAssumption DEF IInv, TypeOK, ThreadInv, Goto, userVars, objectVars,
     threadVars, Launch, Fresh
<1>2. ASSUME NEW u \in Users, NEW s \in Slots, NEW r \in Slots, Move(u, s, r)
      PROVE  ThreadInv'
  BY <1>2, AsyncAssumption DEF IInv, TypeOK, ThreadInv, Goto, userVars, objectVars,
     threadVars, Move
<1>3. ASSUME NEW u \in Users, NEW s \in Slots, Destruct(u, s) PROVE ThreadInv'
  BY <1>3, AsyncAssumption DEF IInv, TypeOK, ThreadInv, Goto, userVars, objectVars,
     threadVars, Destruct
<1>4. ASSUME NEW u \in Users, NEW s \in Slots, NEW call \in {"get", "wait"}, Ask(u, s, call)
      PROVE  ThreadInv'
  BY <1>4, AsyncAssumption DEF IInv, TypeOK, ThreadInv, Goto, userVars, objectVars,
     threadVars, Ask
<1>5. ASSUME NEW u \in Users, Create(u) PROVE ThreadInv'
  BY <1>5, AsyncAssumption DEF IInv, TypeOK, ThreadInv, Goto, userVars, objectVars,
     threadVars, Create, LaunchInv, Starting
<1>6. ASSUME NEW u \in Users, ReadCounter(u) PROVE ThreadInv'
  BY <1>6, AsyncAssumption DEF IInv, TypeOK, ThreadInv, Goto, userVars, objectVars,
     threadVars, ReadCounter
<1>7. ASSUME NEW u \in Users, SetupThread(u) PROVE ThreadInv'
  BY <1>7, AsyncAssumption DEF IInv, TypeOK, ThreadInv, Goto, userVars, objectVars,
     threadVars, SetupThread, LaunchInv, Starting
<1>8. ASSUME NEW u \in Users, CreateFailed(u) PROVE ThreadInv'
  BY <1>8, AsyncAssumption DEF IInv, TypeOK, ThreadInv, Goto, userVars, objectVars,
     threadVars, CreateFailed, LaunchInv, Starting
<1>9. ASSUME NEW u \in Users, ExitGet(u) PROVE ThreadInv'
  BY <1>9, AsyncAssumption DEF IInv, TypeOK, ThreadInv, Goto, userVars, objectVars,
     threadVars, ExitGet
<1>10. ASSUME NEW u \in Users, Kill(u) PROVE ThreadInv'
  BY <1>10, AsyncAssumption, CurOwned DEF IInv, TypeOK, ThreadInv, Goto, userVars,
     objectVars, threadVars, Kill, ExitInv, ExitAt, Ending
<1>11. ASSUME NEW u \in Users, Join(u) PROVE ThreadInv'
  BY <1>11, AsyncAssumption DEF IInv, TypeOK, ThreadInv, Goto, userVars, objectVars,
     threadVars, Join
<1>12. ASSUME NEW u \in Users, DeleteParam(u) PROVE ThreadInv'
  BY <1>12, AsyncAssumption DEF IInv, TypeOK, ThreadInv, Goto, userVars, objectVars,
     threadVars, DeleteParam
<1>13. ASSUME NEW u \in Users, DeleteThread(u) PROVE ThreadInv'
  BY <1>13, AsyncAssumption DEF IInv, TypeOK, ThreadInv, Goto, userVars, objectVars,
     threadVars, DeleteThread
<1>14. ASSUME NEW u \in Users, DeleteRunnable(u) PROVE ThreadInv'
  BY <1>14, AsyncAssumption DEF IInv, TypeOK, ThreadInv, Goto, userVars, objectVars,
     threadVars, DeleteRunnable
<1>15. ASSUME NEW u \in Users, Assign(u) PROVE ThreadInv'
  BY <1>15, AsyncAssumption DEF IInv, TypeOK, ThreadInv, Goto, userVars, objectVars,
     threadVars, Assign
<1>16. ASSUME NEW u \in Users, Get(u) PROVE ThreadInv'
  BY <1>16, AsyncAssumption DEF IInv, TypeOK, ThreadInv, Goto, userVars, objectVars,
     threadVars, Get
<1>17. ASSUME NEW u \in Users, Wait(u) PROVE ThreadInv'
  BY <1>17, AsyncAssumption DEF IInv, TypeOK, ThreadInv, Goto, userVars, objectVars,
     threadVars, Wait
<1>18. ASSUME NEW t \in Tasks, RunLock(t) PROVE ThreadInv'
  BY <1>18, AsyncAssumption DEF IInv, TypeOK, ThreadInv, Goto, userVars, objectVars,
     threadVars, RunLock
<1>19. ASSUME NEW t \in Tasks, RunCopy(t) PROVE ThreadInv'
  BY <1>19, AsyncAssumption DEF IInv, TypeOK, ThreadInv, Goto, userVars, objectVars,
     threadVars, RunCopy
<1>20. ASSUME NEW t \in Tasks, Run(t) PROVE ThreadInv'
  BY <1>20, AsyncAssumption DEF IInv, TypeOK, ThreadInv, Goto, userVars, objectVars,
     threadVars, Run
<1>21. ASSUME NEW t \in Tasks, RunStore(t) PROVE ThreadInv'
  BY <1>21, AsyncAssumption DEF IInv, TypeOK, ThreadInv, Goto, userVars, objectVars,
     threadVars, RunStore
<1>22. ASSUME UNCHANGED vars PROVE ThreadInv'
  BY <1>22, AsyncAssumption DEF IInv, TypeOK, ThreadInv, Goto, userVars, objectVars,
     threadVars, vars
<1>23. QED
  BY StepCases, <1>1, <1>2, <1>3, <1>4, <1>5, <1>6, <1>7, <1>8, <1>9, <1>10, <1>11,
     <1>12, <1>13, <1>14, <1>15, <1>16, <1>17, <1>18, <1>19, <1>20, <1>21, <1>22
     DEF UserStep, ThreadStep

(* The part about what threads use: deletions are of other objects.        *)
LEMMA StepAliveInv == ASSUME IInv, [Next]_vars PROVE AliveInv'
<1>1. ASSUME NEW u \in Users, NEW s \in Slots, NEW t \in Tasks, Launch(u, t, s)
      PROVE  AliveInv'
  BY <1>1 DEF IInv, TypeOK, AliveInv, Objects, userVars, objectVars, threadVars, Launch,
     Fresh
<1>2. ASSUME NEW u \in Users, NEW s \in Slots, NEW r \in Slots, Move(u, s, r)
      PROVE  AliveInv'
  BY <1>2 DEF IInv, TypeOK, AliveInv, Objects, userVars, objectVars, threadVars, Move
<1>3. ASSUME NEW u \in Users, NEW s \in Slots, Destruct(u, s) PROVE AliveInv'
  BY <1>3 DEF IInv, TypeOK, AliveInv, Objects, userVars, objectVars, threadVars,
     Destruct
<1>4. ASSUME NEW u \in Users, NEW s \in Slots, NEW call \in {"get", "wait"}, Ask(u, s, call)
      PROVE  AliveInv'
  BY <1>4 DEF IInv, TypeOK, AliveInv, Objects, userVars, objectVars, threadVars, Ask
<1>5. ASSUME NEW u \in Users, Create(u) PROVE AliveInv'
  BY <1>5 DEF IInv, TypeOK, AliveInv, Objects, userVars, objectVars, threadVars, Create,
     LaunchInv, Starting
<1>6. ASSUME NEW u \in Users, ReadCounter(u) PROVE AliveInv'
  BY <1>6 DEF IInv, TypeOK, AliveInv, Objects, userVars, objectVars, threadVars,
     ReadCounter
<1>7. ASSUME NEW u \in Users, SetupThread(u) PROVE AliveInv'
  BY <1>7 DEF IInv, TypeOK, AliveInv, Objects, userVars, objectVars, threadVars,
     SetupThread
<1>8. ASSUME NEW u \in Users, CreateFailed(u) PROVE AliveInv'
  BY <1>8 DEF IInv, TypeOK, AliveInv, Objects, userVars, objectVars, threadVars,
     CreateFailed, LaunchInv, Starting
<1>9. ASSUME NEW u \in Users, ExitGet(u) PROVE AliveInv'
  BY <1>9 DEF IInv, TypeOK, AliveInv, Objects, userVars, objectVars, threadVars, ExitGet
<1>10. ASSUME NEW u \in Users, Kill(u) PROVE AliveInv'
  BY <1>10 DEF IInv, TypeOK, AliveInv, Objects, userVars, objectVars, threadVars, Kill
<1>11. ASSUME NEW u \in Users, Join(u) PROVE AliveInv'
  BY <1>11 DEF IInv, TypeOK, AliveInv, Objects, userVars, objectVars, threadVars, Join
<1>12. ASSUME NEW u \in Users, DeleteParam(u) PROVE AliveInv'
  <2>1. tpc[Cur(u).runnable_thread_] = "gone"
    BY <1>12, CurGone, CurOwned DEF DeleteParam, Ending, ExitInv, ExitAt, IInv
  <2> QED
    BY <1>12, <2>1 DEF DeleteParam, IInv, AliveInv, Objects, threadVars
<1>13. ASSUME NEW u \in Users, DeleteThread(u) PROVE AliveInv'
  <2>1. tpc[Cur(u).runnable_thread_] = "gone"
    BY <1>13, CurGone, CurOwned DEF DeleteThread, Ending, ExitInv, ExitAt, IInv
  <2> QED
    BY <1>13, <2>1 DEF DeleteThread, IInv, AliveInv, Objects, threadVars
<1>14. ASSUME NEW u \in Users, DeleteRunnable(u) PROVE AliveInv'
  <2>1. \A t \in Tasks : tpc[t] \in {"lock", "copy", "run", "store"} => t # Cur(u).runnable_
    BY <1>14, CurGone, AsyncAssumption DEF DeleteRunnable
  <2> QED
    BY <1>14, <2>1 DEF DeleteRunnable, IInv, AliveInv, Objects, threadVars
<1>15. ASSUME NEW u \in Users, Assign(u) PROVE AliveInv'
  BY <1>15 DEF IInv, TypeOK, AliveInv, Objects, userVars, objectVars, threadVars, Assign
<1>16. ASSUME NEW u \in Users, Get(u) PROVE AliveInv'
  BY <1>16 DEF IInv, TypeOK, AliveInv, Objects, userVars, objectVars, threadVars, Get
<1>17. ASSUME NEW u \in Users, Wait(u) PROVE AliveInv'
  BY <1>17 DEF IInv, TypeOK, AliveInv, Objects, userVars, objectVars, threadVars, Wait
<1>18. ASSUME NEW t \in Tasks, RunLock(t) PROVE AliveInv'
  BY <1>18 DEF IInv, TypeOK, AliveInv, Objects, userVars, objectVars, threadVars,
     RunLock
<1>19. ASSUME NEW t \in Tasks, RunCopy(t) PROVE AliveInv'
  BY <1>19 DEF IInv, TypeOK, AliveInv, Objects, userVars, objectVars, threadVars,
     RunCopy
<1>20. ASSUME NEW t \in Tasks, Run(t) PROVE AliveInv'
  BY <1>20 DEF IInv, TypeOK, AliveInv, Objects, userVars, objectVars, threadVars, Run
<1>21. ASSUME NEW t \in Tasks, RunStore(t) PROVE AliveInv'
  BY <1>21 DEF IInv, TypeOK, AliveInv, Objects, userVars, objectVars, threadVars,
     RunStore
<1>22. ASSUME UNCHANGED vars PROVE AliveInv'
  BY <1>22 DEF IInv, TypeOK, AliveInv, Objects, userVars, objectVars, threadVars, vars
<1>23. QED
  BY StepCases, <1>1, <1>2, <1>3, <1>4, <1>5, <1>6, <1>7, <1>8, <1>9, <1>10, <1>11,
     <1>12, <1>13, <1>14, <1>15, <1>16, <1>17, <1>18, <1>19, <1>20, <1>21, <1>22
     DEF UserStep, ThreadStep

(* A step that gives out no number keeps the numbers apart.                *)
LEMMA CounterFrame ==
  ASSUME CounterInv, counter' = counter, seen' = seen, raced' = raced,
         \A x \in Tasks : Numbers(x)' \subseteq Numbers(x),
         \A v \in Users : pc'[v] = "number" => pc[v] = "number"
  PROVE  CounterInv'
  BY DEF CounterInv

(* The part about the numbers of threads.                                  *)
LEMMA StepCounterInv == ASSUME IInv, [Next]_vars PROVE CounterInv'
<1>1. ASSUME NEW u \in Users, NEW s \in Slots, NEW t \in Tasks, Launch(u, t, s)
      PROVE  CounterInv'
  BY <1>1 DEF IInv, TypeOK, CounterInv, Numbers, Goto, userVars, objectVars, threadVars,
     Launch
<1>2. ASSUME NEW u \in Users, NEW s \in Slots, NEW r \in Slots, Move(u, s, r)
      PROVE  CounterInv'
  BY <1>2 DEF IInv, TypeOK, CounterInv, Numbers, Goto, userVars, objectVars, threadVars,
     Move
<1>3. ASSUME NEW u \in Users, NEW s \in Slots, Destruct(u, s) PROVE CounterInv'
  BY <1>3 DEF IInv, TypeOK, CounterInv, Numbers, Goto, userVars, objectVars, threadVars,
     Destruct
<1>4. ASSUME NEW u \in Users, NEW s \in Slots, NEW call \in {"get", "wait"}, Ask(u, s, call)
      PROVE  CounterInv'
  BY <1>4 DEF IInv, TypeOK, CounterInv, Numbers, Goto, userVars, objectVars, threadVars,
     Ask
<1>5. ASSUME NEW u \in Users, Create(u) PROVE CounterInv'
  BY <1>5 DEF IInv, TypeOK, CounterInv, Numbers, Goto, userVars, objectVars, threadVars,
     Create
<1>6. ASSUME NEW u \in Users, ReadCounter(u) PROVE CounterInv'
  BY <1>6 DEF IInv, TypeOK, CounterInv, Numbers, Goto, userVars, objectVars, threadVars,
     ReadCounter
<1>7. ASSUME NEW u \in Users, SetupThread(u) PROVE CounterInv'
  <2>1. \A x \in Tasks : Numbers(x)' \subseteq Numbers(x) \cup (IF x = task[u] THEN {seen[u]}
          ELSE {})
    BY <1>7 DEF SetupThread, Numbers, IInv, TypeOK, threadVars
  <2>2. \A v \in Users : pc'[v] = "number" => v # u /\ pc[v] = "number"
    BY <1>7 DEF SetupThread, Goto, IInv, TypeOK
  <2>3. counter \in Nat /\ seen[u] \in Nat /\ counter' = seen[u] + 1
    BY <1>7 DEF SetupThread, IInv, TypeOK
  <2> QED
    BY <1>7, <2>1, <2>2, <2>3 DEF SetupThread, IInv, CounterInv
<1>8. ASSUME NEW u \in Users, CreateFailed(u) PROVE CounterInv'
  BY <1>8 DEF IInv, TypeOK, CounterInv, Numbers, Goto, userVars, objectVars, threadVars,
     CreateFailed
<1>9. ASSUME NEW u \in Users, ExitGet(u) PROVE CounterInv'
  BY <1>9 DEF IInv, TypeOK, CounterInv, Numbers, Goto, userVars, objectVars, threadVars,
     ExitGet
<1>10. ASSUME NEW u \in Users, Kill(u) PROVE CounterInv'
  <2>1. \A x \in Tasks : Numbers(x)' \subseteq Numbers(x)
    BY <1>10 DEF Kill, Numbers, IInv, TypeOK, threadVars
  <2>2. \A v \in Users : pc'[v] = "number" => pc[v] = "number"
    BY <1>10 DEF Kill, Goto, IInv, TypeOK
  <2> QED
    BY <1>10, <2>1, <2>2, CounterFrame DEF Kill, IInv
<1>11. ASSUME NEW u \in Users, Join(u) PROVE CounterInv'
  BY <1>11 DEF IInv, TypeOK, CounterInv, Numbers, Goto, userVars, objectVars,
     threadVars, Join
<1>12. ASSUME NEW u \in Users, DeleteParam(u) PROVE CounterInv'
  BY <1>12 DEF IInv, TypeOK, CounterInv, Numbers, Goto, userVars, objectVars,
     threadVars, DeleteParam
<1>13. ASSUME NEW u \in Users, DeleteThread(u) PROVE CounterInv'
  BY <1>13 DEF IInv, TypeOK, CounterInv, Numbers, Goto, userVars, objectVars,
     threadVars, DeleteThread
<1>14. ASSUME NEW u \in Users, DeleteRunnable(u) PROVE CounterInv'
  BY <1>14 DEF IInv, TypeOK, CounterInv, Numbers, Goto, userVars, objectVars,
     threadVars, DeleteRunnable
<1>15. ASSUME NEW u \in Users, Assign(u) PROVE CounterInv'
  BY <1>15 DEF IInv, TypeOK, CounterInv, Numbers, Goto, userVars, objectVars,
     threadVars, Assign
<1>16. ASSUME NEW u \in Users, Get(u) PROVE CounterInv'
  BY <1>16 DEF IInv, TypeOK, CounterInv, Numbers, Goto, userVars, objectVars,
     threadVars, Get
<1>17. ASSUME NEW u \in Users, Wait(u) PROVE CounterInv'
  BY <1>17 DEF IInv, TypeOK, CounterInv, Numbers, Goto, userVars, objectVars,
     threadVars, Wait
<1>18. ASSUME NEW t \in Tasks, RunLock(t) PROVE CounterInv'
  BY <1>18 DEF IInv, TypeOK, CounterInv, Numbers, Goto, userVars, objectVars,
     threadVars, RunLock
<1>19. ASSUME NEW t \in Tasks, RunCopy(t) PROVE CounterInv'
  <2>1. \A x \in Tasks : Numbers(x)' \subseteq Numbers(x)
    BY <1>19 DEF RunCopy, Numbers, IInv, TypeOK, ThreadInv
  <2> QED
    BY <1>19, <2>1, CounterFrame DEF RunCopy, IInv, userVars
<1>20. ASSUME NEW t \in Tasks, Run(t) PROVE CounterInv'
  BY <1>20 DEF IInv, TypeOK, CounterInv, Numbers, Goto, userVars, objectVars,
     threadVars, Run
<1>21. ASSUME NEW t \in Tasks, RunStore(t) PROVE CounterInv'
  BY <1>21 DEF IInv, TypeOK, CounterInv, Numbers, Goto, userVars, objectVars,
     threadVars, RunStore
<1>22. ASSUME UNCHANGED vars PROVE CounterInv'
  BY <1>22 DEF IInv, TypeOK, CounterInv, Numbers, Goto, userVars, objectVars,
     threadVars, vars
<1>23. QED
  BY StepCases, <1>1, <1>2, <1>3, <1>4, <1>5, <1>6, <1>7, <1>8, <1>9, <1>10, <1>11,
     <1>12, <1>13, <1>14, <1>15, <1>16, <1>17, <1>18, <1>19, <1>20, <1>21, <1>22
     DEF UserStep, ThreadStep

(* An action of u leaves the Exit of the other futures alone if it leaves  *)
(* their users, and the arguments of their threads, alone.                 *)
LEMMA ExitOthers ==
  ASSUME IInv, NEW v \in Users,
         pc'[v] = pc[v], from'[v] = from[v], Cur(v)' = Cur(v),
         \A x \in Tasks : tpc[x] = "gone" => tpc'[x] = "gone",
         pc[v] \in {"join", "param", "freed"} =>
           (<<"param", Cur(v).runnable_thread_>> \in heap' <=>
             <<"param", Cur(v).runnable_thread_>> \in heap)
  PROVE  ExitAt(v)'
<1>1. Cur(v) \in Futures
  BY CurType DEF IInv
<1>2. Cur(v).runnable_thread_ # Null => Cur(v).runnable_thread_ \in Tasks
  BY <1>1, Cleared
<1> QED
  BY <1>2 DEF IInv, ExitInv, ExitAt, Ending

(* Two users never have the same thread object in hand.                    *)
LEMMA CurDistinct ==
  ASSUME IInv, NEW u \in Users, NEW v \in Users \ {u},
         pc[u] = "kill" \/ Ending(u), pc[v] = "kill" \/ Ending(v)
  PROVE  Cur(u).runnable_thread_ # Cur(v).runnable_thread_
<1>1. slot[u] \in AllSlots /\ slot[v] \in AllSlots
  BY DEF IInv, TypeOK
<1>2. Cur(u).runnable_thread_ # Null /\ Cur(v).runnable_thread_ # Null
  BY DEF IInv, ExitInv, ExitAt
<1>3. Cur(u).runnable_ = Cur(u).runnable_thread_ /\ Cur(v).runnable_ = Cur(v).runnable_thread_
  BY <1>2, CurOwned
<1>4. \A w \in Users, r \in AllSlots : future[w][r].runnable_ = Cur(u).runnable_ => w = u
  BY <1>2, <1>3, CurOwnAt DEF OwnAt, Cur
<1> QED
  BY <1>1, <1>2, <1>3, <1>4 DEF Cur

(* The part about the progress of an Exit.                                 *)
LEMMA StepExitInv == ASSUME IInv, [Next]_vars PROVE ExitInv'
<1>1. ASSUME NEW u \in Users, NEW s \in Slots, NEW t \in Tasks, Launch(u, t, s)
      PROVE  ExitInv'
  <2>3. ASSUME NEW v \in Users, v # u
        PROVE  ExitAt(v)'
    <3>1. pc'[v] = pc[v] /\ from'[v] = from[v] /\ Cur(v)' = Cur(v)
      BY <1>1, <2>3 DEF Launch, IInv, TypeOK, Goto, Cur, userVars, objectVars,
         threadVars
    <3>2. \A x \in Tasks : tpc[x] = "gone" => tpc'[x] = "gone"
      BY <1>1 DEF Launch, IInv, TypeOK, LaunchInv, Starting, userVars, objectVars,
         threadVars
    <3>3. pc[v] \in {"join", "param", "freed"} =>
            (<<"param", Cur(v).runnable_thread_>> \in heap' <=>
              <<"param", Cur(v).runnable_thread_>> \in heap)
      BY <1>1, <2>3 DEF Launch, userVars, objectVars, threadVars, Objects, Fresh, IInv,
         ExitInv, ExitAt, OwnInv, OwnAt
    <3> QED
      BY <3>1, <3>2, <3>3, ExitOthers
  <2>4. ExitAt(u)'
    BY <1>1 DEF Launch, IInv, TypeOK, ExitInv, ExitAt, Ending, Goto, Cur, userVars,
       objectVars, threadVars
  <2> QED
    BY <2>3, <2>4 DEF ExitInv
<1>2. ASSUME NEW u \in Users, NEW s \in Slots, NEW r \in Slots, Move(u, s, r)
      PROVE  ExitInv'
  <2>3. ASSUME NEW v \in Users, v # u
        PROVE  ExitAt(v)'
    <3>1. pc'[v] = pc[v] /\ from'[v] = from[v] /\ Cur(v)' = Cur(v)
      BY <1>2, <2>3 DEF Move, IInv, TypeOK, Goto, Cur, userVars, objectVars, threadVars
    <3>2. \A x \in Tasks : tpc[x] = "gone" => tpc'[x] = "gone"
      BY <1>2 DEF Move, IInv, TypeOK, LaunchInv, Starting, userVars, objectVars,
         threadVars
    <3>3. pc[v] \in {"join", "param", "freed"} =>
            (<<"param", Cur(v).runnable_thread_>> \in heap' <=>
              <<"param", Cur(v).runnable_thread_>> \in heap)
      BY <1>2, <2>3 DEF Move, userVars, objectVars, threadVars
    <3> QED
      BY <3>1, <3>2, <3>3, ExitOthers
  <2>4. ExitAt(u)'
    BY <1>2 DEF Move, IInv, TypeOK, ExitInv, ExitAt, Ending, Goto, Cur, userVars,
       objectVars, threadVars
  <2> QED
    BY <2>3, <2>4 DEF ExitInv
<1>3. ASSUME NEW u \in Users, NEW s \in Slots, Destruct(u, s) PROVE ExitInv'
  <2>3. ASSUME NEW v \in Users, v # u
        PROVE  ExitAt(v)'
    <3>1. pc'[v] = pc[v] /\ from'[v] = from[v] /\ Cur(v)' = Cur(v)
      BY <1>3, <2>3 DEF Destruct, IInv, TypeOK, Goto, Cur, userVars, objectVars,
         threadVars
    <3>2. \A x \in Tasks : tpc[x] = "gone" => tpc'[x] = "gone"
      BY <1>3 DEF Destruct, IInv, TypeOK, LaunchInv, Starting, userVars, objectVars,
         threadVars
    <3>3. pc[v] \in {"join", "param", "freed"} =>
            (<<"param", Cur(v).runnable_thread_>> \in heap' <=>
              <<"param", Cur(v).runnable_thread_>> \in heap)
      BY <1>3, <2>3 DEF Destruct, userVars, objectVars, threadVars
    <3> QED
      BY <3>1, <3>2, <3>3, ExitOthers
  <2>4. ExitAt(u)'
    BY <1>3 DEF Destruct, IInv, TypeOK, ExitInv, ExitAt, Ending, Goto, Cur, userVars,
       objectVars, threadVars
  <2> QED
    BY <2>3, <2>4 DEF ExitInv
<1>4. ASSUME NEW u \in Users, NEW s \in Slots, NEW call \in {"get", "wait"}, Ask(u, s, call)
      PROVE  ExitInv'
  <2>3. ASSUME NEW v \in Users, v # u
        PROVE  ExitAt(v)'
    <3>1. pc'[v] = pc[v] /\ from'[v] = from[v] /\ Cur(v)' = Cur(v)
      BY <1>4, <2>3 DEF Ask, IInv, TypeOK, Goto, Cur, userVars, objectVars, threadVars
    <3>2. \A x \in Tasks : tpc[x] = "gone" => tpc'[x] = "gone"
      BY <1>4 DEF Ask, IInv, TypeOK, LaunchInv, Starting, userVars, objectVars,
         threadVars
    <3>3. pc[v] \in {"join", "param", "freed"} =>
            (<<"param", Cur(v).runnable_thread_>> \in heap' <=>
              <<"param", Cur(v).runnable_thread_>> \in heap)
      BY <1>4, <2>3 DEF Ask, userVars, objectVars, threadVars
    <3> QED
      BY <3>1, <3>2, <3>3, ExitOthers
  <2>4. ExitAt(u)'
    BY <1>4 DEF Ask, IInv, TypeOK, ExitInv, ExitAt, Ending, Goto, Cur, userVars,
       objectVars, threadVars
  <2> QED
    BY <2>3, <2>4 DEF ExitInv
<1>5. ASSUME NEW u \in Users, Create(u) PROVE ExitInv'
  <2>3. ASSUME NEW v \in Users, v # u
        PROVE  ExitAt(v)'
    <3>1. pc'[v] = pc[v] /\ from'[v] = from[v] /\ Cur(v)' = Cur(v)
      BY <1>5, <2>3 DEF Create, IInv, TypeOK, Goto, Cur, userVars, objectVars,
         threadVars
    <3>2. \A x \in Tasks : tpc[x] = "gone" => tpc'[x] = "gone"
      BY <1>5 DEF Create, IInv, TypeOK, LaunchInv, Starting, userVars, objectVars,
         threadVars
    <3>3. pc[v] \in {"join", "param", "freed"} =>
            (<<"param", Cur(v).runnable_thread_>> \in heap' <=>
              <<"param", Cur(v).runnable_thread_>> \in heap)
      BY <1>5, <2>3 DEF Create, userVars, objectVars, threadVars
    <3> QED
      BY <3>1, <3>2, <3>3, ExitOthers
  <2>4. ExitAt(u)'
    BY <1>5 DEF Create, IInv, TypeOK, ExitInv, ExitAt, Ending, Goto, Cur, userVars,
       objectVars, threadVars
  <2> QED
    BY <2>3, <2>4 DEF ExitInv
<1>6. ASSUME NEW u \in Users, ReadCounter(u) PROVE ExitInv'
  <2>3. ASSUME NEW v \in Users, v # u
        PROVE  ExitAt(v)'
    <3>1. pc'[v] = pc[v] /\ from'[v] = from[v] /\ Cur(v)' = Cur(v)
      BY <1>6, <2>3 DEF ReadCounter, IInv, TypeOK, Goto, Cur, userVars, objectVars,
         threadVars
    <3>2. \A x \in Tasks : tpc[x] = "gone" => tpc'[x] = "gone"
      BY <1>6 DEF ReadCounter, IInv, TypeOK, LaunchInv, Starting, userVars, objectVars,
         threadVars
    <3>3. pc[v] \in {"join", "param", "freed"} =>
            (<<"param", Cur(v).runnable_thread_>> \in heap' <=>
              <<"param", Cur(v).runnable_thread_>> \in heap)
      BY <1>6, <2>3 DEF ReadCounter, userVars, objectVars, threadVars
    <3> QED
      BY <3>1, <3>2, <3>3, ExitOthers
  <2>4. ExitAt(u)'
    BY <1>6 DEF ReadCounter, IInv, TypeOK, ExitInv, ExitAt, Ending, Goto, Cur, userVars,
       objectVars, threadVars
  <2> QED
    BY <2>3, <2>4 DEF ExitInv
<1>7. ASSUME NEW u \in Users, SetupThread(u) PROVE ExitInv'
  <2>1. Returned(task[u], task[u]) \in Futures
    BY <1>7, CurType, Cleared DEF SetupThread, IInv, TypeOK, LaunchInv, Starting,
       Returned, Futures
  <2>2. \A v \in Users, r \in AllSlots :
          future'[v][r] = IF v = u /\ r = Temp THEN Returned(task[u], task[u]) ELSE future[v][r]
    BY <1>7, <2>1, CurType, SetCurIs, SetFuture DEF SetupThread, IInv, AllSlots
  <2>3. ASSUME NEW v \in Users, v # u
        PROVE  ExitAt(v)'
    <3>1. pc'[v] = pc[v] /\ from'[v] = from[v] /\ Cur(v)' = Cur(v)
      BY <1>7, <2>2, <2>3 DEF SetupThread, IInv, TypeOK, Goto, Cur, userVars,
         objectVars, threadVars
    <3>2. \A x \in Tasks : tpc[x] = "gone" => tpc'[x] = "gone"
      BY <1>7 DEF SetupThread, IInv, TypeOK, LaunchInv, Starting, userVars, objectVars,
         threadVars
    <3>3. pc[v] \in {"join", "param", "freed"} =>
            (<<"param", Cur(v).runnable_thread_>> \in heap' <=>
              <<"param", Cur(v).runnable_thread_>> \in heap)
      BY <1>7, <2>3 DEF SetupThread, userVars, objectVars, threadVars
    <3> QED
      BY <3>1, <3>2, <3>3, ExitOthers
  <2>4. ExitAt(u)'
    BY <1>7, <2>2 DEF SetupThread, IInv, TypeOK, ExitInv, ExitAt, Ending, Goto, Cur,
       userVars, objectVars, threadVars
  <2> QED
    BY <2>3, <2>4 DEF ExitInv
<1>8. ASSUME NEW u \in Users, CreateFailed(u) PROVE ExitInv'
  <2>1. Returned(task[u], Null) \in Futures
    BY <1>8, CurType, Cleared DEF CreateFailed, IInv, TypeOK, LaunchInv, Starting,
       Returned, Futures
  <2>2. \A v \in Users, r \in AllSlots :
          future'[v][r] = IF v = u /\ r = Temp THEN Returned(task[u], Null) ELSE future[v][r]
    BY <1>8, <2>1, CurType, SetCurIs, SetFuture DEF CreateFailed, IInv, AllSlots
  <2>3. ASSUME NEW v \in Users, v # u
        PROVE  ExitAt(v)'
    <3>1. pc'[v] = pc[v] /\ from'[v] = from[v] /\ Cur(v)' = Cur(v)
      BY <1>8, <2>2, <2>3 DEF CreateFailed, IInv, TypeOK, Goto, Cur, userVars,
         objectVars, threadVars
    <3>2. \A x \in Tasks : tpc[x] = "gone" => tpc'[x] = "gone"
      BY <1>8 DEF CreateFailed, IInv, TypeOK, LaunchInv, Starting, userVars, objectVars,
         threadVars
    <3>3. pc[v] \in {"join", "param", "freed"} =>
            (<<"param", Cur(v).runnable_thread_>> \in heap' <=>
              <<"param", Cur(v).runnable_thread_>> \in heap)
      BY <1>8, <2>3, CurOwned DEF CreateFailed, userVars, objectVars, threadVars,
         Starting, Ending, IInv, ExitInv, ExitAt
    <3> QED
      BY <3>1, <3>2, <3>3, ExitOthers
  <2>4. ExitAt(u)'
    BY <1>8, <2>2 DEF CreateFailed, IInv, TypeOK, ExitInv, ExitAt, Ending, Goto, Cur,
       userVars, objectVars, threadVars
  <2> QED
    BY <2>3, <2>4 DEF ExitInv
<1>9. ASSUME NEW u \in Users, ExitGet(u) PROVE ExitInv'
  <2>1. [Cur(u) EXCEPT !.future_ = Null] \in Futures
    BY <1>9, CurType, Cleared DEF ExitGet, IInv
  <2>2. \A v \in Users, r \in AllSlots :
          future'[v][r] = IF v = u /\ r = slot[u] THEN [Cur(u) EXCEPT !.future_ = Null]
            ELSE future[v][r]
    BY <1>9, <2>1, CurType, SetCurIs, SetFuture DEF ExitGet, IInv, AllSlots
  <2>3. ASSUME NEW v \in Users, v # u
        PROVE  ExitAt(v)'
    <3>1. pc'[v] = pc[v] /\ from'[v] = from[v] /\ Cur(v)' = Cur(v)
      BY <1>9, <2>2, <2>3 DEF ExitGet, IInv, TypeOK, Goto, Cur, userVars, objectVars,
         threadVars
    <3>2. \A x \in Tasks : tpc[x] = "gone" => tpc'[x] = "gone"
      BY <1>9 DEF ExitGet, IInv, TypeOK, LaunchInv, Starting, userVars, objectVars,
         threadVars
    <3>3. pc[v] \in {"join", "param", "freed"} =>
            (<<"param", Cur(v).runnable_thread_>> \in heap' <=>
              <<"param", Cur(v).runnable_thread_>> \in heap)
      BY <1>9, <2>3 DEF ExitGet, userVars, objectVars, threadVars
    <3> QED
      BY <3>1, <3>2, <3>3, ExitOthers
  <2>4. Cur(u)' = [Cur(u) EXCEPT !.future_ = Null]
    BY <1>9, <2>2, CurType DEF ExitGet, IInv, Cur
  <2>5. /\ pc'[u] = IF Cur(u).runnable_thread_ # Null THEN "kill" ELSE "delete"
        /\ from' = from
    BY <1>9 DEF ExitGet, IInv, TypeOK, Goto
  <2>6. Cur(u)'.future_ = Null /\ Cur(u)'.runnable_thread_ = Cur(u).runnable_thread_
    BY <2>4, CurType, Cleared DEF IInv
  <2>7. ExitAt(u)'
    BY <2>5, <2>6 DEF ExitAt, Ending
  <2> QED
    BY <2>3, <2>7 DEF ExitInv
<1>10. ASSUME NEW u \in Users, Kill(u) PROVE ExitInv'
  <2>3. ASSUME NEW v \in Users, v # u
        PROVE  ExitAt(v)'
    <3>1. pc'[v] = pc[v] /\ from'[v] = from[v] /\ Cur(v)' = Cur(v)
      BY <1>10, <2>3 DEF Kill, IInv, TypeOK, Goto, Cur, userVars, objectVars, threadVars
    <3>2. \A x \in Tasks : tpc[x] = "gone" => tpc'[x] = "gone"
      BY <1>10 DEF Kill, IInv, TypeOK, LaunchInv, Starting, userVars, objectVars,
         threadVars
    <3>3. pc[v] \in {"join", "param", "freed"} =>
            (<<"param", Cur(v).runnable_thread_>> \in heap' <=>
              <<"param", Cur(v).runnable_thread_>> \in heap)
      BY <1>10, <2>3 DEF Kill, userVars, objectVars, threadVars
    <3> QED
      BY <3>1, <3>2, <3>3, ExitOthers
  <2>1. Cur(u).runnable_thread_ # Null /\ Cur(u).future_ = Null
    BY <1>10 DEF Kill, IInv, ExitInv, ExitAt
  <2>2. ~Ending(u) /\ OwnAt(u, slot[u]) /\ Cur(u).runnable_ = Cur(u).runnable_thread_
    BY <1>10, <2>1, CurOwnAt DEF Kill, Ending, OwnAt, Cur
  <2>4. thread_id_[Cur(u).runnable_thread_] # -1 /\ joinable_[Cur(u).runnable_thread_]
        /\ <<"param", Cur(u).runnable_thread_>> \in heap /\ Cur(u).runnable_thread_ # Null
        /\ Cur(u).future_ = Null
    BY <2>1, <2>2 DEF OwnAt, Cur
  <2>5. pc'[u] = "join" /\ Cur(u)' = Cur(u)
    BY <1>10, <2>4 DEF Kill, Goto, IInv, TypeOK, Cur
  <2>6. ExitAt(u)' 
    BY <1>10, <2>4, <2>5 DEF Kill, ExitAt, Ending
  <2> QED
    BY <2>3, <2>6 DEF ExitInv
<1>11. ASSUME NEW u \in Users, Join(u) PROVE ExitInv'
  <2>3. ASSUME NEW v \in Users, v # u
        PROVE  ExitAt(v)'
    <3>1. pc'[v] = pc[v] /\ from'[v] = from[v] /\ Cur(v)' = Cur(v)
      BY <1>11, <2>3 DEF Join, IInv, TypeOK, Goto, Cur, userVars, objectVars, threadVars
    <3>2. \A x \in Tasks : tpc[x] = "gone" => tpc'[x] = "gone"
      BY <1>11 DEF Join, IInv, TypeOK, LaunchInv, Starting, userVars, objectVars,
         threadVars
    <3>3. pc[v] \in {"join", "param", "freed"} =>
            (<<"param", Cur(v).runnable_thread_>> \in heap' <=>
              <<"param", Cur(v).runnable_thread_>> \in heap)
      BY <1>11, <2>3 DEF Join, userVars, objectVars, threadVars
    <3> QED
      BY <3>1, <3>2, <3>3, ExitOthers
  <2>4. ExitAt(u)'
    BY <1>11 DEF Join, IInv, TypeOK, ExitInv, ExitAt, Ending, Goto, Cur, userVars,
       objectVars, threadVars
  <2> QED
    BY <2>3, <2>4 DEF ExitInv
<1>12. ASSUME NEW u \in Users, DeleteParam(u) PROVE ExitInv'
  <2>3. ASSUME NEW v \in Users, v # u
        PROVE  ExitAt(v)'
    <3>1. pc'[v] = pc[v] /\ from'[v] = from[v] /\ Cur(v)' = Cur(v)
      BY <1>12, <2>3 DEF DeleteParam, IInv, TypeOK, Goto, Cur, userVars, objectVars,
         threadVars
    <3>2. \A x \in Tasks : tpc[x] = "gone" => tpc'[x] = "gone"
      BY <1>12 DEF DeleteParam, IInv, TypeOK, LaunchInv, Starting, userVars, objectVars,
         threadVars
    <3>3. pc[v] \in {"join", "param", "freed"} =>
            (<<"param", Cur(v).runnable_thread_>> \in heap' <=>
              <<"param", Cur(v).runnable_thread_>> \in heap)
      BY <1>12, <2>3, CurDistinct DEF DeleteParam, userVars, objectVars, threadVars,
         Ending
    <3> QED
      BY <3>1, <3>2, <3>3, ExitOthers
  <2>4. ExitAt(u)'
    BY <1>12 DEF DeleteParam, IInv, TypeOK, ExitInv, ExitAt, Ending, Goto, Cur,
       userVars, objectVars, threadVars
  <2> QED
    BY <2>3, <2>4 DEF ExitInv
<1>13. ASSUME NEW u \in Users, DeleteThread(u) PROVE ExitInv'
  <2>1. [Cur(u) EXCEPT !.runnable_thread_ = Null] \in Futures
    BY <1>13, CurType, Cleared DEF DeleteThread, IInv
  <2>2. \A v \in Users, r \in AllSlots :
          future'[v][r] = IF v = u /\ r = slot[u] THEN [Cur(u) EXCEPT !.runnable_thread_ = Null]
            ELSE future[v][r]
    BY <1>13, <2>1, CurType, SetCurIs, SetFuture DEF DeleteThread, IInv, AllSlots
  <2>3. ASSUME NEW v \in Users, v # u
        PROVE  ExitAt(v)'
    <3>1. pc'[v] = pc[v] /\ from'[v] = from[v] /\ Cur(v)' = Cur(v)
      BY <1>13, <2>2, <2>3 DEF DeleteThread, IInv, TypeOK, Goto, Cur, userVars,
         objectVars, threadVars
    <3>2. \A x \in Tasks : tpc[x] = "gone" => tpc'[x] = "gone"
      BY <1>13 DEF DeleteThread, IInv, TypeOK, LaunchInv, Starting, userVars,
         objectVars, threadVars
    <3>3. pc[v] \in {"join", "param", "freed"} =>
            (<<"param", Cur(v).runnable_thread_>> \in heap' <=>
              <<"param", Cur(v).runnable_thread_>> \in heap)
      BY <1>13, <2>3 DEF DeleteThread, userVars, objectVars, threadVars
    <3> QED
      BY <3>1, <3>2, <3>3, ExitOthers
  <2>4. Cur(u)' = [Cur(u) EXCEPT !.runnable_thread_ = Null]
    BY <1>13, <2>2, CurType DEF DeleteThread, IInv, Cur
  <2>5. pc'[u] = "delete" /\ Cur(u).future_ = Null
    BY <1>13, CurOwned DEF DeleteThread, Goto, IInv, TypeOK, Ending
  <2>6. Cur(u)'.future_ = Null /\ Cur(u)'.runnable_thread_ = Null
    BY <2>4, <2>5, CurType, Cleared DEF IInv
  <2>7. ExitAt(u)'
    BY <2>5, <2>6 DEF ExitAt, Ending
  <2> QED
    BY <2>3, <2>7 DEF ExitInv
<1>14. ASSUME NEW u \in Users, DeleteRunnable(u) PROVE ExitInv'
  <2>1. [Cur(u) EXCEPT !.runnable_ = Null] \in Futures
    BY <1>14, CurType, Cleared DEF DeleteRunnable, IInv
  <2>2. \A v \in Users, r \in AllSlots :
          future'[v][r] = IF v = u /\ r = slot[u] THEN [Cur(u) EXCEPT !.runnable_ = Null]
            ELSE future[v][r]
    BY <1>14, <2>1, CurType, SetCurIs, SetFuture DEF DeleteRunnable, IInv, AllSlots
  <2>3. ASSUME NEW v \in Users, v # u
        PROVE  ExitAt(v)'
    <3>1. pc'[v] = pc[v] /\ from'[v] = from[v] /\ Cur(v)' = Cur(v)
      BY <1>14, <2>2, <2>3 DEF DeleteRunnable, IInv, TypeOK, Goto, Cur, userVars,
         objectVars, threadVars
    <3>2. \A x \in Tasks : tpc[x] = "gone" => tpc'[x] = "gone"
      BY <1>14 DEF DeleteRunnable, IInv, TypeOK, LaunchInv, Starting, userVars,
         objectVars, threadVars
    <3>3. pc[v] \in {"join", "param", "freed"} =>
            (<<"param", Cur(v).runnable_thread_>> \in heap' <=>
              <<"param", Cur(v).runnable_thread_>> \in heap)
      BY <1>14, <2>3 DEF DeleteRunnable, userVars, objectVars, threadVars
    <3> QED
      BY <3>1, <3>2, <3>3, ExitOthers
  <2>4. Cur(u)' = [Cur(u) EXCEPT !.runnable_ = Null]
    BY <1>14, <2>2, CurType DEF DeleteRunnable, IInv, Cur
  <2>5. /\ pc'[u] = "idle" \/ (pc'[u] = "assign" /\ from[u] # Null)
        /\ Cur(u).future_ = Null /\ Cur(u).runnable_thread_ = Null
    BY <1>14 DEF DeleteRunnable, Goto, IInv, TypeOK, ExitInv, ExitAt
  <2>6. Cur(u)' = Empty
    BY <2>1, <2>4, <2>5, CurType, Cleared, IsEmpty DEF IInv
  <2>7. ExitAt(u)'
    BY <1>14, <2>5, <2>6 DEF DeleteRunnable, ExitAt, Ending
  <2> QED
    BY <2>3, <2>7 DEF ExitInv
<1>15. ASSUME NEW u \in Users, Assign(u) PROVE ExitInv'
  <2>3. ASSUME NEW v \in Users, v # u
        PROVE  ExitAt(v)'
    <3>1. pc'[v] = pc[v] /\ from'[v] = from[v] /\ Cur(v)' = Cur(v)
      BY <1>15, <2>3 DEF Assign, IInv, TypeOK, Goto, Cur, userVars, objectVars,
         threadVars
    <3>2. \A x \in Tasks : tpc[x] = "gone" => tpc'[x] = "gone"
      BY <1>15 DEF Assign, IInv, TypeOK, LaunchInv, Starting, userVars, objectVars,
         threadVars
    <3>3. pc[v] \in {"join", "param", "freed"} =>
            (<<"param", Cur(v).runnable_thread_>> \in heap' <=>
              <<"param", Cur(v).runnable_thread_>> \in heap)
      BY <1>15, <2>3 DEF Assign, userVars, objectVars, threadVars
    <3> QED
      BY <3>1, <3>2, <3>3, ExitOthers
  <2>4. ExitAt(u)'
    BY <1>15 DEF Assign, IInv, TypeOK, ExitInv, ExitAt, Ending, Goto, Cur, userVars,
       objectVars, threadVars
  <2> QED
    BY <2>3, <2>4 DEF ExitInv
<1>16. ASSUME NEW u \in Users, Get(u) PROVE ExitInv'
  <2>1. [Cur(u) EXCEPT !.future_ = Null] \in Futures
    BY <1>16, CurType, Cleared DEF Get, IInv
  <2>2. \A v \in Users, r \in AllSlots :
          future'[v][r] = IF v = u /\ r = slot[u] THEN [Cur(u) EXCEPT !.future_ = Null]
            ELSE future[v][r]
    BY <1>16, <2>1, CurType, SetCurIs, SetFuture DEF Get, IInv, AllSlots
  <2>3. ASSUME NEW v \in Users, v # u
        PROVE  ExitAt(v)'
    <3>1. pc'[v] = pc[v] /\ from'[v] = from[v] /\ Cur(v)' = Cur(v)
      BY <1>16, <2>2, <2>3 DEF Get, IInv, TypeOK, Goto, Cur, userVars, objectVars,
         threadVars
    <3>2. \A x \in Tasks : tpc[x] = "gone" => tpc'[x] = "gone"
      BY <1>16 DEF Get, IInv, TypeOK, LaunchInv, Starting, userVars, objectVars,
         threadVars
    <3>3. pc[v] \in {"join", "param", "freed"} =>
            (<<"param", Cur(v).runnable_thread_>> \in heap' <=>
              <<"param", Cur(v).runnable_thread_>> \in heap)
      BY <1>16, <2>3 DEF Get, userVars, objectVars, threadVars
    <3> QED
      BY <3>1, <3>2, <3>3, ExitOthers
  <2>4. Cur(u)' = [Cur(u) EXCEPT !.future_ = Null]
    BY <1>16, <2>2, CurType DEF Get, IInv, Cur
  <2>5. ExitAt(u)'
    BY <1>16, <2>1, <2>4, CurType, Cleared DEF Get, IInv, TypeOK, ExitInv, ExitAt,
       Ending, Goto
  <2> QED
    BY <2>3, <2>5 DEF ExitInv
<1>17. ASSUME NEW u \in Users, Wait(u) PROVE ExitInv'
  <2>3. ASSUME NEW v \in Users, v # u
        PROVE  ExitAt(v)'
    <3>1. pc'[v] = pc[v] /\ from'[v] = from[v] /\ Cur(v)' = Cur(v)
      BY <1>17, <2>3 DEF Wait, IInv, TypeOK, Goto, Cur, userVars, objectVars, threadVars
    <3>2. \A x \in Tasks : tpc[x] = "gone" => tpc'[x] = "gone"
      BY <1>17 DEF Wait, IInv, TypeOK, LaunchInv, Starting, userVars, objectVars,
         threadVars
    <3>3. pc[v] \in {"join", "param", "freed"} =>
            (<<"param", Cur(v).runnable_thread_>> \in heap' <=>
              <<"param", Cur(v).runnable_thread_>> \in heap)
      BY <1>17, <2>3 DEF Wait, userVars, objectVars, threadVars
    <3> QED
      BY <3>1, <3>2, <3>3, ExitOthers
  <2>4. ExitAt(u)'
    BY <1>17 DEF Wait, IInv, TypeOK, ExitInv, ExitAt, Ending, Goto, Cur, userVars,
       objectVars, threadVars
  <2> QED
    BY <2>3, <2>4 DEF ExitInv
<1>18. ASSUME NEW t \in Tasks, RunLock(t) PROVE ExitInv'
  <2>1. ASSUME NEW v \in Users
        PROVE  ExitAt(v)'
    BY <1>18, ExitOthers DEF RunLock, IInv, TypeOK, Cur, userVars, objectVars,
       threadVars
  <2> QED
    BY <2>1 DEF ExitInv
<1>19. ASSUME NEW t \in Tasks, RunCopy(t) PROVE ExitInv'
  <2>1. ASSUME NEW v \in Users
        PROVE  ExitAt(v)'
    BY <1>19, ExitOthers DEF RunCopy, IInv, TypeOK, Cur, userVars, objectVars,
       threadVars
  <2> QED
    BY <2>1 DEF ExitInv
<1>20. ASSUME NEW t \in Tasks, Run(t) PROVE ExitInv'
  <2>1. ASSUME NEW v \in Users
        PROVE  ExitAt(v)'
    BY <1>20, ExitOthers DEF Run, IInv, TypeOK, Cur, userVars, objectVars, threadVars
  <2> QED
    BY <2>1 DEF ExitInv
<1>21. ASSUME NEW t \in Tasks, RunStore(t) PROVE ExitInv'
  <2>1. ASSUME NEW v \in Users
        PROVE  ExitAt(v)'
    BY <1>21, ExitOthers DEF RunStore, IInv, TypeOK, Cur, userVars, objectVars,
       threadVars
  <2> QED
    BY <2>1 DEF ExitInv
<1>22. ASSUME UNCHANGED vars PROVE ExitInv'
  <2>1. ASSUME NEW v \in Users
        PROVE  ExitAt(v)'
    BY <1>22, ExitOthers DEF vars, IInv, TypeOK, Cur, userVars, objectVars, threadVars
  <2> QED
    BY <2>1 DEF ExitInv
<1>23. QED
  BY StepCases, <1>1, <1>2, <1>3, <1>4, <1>5, <1>6, <1>7, <1>8, <1>9, <1>10, <1>11,
     <1>12, <1>13, <1>14, <1>15, <1>16, <1>17, <1>18, <1>19, <1>20, <1>21, <1>22
     DEF UserStep, ThreadStep

(* A future that is not written keeps what it owns if nobody touches that. *)
Untouched(v, r, x) ==
  /\ future'[v][r] = future[v][r] /\ ready \subseteq ready'
  /\ slot[v] = r /\ Ending(v) => slot'[v] = r /\ Ending(v)'
  /\ x # Null =>
       /\ \A k \in {"runnable", "thread", "param"} : <<k, x>> \in heap' <=> <<k, x>> \in heap
       /\ tpc'[x] = tpc[x]
            \/ (tpc[x] \notin {"none", "never", "gone"} /\ tpc'[x] \notin {"none", "never"})
       /\ Started(x)' => Started(x)
       /\ \A w \in Users, p \in AllSlots :
            future'[w][p].runnable_ = x => future[w][p].runnable_ = x
       /\ \/ thread_id_'[x] = thread_id_[x] /\ joinable_'[x] = joinable_[x]
          \/ thread_id_'[x] # -1 /\ joinable_'[x]

LEMMA OwnFrame ==
  ASSUME IInv, NEW v \in Users, NEW r \in AllSlots, Untouched(v, r, future[v][r].runnable_)
  PROVE  OwnAt(v, r)'
<1>1. OwnAt(v, r)
  BY DEF IInv, OwnInv
<1> QED
  BY <1>1 DEF OwnAt, Untouched

LEMMA NotStarting ==
  ASSUME TypeOK, NEW u \in Users, NEW place, Goto(u, place),
         place \notin {"create", "setup", "number"}
  PROVE  \A w \in Users : Starting(w)' => Starting(w)
  BY DEF TypeOK, Goto, Starting

LEMMA OwnedTask ==
  ASSUME IInv, NEW v \in Users, NEW r \in AllSlots, future[v][r].runnable_ # Null
  PROVE  /\ future[v][r].runnable_ \in Tasks
         /\ tpc[future[v][r].runnable_] # "none"
         /\ \A w \in Users : Starting(w) => task[w] # future[v][r].runnable_
         /\ \A w \in Users, q \in AllSlots :
              future[w][q].runnable_ = future[v][r].runnable_ => w = v /\ q = r
<1>1. future[v][r] \in Futures /\ OwnAt(v, r)
  BY DEF IInv, OwnInv, TypeOK
<1> QED
  BY <1>1, Cleared DEF OwnAt, Started

(* The part about what belongs to a future.                                *)
LEMMA StepOwnInv == ASSUME IInv, [Next]_vars PROVE OwnInv'
<1>1. ASSUME NEW u \in Users, NEW s \in Slots, NEW t \in Tasks, Launch(u, t, s)
      PROVE  OwnInv'
  <2>1. ASSUME NEW v \in Users, NEW q \in AllSlots,
               NEW x, x = future[v][q].runnable_
        PROVE  OwnAt(v, q)'
    <3>1. future'[v][q] = future[v][q]
      BY <1>1, <2>1 DEF Launch, userVars, objectVars, threadVars
    <3>2. ASSUME x # Null
          PROVE  /\ x \in Tasks /\ tpc[x] # "none"
                 /\ \A w \in Users : Starting(w) => task[w] # x
                 /\ \A w \in Users, p \in AllSlots : future[w][p].runnable_ = x => w = v /\ p = q
      BY <2>1, <3>2, OwnedTask
    <3>3. ASSUME x # Null, NEW k \in {"runnable", "thread", "param"}
          PROVE  <<k, x>> \in heap' <=> <<k, x>> \in heap
      BY <1>1, <2>1, <3>2, <3>3 DEF Launch, userVars, objectVars, threadVars, Objects,
         Fresh
    <3>4. ASSUME x # Null
          PROVE  tpc'[x] = tpc[x]
                   \/ (tpc[x] \notin {"none", "never", "gone"} /\ tpc'[x] \notin {"none", "never"})
      BY <1>1, <3>2, <3>4 DEF Launch, IInv, TypeOK, LaunchInv, Starting, userVars,
         objectVars, threadVars
    <3>5. ASSUME x # Null
          PROVE  Started(x)' => Started(x)
      BY <1>1, <3>2, <3>5 DEF Launch, IInv, Started, userVars, objectVars, threadVars,
         TypeOK, Goto, Starting, Fresh
    <3>6. ASSUME x # Null, NEW w \in Users, NEW p \in AllSlots, future'[w][p].runnable_ = x
          PROVE  future[w][p].runnable_ = x
      BY <1>1, <2>1, <3>2, <3>6 DEF Launch, userVars, objectVars, threadVars
    <3>7. ASSUME x # Null
          PROVE  \/ thread_id_'[x] = thread_id_[x] /\ joinable_'[x] = joinable_[x]
                 \/ thread_id_'[x] # -1 /\ joinable_'[x]
      BY <1>1, <2>1, <3>2, <3>7 DEF Launch, IInv, TypeOK, userVars, objectVars,
         threadVars
    <3>8. slot[v] = q /\ Ending(v) => slot'[v] = q /\ Ending(v)'
      BY <1>1, <2>1 DEF Launch, IInv, TypeOK, Goto, Ending, userVars, objectVars,
         threadVars
    <3>9. ready \subseteq ready'
      BY <1>1 DEF Launch, userVars, objectVars, threadVars
    <3>10. Untouched(v, q, x)
      BY <3>1, <3>3, <3>4, <3>5, <3>6, <3>7, <3>8, <3>9 DEF Untouched
    <3> QED
      BY <2>1, <3>10, OwnFrame
  <2> QED
    BY <2>1 DEF OwnInv
<1>2. ASSUME NEW u \in Users, NEW s \in Slots, NEW r \in Slots, Move(u, s, r)
      PROVE  OwnInv'
  <2>1. \A w \in Users : /\ Starting(w)' => Starting(w)
                         /\ Ending(w) => Ending(w)' /\ slot'[w] = slot[w]
    BY <1>2 DEF Move, Goto, Starting, Ending, IInv, TypeOK, userVars, objectVars,
       threadVars
  <2>2. ASSUME NEW v \in Users, NEW q \in AllSlots
        PROVE  OwnAt(v, q)'
    <3>1. Untouched(v, q, future[v][q].runnable_)
      BY <1>2, <2>1, OwnedTask DEF Move, Untouched, Started, IInv, TypeOK, userVars,
         objectVars, threadVars
    <3> QED
      BY <3>1, OwnFrame
  <2> QED
    BY <2>2 DEF OwnInv
<1>3. ASSUME NEW u \in Users, NEW s \in Slots, Destruct(u, s) PROVE OwnInv'
  <2>1. \A w \in Users : /\ Starting(w)' => Starting(w)
                         /\ Ending(w) => Ending(w)' /\ slot'[w] = slot[w]
    BY <1>3 DEF Destruct, Goto, Starting, Ending, IInv, TypeOK, userVars, objectVars,
       threadVars
  <2>2. ASSUME NEW v \in Users, NEW q \in AllSlots
        PROVE  OwnAt(v, q)'
    <3>1. Untouched(v, q, future[v][q].runnable_)
      BY <1>3, <2>1, OwnedTask DEF Destruct, Untouched, Started, IInv, TypeOK, userVars,
         objectVars, threadVars
    <3> QED
      BY <3>1, OwnFrame
  <2> QED
    BY <2>2 DEF OwnInv
<1>4. ASSUME NEW u \in Users, NEW s \in Slots, NEW call \in {"get", "wait"}, Ask(u, s, call)
      PROVE  OwnInv'
  <2>1. \A w \in Users : /\ Starting(w)' => Starting(w)
                         /\ Ending(w) => Ending(w)' /\ slot'[w] = slot[w]
    BY <1>4 DEF Ask, Goto, Starting, Ending, IInv, TypeOK, userVars, objectVars,
       threadVars
  <2>2. ASSUME NEW v \in Users, NEW q \in AllSlots
        PROVE  OwnAt(v, q)'
    <3>1. Untouched(v, q, future[v][q].runnable_)
      BY <1>4, <2>1, OwnedTask DEF Ask, Untouched, Started, IInv, TypeOK, userVars,
         objectVars, threadVars
    <3> QED
      BY <3>1, OwnFrame
  <2> QED
    BY <2>2 DEF OwnInv
<1>5. ASSUME NEW u \in Users, Create(u) PROVE OwnInv'
  <2>1. \A w \in Users : /\ Starting(w)' => Starting(w)
                         /\ Ending(w) => Ending(w)' /\ slot'[w] = slot[w]
    BY <1>5 DEF Create, Goto, Starting, Ending, IInv, TypeOK, userVars, objectVars,
       threadVars
  <2>2. ASSUME NEW v \in Users, NEW q \in AllSlots
        PROVE  OwnAt(v, q)'
    <3>1. Untouched(v, q, future[v][q].runnable_)
      BY <1>5, <2>1, OwnedTask DEF Create, Untouched, Started, IInv, TypeOK, LaunchInv,
         Starting, userVars, objectVars, threadVars
    <3> QED
      BY <3>1, OwnFrame
  <2> QED
    BY <2>2 DEF OwnInv
<1>6. ASSUME NEW u \in Users, ReadCounter(u) PROVE OwnInv'
  <2>1. ASSUME NEW v \in Users, NEW q \in AllSlots,
               NEW x, x = future[v][q].runnable_
        PROVE  OwnAt(v, q)'
    <3>1. future'[v][q] = future[v][q]
      BY <1>6, <2>1 DEF ReadCounter, userVars, objectVars, threadVars
    <3>2. ASSUME x # Null
          PROVE  /\ x \in Tasks /\ tpc[x] # "none"
                 /\ \A w \in Users : Starting(w) => task[w] # x
                 /\ \A w \in Users, p \in AllSlots : future[w][p].runnable_ = x => w = v /\ p = q
      BY <2>1, <3>2, OwnedTask
    <3>3. ASSUME x # Null, NEW k \in {"runnable", "thread", "param"}
          PROVE  <<k, x>> \in heap' <=> <<k, x>> \in heap
      BY <1>6, <2>1, <3>2, <3>3 DEF ReadCounter, userVars, objectVars, threadVars
    <3>4. ASSUME x # Null
          PROVE  tpc'[x] = tpc[x]
                   \/ (tpc[x] \notin {"none", "never", "gone"} /\ tpc'[x] \notin {"none", "never"})
      BY <1>6, <3>2, <3>4 DEF ReadCounter, IInv, TypeOK, LaunchInv, Starting, userVars,
         objectVars, threadVars
    <3>5. ASSUME x # Null
          PROVE  Started(x)' => Started(x)
      BY <1>6, <3>2, <3>5 DEF ReadCounter, IInv, Started, userVars, objectVars,
         threadVars, TypeOK, Goto, Starting, Fresh
    <3>6. ASSUME x # Null, NEW w \in Users, NEW p \in AllSlots, future'[w][p].runnable_ = x
          PROVE  future[w][p].runnable_ = x
      BY <1>6, <2>1, <3>2, <3>6 DEF ReadCounter, userVars, objectVars, threadVars
    <3>7. ASSUME x # Null
          PROVE  \/ thread_id_'[x] = thread_id_[x] /\ joinable_'[x] = joinable_[x]
                 \/ thread_id_'[x] # -1 /\ joinable_'[x]
      BY <1>6, <2>1, <3>2, <3>7 DEF ReadCounter, IInv, TypeOK, userVars, objectVars,
         threadVars, Starting
    <3>8. slot[v] = q /\ Ending(v) => slot'[v] = q /\ Ending(v)'
      BY <1>6, <2>1 DEF ReadCounter, IInv, TypeOK, Goto, Ending, userVars, objectVars,
         threadVars
    <3>9. ready \subseteq ready'
      BY <1>6 DEF ReadCounter, userVars, objectVars, threadVars
    <3>10. Untouched(v, q, x)
      BY <3>1, <3>3, <3>4, <3>5, <3>6, <3>7, <3>8, <3>9 DEF Untouched
    <3> QED
      BY <2>1, <3>10, OwnFrame
  <2> QED
    BY <2>1 DEF OwnInv
<1>7. ASSUME NEW u \in Users, SetupThread(u) PROVE OwnInv'
  <2>1. Returned(task[u], task[u]) \in Futures
    BY <1>7, CurType, Cleared DEF SetupThread, IInv, TypeOK, LaunchInv, Starting,
       Returned, Futures
  <2>2. \A v \in Users, q \in AllSlots :
          future'[v][q] = IF v = u /\ q = Temp THEN Returned(task[u], task[u]) ELSE future[v][q]
    BY <1>7, <2>1, CurType, SetCurIs, SetFuture DEF SetupThread, IInv, AllSlots
  <2>3. ASSUME NEW v \in Users, NEW q \in AllSlots, ~(v = u /\ q = Temp),
               NEW x, x = future[v][q].runnable_
        PROVE  OwnAt(v, q)'
    <3>1. future'[v][q] = future[v][q]
      BY <1>7, <2>2, <2>3 DEF SetupThread, userVars, objectVars, threadVars
    <3>2. ASSUME x # Null
          PROVE  /\ x \in Tasks /\ tpc[x] # "none"
                 /\ \A w \in Users : Starting(w) => task[w] # x
                 /\ \A w \in Users, p \in AllSlots : future[w][p].runnable_ = x => w = v /\ p = q
      BY <2>3, <3>2, OwnedTask
    <3>3. ASSUME x # Null, NEW k \in {"runnable", "thread", "param"}
          PROVE  <<k, x>> \in heap' <=> <<k, x>> \in heap
      BY <1>7, <2>2, <2>3, <3>2, <3>3 DEF SetupThread, userVars, objectVars, threadVars
    <3>4. ASSUME x # Null
          PROVE  tpc'[x] = tpc[x]
                   \/ (tpc[x] \notin {"none", "never", "gone"} /\ tpc'[x] \notin {"none", "never"})
      BY <1>7, <3>2, <3>4 DEF SetupThread, IInv, TypeOK, LaunchInv, Starting, userVars,
         objectVars, threadVars
    <3>5. ASSUME x # Null
          PROVE  Started(x)' => Started(x)
      BY <1>7, <3>2, <3>5, NotStarting DEF SetupThread, IInv, Started, userVars,
         objectVars, threadVars
    <3>6. ASSUME x # Null, NEW w \in Users, NEW p \in AllSlots, future'[w][p].runnable_ = x
          PROVE  future[w][p].runnable_ = x
      BY <1>7, <2>2, <2>3, <3>2, <3>6 DEF SetupThread, userVars, objectVars, threadVars,
         Returned, Starting
    <3>7. ASSUME x # Null
          PROVE  \/ thread_id_'[x] = thread_id_[x] /\ joinable_'[x] = joinable_[x]
                 \/ thread_id_'[x] # -1 /\ joinable_'[x]
      BY <1>7, <2>2, <2>3, <3>2, <3>7 DEF SetupThread, IInv, TypeOK, userVars,
         objectVars, threadVars, Starting
    <3>8. slot[v] = q /\ Ending(v) => slot'[v] = q /\ Ending(v)'
      BY <1>7, <2>2, <2>3 DEF SetupThread, IInv, TypeOK, Goto, Ending, userVars,
         objectVars, threadVars
    <3>9. ready \subseteq ready'
      BY <1>7 DEF SetupThread, userVars, objectVars, threadVars
    <3>10. Untouched(v, q, x)
      BY <3>1, <3>3, <3>4, <3>5, <3>6, <3>7, <3>8, <3>9 DEF Untouched
    <3> QED
      BY <2>3, <3>10, OwnFrame
  <2>4. OwnAt(u, Temp)'
    <3> DEFINE t == task[u]
    <3>1. t \in Tasks /\ t # Null /\ Objects(t) \subseteq heap
      BY <1>7, AsyncAssumption DEF SetupThread, IInv, TypeOK, LaunchInv, Starting
    <3>2. future'[u][Temp].runnable_ = t /\ future'[u][Temp].future_ = t /\
          future'[u][Temp].runnable_thread_ = t
      BY <2>2 DEF Returned, AllSlots
    <3>3. \A w \in Users, p \in AllSlots : future'[w][p].runnable_ = t => w = u /\ p = Temp
      BY <1>7, <2>2, <3>1, OwnedTask DEF SetupThread, Starting
    <3>4. \A w \in Users : ~(Starting(w)' /\ task'[w] = t)
      BY <1>7, <3>1 DEF SetupThread, Starting, Goto, IInv, TypeOK, LaunchInv
    <3>5. tpc'[t] = "lock" /\ Objects(t) \subseteq heap' /\ thread_id_'[t] # -1 /\ joinable_'[t]
          /\ <<"runnable", t>> \in heap' /\ <<"thread", t>> \in heap' /\ <<"param", t>> \in heap'
      BY <1>7, <3>1 DEF SetupThread, IInv, TypeOK, LaunchInv, Starting, Objects,
         threadVars
    <3> HIDE DEF t
    <3> QED
      BY <3>1, <3>2, <3>3, <3>4, <3>5 DEF OwnAt, Started
  <2> QED
    BY <2>3, <2>4 DEF OwnInv
<1>8. ASSUME NEW u \in Users, CreateFailed(u) PROVE OwnInv'
  <2>1. Returned(task[u], Null) \in Futures
    BY <1>8, CurType, Cleared DEF CreateFailed, IInv, TypeOK, LaunchInv, Starting,
       Returned, Futures
  <2>2. \A v \in Users, q \in AllSlots :
          future'[v][q] = IF v = u /\ q = Temp THEN Returned(task[u], Null) ELSE future[v][q]
    BY <1>8, <2>1, CurType, SetCurIs, SetFuture DEF CreateFailed, IInv, AllSlots
  <2>3. ASSUME NEW v \in Users, NEW q \in AllSlots, ~(v = u /\ q = Temp),
               NEW x, x = future[v][q].runnable_
        PROVE  OwnAt(v, q)'
    <3>1. future'[v][q] = future[v][q]
      BY <1>8, <2>2, <2>3 DEF CreateFailed, userVars, objectVars, threadVars
    <3>2. ASSUME x # Null
          PROVE  /\ x \in Tasks /\ tpc[x] # "none"
                 /\ \A w \in Users : Starting(w) => task[w] # x
                 /\ \A w \in Users, p \in AllSlots : future[w][p].runnable_ = x => w = v /\ p = q
      BY <2>3, <3>2, OwnedTask
    <3>3. ASSUME x # Null, NEW k \in {"runnable", "thread", "param"}
          PROVE  <<k, x>> \in heap' <=> <<k, x>> \in heap
      BY <1>8, <2>2, <2>3, <3>2, <3>3 DEF CreateFailed, userVars, objectVars,
         threadVars, Starting
    <3>4. ASSUME x # Null
          PROVE  tpc'[x] = tpc[x]
                   \/ (tpc[x] \notin {"none", "never", "gone"} /\ tpc'[x] \notin {"none", "never"})
      BY <1>8, <3>2, <3>4 DEF CreateFailed, IInv, TypeOK, LaunchInv, Starting, userVars,
         objectVars, threadVars
    <3>5. ASSUME x # Null
          PROVE  Started(x)' => Started(x)
      BY <1>8, <3>2, <3>5, NotStarting DEF CreateFailed, IInv, Started, userVars,
         objectVars, threadVars
    <3>6. ASSUME x # Null, NEW w \in Users, NEW p \in AllSlots, future'[w][p].runnable_ = x
          PROVE  future[w][p].runnable_ = x
      BY <1>8, <2>2, <2>3, <3>2, <3>6 DEF CreateFailed, userVars, objectVars,
         threadVars, Returned, Starting
    <3>7. ASSUME x # Null
          PROVE  \/ thread_id_'[x] = thread_id_[x] /\ joinable_'[x] = joinable_[x]
                 \/ thread_id_'[x] # -1 /\ joinable_'[x]
      BY <1>8, <2>2, <2>3, <3>2, <3>7 DEF CreateFailed, IInv, TypeOK, userVars,
         objectVars, threadVars
    <3>8. slot[v] = q /\ Ending(v) => slot'[v] = q /\ Ending(v)'
      BY <1>8, <2>2, <2>3 DEF CreateFailed, IInv, TypeOK, Goto, Ending, userVars,
         objectVars, threadVars
    <3>9. ready \subseteq ready'
      BY <1>8 DEF CreateFailed, userVars, objectVars, threadVars
    <3>10. Untouched(v, q, x)
      BY <3>1, <3>3, <3>4, <3>5, <3>6, <3>7, <3>8, <3>9 DEF Untouched
    <3> QED
      BY <2>3, <3>10, OwnFrame
  <2>4. OwnAt(u, Temp)'
    <3> DEFINE t == task[u]
    <3>1. t \in Tasks /\ t # Null /\ Objects(t) \subseteq heap
      BY <1>8, AsyncAssumption DEF CreateFailed, IInv, TypeOK, LaunchInv, Starting
    <3>2. future'[u][Temp].runnable_ = t /\ future'[u][Temp].future_ = t /\
          future'[u][Temp].runnable_thread_ = Null
      BY <2>2 DEF Returned, AllSlots
    <3>3. \A w \in Users, p \in AllSlots : future'[w][p].runnable_ = t => w = u /\ p = Temp
      BY <1>8, <2>2, <3>1, OwnedTask DEF CreateFailed, Starting
    <3>4. \A w \in Users : ~(Starting(w)' /\ task'[w] = t)
      BY <1>8, <3>1 DEF CreateFailed, Starting, Goto, IInv, TypeOK, LaunchInv
    <3>5. tpc'[t] = "never" /\ <<"runnable", t>> \in heap' /\ <<"thread", t>> \notin heap' /\
          <<"param", t>> \notin heap'
      BY <1>8, <3>1 DEF CreateFailed, IInv, TypeOK, LaunchInv, Starting, Objects,
         threadVars
    <3> HIDE DEF t
    <3> QED
      BY <3>1, <3>2, <3>3, <3>4, <3>5 DEF OwnAt, Started
  <2> QED
    BY <2>3, <2>4 DEF OwnInv
<1>9. ASSUME NEW u \in Users, ExitGet(u) PROVE OwnInv'
  <2>1. [Cur(u) EXCEPT !.future_ = Null] \in Futures
    BY <1>9, CurType, Cleared DEF ExitGet, IInv
  <2>2. \A v \in Users, q \in AllSlots :
          future'[v][q] = IF v = u /\ q = slot[u] THEN [Cur(u) EXCEPT !.future_ = Null]
            ELSE future[v][q]
    BY <1>9, <2>1, CurType, SetCurIs, SetFuture DEF ExitGet, IInv, AllSlots
  <2>3. [Cur(u) EXCEPT !.future_ = Null].runnable_ = Cur(u).runnable_
    BY CurType, Cleared DEF IInv
  <2>4. \A w \in Users, p \in AllSlots : future'[w][p].runnable_ = future[w][p].runnable_
    BY <2>2, <2>3 DEF Cur
  <2>5. ASSUME NEW v \in Users, NEW q \in AllSlots, ~(v = u /\ q = slot[u]),
               NEW x, x = future[v][q].runnable_
        PROVE  OwnAt(v, q)'
    <3>1. future'[v][q] = future[v][q]
      BY <1>9, <2>2, <2>5 DEF ExitGet, userVars, objectVars, threadVars
    <3>2. ASSUME x # Null
          PROVE  /\ x \in Tasks /\ tpc[x] # "none"
                 /\ \A w \in Users : Starting(w) => task[w] # x
                 /\ \A w \in Users, p \in AllSlots : future[w][p].runnable_ = x => w = v /\ p = q
      BY <2>5, <3>2, OwnedTask
    <3>3. ASSUME x # Null, NEW k \in {"runnable", "thread", "param"}
          PROVE  <<k, x>> \in heap' <=> <<k, x>> \in heap
      BY <1>9, <2>2, <2>5, <3>2, <3>3 DEF ExitGet, userVars, objectVars, threadVars
    <3>4. ASSUME x # Null
          PROVE  tpc'[x] = tpc[x]
                   \/ (tpc[x] \notin {"none", "never", "gone"} /\ tpc'[x] \notin {"none", "never"})
      BY <1>9, <3>2, <3>4 DEF ExitGet, IInv, TypeOK, LaunchInv, Starting, userVars,
         objectVars, threadVars
    <3>5. ASSUME x # Null
          PROVE  Started(x)' => Started(x)
      BY <1>9, <3>2, <3>5, NotStarting DEF ExitGet, IInv, Started, userVars, objectVars,
         threadVars
    <3>6. ASSUME x # Null, NEW w \in Users, NEW p \in AllSlots, future'[w][p].runnable_ = x
          PROVE  future[w][p].runnable_ = x
      BY <1>9, <2>2, <2>5, <3>2, <3>6, <2>4 DEF ExitGet, userVars, objectVars,
         threadVars
    <3>7. ASSUME x # Null
          PROVE  \/ thread_id_'[x] = thread_id_[x] /\ joinable_'[x] = joinable_[x]
                 \/ thread_id_'[x] # -1 /\ joinable_'[x]
      BY <1>9, <2>2, <2>5, <3>2, <3>7 DEF ExitGet, IInv, TypeOK, userVars, objectVars,
         threadVars
    <3>8. slot[v] = q /\ Ending(v) => slot'[v] = q /\ Ending(v)'
      BY <1>9, <2>2, <2>5 DEF ExitGet, IInv, TypeOK, Goto, Ending, userVars, objectVars,
         threadVars
    <3>9. ready \subseteq ready'
      BY <1>9 DEF ExitGet, userVars, objectVars, threadVars
    <3>10. Untouched(v, q, x)
      BY <3>1, <3>3, <3>4, <3>5, <3>6, <3>7, <3>8, <3>9 DEF Untouched
    <3> QED
      BY <2>5, <3>10, OwnFrame
  <2>6. ASSUME NEW q \in AllSlots, q = slot[u]
        PROVE  OwnAt(u, q)'
    <3>1. OwnAt(u, q) /\ future'[u][q] = [Cur(u) EXCEPT !.future_ = Null] /\ future[u][q] = Cur(u)
      BY <1>9, CurOwnAt, <2>2, <2>6 DEF Cur
    <3>2. [Cur(u) EXCEPT !.future_ = Null].runnable_ = Cur(u).runnable_ /\
          [Cur(u) EXCEPT !.future_ = Null].runnable_thread_ = Cur(u).runnable_thread_ /\
          [Cur(u) EXCEPT !.future_ = Null].future_ = Null
      BY CurType, Cleared DEF IInv
    <3>3. ~Ending(u) /\ Cur(u).future_ \in ready \cup {Null}
      BY <1>9 DEF ExitGet, Ending
    <3>4. \A w \in Users : Starting(w)' => Starting(w)
      BY <1>9, NotStarting DEF ExitGet, IInv
    <3> QED
      BY <1>9, <2>4, <2>6, <3>1, <3>2, <3>3, <3>4 DEF ExitGet, OwnAt, Started, userVars,
         objectVars, threadVars
  <2> QED
    BY <2>5, <2>6 DEF OwnInv
<1>10. ASSUME NEW u \in Users, Kill(u) PROVE OwnInv'
  <2>1. slot[u] \in AllSlots /\ future[u][slot[u]].runnable_ = Cur(u).runnable_thread_
    BY <1>10, CurOwned, CurType DEF Kill, IInv, ExitInv, ExitAt, Ending, Cur
  <2>2. ASSUME NEW v \in Users, NEW q \in AllSlots, ~(v = u /\ q = slot[u]),
               NEW x, x = future[v][q].runnable_
        PROVE  OwnAt(v, q)'
    <3>1. future'[v][q] = future[v][q]
      BY <1>10, <2>2 DEF Kill, userVars, objectVars, threadVars
    <3>2. ASSUME x # Null
          PROVE  /\ x \in Tasks /\ tpc[x] # "none"
                 /\ \A w \in Users : Starting(w) => task[w] # x
                 /\ \A w \in Users, p \in AllSlots : future[w][p].runnable_ = x => w = v /\ p = q
      BY <2>2, <3>2, OwnedTask
    <3>3. ASSUME x # Null, NEW k \in {"runnable", "thread", "param"}
          PROVE  <<k, x>> \in heap' <=> <<k, x>> \in heap
      BY <1>10, <2>2, <3>2, <3>3, <2>1 DEF Kill, userVars, objectVars, threadVars
    <3>4. ASSUME x # Null
          PROVE  tpc'[x] = tpc[x]
                   \/ (tpc[x] \notin {"none", "never", "gone"} /\ tpc'[x] \notin {"none", "never"})
      BY <1>10, <3>2, <3>4 DEF Kill, IInv, TypeOK, LaunchInv, Starting, userVars,
         objectVars, threadVars
    <3>5. ASSUME x # Null
          PROVE  Started(x)' => Started(x)
      BY <1>10, <3>2, <3>5 DEF Kill, IInv, Started, userVars, objectVars, threadVars,
         TypeOK, Goto, Starting, Fresh
    <3>6. ASSUME x # Null, NEW w \in Users, NEW p \in AllSlots, future'[w][p].runnable_ = x
          PROVE  future[w][p].runnable_ = x
      BY <1>10, <2>2, <3>2, <3>6 DEF Kill, userVars, objectVars, threadVars
    <3>7. ASSUME x # Null
          PROVE  \/ thread_id_'[x] = thread_id_[x] /\ joinable_'[x] = joinable_[x]
                 \/ thread_id_'[x] # -1 /\ joinable_'[x]
      BY <1>10, <2>2, <3>2, <3>7, <2>1 DEF Kill, IInv, TypeOK, userVars, objectVars,
         threadVars
    <3>8. slot[v] = q /\ Ending(v) => slot'[v] = q /\ Ending(v)'
      BY <1>10, <2>2 DEF Kill, IInv, TypeOK, Goto, Ending, userVars, objectVars,
         threadVars
    <3>9. ready \subseteq ready'
      BY <1>10 DEF Kill, userVars, objectVars, threadVars
    <3>10. Untouched(v, q, x)
      BY <3>1, <3>3, <3>4, <3>5, <3>6, <3>7, <3>8, <3>9 DEF Untouched
    <3> QED
      BY <2>2, <3>10, OwnFrame
  <2>3. ASSUME NEW q \in AllSlots, q = slot[u]
        PROVE  OwnAt(u, q)'
    <3>1. OwnAt(u, q) /\ future'[u][q] = future[u][q] /\ slot'[u] = q
      BY <1>10, CurOwnAt, <2>3 DEF Kill, userVars, objectVars, threadVars
    <3>2. Ending(u)' /\ \A w \in Users : Starting(w)' => Starting(w)
      BY <1>10 DEF Kill, Goto, Ending, Starting, IInv, TypeOK
    <3>3. Started(future[u][q].runnable_)' => Started(future[u][q].runnable_)
      BY <1>10, <3>1, <3>2 DEF Kill, Started, userVars, objectVars, threadVars
    <3> QED
      BY <1>10, <2>3, <3>1, <3>2, <3>3 DEF Kill, OwnAt, userVars, objectVars, threadVars
  <2> QED
    BY <2>2, <2>3 DEF OwnInv
<1>11. ASSUME NEW u \in Users, Join(u) PROVE OwnInv'
  <2>1. slot[u] \in AllSlots /\ future[u][slot[u]].runnable_ = Cur(u).runnable_thread_
    BY <1>11, CurOwned, CurType DEF Join, IInv, ExitInv, ExitAt, Ending, Cur
  <2>2. ASSUME NEW v \in Users, NEW q \in AllSlots, ~(v = u /\ q = slot[u]),
               NEW x, x = future[v][q].runnable_
        PROVE  OwnAt(v, q)'
    <3>1. future'[v][q] = future[v][q]
      BY <1>11, <2>2 DEF Join, userVars, objectVars, threadVars
    <3>2. ASSUME x # Null
          PROVE  /\ x \in Tasks /\ tpc[x] # "none"
                 /\ \A w \in Users : Starting(w) => task[w] # x
                 /\ \A w \in Users, p \in AllSlots : future[w][p].runnable_ = x => w = v /\ p = q
      BY <2>2, <3>2, OwnedTask
    <3>3. ASSUME x # Null, NEW k \in {"runnable", "thread", "param"}
          PROVE  <<k, x>> \in heap' <=> <<k, x>> \in heap
      BY <1>11, <2>2, <3>2, <3>3, <2>1 DEF Join, userVars, objectVars, threadVars
    <3>4. ASSUME x # Null
          PROVE  tpc'[x] = tpc[x]
                   \/ (tpc[x] \notin {"none", "never", "gone"} /\ tpc'[x] \notin {"none", "never"})
      BY <1>11, <3>2, <3>4 DEF Join, IInv, TypeOK, LaunchInv, Starting, userVars,
         objectVars, threadVars
    <3>5. ASSUME x # Null
          PROVE  Started(x)' => Started(x)
      BY <1>11, <3>2, <3>5 DEF Join, IInv, Started, userVars, objectVars, threadVars,
         TypeOK, Goto, Starting, Fresh
    <3>6. ASSUME x # Null, NEW w \in Users, NEW p \in AllSlots, future'[w][p].runnable_ = x
          PROVE  future[w][p].runnable_ = x
      BY <1>11, <2>2, <3>2, <3>6 DEF Join, userVars, objectVars, threadVars
    <3>7. ASSUME x # Null
          PROVE  \/ thread_id_'[x] = thread_id_[x] /\ joinable_'[x] = joinable_[x]
                 \/ thread_id_'[x] # -1 /\ joinable_'[x]
      BY <1>11, <2>2, <3>2, <3>7, <2>1 DEF Join, IInv, TypeOK, userVars, objectVars,
         threadVars
    <3>8. slot[v] = q /\ Ending(v) => slot'[v] = q /\ Ending(v)'
      BY <1>11, <2>2 DEF Join, IInv, TypeOK, Goto, Ending, userVars, objectVars,
         threadVars
    <3>9. ready \subseteq ready'
      BY <1>11 DEF Join, userVars, objectVars, threadVars
    <3>10. Untouched(v, q, x)
      BY <3>1, <3>3, <3>4, <3>5, <3>6, <3>7, <3>8, <3>9 DEF Untouched
    <3> QED
      BY <2>2, <3>10, OwnFrame
  <2>3. ASSUME NEW q \in AllSlots, q = slot[u]
        PROVE  OwnAt(u, q)'
    <3>1. OwnAt(u, q) /\ future'[u][q] = future[u][q] /\ slot'[u] = q
      BY <1>11, CurOwnAt, <2>3 DEF Join, userVars, objectVars, threadVars
    <3>2. Ending(u)' /\ \A w \in Users : Starting(w)' => Starting(w)
      BY <1>11 DEF Join, Goto, Ending, Starting, IInv, TypeOK
    <3>3. Started(future[u][q].runnable_)' => Started(future[u][q].runnable_)
      BY <1>11, <3>1, <3>2 DEF Join, Started, userVars, objectVars, threadVars
    <3> QED
      BY <1>11, <2>3, <3>1, <3>2, <3>3 DEF Join, OwnAt, userVars, objectVars, threadVars
  <2> QED
    BY <2>2, <2>3 DEF OwnInv
<1>12. ASSUME NEW u \in Users, DeleteParam(u) PROVE OwnInv'
  <2>1. slot[u] \in AllSlots /\ future[u][slot[u]].runnable_ = Cur(u).runnable_thread_
    BY <1>12, CurOwned, CurType DEF DeleteParam, IInv, ExitInv, ExitAt, Ending, Cur
  <2>2. ASSUME NEW v \in Users, NEW q \in AllSlots, ~(v = u /\ q = slot[u]),
               NEW x, x = future[v][q].runnable_
        PROVE  OwnAt(v, q)'
    <3>1. future'[v][q] = future[v][q]
      BY <1>12, <2>2 DEF DeleteParam, userVars, objectVars, threadVars
    <3>2. ASSUME x # Null
          PROVE  /\ x \in Tasks /\ tpc[x] # "none"
                 /\ \A w \in Users : Starting(w) => task[w] # x
                 /\ \A w \in Users, p \in AllSlots : future[w][p].runnable_ = x => w = v /\ p = q
      BY <2>2, <3>2, OwnedTask
    <3>3. ASSUME x # Null, NEW k \in {"runnable", "thread", "param"}
          PROVE  <<k, x>> \in heap' <=> <<k, x>> \in heap
      BY <1>12, <2>2, <3>2, <3>3, <2>1 DEF DeleteParam, userVars, objectVars, threadVars
    <3>4. ASSUME x # Null
          PROVE  tpc'[x] = tpc[x]
                   \/ (tpc[x] \notin {"none", "never", "gone"} /\ tpc'[x] \notin {"none", "never"})
      BY <1>12, <3>2, <3>4 DEF DeleteParam, IInv, TypeOK, LaunchInv, Starting, userVars,
         objectVars, threadVars
    <3>5. ASSUME x # Null
          PROVE  Started(x)' => Started(x)
      BY <1>12, <3>2, <3>5 DEF DeleteParam, IInv, Started, userVars, objectVars,
         threadVars, TypeOK, Goto, Starting, Fresh
    <3>6. ASSUME x # Null, NEW w \in Users, NEW p \in AllSlots, future'[w][p].runnable_ = x
          PROVE  future[w][p].runnable_ = x
      BY <1>12, <2>2, <3>2, <3>6 DEF DeleteParam, userVars, objectVars, threadVars
    <3>7. ASSUME x # Null
          PROVE  \/ thread_id_'[x] = thread_id_[x] /\ joinable_'[x] = joinable_[x]
                 \/ thread_id_'[x] # -1 /\ joinable_'[x]
      BY <1>12, <2>2, <3>2, <3>7, <2>1 DEF DeleteParam, IInv, TypeOK, userVars,
         objectVars, threadVars
    <3>8. slot[v] = q /\ Ending(v) => slot'[v] = q /\ Ending(v)'
      BY <1>12, <2>2 DEF DeleteParam, IInv, TypeOK, Goto, Ending, userVars, objectVars,
         threadVars
    <3>9. ready \subseteq ready'
      BY <1>12 DEF DeleteParam, userVars, objectVars, threadVars
    <3>10. Untouched(v, q, x)
      BY <3>1, <3>3, <3>4, <3>5, <3>6, <3>7, <3>8, <3>9 DEF Untouched
    <3> QED
      BY <2>2, <3>10, OwnFrame
  <2>3. ASSUME NEW q \in AllSlots, q = slot[u]
        PROVE  OwnAt(u, q)'
    <3>1. OwnAt(u, q) /\ future'[u][q] = future[u][q] /\ slot'[u] = q
      BY <1>12, CurOwnAt, <2>3 DEF DeleteParam, userVars, objectVars, threadVars
    <3>2. Ending(u)' /\ \A w \in Users : Starting(w)' => Starting(w)
      BY <1>12 DEF DeleteParam, Goto, Ending, Starting, IInv, TypeOK
    <3>3. Started(future[u][q].runnable_)' => Started(future[u][q].runnable_)
      BY <1>12, <3>1, <3>2 DEF DeleteParam, Started, userVars, objectVars, threadVars
    <3> QED
      BY <1>12, <2>3, <3>1, <3>2, <3>3 DEF DeleteParam, OwnAt, userVars, objectVars,
         threadVars
  <2> QED
    BY <2>2, <2>3 DEF OwnInv
<1>13. ASSUME NEW u \in Users, DeleteThread(u) PROVE OwnInv'
  <2>1. [Cur(u) EXCEPT !.runnable_thread_ = Null] \in Futures
    BY <1>13, CurType, Cleared DEF DeleteThread, IInv
  <2>2. \A v \in Users, q \in AllSlots :
          future'[v][q] = IF v = u /\ q = slot[u] THEN [Cur(u) EXCEPT !.runnable_thread_ = Null]
            ELSE future[v][q]
    BY <1>13, <2>1, CurType, SetCurIs, SetFuture DEF DeleteThread, IInv, AllSlots
  <2>3. [Cur(u) EXCEPT !.runnable_thread_ = Null].runnable_ = Cur(u).runnable_
    BY CurType, Cleared DEF IInv
  <2>4. \A w \in Users, p \in AllSlots : future'[w][p].runnable_ = future[w][p].runnable_
    BY <2>2, <2>3 DEF Cur
  <2>5. slot[u] \in AllSlots /\ future[u][slot[u]].runnable_ = Cur(u).runnable_thread_
    BY <1>13, CurOwned, CurType DEF DeleteThread, IInv, ExitInv, ExitAt, Ending, Cur
  <2>6. ASSUME NEW v \in Users, NEW q \in AllSlots, ~(v = u /\ q = slot[u]),
               NEW x, x = future[v][q].runnable_
        PROVE  OwnAt(v, q)'
    <3>1. future'[v][q] = future[v][q]
      BY <1>13, <2>2, <2>6 DEF DeleteThread, userVars, objectVars, threadVars
    <3>2. ASSUME x # Null
          PROVE  /\ x \in Tasks /\ tpc[x] # "none"
                 /\ \A w \in Users : Starting(w) => task[w] # x
                 /\ \A w \in Users, p \in AllSlots : future[w][p].runnable_ = x => w = v /\ p = q
      BY <2>6, <3>2, OwnedTask
    <3>3. ASSUME x # Null, NEW k \in {"runnable", "thread", "param"}
          PROVE  <<k, x>> \in heap' <=> <<k, x>> \in heap
      BY <1>13, <2>2, <2>6, <3>2, <3>3, <2>5 DEF DeleteThread, userVars, objectVars,
         threadVars
    <3>4. ASSUME x # Null
          PROVE  tpc'[x] = tpc[x]
                   \/ (tpc[x] \notin {"none", "never", "gone"} /\ tpc'[x] \notin {"none", "never"})
      BY <1>13, <3>2, <3>4 DEF DeleteThread, IInv, TypeOK, LaunchInv, Starting,
         userVars, objectVars, threadVars
    <3>5. ASSUME x # Null
          PROVE  Started(x)' => Started(x)
      BY <1>13, <3>2, <3>5, NotStarting DEF DeleteThread, IInv, Started, userVars,
         objectVars, threadVars
    <3>6. ASSUME x # Null, NEW w \in Users, NEW p \in AllSlots, future'[w][p].runnable_ = x
          PROVE  future[w][p].runnable_ = x
      BY <1>13, <2>2, <2>6, <3>2, <3>6, <2>4 DEF DeleteThread, userVars, objectVars,
         threadVars
    <3>7. ASSUME x # Null
          PROVE  \/ thread_id_'[x] = thread_id_[x] /\ joinable_'[x] = joinable_[x]
                 \/ thread_id_'[x] # -1 /\ joinable_'[x]
      BY <1>13, <2>2, <2>6, <3>2, <3>7, <2>5 DEF DeleteThread, IInv, TypeOK, userVars,
         objectVars, threadVars
    <3>8. slot[v] = q /\ Ending(v) => slot'[v] = q /\ Ending(v)'
      BY <1>13, <2>2, <2>6 DEF DeleteThread, IInv, TypeOK, Goto, Ending, userVars,
         objectVars, threadVars
    <3>9. ready \subseteq ready'
      BY <1>13 DEF DeleteThread, userVars, objectVars, threadVars
    <3>10. Untouched(v, q, x)
      BY <3>1, <3>3, <3>4, <3>5, <3>6, <3>7, <3>8, <3>9 DEF Untouched
    <3> QED
      BY <2>6, <3>10, OwnFrame
  <2>7. ASSUME NEW q \in AllSlots, q = slot[u]
        PROVE  OwnAt(u, q)'
    <3> DEFINE t == Cur(u).runnable_
               f == [Cur(u) EXCEPT !.runnable_thread_ = Null]
    <3>1. OwnAt(u, q) /\ future[u][q] = Cur(u) /\ future'[u][q] = f
      BY <1>13, CurOwnAt, <2>2, <2>7 DEF Cur
    <3>2. Cur(u).future_ = Null
      BY <1>13, CurOwned DEF DeleteThread, Ending
    <3>3. f.runnable_ = t /\ f.future_ = Null /\ f.runnable_thread_ = Null
      BY <3>2, CurType, Cleared DEF IInv
    <3>4. t # Null => tpc[t] = "gone" /\ t \in ready /\ <<"param", t>> \notin heap /\
          t = Cur(u).runnable_thread_
      BY <1>13, CurOwned DEF DeleteThread, IInv, ExitInv, ExitAt, Ending
    <3>5. \A w \in Users : Starting(w)' => Starting(w)
      BY <1>13, NotStarting DEF DeleteThread, IInv
    <3> HIDE DEF f
    <3> QED
      BY <1>13, <2>4, <2>7, <3>1, <3>4, <3>5, <3>3 DEF DeleteThread, OwnAt, Started,
         userVars, objectVars, threadVars
  <2> QED
    BY <2>6, <2>7 DEF OwnInv
<1>14. ASSUME NEW u \in Users, DeleteRunnable(u) PROVE OwnInv'
  <2>1. [Cur(u) EXCEPT !.runnable_ = Null] \in Futures
    BY <1>14, CurType, Cleared DEF DeleteRunnable, IInv
  <2>2. \A v \in Users, q \in AllSlots :
          future'[v][q] = IF v = u /\ q = slot[u] THEN [Cur(u) EXCEPT !.runnable_ = Null]
            ELSE future[v][q]
    BY <1>14, <2>1, CurType, SetCurIs, SetFuture DEF DeleteRunnable, IInv, AllSlots
  <2>3. [Cur(u) EXCEPT !.runnable_ = Null].runnable_ = Null
    BY CurType, Cleared DEF IInv
  <2>4. \A w \in Users, p \in AllSlots : future'[w][p].runnable_ \in {Null, future[w][p].runnable_}
    BY <2>2, <2>3
  <2>5. ASSUME NEW v \in Users, NEW q \in AllSlots, ~(v = u /\ q = slot[u]),
               NEW x, x = future[v][q].runnable_
        PROVE  OwnAt(v, q)'
    <3>1. future'[v][q] = future[v][q]
      BY <1>14, <2>2, <2>5 DEF DeleteRunnable, userVars, objectVars, threadVars
    <3>2. ASSUME x # Null
          PROVE  /\ x \in Tasks /\ tpc[x] # "none"
                 /\ \A w \in Users : Starting(w) => task[w] # x
                 /\ \A w \in Users, p \in AllSlots : future[w][p].runnable_ = x => w = v /\ p = q
      BY <2>5, <3>2, OwnedTask
    <3>3. ASSUME x # Null, NEW k \in {"runnable", "thread", "param"}
          PROVE  <<k, x>> \in heap' <=> <<k, x>> \in heap
      BY <1>14, <2>2, <2>5, <3>2, <3>3, CurType DEF DeleteRunnable, userVars,
         objectVars, threadVars, Cur, IInv
    <3>4. ASSUME x # Null
          PROVE  tpc'[x] = tpc[x]
                   \/ (tpc[x] \notin {"none", "never", "gone"} /\ tpc'[x] \notin {"none", "never"})
      BY <1>14, <3>2, <3>4 DEF DeleteRunnable, IInv, TypeOK, LaunchInv, Starting,
         userVars, objectVars, threadVars
    <3>5. ASSUME x # Null
          PROVE  Started(x)' => Started(x)
      BY <1>14, <3>2, <3>5, NotStarting DEF DeleteRunnable, IInv, Started, userVars,
         objectVars, threadVars
    <3>6. ASSUME x # Null, NEW w \in Users, NEW p \in AllSlots, future'[w][p].runnable_ = x
          PROVE  future[w][p].runnable_ = x
      BY <1>14, <2>2, <2>5, <3>2, <3>6, <2>4 DEF DeleteRunnable, userVars, objectVars,
         threadVars
    <3>7. ASSUME x # Null
          PROVE  \/ thread_id_'[x] = thread_id_[x] /\ joinable_'[x] = joinable_[x]
                 \/ thread_id_'[x] # -1 /\ joinable_'[x]
      BY <1>14, <2>2, <2>5, <3>2, <3>7 DEF DeleteRunnable, IInv, TypeOK, userVars,
         objectVars, threadVars
    <3>8. slot[v] = q /\ Ending(v) => slot'[v] = q /\ Ending(v)'
      BY <1>14, <2>2, <2>5 DEF DeleteRunnable, IInv, TypeOK, Goto, Ending, userVars,
         objectVars, threadVars
    <3>9. ready \subseteq ready'
      BY <1>14 DEF DeleteRunnable, userVars, objectVars, threadVars
    <3>10. Untouched(v, q, x)
      BY <3>1, <3>3, <3>4, <3>5, <3>6, <3>7, <3>8, <3>9 DEF Untouched
    <3> QED
      BY <2>5, <3>10, OwnFrame
  <2>6. ASSUME NEW q \in AllSlots, q = slot[u]
        PROVE  OwnAt(u, q)'
    <3> DEFINE f == [Cur(u) EXCEPT !.runnable_ = Null]
    <3>1. future'[u][q] = f
      BY <2>2, <2>6
    <3>2. Cur(u).future_ = Null /\ Cur(u).runnable_thread_ = Null
      BY <1>14 DEF DeleteRunnable, IInv, ExitInv, ExitAt
    <3>3. f.runnable_ = Null /\ f.future_ = Null /\ f.runnable_thread_ = Null
      BY <3>2, CurType, Cleared DEF IInv
    <3> HIDE DEF f
    <3> QED
      BY <3>1, <3>3 DEF OwnAt
  <2> QED
    BY <2>5, <2>6 DEF OwnInv
<1>15. ASSUME NEW u \in Users, Assign(u) PROVE OwnInv'
  <2>1. slot[u] \in AllSlots /\ from[u] \in AllSlots /\ Cur(u) = Empty
    BY <1>15 DEF Assign, IInv, TypeOK, ExitInv, ExitAt
  <2>2. \A v \in Users, q \in AllSlots :
          future'[v][q] = IF v = u /\ q = from[u] THEN Empty
                          ELSE IF v = u /\ q = slot[u] THEN future[u][from[u]] ELSE future[v][q]
    BY <1>15, <2>1 DEF Assign, IInv, TypeOK
  <2>3. \A x : Started(x)' => Started(x)
    BY <1>15, NotStarting DEF Assign, Started, IInv
  <2>4. ASSUME NEW v \in Users, NEW q \in AllSlots, v # u \/ q \notin {slot[u], from[u]},
               NEW x, x = future[v][q].runnable_
        PROVE  OwnAt(v, q)'
    <3>1. future'[v][q] = future[v][q]
      BY <2>2, <2>4
    <3>2. ASSUME x # Null, NEW w \in Users, NEW p \in AllSlots, future'[w][p].runnable_ = x
          PROVE  future[w][p].runnable_ = x
      <4>1. future[u][from[u]].runnable_ # x
        BY <2>1, <2>4, <3>2, OwnedTask
      <4> QED
        BY <2>2, <3>2, <4>1 DEF Empty
    <3>3. slot[v] = q /\ Ending(v) => slot'[v] = q /\ Ending(v)'
      BY <1>15 DEF Assign, IInv, TypeOK, Goto, Ending
    <3>4. Untouched(v, q, x)
      BY <1>15, <2>3, <3>1, <3>2, <3>3 DEF Untouched, Assign, objectVars, threadVars
    <3> QED
      BY <2>4, <3>4, OwnFrame
  <2>5. ASSUME NEW q \in AllSlots, q = from[u]
        PROVE  OwnAt(u, q)'
    <3>1. future'[u][q] = Empty
      BY <2>2, <2>5
    <3> QED
      BY <3>1 DEF OwnAt, Empty
  <2>6. ASSUME NEW q \in AllSlots, q = slot[u], q # from[u],
               NEW x, x = future[u][from[u]].runnable_
        PROVE  OwnAt(u, q)'
    <3>1. future'[u][q] = future[u][from[u]] /\ OwnAt(u, from[u]) /\ ~Ending(u)
      BY <1>15, <2>1, <2>2, <2>6 DEF IInv, OwnInv, Assign, Ending
    <3>2. ASSUME x # Null, NEW w \in Users, NEW p \in AllSlots, future'[w][p].runnable_ = x
          PROVE  w = u /\ p = q
      <4>1. future[w][p].runnable_ = x => w = u /\ p = from[u]
        BY <2>1, <2>6, <3>2, OwnedTask
      <4> QED
        BY <2>2, <2>6, <3>2, <4>1 DEF Empty
    <3>3. x = future'[u][q].runnable_ /\ (x # Null => ~Started(x))
      BY <2>6, <3>1 DEF OwnAt
    <3>4. heap' = heap /\ tpc' = tpc /\ ready' = ready /\ thread_id_' = thread_id_
          /\ joinable_' = joinable_
      BY <1>15 DEF Assign, objectVars, threadVars
    <3> QED
      BY <2>3, <2>6, <3>1, <3>2, <3>3, <3>4 DEF OwnAt
  <2> QED
    BY <2>4, <2>5, <2>6 DEF OwnInv
<1>16. ASSUME NEW u \in Users, Get(u) PROVE OwnInv'
  <2>1. [Cur(u) EXCEPT !.future_ = Null] \in Futures
    BY <1>16, CurType, Cleared DEF Get, IInv
  <2>2. \A v \in Users, q \in AllSlots :
          future'[v][q] = IF v = u /\ q = slot[u] THEN [Cur(u) EXCEPT !.future_ = Null]
            ELSE future[v][q]
    BY <1>16, <2>1, CurType, SetCurIs, SetFuture DEF Get, IInv, AllSlots
  <2>3. [Cur(u) EXCEPT !.future_ = Null].runnable_ = Cur(u).runnable_
    BY CurType, Cleared DEF IInv
  <2>4. \A w \in Users, p \in AllSlots : future'[w][p].runnable_ = future[w][p].runnable_
    BY <2>2, <2>3 DEF Cur
  <2>5. ASSUME NEW v \in Users, NEW q \in AllSlots, ~(v = u /\ q = slot[u]),
               NEW x, x = future[v][q].runnable_
        PROVE  OwnAt(v, q)'
    <3>1. future'[v][q] = future[v][q]
      BY <1>16, <2>2, <2>5 DEF Get, userVars, objectVars, threadVars
    <3>2. ASSUME x # Null
          PROVE  /\ x \in Tasks /\ tpc[x] # "none"
                 /\ \A w \in Users : Starting(w) => task[w] # x
                 /\ \A w \in Users, p \in AllSlots : future[w][p].runnable_ = x => w = v /\ p = q
      BY <2>5, <3>2, OwnedTask
    <3>3. ASSUME x # Null, NEW k \in {"runnable", "thread", "param"}
          PROVE  <<k, x>> \in heap' <=> <<k, x>> \in heap
      BY <1>16, <2>2, <2>5, <3>2, <3>3 DEF Get, userVars, objectVars, threadVars
    <3>4. ASSUME x # Null
          PROVE  tpc'[x] = tpc[x]
                   \/ (tpc[x] \notin {"none", "never", "gone"} /\ tpc'[x] \notin {"none", "never"})
      BY <1>16, <3>2, <3>4 DEF Get, IInv, TypeOK, LaunchInv, Starting, userVars,
         objectVars, threadVars
    <3>5. ASSUME x # Null
          PROVE  Started(x)' => Started(x)
      BY <1>16, <3>2, <3>5, NotStarting DEF Get, IInv, Started, userVars, objectVars,
         threadVars
    <3>6. ASSUME x # Null, NEW w \in Users, NEW p \in AllSlots, future'[w][p].runnable_ = x
          PROVE  future[w][p].runnable_ = x
      BY <1>16, <2>2, <2>5, <3>2, <3>6, <2>4 DEF Get, userVars, objectVars, threadVars
    <3>7. ASSUME x # Null
          PROVE  \/ thread_id_'[x] = thread_id_[x] /\ joinable_'[x] = joinable_[x]
                 \/ thread_id_'[x] # -1 /\ joinable_'[x]
      BY <1>16, <2>2, <2>5, <3>2, <3>7 DEF Get, IInv, TypeOK, userVars, objectVars,
         threadVars
    <3>8. slot[v] = q /\ Ending(v) => slot'[v] = q /\ Ending(v)'
      BY <1>16, <2>2, <2>5 DEF Get, IInv, TypeOK, Goto, Ending, userVars, objectVars,
         threadVars
    <3>9. ready \subseteq ready'
      BY <1>16 DEF Get, userVars, objectVars, threadVars
    <3>10. Untouched(v, q, x)
      BY <3>1, <3>3, <3>4, <3>5, <3>6, <3>7, <3>8, <3>9 DEF Untouched
    <3> QED
      BY <2>5, <3>10, OwnFrame
  <2>6. ASSUME NEW q \in AllSlots, q = slot[u]
        PROVE  OwnAt(u, q)'
    <3>1. OwnAt(u, q) /\ future'[u][q] = [Cur(u) EXCEPT !.future_ = Null] /\ future[u][q] = Cur(u)
      BY <1>16, CurOwnAt, <2>2, <2>6 DEF Cur
    <3>2. [Cur(u) EXCEPT !.future_ = Null].runnable_ = Cur(u).runnable_ /\
          [Cur(u) EXCEPT !.future_ = Null].runnable_thread_ = Cur(u).runnable_thread_ /\
          [Cur(u) EXCEPT !.future_ = Null].future_ = Null
      BY CurType, Cleared DEF IInv
    <3>3. ~Ending(u) /\ Cur(u).future_ \in ready \cup {Null}
      BY <1>16 DEF Get, Ending
    <3>4. \A w \in Users : Starting(w)' => Starting(w)
      BY <1>16, NotStarting DEF Get, IInv
    <3> QED
      BY <1>16, <2>4, <2>6, <3>1, <3>2, <3>3, <3>4 DEF Get, OwnAt, Started, userVars,
         objectVars, threadVars
  <2> QED
    BY <2>5, <2>6 DEF OwnInv
<1>17. ASSUME NEW u \in Users, Wait(u) PROVE OwnInv'
  <2>1. \A w \in Users : /\ Starting(w)' => Starting(w)
                         /\ Ending(w) => Ending(w)' /\ slot'[w] = slot[w]
    BY <1>17 DEF Wait, Goto, Starting, Ending, IInv, TypeOK, userVars, objectVars,
       threadVars
  <2>2. ASSUME NEW v \in Users, NEW q \in AllSlots
        PROVE  OwnAt(v, q)'
    <3>1. Untouched(v, q, future[v][q].runnable_)
      BY <1>17, <2>1, OwnedTask DEF Wait, Untouched, Started, IInv, TypeOK, userVars,
         objectVars, threadVars
    <3> QED
      BY <3>1, OwnFrame
  <2> QED
    BY <2>2 DEF OwnInv
<1>18. ASSUME NEW t \in Tasks, RunLock(t) PROVE OwnInv'
  <2>1. \A w \in Users : /\ Starting(w)' => Starting(w)
                         /\ Ending(w) => Ending(w)' /\ slot'[w] = slot[w]
    BY <1>18 DEF RunLock, Goto, Starting, Ending, IInv, TypeOK, userVars, objectVars,
       threadVars
  <2>2. ASSUME NEW v \in Users, NEW q \in AllSlots
        PROVE  OwnAt(v, q)'
    <3>1. Untouched(v, q, future[v][q].runnable_)
      BY <1>18, <2>1, OwnedTask DEF RunLock, Untouched, Started, IInv, TypeOK, userVars,
         objectVars, threadVars
    <3> QED
      BY <3>1, OwnFrame
  <2> QED
    BY <2>2 DEF OwnInv
<1>19. ASSUME NEW t \in Tasks, RunCopy(t) PROVE OwnInv'
  <2>1. \A w \in Users : /\ Starting(w)' => Starting(w)
                         /\ Ending(w) => Ending(w)' /\ slot'[w] = slot[w]
    BY <1>19 DEF RunCopy, Goto, Starting, Ending, IInv, TypeOK, userVars, objectVars,
       threadVars
  <2>2. ASSUME NEW v \in Users, NEW q \in AllSlots
        PROVE  OwnAt(v, q)'
    <3>1. Untouched(v, q, future[v][q].runnable_)
      BY <1>19, <2>1, OwnedTask DEF RunCopy, Untouched, Started, IInv, TypeOK, userVars,
         objectVars, threadVars
    <3> QED
      BY <3>1, OwnFrame
  <2> QED
    BY <2>2 DEF OwnInv
<1>20. ASSUME NEW t \in Tasks, Run(t) PROVE OwnInv'
  <2>1. \A w \in Users : /\ Starting(w)' => Starting(w)
                         /\ Ending(w) => Ending(w)' /\ slot'[w] = slot[w]
    BY <1>20 DEF Run, Goto, Starting, Ending, IInv, TypeOK, userVars, objectVars,
       threadVars
  <2>2. ASSUME NEW v \in Users, NEW q \in AllSlots
        PROVE  OwnAt(v, q)'
    <3>1. Untouched(v, q, future[v][q].runnable_)
      BY <1>20, <2>1, OwnedTask DEF Run, Untouched, Started, IInv, TypeOK, userVars,
         objectVars, threadVars
    <3> QED
      BY <3>1, OwnFrame
  <2> QED
    BY <2>2 DEF OwnInv
<1>21. ASSUME NEW t \in Tasks, RunStore(t) PROVE OwnInv'
  <2>1. \A w \in Users : /\ Starting(w)' => Starting(w)
                         /\ Ending(w) => Ending(w)' /\ slot'[w] = slot[w]
    BY <1>21 DEF RunStore, Goto, Starting, Ending, IInv, TypeOK, userVars, objectVars,
       threadVars
  <2>2. ASSUME NEW v \in Users, NEW q \in AllSlots
        PROVE  OwnAt(v, q)'
    <3>1. Untouched(v, q, future[v][q].runnable_)
      BY <1>21, <2>1, OwnedTask DEF RunStore, Untouched, Started, IInv, TypeOK,
         userVars, objectVars, threadVars
    <3> QED
      BY <3>1, OwnFrame
  <2> QED
    BY <2>2 DEF OwnInv
<1>22. ASSUME UNCHANGED vars PROVE OwnInv'
  <2>1. \A w \in Users : /\ Starting(w)' => Starting(w)
                         /\ Ending(w) => Ending(w)' /\ slot'[w] = slot[w]
    BY <1>22 DEF vars, Goto, Starting, Ending, IInv, TypeOK, userVars, objectVars,
       threadVars
  <2>2. ASSUME NEW v \in Users, NEW q \in AllSlots
        PROVE  OwnAt(v, q)'
    <3>1. Untouched(v, q, future[v][q].runnable_)
      BY <1>22, <2>1, OwnedTask DEF vars, Untouched, Started, IInv, TypeOK, userVars,
         objectVars, threadVars
    <3> QED
      BY <3>1, OwnFrame
  <2> QED
    BY <2>2 DEF OwnInv
<1>23. QED
  BY StepCases, <1>1, <1>2, <1>3, <1>4, <1>5, <1>6, <1>7, <1>8, <1>9, <1>10, <1>11,
     <1>12, <1>13, <1>14, <1>15, <1>16, <1>17, <1>18, <1>19, <1>20, <1>21, <1>22
     DEF UserStep, ThreadStep

(* No object loses its owner while none is made, no call ends and no future *)
(* loses its runnable.                                                     *)
LEMMA HeapFrame ==
  ASSUME IInv, heap' \subseteq heap, task' = task,
         \A w \in Users : Starting(w) => Starting(w)',
         \A v \in Users, q \in AllSlots : future'[v][q].runnable_ = future[v][q].runnable_
  PROVE  HeapInv'
  BY DEF IInv, HeapInv, Started

(* The part about the owners of what is allocated.                         *)
LEMMA StepHeapInv == ASSUME IInv, [Next]_vars PROVE HeapInv'
<1>1. ASSUME NEW u \in Users, NEW s \in Slots, NEW t \in Tasks, Launch(u, t, s)
      PROVE  HeapInv'
  <2>1. \A w \in Users : Starting(w) => w # u /\ Starting(w)' /\ task'[w] = task[w]
    BY <1>1 DEF Launch, Starting, Goto, IInv, TypeOK
  <2>2. Starting(u)' /\ task'[u] = t
    BY <1>1 DEF Launch, Starting, Goto, IInv, TypeOK
  <2>3. ASSUME NEW k \in {"runnable", "thread", "param"}, NEW x \in Tasks, <<k, x>> \in heap'
        PROVE  Started(x)' \/ \E v \in Users, q \in AllSlots : future'[v][q].runnable_ = x
    <3>1. CASE x = t
      BY <2>2, <3>1 DEF Started
    <3>2. CASE x # t
      <4>1. <<k, x>> \in heap
        BY <1>1, <2>3, <3>2 DEF Launch, Objects
      <4> QED
        BY <1>1, <2>1, <4>1 DEF Launch, IInv, HeapInv, Started
    <3> QED
      BY <3>1, <3>2
  <2> QED
    BY <2>3 DEF HeapInv
<1>2. ASSUME NEW u \in Users, NEW s \in Slots, NEW r \in Slots, Move(u, s, r)
      PROVE  HeapInv'
  BY <1>2, HeapFrame DEF Move, IInv, TypeOK, Starting, Goto, userVars, objectVars,
     threadVars
<1>3. ASSUME NEW u \in Users, NEW s \in Slots, Destruct(u, s) PROVE HeapInv'
  BY <1>3, HeapFrame DEF Destruct, IInv, TypeOK, Starting, Goto, userVars, objectVars,
     threadVars
<1>4. ASSUME NEW u \in Users, NEW s \in Slots, NEW call \in {"get", "wait"}, Ask(u, s, call)
      PROVE  HeapInv'
  BY <1>4, HeapFrame DEF Ask, IInv, TypeOK, Starting, Goto, userVars, objectVars,
     threadVars
<1>5. ASSUME NEW u \in Users, Create(u) PROVE HeapInv'
  BY <1>5, HeapFrame DEF Create, IInv, TypeOK, Starting, Goto, userVars, objectVars,
     threadVars
<1>6. ASSUME NEW u \in Users, ReadCounter(u) PROVE HeapInv'
  BY <1>6, HeapFrame DEF ReadCounter, IInv, TypeOK, Starting, Goto, userVars,
     objectVars, threadVars
<1>7. ASSUME NEW u \in Users, SetupThread(u) PROVE HeapInv'
  <2>1. Returned(task[u], task[u]) \in Futures /\ task[u] \in Tasks /\ task[u] # Null
    BY <1>7, AsyncAssumption DEF SetupThread, IInv, TypeOK, LaunchInv, Starting,
       Returned, Futures
  <2>2. \A v \in Users, q \in AllSlots :
          future'[v][q] = IF v = u /\ q = Temp THEN Returned(task[u], task[u]) ELSE future[v][q]
    BY <1>7, <2>1, SetFuture DEF SetupThread, IInv, AllSlots
  <2>3. future'[u][Temp].runnable_ = task[u] /\ Temp \in AllSlots
    BY <2>2 DEF Returned, AllSlots
  <2>4. future[u][Temp] = Empty
    BY <1>7 DEF SetupThread, IInv, CallInv, Ending
  <2>5. \A w \in Users : w # u /\ Starting(w) => Starting(w)'
    BY <1>7 DEF SetupThread, Starting, Goto, IInv, TypeOK
  <2>6. ASSUME NEW k \in {"runnable", "thread", "param"}, NEW t \in Tasks, <<k, t>> \in heap'
        PROVE  Started(t)' \/ \E v \in Users, q \in AllSlots : future'[v][q].runnable_ = t
    <3>1. <<k, t>> \in heap /\ task' = task
      BY <1>7, <2>6 DEF SetupThread
    <3>2. CASE t = task[u]
      BY <2>3, <3>2
    <3>3. CASE \E w \in Users : w # u /\ Starting(w) /\ task[w] = t
      BY <2>5, <3>1, <3>3 DEF Started
    <3>4. CASE \E v \in Users, q \in AllSlots : future[v][q].runnable_ = t
      <4>1. PICK v \in Users, q \in AllSlots : future[v][q].runnable_ = t
        BY <3>4
      <4>2. ~(v = u /\ q = Temp)
        BY <2>4, <4>1, AsyncAssumption DEF Empty
      <4> QED
        BY <2>2, <4>1, <4>2
    <3> QED
      BY <3>1, <3>2, <3>3, <3>4 DEF IInv, HeapInv, Started
  <2> QED
    BY <2>6 DEF HeapInv
<1>8. ASSUME NEW u \in Users, CreateFailed(u) PROVE HeapInv'
  <2>1. Returned(task[u], Null) \in Futures /\ task[u] \in Tasks /\ task[u] # Null
    BY <1>8, AsyncAssumption DEF CreateFailed, IInv, TypeOK, LaunchInv, Starting,
       Returned, Futures
  <2>2. \A v \in Users, q \in AllSlots :
          future'[v][q] = IF v = u /\ q = Temp THEN Returned(task[u], Null) ELSE future[v][q]
    BY <1>8, <2>1, SetFuture DEF CreateFailed, IInv, AllSlots
  <2>3. future'[u][Temp].runnable_ = task[u] /\ Temp \in AllSlots
    BY <2>2 DEF Returned, AllSlots
  <2>4. future[u][Temp] = Empty
    BY <1>8 DEF CreateFailed, IInv, CallInv, Ending
  <2>5. \A w \in Users : w # u /\ Starting(w) => Starting(w)'
    BY <1>8 DEF CreateFailed, Starting, Goto, IInv, TypeOK
  <2>6. ASSUME NEW k \in {"runnable", "thread", "param"}, NEW t \in Tasks, <<k, t>> \in heap'
        PROVE  Started(t)' \/ \E v \in Users, q \in AllSlots : future'[v][q].runnable_ = t
    <3>1. <<k, t>> \in heap /\ task' = task
      BY <1>8, <2>6 DEF CreateFailed
    <3>2. CASE t = task[u]
      BY <2>3, <3>2
    <3>3. CASE \E w \in Users : w # u /\ Starting(w) /\ task[w] = t
      BY <2>5, <3>1, <3>3 DEF Started
    <3>4. CASE \E v \in Users, q \in AllSlots : future[v][q].runnable_ = t
      <4>1. PICK v \in Users, q \in AllSlots : future[v][q].runnable_ = t
        BY <3>4
      <4>2. ~(v = u /\ q = Temp)
        BY <2>4, <4>1, AsyncAssumption DEF Empty
      <4> QED
        BY <2>2, <4>1, <4>2
    <3> QED
      BY <3>1, <3>2, <3>3, <3>4 DEF IInv, HeapInv, Started
  <2> QED
    BY <2>6 DEF HeapInv
<1>9. ASSUME NEW u \in Users, ExitGet(u) PROVE HeapInv'
  <2>1. [Cur(u) EXCEPT !.future_ = Null] \in Futures /\
        [Cur(u) EXCEPT !.future_ = Null].runnable_ = Cur(u).runnable_
    BY CurType, Cleared DEF IInv
  <2>2. \A v \in Users, q \in AllSlots :
          future'[v][q] = IF v = u /\ q = slot[u] THEN [Cur(u) EXCEPT !.future_ = Null]
            ELSE future[v][q]
    BY <1>9, <2>1, SetCurIs DEF ExitGet, IInv
  <2>3. \A v \in Users, q \in AllSlots : future'[v][q].runnable_ = future[v][q].runnable_
    BY <2>1, <2>2 DEF Cur
  <2>4. \A w \in Users : Starting(w) => Starting(w)'
    BY <1>9 DEF ExitGet, Starting, Goto, IInv, TypeOK
  <2> QED
    BY <1>9, <2>3, <2>4, HeapFrame DEF ExitGet, objectVars
<1>10. ASSUME NEW u \in Users, Kill(u) PROVE HeapInv'
  BY <1>10, HeapFrame DEF Kill, IInv, TypeOK, Starting, Goto, userVars, objectVars,
     threadVars
<1>11. ASSUME NEW u \in Users, Join(u) PROVE HeapInv'
  BY <1>11, HeapFrame DEF Join, IInv, TypeOK, Starting, Goto, userVars, objectVars,
     threadVars
<1>12. ASSUME NEW u \in Users, DeleteParam(u) PROVE HeapInv'
  BY <1>12, HeapFrame DEF DeleteParam, IInv, TypeOK, Starting, Goto, userVars,
     objectVars, threadVars
<1>13. ASSUME NEW u \in Users, DeleteThread(u) PROVE HeapInv'
  <2>1. [Cur(u) EXCEPT !.runnable_thread_ = Null] \in Futures /\
        [Cur(u) EXCEPT !.runnable_thread_ = Null].runnable_ = Cur(u).runnable_
    BY CurType, Cleared DEF IInv
  <2>2. \A v \in Users, q \in AllSlots :
          future'[v][q] = IF v = u /\ q = slot[u] THEN [Cur(u) EXCEPT !.runnable_thread_ = Null]
            ELSE future[v][q]
    BY <1>13, <2>1, SetCurIs DEF DeleteThread, IInv
  <2>3. \A v \in Users, q \in AllSlots : future'[v][q].runnable_ = future[v][q].runnable_
    BY <2>1, <2>2 DEF Cur
  <2>4. \A w \in Users : Starting(w) => Starting(w)'
    BY <1>13 DEF DeleteThread, Starting, Goto, IInv, TypeOK
  <2> QED
    BY <1>13, <2>3, <2>4, HeapFrame DEF DeleteThread, objectVars
<1>14. ASSUME NEW u \in Users, DeleteRunnable(u) PROVE HeapInv'
  <2> DEFINE f == [Cur(u) EXCEPT !.runnable_ = Null]
  <2>1. f \in Futures /\ slot[u] \in AllSlots
    BY CurType, Cleared DEF IInv
  <2>2. \A v \in Users, q \in AllSlots :
          future'[v][q] = IF v = u /\ q = slot[u] THEN f ELSE future[v][q]
    BY <1>14, <2>1, SetCurIs DEF DeleteRunnable, IInv
  <2>3. \A w \in Users : Starting(w) => Starting(w)'
    <3>1. pc' = [pc EXCEPT ![u] = "idle"] \/ pc' = [pc EXCEPT ![u] = "assign"]
      BY <1>14 DEF DeleteRunnable, Goto
    <3> QED
      BY <1>14, <3>1 DEF DeleteRunnable, Starting, IInv, TypeOK
  <2>4. ASSUME NEW k \in {"runnable", "thread", "param"}, NEW t \in Tasks, <<k, t>> \in heap'
        PROVE  t # Cur(u).runnable_
    <3>1. SUFFICES ASSUME t = Cur(u).runnable_ PROVE FALSE
      OBVIOUS
    <3>2. t # Null /\ Cur(u).runnable_thread_ = Null
      BY <1>14, AsyncAssumption DEF DeleteRunnable, IInv, ExitInv, ExitAt
    <3>3. <<"thread", t>> \notin heap /\ <<"param", t>> \notin heap
      BY <3>1, <3>2, CurOwnAt DEF OwnAt, Cur
    <3> QED
      BY <1>14, <2>4, <3>1, <3>3 DEF DeleteRunnable
  <2>5. ASSUME NEW k \in {"runnable", "thread", "param"}, NEW t \in Tasks, <<k, t>> \in heap'
        PROVE  Started(t)' \/ \E v \in Users, q \in AllSlots : future'[v][q].runnable_ = t
    <3>1. <<k, t>> \in heap /\ t # Cur(u).runnable_ /\ task' = task
      BY <1>14, <2>4, <2>5 DEF DeleteRunnable
    <3>2. CASE Started(t)
      BY <2>3, <3>1, <3>2 DEF Started
    <3>3. CASE \E v \in Users, q \in AllSlots : future[v][q].runnable_ = t
      <4>1. PICK v \in Users, q \in AllSlots : future[v][q].runnable_ = t
        BY <3>3
      <4>2. future'[v][q] = future[v][q]
        BY <2>2, <3>1, <4>1 DEF Cur
      <4> QED
        BY <4>1, <4>2
    <3> QED
      BY <3>1, <3>2, <3>3 DEF IInv, HeapInv
  <2> QED
    BY <2>5 DEF HeapInv
<1>15. ASSUME NEW u \in Users, Assign(u) PROVE HeapInv'
  <2>1. slot[u] \in AllSlots /\ from[u] \in AllSlots /\ Cur(u) = Empty
    BY <1>15 DEF Assign, IInv, TypeOK, ExitInv, ExitAt
  <2>2. \A v \in Users, q \in AllSlots :
          future'[v][q] = IF v = u /\ q = from[u] THEN Empty
                          ELSE IF v = u /\ q = slot[u] THEN future[u][from[u]] ELSE future[v][q]
    BY <1>15, <2>1 DEF Assign, IInv, TypeOK
  <2>3. \A w \in Users : Starting(w) => Starting(w)'
    BY <1>15 DEF Assign, Starting, Goto, IInv, TypeOK
  <2>4. ASSUME NEW v \in Users, NEW q \in AllSlots, future[v][q].runnable_ # Null
        PROVE  \E w \in Users, p \in AllSlots : future'[w][p].runnable_ = future[v][q].runnable_
    <3>1. ~(v = u /\ q = slot[u])
      BY <2>1, <2>4 DEF Cur, Empty
    <3>2. CASE v = u /\ q = from[u]
      BY <2>1, <2>2, <3>1, <3>2
    <3>3. CASE ~(v = u /\ q = from[u])
      BY <2>2, <3>1, <3>3
    <3> QED
      BY <3>2, <3>3
  <2>5. ASSUME NEW k \in {"runnable", "thread", "param"}, NEW t \in Tasks, <<k, t>> \in heap'
        PROVE  Started(t)' \/ \E v \in Users, q \in AllSlots : future'[v][q].runnable_ = t
    <3>1. <<k, t>> \in heap /\ task' = task /\ t # Null
      BY <1>15, <2>5, AsyncAssumption DEF Assign, objectVars
    <3>2. CASE Started(t)
      BY <2>3, <3>1, <3>2 DEF Started
    <3>3. CASE \E v \in Users, q \in AllSlots : future[v][q].runnable_ = t
      BY <2>4, <3>1, <3>3
    <3> QED
      BY <3>1, <3>2, <3>3 DEF IInv, HeapInv
  <2> QED
    BY <2>5 DEF HeapInv
<1>16. ASSUME NEW u \in Users, Get(u) PROVE HeapInv'
  <2>1. [Cur(u) EXCEPT !.future_ = Null] \in Futures /\
        [Cur(u) EXCEPT !.future_ = Null].runnable_ = Cur(u).runnable_
    BY CurType, Cleared DEF IInv
  <2>2. \A v \in Users, q \in AllSlots :
          future'[v][q] = IF v = u /\ q = slot[u] THEN [Cur(u) EXCEPT !.future_ = Null]
            ELSE future[v][q]
    BY <1>16, <2>1, SetCurIs DEF Get, IInv
  <2>3. \A v \in Users, q \in AllSlots : future'[v][q].runnable_ = future[v][q].runnable_
    BY <2>1, <2>2 DEF Cur
  <2>4. \A w \in Users : Starting(w) => Starting(w)'
    BY <1>16 DEF Get, Starting, Goto, IInv, TypeOK
  <2> QED
    BY <1>16, <2>3, <2>4, HeapFrame DEF Get, objectVars
<1>17. ASSUME NEW u \in Users, Wait(u) PROVE HeapInv'
  BY <1>17, HeapFrame DEF Wait, IInv, TypeOK, Starting, Goto, userVars, objectVars,
     threadVars
<1>18. ASSUME NEW t \in Tasks, RunLock(t) PROVE HeapInv'
  BY <1>18, HeapFrame DEF RunLock, IInv, TypeOK, Starting, Goto, userVars, objectVars,
     threadVars
<1>19. ASSUME NEW t \in Tasks, RunCopy(t) PROVE HeapInv'
  BY <1>19, HeapFrame DEF RunCopy, IInv, TypeOK, Starting, Goto, userVars, objectVars,
     threadVars
<1>20. ASSUME NEW t \in Tasks, Run(t) PROVE HeapInv'
  BY <1>20, HeapFrame DEF Run, IInv, TypeOK, Starting, Goto, userVars, objectVars,
     threadVars
<1>21. ASSUME NEW t \in Tasks, RunStore(t) PROVE HeapInv'
  BY <1>21, HeapFrame DEF RunStore, IInv, TypeOK, Starting, Goto, userVars, objectVars,
     threadVars
<1>22. ASSUME UNCHANGED vars PROVE HeapInv'
  BY <1>22, HeapFrame DEF vars, IInv, TypeOK, Starting, Goto, userVars, objectVars,
     threadVars
<1>23. QED
  BY StepCases, <1>1, <1>2, <1>3, <1>4, <1>5, <1>6, <1>7, <1>8, <1>9, <1>10, <1>11,
     <1>12, <1>13, <1>14, <1>15, <1>16, <1>17, <1>18, <1>19, <1>20, <1>21, <1>22
     DEF UserStep, ThreadStep
-----------------------------------------------------------------------------
(* The whole invariant holds at first, and in every step.                  *)
LEMMA InitIInv == ASSUME Init PROVE IInv
<1>1. \A u \in Users, s \in AllSlots : future[u][s] = Empty
  BY DEF Init
<1>2. TypeOK
  BY InitTypeOK
<1>3. LaunchInv /\ CallInv
  BY <1>1, AsyncAssumption DEF Init, LaunchInv, CallInv, Starting, AllSlots
<1>4. OwnInv
  BY <1>1 DEF OwnInv, OwnAt, Empty
<1>5. HeapInv /\ AliveInv
  BY DEF Init, HeapInv, AliveInv
<1>6. ExitInv
  BY DEF Init, ExitInv, ExitAt, Ending
<1>7. ThreadInv
  BY AsyncAssumption DEF Init, ThreadInv
<1>8. CounterInv
  BY DEF Init, CounterInv, Numbers
<1> QED
  BY <1>2, <1>3, <1>4, <1>5, <1>6, <1>7, <1>8 DEF IInv

LEMMA StepIInv == ASSUME IInv, [Next]_vars PROVE IInv'
<1>1. TypeOK'
  BY StepTypeOK DEF IInv
<1> QED
  BY <1>1, StepLaunchInv, StepCallInv, StepOwnInv, StepHeapInv, StepExitInv,
     StepAliveInv,
     StepThreadInv, StepCounterInv DEF IInv

(* The inductive invariant holds in every reachable state.                 *)
THEOREM Invariance == Spec => []IInv
<1>1. Init => IInv
  BY InitIInv
<1>2. IInv /\ [Next]_vars => IInv'
  BY StepIInv
<1> QED
  BY <1>1, <1>2, PTL DEF Spec
-----------------------------------------------------------------------------
(* The owners of an object, counted.                                       *)
LEMMA OneOwner ==
  ASSUME IInv, NEW t \in Tasks
  PROVE  /\ Launching(t) => Owners(t) = {} /\ <<"runnable", t>> \in heap
         /\ <<"runnable", t>> \notin heap => Owners(t) = {}
         /\ ~Launching(t) /\ <<"runnable", t>> \in heap => \E x : Owners(t) = {x}
<1>1. t # Null /\ (Launching(t) <=> Started(t))
  BY AsyncAssumption DEF Launching, Started, Starting
<1>2. ASSUME NEW x \in Owners(t)
      PROVE  /\ x \in Users \X AllSlots /\ ~Started(t) /\ <<"runnable", t>> \in heap
             /\ \A y \in Owners(t) : y = x
  <2>1. x[1] \in Users /\ x[2] \in AllSlots /\ x = <<x[1], x[2]>> /\
        future[x[1]][x[2]].runnable_ = t
    BY <1>2 DEF Owners
  <2>2. OwnAt(x[1], x[2])
    BY <2>1 DEF IInv, OwnInv
  <2> QED
    BY <1>1, <2>1, <2>2 DEF OwnAt, Owners
<1>3. Started(t) => <<"runnable", t>> \in heap
  BY DEF Started, IInv, LaunchInv, Objects
<1>4. ASSUME ~Started(t), <<"runnable", t>> \in heap
      PROVE  \E x : x \in Owners(t)
  <2>1. PICK u \in Users, s \in AllSlots : future[u][s].runnable_ = t
    BY <1>4 DEF IInv, HeapInv
  <2>2. <<u, s>> \in Owners(t)
    BY <2>1 DEF Owners
  <2> QED
    BY <2>2
<1> QED
  BY <1>1, <1>2, <1>3, <1>4

LEMMA OneThreadOwner ==
  ASSUME IInv, NEW t \in Tasks
  PROVE  /\ Launching(t) => ThreadOwners(t) = {} /\ <<"thread", t>> \in heap
         /\ <<"thread", t>> \notin heap => ThreadOwners(t) = {}
         /\ ~Launching(t) /\ <<"thread", t>> \in heap => \E x : ThreadOwners(t) = {x}
         /\ <<"param", t>> \in heap => <<"thread", t>> \in heap
<1>1. t # Null /\ (Launching(t) <=> Started(t))
  BY AsyncAssumption DEF Launching, Started, Starting
<1>2. ASSUME NEW x \in ThreadOwners(t)
      PROVE  x \in Owners(t) /\ <<"thread", t>> \in heap
  <2>1. x[1] \in Users /\ x[2] \in AllSlots /\ x \in Users \X AllSlots
        /\ future[x[1]][x[2]].runnable_thread_ = t
    BY <1>2 DEF ThreadOwners
  <2>2. OwnAt(x[1], x[2])
    BY <2>1 DEF IInv, OwnInv
  <2> QED
    BY <1>1, <2>1, <2>2 DEF OwnAt, Owners
<1>3. Started(t) => <<"thread", t>> \in heap
  BY DEF Started, IInv, LaunchInv, Objects
<1>4. ASSUME ~Started(t), NEW k \in {"thread", "param"}, <<k, t>> \in heap
      PROVE  <<"thread", t>> \in heap /\ \E x : x \in ThreadOwners(t)
  <2>1. PICK u \in Users, s \in AllSlots : future[u][s].runnable_ = t
    BY <1>4 DEF IInv, HeapInv
  <2>2. OwnAt(u, s)
    BY DEF IInv, OwnInv
  <2>3. future[u][s].runnable_thread_ = t /\ <<"thread", t>> \in heap
    BY <1>1, <1>4, <2>1, <2>2 DEF OwnAt
  <2>4. <<u, s>> \in ThreadOwners(t)
    BY <2>3 DEF ThreadOwners
  <2> QED
    BY <2>3, <2>4
<1> QED
  BY <1>1, <1>2, <1>3, <1>4, OneOwner

LEMMA Owned == ASSUME IInv PROVE ObjectsOwned
<1>1. ASSUME NEW t \in Tasks
      PROVE  /\ Cardinality(Owners(t)) + (IF Launching(t) THEN 1 ELSE 0)
                  = IF <<"runnable", t>> \in heap THEN 1 ELSE 0
             /\ Cardinality(ThreadOwners(t)) + (IF Launching(t) THEN 1 ELSE 0)
                  = IF <<"thread", t>> \in heap THEN 1 ELSE 0
  <2>1. Cardinality({}) = 0 /\ \A x : Cardinality({x}) = 1
    BY FS_EmptySet, FS_Singleton
  <2>2. ASSUME NEW S
        PROVE  (S = {} => Cardinality(S) = 0) /\ ((\E x : S = {x}) => Cardinality(S) = 1)
    BY <2>1
  <2>3. Cardinality(Owners(t)) = IF ~Launching(t) /\ <<"runnable", t>> \in heap THEN 1 ELSE 0
    BY <2>2, OneOwner
  <2>4. Cardinality(ThreadOwners(t)) = IF ~Launching(t) /\ <<"thread", t>> \in heap THEN 1 ELSE 0
    BY <2>2, OneThreadOwner
  <2>5. Launching(t) => <<"runnable", t>> \in heap /\ <<"thread", t>> \in heap
    BY OneOwner, OneThreadOwner
  <2>6. CASE Launching(t)
    BY <2>3, <2>4, <2>5, <2>6
  <2>7. CASE ~Launching(t)
    BY <2>3, <2>4, <2>7
  <2> QED
    BY <2>6, <2>7
<1>2. ASSUME NEW u \in Users, NEW s \in AllSlots
      PROVE  LET f == future[u][s] IN
             /\ f.future_ # Null => f.runnable_ = f.future_
             /\ f.runnable_thread_ # Null => f.runnable_ = f.runnable_thread_
  BY DEF IInv, OwnInv, OwnAt
<1>3. \A t \in Tasks :
        /\ tpc[t] \in {"lock", "copy", "run", "store"} => Objects(t) \subseteq heap
        /\ <<"param", t>> \in heap => <<"thread", t>> \in heap
  BY OneThreadOwner DEF IInv, AliveInv
<1>4. TypeOK
  BY DEF IInv
<1> QED
  BY <1>1, <1>2, <1>3, <1>4, Zenon DEF ObjectsOwned

(* Every runnable and every thread object has one owner, and no thread     *)
(* runs on a deleted one, however many users, futures and threads there    *)
(* are: AsyncFuture, and the order of the deletions in its Exit.           *)
THEOREM ObjectsAreOwned == Spec => []ObjectsOwned
<1>1. IInv => ObjectsOwned
  BY Owned
<1> QED
  BY Invariance, <1>1, PTL

LEMMA Sees == ASSUME IInv PROVE ThreadSeesItsId
<1>1. ASSUME NEW t \in Tasks, tpc[t] \in {"run", "store", "gone"}
      PROVE  /\ ThisThread[t] # -1 /\ thread_id_[t] \in {-1, ThisThread[t]}
             /\ ThisThread[t] \in Numbers(t)
  BY <1>1 DEF IInv, ThreadInv, Numbers
<1>2. ASSUME ~raced, NEW t \in Tasks, NEW x \in Tasks \ {t},
             ThisThread[t] \in Numbers(t), ThisThread[x] = ThisThread[t]
      PROVE  ThisThread[x] = -1
  BY <1>2 DEF IInv, CounterInv, Numbers
<1> QED
  BY <1>1, <1>2 DEF ThreadSeesItsId, IInv, CounterInv

(* A thread sees its own number, and only its own unless calls met at the  *)
(* static counter: SetupThread, _Run and Kill of the Linux threads.        *)
THEOREM ThreadsSeeTheirIds == Spec => []ThreadSeesItsId
<1>1. IInv => ThreadSeesItsId
  BY Sees
<1> QED
  BY Invariance, <1>1, PTL
=============================================================================
