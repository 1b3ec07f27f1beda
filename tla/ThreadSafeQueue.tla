-------------------------- MODULE ThreadSafeQueue --------------------------
(***************************************************************************)
(* Container/ThreadSafeQueue.h: a linked list with a dummy node in front,  *)
(* a lock for each end.  PushBack writes next_ of the last node under      *)
(* tail_lock_ while PopFront reads next_ of the first one under            *)
(* head_lock_; in an empty queue that is the same node.  A step is what    *)
(* happens between two accesses to what the other end may touch.           *)
(***************************************************************************)
EXTENDS Naturals, Sequences

CONSTANTS Producers, Consumers,
          Nodes,       (* the addresses new can return                     *)
          Values, NoNode, NoThread, Nothing, Pending

Threads == Producers \cup Consumers

ASSUME QueueAssumption ==
  /\ Producers \cap Consumers = {} /\ Threads # {}
  /\ NoThread \notin Threads /\ NoNode \notin Nodes /\ Nodes # {}
  /\ Nothing \notin Values /\ Pending \notin Values /\ Nothing # Pending

VARIABLES
  head_, tail_,
  next_, data_,      (* the fields of each node                            *)
  heap,              (* the nodes that are allocated                       *)
  head_lock_, tail_lock_,   (* the owners of the locks                     *)
  pc,                (* where the call of each thread is                   *)
  temp,              (* temp[t]: the local variable of that name           *)
  result,            (* result[c]: what the last PopFront of c returned    *)
  chain              (* history: the nodes from head_ on; no step reads it *)

nodeVars == <<next_, data_, heap>>
vars == <<head_, tail_, nodeVars, head_lock_, tail_lock_, pc, temp, result, chain>>

At(t, l)    == pc[t] = l
Goto(t, l)  == pc' = [pc EXCEPT ![t] = l]
Contents(s) == {s[i] : i \in DOMAIN s}

Init == \E n \in Nodes :
  /\ head_ = n /\ tail_ = n
  /\ next_ = [m \in Nodes |-> NoNode]
  /\ data_ = [m \in Nodes |-> Nothing]
  /\ heap = {n}
  /\ head_lock_ = NoThread /\ tail_lock_ = NoThread
  /\ pc = [t \in Threads |-> "idle"]
  /\ temp = [t \in Threads |-> n]
  /\ result = [c \in Consumers |-> Nothing]
  /\ chain = <<n>>
-----------------------------------------------------------------------------
(* PushBack *)

(* A new node may have the address of one that was deleted. *)
PushNode(p, v) ==
  /\ At(p, "idle") /\ Goto(p, "lock")
  /\ \E n \in Nodes \ heap :
       /\ heap' = heap \cup {n}
       /\ temp' = [temp EXCEPT ![p] = n]
       /\ data_' = [data_ EXCEPT ![n] = v]
       /\ next_' = [next_ EXCEPT ![n] = NoNode]
  /\ UNCHANGED <<head_, tail_, head_lock_, tail_lock_, result, chain>>

(* Mutant: does not wait for the lock. *)
PushUnlocked(p) ==
  /\ At(p, "lock") /\ Goto(p, "link")
  /\ tail_lock_' = p
  /\ UNCHANGED <<head_, tail_, nodeVars, head_lock_, temp, result, chain>>

PushLock(p) ==
  /\ At(p, "lock") /\ tail_lock_ = NoThread /\ Goto(p, "link")
  /\ tail_lock_' = p
  /\ UNCHANGED <<head_, tail_, nodeVars, head_lock_, temp, result, chain>>

PushLink(p) ==
  /\ At(p, "link") /\ Goto(p, "tail")
  /\ next_' = [next_ EXCEPT ![tail_] = temp[p]]
  /\ chain' = Append(chain, temp[p])
  /\ UNCHANGED <<head_, tail_, data_, heap, head_lock_, tail_lock_, temp, result>>

(* Mutant: forgets to move tail_. *)
PushForgets(p) ==
  /\ At(p, "tail") /\ Goto(p, "idle")
  /\ tail_lock_' = NoThread
  /\ UNCHANGED <<head_, tail_, nodeVars, head_lock_, temp, result, chain>>

PushTail(p) ==
  /\ At(p, "tail") /\ Goto(p, "idle")
  /\ tail_' = temp[p] /\ tail_lock_' = NoThread
  /\ UNCHANGED <<head_, nodeVars, head_lock_, temp, result, chain>>
-----------------------------------------------------------------------------
(* PopFront *)

PopLock(c) ==
  /\ At(c, "idle") /\ head_lock_ = NoThread /\ Goto(c, "read")
  /\ head_lock_' = c
  /\ temp' = [temp EXCEPT ![c] = head_]
  /\ result' = [result EXCEPT ![c] = Pending]
  /\ UNCHANGED <<head_, tail_, nodeVars, tail_lock_, chain>>

PopEmpty(c) ==
  /\ At(c, "read") /\ next_[temp[c]] = NoNode /\ Goto(c, "idle")
  /\ head_lock_' = NoThread
  /\ result' = [result EXCEPT ![c] = Nothing]
  /\ UNCHANGED <<head_, tail_, nodeVars, tail_lock_, temp, chain>>

(* Mutant: returns the data of the node it is going to delete. *)
PopDummy(c) ==
  /\ At(c, "read") /\ next_[temp[c]] # NoNode /\ Goto(c, "delete")
  /\ head_' = next_[temp[c]] /\ head_lock_' = NoThread
  /\ result' = [result EXCEPT ![c] = data_[temp[c]]]
  /\ chain' = Tail(chain)
  /\ UNCHANGED <<tail_, nodeVars, tail_lock_, temp>>

(* new_head = temp->next_; nobody changes a next_ that is not null, nor    *)
(* the data of a linked node, so the rest of the section is one step.      *)
PopTake(c) ==
  /\ At(c, "read") /\ next_[temp[c]] # NoNode /\ Goto(c, "delete")
  /\ head_' = next_[temp[c]] /\ head_lock_' = NoThread
  /\ result' = [result EXCEPT ![c] = data_[next_[temp[c]]]]
  /\ chain' = Tail(chain)
  /\ UNCHANGED <<tail_, nodeVars, tail_lock_, temp>>

PopDelete(c) ==
  /\ At(c, "delete") /\ Goto(c, "idle")
  /\ heap' = heap \ {temp[c]}
  /\ UNCHANGED <<head_, tail_, next_, data_, head_lock_, tail_lock_, temp,
                 result, chain>>
-----------------------------------------------------------------------------
(* The destructor, when no call is running: it follows next_ from head_ to *)
(* the end.  No thread may use the queue after it.                         *)
Visited ==
  {n \in Nodes : \A S \in SUBSET Nodes :
     (/\ head_ \in S
      /\ \A m \in S : next_[m] # NoNode => next_[m] \in S) => n \in S}

Destroy ==
  /\ \A t \in Threads : At(t, "idle")
  /\ pc' = [t \in Threads |-> "gone"]
  /\ heap' = heap \ Visited /\ chain' = <<>>
  /\ head_' = NoNode /\ tail_' = NoNode
  /\ UNCHANGED <<next_, data_, head_lock_, tail_lock_, temp, result>>

Terminated == (\A t \in Threads : At(t, "gone")) /\ UNCHANGED vars

PushStep(p) == PushLock(p) \/ PushLink(p) \/ PushTail(p)
PopStep(c)  == PopLock(c) \/ PopEmpty(c) \/ PopTake(c) \/ PopDelete(c)

Next == \/ \E p \in Producers : PushStep(p) \/ \E v \in Values : PushNode(p, v)
        \/ \E c \in Consumers : PopStep(c)
        \/ Destroy \/ Terminated

Spec == Init /\ [][Next]_vars
-----------------------------------------------------------------------------
(* Every variable has its type. *)
TypeOK ==
  /\ head_ \in Nodes \cup {NoNode} /\ tail_ \in Nodes \cup {NoNode}
  /\ next_ \in [Nodes -> Nodes \cup {NoNode}]
  /\ data_ \in [Nodes -> Values \cup {Nothing}]
  /\ heap \subseteq Nodes
  /\ head_lock_ \in Consumers \cup {NoThread}
  /\ tail_lock_ \in Producers \cup {NoThread}
  /\ pc \in [Threads -> {"idle", "lock", "link", "tail", "read", "delete", "gone"}]
  /\ temp \in [Threads -> Nodes]
  /\ result \in [Consumers -> Values \cup {Nothing, Pending}]
  /\ chain \in Seq(Nodes)

(* Neither end touches a node that the other one has deleted: PushBack     *)
(* writes next_ of tail_, and PopFront reads the first node and its        *)
(* successor, while each holds its own lock only (lines 58, 66-73).        *)
NoUseAfterFree ==
  /\ \A p \in Producers : At(p, "link") => tail_ \in heap
  /\ \A c \in Consumers : At(c, "read") =>
       temp[c] \in heap /\ next_[temp[c]] \in heap \cup {NoNode}

(* The node a call has to itself: not yet linked, or already unlinked.     *)
Private(t) == IF pc[t] \in {"lock", "link", "delete"} THEN {temp[t]} ELSE {}

(* From head_ the next_ pointers lead through different nodes to null.     *)
ChainLinked ==
  /\ chain # <<>> /\ chain[1] = head_
  /\ \A i \in DOMAIN chain :
       /\ next_[chain[i]] = IF i = Len(chain) THEN NoNode ELSE chain[i + 1]
       /\ \A j \in DOMAIN chain : i # j => chain[i] # chain[j]

(* An allocated node is in the list or private to one call, never both.    *)
HeapDivided ==
  /\ heap = Contents(chain) \cup {n \in Nodes : \E t \in Threads : n \in Private(t)}
  /\ \A t \in Threads : /\ Private(t) \cap Contents(chain) = {}
                        /\ \A u \in Threads \ {t} : Private(t) \cap Private(u) = {}

Gone == \A t \in Threads : At(t, "gone")

(* A push behind a pop that empties the queue loses no node and leaves     *)
(* none linked twice, and the destructor frees them all (lines 41-48,      *)
(* 57-60, 65-75).                                                          *)
NodesAccounted == IF Gone THEN heap = {} ELSE ChainLinked /\ HeapDivided

(* The values in the queue: the data of all nodes behind the dummy.        *)
Items == [i \in 1..(Len(chain) - 1) |-> data_[chain[i + 1]]]

Abstract == INSTANCE FifoQueue WITH items <- Items, answer <- result

(* The queue is FIFO although its two ends work at the same time, also on  *)
(* the same node: ThreadSafeQueue implements FifoQueue.                    *)
ImplementsFifo == Abstract!Spec
=============================================================================
