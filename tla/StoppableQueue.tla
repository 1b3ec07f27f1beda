--------------------------- MODULE StoppableQueue ---------------------------
(***************************************************************************)
(* What a caller may rely on when it uses the blocking queue that carries  *)
(* works to the work threads: a FIFO that hands out a non-empty prefix in  *)
(* one piece, that gives nothing out any more once it is stopped, and that *)
(* tolerates a late PushBack that lost the race with Stop.                 *)
(* ProducerConsumerQueue is the implementation.                            *)
(***************************************************************************)
EXTENDS Naturals, Sequences, FiniteSets

CONSTANTS Values,      (* the pointers that are pushed                     *)
          Consumers,   (* the threads that pop                             *)
          MaxNum       (* the largest batch a caller asks for              *)

VARIABLES items,       (* what was pushed and is not given out             *)
          stopped,     (* Stop has taken effect                            *)
          taken        (* taken[c]: what the running call of c obtained    *)

svars == <<items, stopped, taken>>

Elements(s) == {s[i] : i \in DOMAIN s}

Init == /\ items = <<>>
        /\ stopped = FALSE
        /\ taken = [c \in Consumers |-> <<>>]

(* A pushed value goes behind everything pushed before it. *)
Put(v) == /\ v \notin Elements(items)
          /\ items' = Append(items, v)
          /\ UNCHANGED <<stopped, taken>>

(* One call obtains the k oldest values at once, and only while the queue  *)
(* is not stopped.                                                         *)
Take(c, k) == /\ ~stopped
              /\ taken[c] = <<>>
              /\ k <= Len(items)
              /\ taken' = [taken EXCEPT ![c] = SubSeq(items, 1, k)]
              /\ items' = SubSeq(items, k + 1, Len(items))
              /\ UNCHANGED stopped

(* The call returns what it obtained. *)
Return(c) == /\ taken[c] # <<>>
             /\ taken' = [taken EXCEPT ![c] = <<>>]
             /\ UNCHANGED <<items, stopped>>

Stop == /\ stopped' = TRUE
        /\ UNCHANGED <<items, taken>>

Next == \/ \E v \in Values : Put(v)
        \/ \E c \in Consumers, k \in 1..MaxNum : Take(c, k)
        \/ \E c \in Consumers : Return(c)
        \/ Stop

Spec == Init /\ [][Next]_svars
=============================================================================
