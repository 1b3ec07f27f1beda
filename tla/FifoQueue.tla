----------------------------- MODULE FifoQueue -----------------------------
(***************************************************************************)
(* What a caller of ThreadSafeQueue relies on: values come out in the      *)
(* order in which they went in, each of them once, and PopFront finds      *)
(* nothing only if the queue is empty at some moment of the call.          *)
(* ThreadSafeQueue is the implementation.                                  *)
(***************************************************************************)
EXTENDS Naturals, Sequences

CONSTANTS Values, Consumers, Nothing, Pending

VARIABLES items,       (* what was pushed and not popped, oldest first     *)
          answer       (* answer[c]: what the last PopFront of c found, or *)
                       (* Pending while it has not found out               *)

fvars == <<items, answer>>

Init == items = <<>> /\ answer = [c \in Consumers |-> Nothing]

Put(v) == items' = Append(items, v) /\ UNCHANGED answer

Call(c) == /\ answer[c] # Pending
           /\ answer' = [answer EXCEPT ![c] = Pending]
           /\ UNCHANGED items

Take(c) == /\ answer[c] = Pending /\ items # <<>>
           /\ answer' = [answer EXCEPT ![c] = Head(items)]
           /\ items' = Tail(items)

Miss(c) == /\ answer[c] = Pending /\ items = <<>>
           /\ answer' = [answer EXCEPT ![c] = Nothing]
           /\ UNCHANGED items

Destroy == items' = <<>> /\ UNCHANGED answer

Next == \/ \E v \in Values : Put(v)
        \/ \E c \in Consumers : Call(c) \/ Take(c) \/ Miss(c)
        \/ Destroy

Spec == Init /\ [][Next]_fvars
=============================================================================
