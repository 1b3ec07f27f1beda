---------------------------- MODULE WorkService ----------------------------
(***************************************************************************)
(* What a caller of WorkQueue::CommitWork and CommitTimerWork relies on:   *)
(* a committed work is run by one thread at a time, as many times as it    *)
(* asked for, its future is released by the last run and by no other, and  *)
(* it is given up only when Init of the work fails or the pool is stopped. *)
(* WorkThreadPool is the implementation.                                   *)
(***************************************************************************)
EXTENDS Integers

CONSTANTS Works,       (* the work objects                                 *)
          Times,       (* Times[w]: runs asked for; below 0 means forever  *)
          InitFails    (* the works whose Init reports an error            *)

VARIABLES stopped,     (* WorkQueue::Exit was called                       *)
          status,      (* what became of each work                         *)
          remaining    (* runs still to come                               *)

wvars == <<stopped, status, remaining>>

Init == /\ stopped = FALSE
        /\ status = [w \in Works |-> "fresh"]
        /\ remaining = Times

Move(w, from, to) == status[w] = from /\ status' = [status EXCEPT ![w] = to]

Commit(w) == Move(w, "fresh", "pending") /\ UNCHANGED <<stopped, remaining>>

Start(w) == /\ Move(w, "pending", "running") /\ w \notin InitFails
            /\ UNCHANGED <<stopped, remaining>>

(* The last run releases the future. *)
FinishLast(w) == /\ remaining[w] = 1 /\ Move(w, "running", "done")
                 /\ remaining' = [remaining EXCEPT ![w] = 0]
                 /\ UNCHANGED stopped

FinishOne(w) == /\ remaining[w] \notin {0, 1} /\ Move(w, "running", "pending")
                /\ remaining' = [remaining EXCEPT ![w] = IF @ > 0 THEN @ - 1 ELSE @]
                /\ UNCHANGED stopped

(* A work that asked for no run at all is run once and has no result. *)
FinishNone(w) == /\ remaining[w] = 0 /\ Move(w, "running", "dropped")
                 /\ UNCHANGED <<stopped, remaining>>

Reject(w) == /\ w \in InitFails
             /\ Move(w, "pending", "dropped")
             /\ UNCHANGED <<stopped, remaining>>

(* Once stopped, a work whose turn has not come may be given up. *)
DropAll(S) == /\ stopped
              /\ \A w \in S : status[w] = "pending"
              /\ status' = [w \in Works |-> IF w \in S THEN "dropped" ELSE status[w]]
              /\ UNCHANGED <<stopped, remaining>>

Exit == stopped' = TRUE /\ UNCHANGED <<status, remaining>>

Next == \/ \E w \in Works : \/ Commit(w) \/ Start(w) \/ FinishLast(w)
                            \/ FinishOne(w) \/ FinishNone(w) \/ Reject(w)
        \/ \E S \in SUBSET Works : DropAll(S)
        \/ Exit

Spec == Init /\ [][Next]_wvars
=============================================================================
