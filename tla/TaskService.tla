---------------------------- MODULE TaskService ----------------------------
(* What a pool of threads promises about the tasks committed to it: each   *)
(* is run at most once, by whoever is free, until the pool is closed; a    *)
(* closed pool runs nothing.                                               *)
CONSTANT Tasks
VARIABLES stage, open

Init == stage = [w \in Tasks |-> "new"] /\ open = TRUE

Step(w, from, to) == stage[w] = from /\ stage' = [stage EXCEPT ![w] = to]

Commit(w) == open /\ Step(w, "new", "committed") /\ UNCHANGED open
Begin(w)  == open /\ Step(w, "committed", "running") /\ UNCHANGED open
End(w)    == open /\ Step(w, "running", "done") /\ UNCHANGED open

Close ==
  /\ open /\ \A w \in Tasks : stage[w] # "running"
  /\ open' = FALSE /\ UNCHANGED stage

Next == Close \/ \E w \in Tasks : Commit(w) \/ Begin(w) \/ End(w)

Spec == Init /\ [][Next]_<<stage, open>>
=============================================================================
