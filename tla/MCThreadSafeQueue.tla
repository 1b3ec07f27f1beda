------------------------- MODULE MCThreadSafeQueue -------------------------
(* Instances of ThreadSafeQueue for TLC. *)
EXTENDS ThreadSafeQueue, TLC

Symmetry == Permutations(Producers) \cup Permutations(Consumers)
              \cup Permutations(Nodes) \cup Permutations(Values)
=============================================================================
