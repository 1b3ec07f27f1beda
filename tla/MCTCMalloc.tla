----------------------------- MODULE MCTCMalloc -----------------------------
(* Instances of TCMalloc for TLC: pages of two units, a class of single    *)
(* units (two objects in a span) and a class of whole pages.               *)
EXTENDS TCMalloc, TCSizeMap, TLC

CONSTANTS t1, t2

Units     == <<1, 2>>
OnePage   == <<1, 1>>
Two       == <<2, 2>>
Symmetry  == Permutations(Threads)

(* The classes the threads work on are those of sizes the program asks for *)
(* (1 before the first), and ClassOf, the smallest class that holds a      *)
(* size, is what the arrays of TCSizeMap give in the real builds, with     *)
(* their exact exceptions (TCSizeMap.cpp, TCSizeClasses.h).                *)
SizeMapServes ==
  /\ \A t \in Threads : bucket_index[t] \in {1} \cup {ClassOf(n) : n \in Asked \cap 1..MaxSize}
  /\ SizesHaveTheirClass
=============================================================================
