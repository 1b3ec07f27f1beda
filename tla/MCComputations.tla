---------------------------- MODULE MCComputations ----------------------------
(* Instances for TLC of what the repository computes from its inputs: the  *)
(* schedules of the static engine, with the runs they are for, and the     *)
(* matrices.                                                               *)
EXTENDS TaskGraphStaticEngine, Matrix

VARIABLE m \* the matrix that is worked on, in the behaviours without a run

Graph(d) == [e \in Elements |-> {x \in Elements : <<x, e>> \in d}]

(* All graphs on the elements, those with a cycle too.                     *)
Edges == {x \in Elements \X Elements : x[1] # x[2]}

Free == [e \in Elements |-> -1]
Plain(depend) == [depend |-> depend, bind |-> Free, fails |-> {}, runs |-> 1, inits |-> 1]

NoRun == [Plain(Graph({})) EXCEPT !.runs = 0]

Graphs ==
  {NoRun} \cup {Plain(Graph(d)) : d \in SUBSET Edges}
  \cup {[Plain(Graph({<<1, 2>>, <<2, 3>>, <<3, 4>>})) EXCEPT !.bind[3] = 0, !.runs = 2],
        [Plain(Graph({<<1, 2>>, <<2, 4>>, <<3, 4>>})) EXCEPT !.fails = {2, 3}, !.runs = 2, !.inits = 2],
        [Plain(Graph({<<1, 2>>, <<3, 4>>})) EXCEPT !.fails = {1}, !.runs = 2, !.inits = 2]}

Row(s) == [i \in 0..(Len(s) - 1) |-> s[i + 1]]

(* All matrices of these rows: singular ones and permutations among them,  *)
(* pivots on and off the diagonal, ties, negative and fractional entries.  *)
Rows3 == {Row(r) : r \in {<<0, 0, 1>>, <<1, 0, 0>>, <<0, -1, 2>>, <<2, 1, 0>>,
                          <<-1, 2, 2>>, <<-2, 1, 3>>, <<1, 1, 0>>, <<3, 0, -1>>}}
Rows4 == {Row(r) : r \in {<<0, 1, 0, 0>>, <<2, 0, 0, 1>>, <<0, 0, 1, -1>>,
                          <<-1, 1, 0, 3>>, <<0, 0, 0, 1>>, <<1, 2, 2, 0>>}}

Matrices == [0..2 -> Rows3] \cup [0..3 -> Rows4]
-----------------------------------------------------------------------------
MCInit == EngineInit /\ m \in IF conf = NoRun THEN Matrices ELSE {<<>>}
MCSpec == MCInit /\ [][EngineNext /\ UNCHANGED m]_<<engineVars, m>>

(* LUPDecomposition, LUPSolve and Inverse of both sizes: the decomposition *)
(* is one after every column, Inverse returns the inverse and divides by   *)
(* zero for singular matrices only (see InvertsRight in Matrix).           *)
InverseIsInverse == conf = NoRun /\ at = "init" => InvertsRight(m)

(* Products, Transpose, Det, DotProduct and CrossProduct agree with their  *)
(* definitions, but for the sign of the 4x4 Det and the order of the       *)
(* operands of CrossProduct (see MultipliesRight in Matrix).               *)
ProductsAgree == conf = NoRun /\ at = "init" => MultipliesRight(m)
=============================================================================
