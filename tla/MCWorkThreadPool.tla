-------------------------- MODULE MCWorkThreadPool --------------------------
(* Instances of WorkThreadPool for TLC: w1, w2 and w3 are works. *)
EXTENDS WorkThreadPool

CONSTANTS w1, w2, w3

Once       == [w \in Works |-> 1]
NoChildren == [w \in Works |-> Null]

(* While it runs, w1 commits w3. *)
Nested == [w \in Works |-> IF w = w1 THEN w3 ELSE Null]

(* w1 asks for two runs, the others for one. *)
TwiceFirst == [w \in Works |-> IF w = w1 THEN 2 ELSE 1]
=============================================================================
