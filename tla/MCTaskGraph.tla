---------------------------- MODULE MCTaskGraph ----------------------------
(* Instances of TaskGraph for TLC: pipelines of a, b, c and d.             *)
EXTENDS TaskGraph, TLC

CONSTANTS a, b, c, d

(* a before b and c, both before d: two successors at once, a join. *)
Diamond == (a :> {}) @@ (b :> {a}) @@ (c :> {a}) @@ (d :> {b, c})
(* Two fronts, two ends, one of them behind both. *)
Wide    == (a :> {}) @@ (b :> {}) @@ (c :> {a, b}) @@ (d :> {b})
Chain   == (a :> {}) @@ (b :> {a}) @@ (c :> {b}) @@ (d :> {c})

Each(x) == [e \in Elements |-> x]
Plain(g, ts, n) ==
  [depend |-> g, loop |-> Each(1), holds |-> Each(0), timeout |-> Each("sync"),
   fence |-> Each({}), bound |-> {}, hidden |-> {}, fails |-> {}, threads |-> ts, runs |-> n, calls |-> 1]

Pipelines ==
  {[Plain(Diamond, Workers, 1) EXCEPT !.fails = {b}, !.bound = {d}],
   [Plain(Diamond, Workers, 2) EXCEPT !.calls = 0],
   [Plain(Wide, Workers, 2) EXCEPT !.timeout[c] = "kHoldByPipeline", !.calls = 0],
   [Plain(Wide, Workers, 1) EXCEPT !.loop[b] = 2, !.timeout[c] = "kNoHold",
                                !.holds[c] = 1, !.hidden = {d}, !.calls = 1],
   [Plain(Wide, Workers, 1) EXCEPT !.timeout[b] = "kAsError", !.calls = 0],
   [Plain(Chain, Workers, 1) EXCEPT !.timeout[b] = "kNoHold", !.fence[c] = {b},
                                    !.bound = {a}, !.calls = 0],
   [Plain(Chain, {}, 2) EXCEPT !.holds[b] = 1, !.loop[b] = 2, !.calls = 2]}

(* They are built as the theorems ask for.                                 *)
ASSUME PipelinesFit == \A p \in Pipelines : FencesInPlace(p)
=============================================================================
