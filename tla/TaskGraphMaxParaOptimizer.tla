---------------------- MODULE TaskGraphMaxParaOptimizer ----------------------
(* CalcMaxParaSize: how many elements of a graph can run at the same time, *)
(* as the code computes it, from all paths, the pairs that lie on no       *)
(* common path, and a search for the largest clique among them.  Elements  *)
(* are numbered in the order of the manager's set; depend[e] are the       *)
(* elements e depends on.                                                  *)
EXTENDS Integers, Sequences, FiniteSets, SequencesExt, FiniteSetsExt

Successors(depend, e) == {s \in DOMAIN depend : e \in depend[s]}

(* Collect follows run_before_ from every element without a dependence;    *)
(* it does not return when it meets a cycle.                               *)
Paths(depend) ==
  LET collect[e \in DOMAIN depend] ==
        LET next == Successors(depend, e) IN
        IF next = {} THEN {<<e>>}
        ELSE UNION {{<<e>> \o p : p \in collect[s]} : s \in next}
  IN  UNION {collect[e] : e \in {f \in DOMAIN depend : depend[f] = {}}}

(* BuildReverseGraph: the pairs on no common path.                         *)
ReverseGraph(depend) ==
  LET joined == UNION {{x \in ToSet(p) \X ToSet(p) : x[1] # x[2]} : p \in Paths(depend)}
  IN  ((DOMAIN depend) \X (DOMAIN depend)) \ joined

\* mutant: the search gives up one element too early
CliqueOrGiveUp(graph, size) ==
  LET backtrack[i \in 1..(size + 1), clique \in SUBSET (1..size), best \in 0..size] ==
        IF i > size THEN Max({Cardinality(clique), best})
        ELSE IF Cardinality(clique) + size - i <= best THEN best
        ELSE backtrack[i + 1, clique,
               IF \A j \in clique : <<j, i>> \in graph
               THEN backtrack[i + 1, clique \cup {i}, best] ELSE best]
  IN  backtrack[1, {}, 0]

(* backtrack from the element i on; best is max_clique_size, which it      *)
(* leaves alone when what is left cannot be larger.                        *)
CalcMaxCliqueSize(graph, size) ==
  LET backtrack[i \in 1..(size + 1), clique \in SUBSET (1..size), best \in 0..size] ==
        IF i > size THEN Max({Cardinality(clique), best})
        ELSE IF Cardinality(clique) + size - i + 1 <= best THEN best
        ELSE backtrack[i + 1, clique,
               IF \A j \in clique : <<j, i>> \in graph
               THEN backtrack[i + 1, clique \cup {i}, best] ELSE best]
  IN  backtrack[1, {}, 0]

GetMaxParaSize(depend) ==
  CalcMaxCliqueSize(ReverseGraph(depend), Cardinality(DOMAIN depend))
-----------------------------------------------------------------------------
(* The reference: the elements e needs, and the largest set of elements    *)
(* none of which needs another.                                            *)
Ancestors(depend) ==
  LET needs[n \in 0..Cardinality(DOMAIN depend)] ==
        IF n = 0 THEN depend
        ELSE [e \in DOMAIN depend |->
                needs[n - 1][e] \cup UNION {needs[n - 1][d] : d \in needs[n - 1][e]}]
  IN  needs[Cardinality(DOMAIN depend)]

(* The elements that are on a cycle or need one that is.                   *)
Stuck(depend) ==
  UNION {S \in SUBSET DOMAIN depend : \A e \in S : depend[e] \cap S # {}}

Acyclic(depend) == Stuck(depend) = {}

Width(depend) ==
  LET before == Ancestors(depend) IN
  Max({Cardinality(S) : S \in {T \in SUBSET DOMAIN depend :
                                 \A e \in T : T \cap before[e] = {}}})
=============================================================================
