--------------------------- MODULE PageAllocator ---------------------------
(***************************************************************************)
(* What the callers of TCPageCache::AllocateSpan and DeallocateSpan rely   *)
(* on: a caller that asks for n pages gets n consecutive pages that nobody *)
(* else has, or nothing, and keeps exactly these until it gives them back. *)
(* TCPageCache is the implementation.                                      *)
(***************************************************************************)
EXTENDS Integers

CONSTANTS HeapPages,   (* the highest page number                          *)
          MaxRequest   (* how many pages are asked for at most             *)

VARIABLES request,     (* pages asked for by the call in progress, or 0    *)
          held         (* the runs <<first, n>> of pages that callers have *)

pvars == <<request, held>>

PagesOf(run) == run[1]..(run[1] + run[2] - 1)

Init == request = 0 /\ held = {}

Ask(n) == request = 0 /\ request' = n /\ UNCHANGED held

Refuse == request # 0 /\ request' = 0 /\ UNCHANGED held

Grant(first) ==
  /\ request # 0
  /\ PagesOf(<<first, request>>) \subseteq 1..HeapPages
  /\ \A run \in held : PagesOf(run) \cap PagesOf(<<first, request>>) = {}
  /\ held' = held \cup {<<first, request>>}
  /\ request' = 0

GiveBack(run) == /\ request = 0 /\ run \in held
                 /\ held' = held \ {run}
                 /\ UNCHANGED request

Next == \/ \E n \in 1..MaxRequest : Ask(n)
        \/ \E first \in 1..HeapPages : Grant(first)
        \/ \E run \in held : GiveBack(run)
        \/ Refuse

Spec == Init /\ [][Next]_pvars
=============================================================================
