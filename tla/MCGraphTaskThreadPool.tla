----------------------- MODULE MCGraphTaskThreadPool -----------------------
(* Instances of GraphTaskThreadPool for TLC: w1, w2 and w3 are tasks.      *)
EXTENDS GraphTaskThreadPool, TLC

CONSTANTS w1, w2, w3, s1, s2

Nothing == [kind |-> "nothing"]
Plain(p, s, max, batch) ==
  [primary |-> p, secondary |-> s, max |-> max, steal |-> 2, batch |-> batch,
   index |-> [w \in Tasks |-> kDefaultGraphTaskStrategy], urgent |-> {}, release |-> 0,
   does |-> [w \in Tasks |-> Nothing]]
Commits(w) == [kind |-> "commit", task |-> w]

Pools ==
  {\* three thieves; w1 commits w3 to the thread it is stolen from
   [Plain(2, 0, 2, 0) EXCEPT !.index[w1] = 0, !.index[w3] = 0, !.does[w1] = Commits(w3)],
   [Plain(3, 0, 4, 0) EXCEPT !.index[w1] = 0, !.does[w1] = Commits(w3), !.index[w3] = 0,
                             !.does[w3] = Commits(w2), !.index[w2] = 0],
   \* batches
   [Plain(2, 0, 3, 2) EXCEPT !.index[w2] = 0, !.does[w1] = Commits(w3)],
   \* secondary threads only, as by default
   [Plain(0, 2, 2, 0) EXCEPT !.does[w1] = Commits(w3), !.index[w2] = kLongTimeTaskStrategy],
   \* a secondary thread made for a priority, one task long
   [Plain(1, 0, 2, 0) EXCEPT !.urgent = {w1}, !.index[w2] = kLongTimeTaskStrategy],
   \* a task creates threads, and the owner releases one
   [Plain(1, 1, 3, 0) EXCEPT !.does[w1] = [kind |-> "create", size |-> 2],
                             !.release = 1, !.index[w3] = kPoolGraphTaskStrategy],
   \* a task of a secondary thread commits to a primary one
   [Plain(1, 1, 2, 0) EXCEPT !.does[w1] = Commits(w3), !.index[w3] = 0]}

ASSUME PoolsFit == \A c \in Pools : CommittedOnce(c)
=============================================================================
