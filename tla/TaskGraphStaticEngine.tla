------------------------ MODULE TaskGraphStaticEngine ------------------------
(* The static engine of the task graph.  Setup simulates a run: it cuts    *)
(* the graph into levels of clusters, chains of elements that one thread   *)
(* runs in a row.  Run commits a level to the thread pool, cluster by      *)
(* cluster, waits for its futures in the same order, and goes on to the    *)
(* next one.  The pipeline calls Init, Run and Destroy around it as in     *)
(* TaskGraph.tla; elements neither loop nor yield nor time out here.       *)
EXTENDS TaskGraphMaxParaOptimizer

CONSTANTS
  Size,     \* how many elements are registered
  Configs,  \* graphs with bindings, elements that may fail, runs
  DependModulus \* left_depend_ is a size_t: it wraps here

Elements == 1..Size \* in the order of the manager's set

ASSUME EngineAssumption ==
  /\ Size \in Nat \ {0} /\ DependModulus \in Nat /\ DependModulus > Size
  /\ \A c \in Configs :
       /\ c.depend \in [Elements -> SUBSET Elements]
       /\ \A e \in Elements : e \notin c.depend[e] \* AddDependTaskGraphElements
       /\ c.bind \in [Elements -> Int] /\ c.fails \subseteq Elements
       /\ c.runs \in Nat /\ c.inits \in Nat \ {0}

VARIABLES
  conf,    \* the configuration
  at,      \* where the pipeline thread is
  level, place, \* the level of the run and the cluster of it that is next
  run, runs, inits, \* the run; how many runs and Inits are left
  verdict, \* how the last run ended
  sched,   \* para_cluster_arrs_, a level that is being made at its end
  para,    \* what CalcMaxParaSize has answered
  counted, \* run_element_size_
  done, left, \* done_ and left_depend_ of each element
  jobs,    \* the committed clusters, by run, level and place
  ran,     \* history: how often each element ended in this run
  failed   \* history: a run has been left because of an error

runVars    == <<level, place, run, runs, inits, verdict>>
engineVars == <<conf, at, runVars, sched, para, counted, done, left, jobs, ran, failed>>

RunBefore(e) == Successors(conf.depend, e)

EngineInit ==
  /\ conf \in Configs
  /\ at = "init" /\ level = 0 /\ place = 0 /\ verdict = "none"
  /\ run = 0 /\ runs = conf.runs /\ inits = conf.inits
  /\ sched = <<>> /\ para = 0 /\ counted = 0 /\ jobs = <<>>
  /\ done = [e \in Elements |-> FALSE]
  /\ left = [e \in Elements |-> Cardinality(conf.depend[e])]
  /\ ran = [e \in Elements |-> 0] /\ failed = FALSE
-----------------------------------------------------------------------------
(* BeforeRun and AfterRun of a cluster, on the fields of its elements.     *)
ResetDone(els)   == [e \in Elements |-> e \notin els /\ done[e]]
ResetLeft(els)   == [e \in Elements |-> IF e \in els THEN Cardinality(conf.depend[e]) ELSE left[e]]
SettleDone(els)  == [e \in Elements |-> e \in els \/ done[e]]
Settle(old, els) == [e \in Elements |->
  (old[e] + DependModulus - Cardinality(els \cap conf.depend[e])) % DependModulus]

\* mutant: one dependence may be missing
IsRunnableEarly(e) == left[e] <= 1 /\ ~done[e]

IsRunnable(e) == left[e] = 0 /\ ~done[e]

\* mutant: an element with several dependences follows one of them
IsLinkableMany(e) ==
  \E d \in conf.depend[e] : RunBefore(d) = {e} /\ conf.bind[d] = conf.bind[e]

(* Mark: the only successor of its only predecessor, on the same thread.   *)
IsLinkable(e) ==
  \E d \in conf.depend[e] : /\ conf.depend[e] = {d} /\ RunBefore(d) = {e}
                            /\ conf.bind[d] = conf.bind[e]
-----------------------------------------------------------------------------
(* Setup, by the pipeline thread: Mark and Analyse.  A level is made, its  *)
(* clusters one after the other, then each of them runs without its        *)
(* elements, and the elements behind them that can run begin the next one. *)

Top      == Len(sched)
Clusters == sched[Top] \* of the level that is being made or mocked

(* InitEngine; the program asks for the parallel size of a graph that has  *)
(* no cycle.                                                               *)
MainInit ==
  /\ at = "init" /\ at' = "first"
  /\ sched' = << <<>> >> /\ counted' = 0 /\ runs' = conf.runs
  /\ para' = IF Acyclic(conf.depend) THEN GetMaxParaSize(conf.depend) ELSE 0
  /\ UNCHANGED <<conf, level, place, run, inits, verdict, done, left, jobs, ran, failed>>

(* What may begin a cluster, by where the loops meet it: all elements for  *)
(* the first level, those behind the level before for another.             *)
Reached ==
  IF at = "first" THEN {<<0, 0, e>> : e \in {x \in Elements : ~IsLinkable(x)}}
  ELSE LET last == sched[Top - 1] IN
       UNION {UNION {{<<c, k, e>> : e \in RunBefore(last[c][k])}
                       : k \in DOMAIN last[c]} : c \in DOMAIN last}

Heads == {p \in Reached : IsRunnable(p[3]) /\ \A c \in ToSet(Clusters) : p[3] \notin ToSet(c)}

(* The order of the loops.  The manager's set is sorted by level first, so *)
(* it tells nothing of the order of run_before_, a set of addresses.       *)
Earlier(p, q) ==
  \/ p[1] < q[1]
  \/ p[1] = q[1] /\ p[2] < q[2]
  \/ at = "first" /\ p[3] < q[3]

(* The element that goes on with the newest cluster.                       *)
Behind(e) == {s \in RunBefore(e) : RunBefore(e) = {s} /\ IsLinkable(s)}
Links     == IF Clusters = <<>> THEN {} ELSE Behind(Last(Last(Clusters)))

SetupLink ==
  /\ at \in {"first", "next"}
  /\ \E s \in Links : sched' = [sched EXCEPT ![Top][Len(Clusters)] = Append(@, s)]
  /\ UNCHANGED <<conf, at, runVars, para, counted, done, left, jobs, ran, failed>>

SetupHead ==
  /\ at \in {"first", "next"} /\ Links = {}
  /\ \E p \in Heads : /\ \A q \in Heads : ~Earlier(q, p)
                      /\ sched' = [sched EXCEPT ![Top] = Append(@, <<p[3]>>)]
  /\ UNCHANGED <<conf, at, runVars, para, counted, done, left, jobs, ran, failed>>

(* A level without clusters is the end of Setup, and so is a count that is *)
(* too large.  The code keeps the first level even if it is empty: a run   *)
(* finds nothing to do in it.                                              *)
SetupBuilt ==
  /\ at \in {"first", "next"} /\ Links = {} /\ Heads = {}
  /\ IF Clusters = <<>>
     THEN at' = "test" /\ sched' = Front(sched) /\ UNCHANGED place
     ELSE /\ at' = IF counted <= Size THEN "mock" ELSE "test"
          /\ place' = 1 /\ UNCHANGED sched
  /\ UNCHANGED <<conf, level, run, runs, inits, verdict, para, counted, done, left,
                 jobs, ran, failed>>

(* Process without a run, for each cluster; the count is one of clusters.  *)
SetupMock ==
  /\ at = "mock"
  /\ LET els == ToSet(Clusters[place]) IN
       done' = SettleDone(els) /\ left' = Settle(ResetLeft(els), els)
  /\ IF place < Len(Clusters) THEN place' = place + 1 /\ UNCHANGED <<at, sched, counted>>
     ELSE /\ at' = "next" /\ sched' = Append(sched, <<>>)
          /\ counted' = counted + Len(Clusters) /\ UNCHANGED place
  /\ UNCHANGED <<conf, level, run, runs, inits, verdict, para, jobs, ran, failed>>
-----------------------------------------------------------------------------
(* The runs of the pipeline thread.                                        *)

\* mutant: run_element_size_ is not reset
MainRunOn ==
  /\ at = "test" /\ runs > 0
  /\ at' = "commit" /\ level' = 1 /\ place' = 1 /\ run' = run + 1
  /\ runs' = runs - 1 /\ verdict' = "none"
  /\ ran' = [e \in Elements |-> 0]
  /\ UNCHANGED <<conf, inits, sched, para, counted, done, left, jobs, failed>>

(* Process: a run sets its element count to zero.                          *)
MainRun ==
  /\ at = "test" /\ runs > 0
  /\ at' = "commit" /\ level' = 1 /\ place' = 1 /\ run' = run + 1
  /\ runs' = runs - 1 /\ verdict' = "none"
  /\ counted' = 0 /\ ran' = [e \in Elements |-> 0]
  /\ UNCHANGED <<conf, inits, sched, para, done, left, jobs, failed>>

Id(i) == <<run, level, i>>

(* To the next cluster of the level, or on.                                *)
Advance(next, up) ==
  IF place < Len(sched[level]) THEN place' = place + 1 /\ UNCHANGED <<at, level>>
  ELSE place' = 1 /\ at' = next /\ level' = level + up

MainCommit ==
  /\ at = "commit" /\ level <= Len(sched)
  /\ LET els == sched[level][place] IN
       /\ jobs' = [x \in DOMAIN jobs \cup {Id(place)} |->
            IF x = Id(place) THEN [els |-> els, pos |-> 0, at |-> "queued"] ELSE jobs[x]]
       /\ counted' = counted + Len(els)
  /\ Advance("get", 0)
  /\ UNCHANGED <<conf, run, runs, inits, verdict, sched, para, done, left, ran, failed>>

(* The futures of a level, in order; after an error the others are dropped *)
(* and their clusters run on.                                              *)
Without(ids) == [x \in DOMAIN jobs \ ids |-> jobs[x]]

MainGet ==
  /\ at = "get" /\ jobs[Id(place)].at = "ok"
  /\ jobs' = Without({Id(place)}) /\ Advance("commit", 1)
  /\ UNCHANGED <<conf, run, runs, inits, verdict, sched, para, counted, done, left, ran, failed>>

Over == {x \in DOMAIN jobs : jobs[x].at \in {"ok", "error"}}

MainGetError ==
  /\ at = "get" /\ jobs[Id(place)].at = "error"
  /\ jobs' = Without(Over) /\ failed' = TRUE /\ at' = "test" /\ verdict' = "error"
  /\ UNCHANGED <<conf, level, place, run, runs, inits, sched, para, counted, done, left, ran>>

(* AfterRunCheck.  Its status does not reach the caller: Run of the        *)
(* pipeline returns the status of Reset, and Process goes on.              *)
AfterRunCheck ==
  counted = Size /\ \A l \in ToSet(sched) : \A c \in ToSet(l) : \A e \in ToSet(c) : done[e]

MainCheck ==
  /\ at = "commit" /\ level > Len(sched)
  /\ at' = "test" /\ verdict' = IF AfterRunCheck THEN "ok" ELSE "check failed"
  /\ UNCHANGED <<conf, level, place, run, runs, inits, sched, para, counted, done, left,
                 jobs, ran, failed>>

(* Destroy deletes the engine with its clusters; then the pool's threads   *)
(* are joined, and what is still queued is dropped.                        *)
MainDestroy ==
  /\ at = "test" /\ runs = 0
  /\ at' = "join" /\ sched' = <<>>
  /\ UNCHANGED <<conf, runVars, para, counted, done, left, jobs, ran, failed>>

MainJoin ==
  /\ at = "join" /\ \A x \in DOMAIN jobs : jobs[x].at # "run"
  /\ jobs' = <<>> /\ inits' = inits - 1 /\ at' = IF inits > 1 THEN "init" ELSE "end"
  /\ UNCHANGED <<conf, level, place, run, runs, verdict, sched, para, counted, done, left,
                 ran, failed>>
-----------------------------------------------------------------------------
(* A thread of the pool: Process of a committed cluster.                   *)

JobBegin(x) ==
  /\ jobs[x].at = "queued"
  /\ jobs' = [jobs EXCEPT ![x].at = "run", ![x].pos = 1]
  /\ done' = ResetDone(ToSet(jobs[x].els)) /\ left' = ResetLeft(ToSet(jobs[x].els))
  /\ UNCHANGED <<conf, at, runVars, sched, para, counted, ran, failed>>

(* A result nobody waits for any more is gone with its promise.            *)
Awaited(x) == at \in {"commit", "get"} /\ x[1] = run /\ x[2] = level

Return(x, status) ==
  jobs' = IF Awaited(x) THEN [jobs EXCEPT ![x].at = status] ELSE Without({x})

Running(x) == jobs[x].els[jobs[x].pos]

(* One element after the other; after the last one AfterRun.               *)
JobElement(x) ==
  /\ jobs[x].at = "run"
  /\ ran' = IF x[1] = run THEN [ran EXCEPT ![Running(x)] = @ + 1] ELSE ran
  /\ IF jobs[x].pos < Len(jobs[x].els)
     THEN jobs' = [jobs EXCEPT ![x].pos = @ + 1] /\ UNCHANGED <<done, left>>
     ELSE LET els == ToSet(jobs[x].els) IN
          Return(x, "ok") /\ done' = SettleDone(els) /\ left' = Settle(left, els)
  /\ UNCHANGED <<conf, at, runVars, sched, para, counted, failed>>

JobError(x) ==
  /\ jobs[x].at = "run" /\ Running(x) \in conf.fails /\ Return(x, "error")
  /\ UNCHANGED <<conf, at, runVars, sched, para, counted, done, left, ran, failed>>
-----------------------------------------------------------------------------
SetupStep == SetupHead \/ SetupLink \/ SetupBuilt \/ SetupMock

MainStep ==
  \/ MainInit \/ SetupStep \/ MainRun \/ MainCommit \/ MainGet \/ MainGetError
  \/ MainCheck \/ MainDestroy \/ MainJoin

JobStep == \E x \in DOMAIN jobs : JobBegin(x) \/ JobElement(x) \/ JobError(x)

EngineNext == MainStep \/ JobStep

EngineSpec == EngineInit /\ [][EngineNext]_engineVars
-----------------------------------------------------------------------------
(* A graph with a cycle is judged after its first Init only: the elements  *)
(* the cycle holds up keep what is left of their counts, and a later Init  *)
(* starts from that.                                                       *)
First   == inits = conf.inits
IsSound == ~failed /\ (First \/ Acyclic(conf.depend))

Busy == {x \in DOMAIN jobs : jobs[x].at = "run"}

(* The elements of a schedule by level, cluster and place.                 *)
Slots(s)     == UNION {UNION {{<<l, c, k>> : k \in DOMAIN s[l][c]} : c \in DOMAIN s[l]}
                         : l \in DOMAIN s}
In(s, p)     == s[p[1]][p[2]][p[3]]
Levels(s, n) == {In(s, p) : p \in {q \in Slots(s) : q[1] \in n}}

(* After the first Init the schedule holds the elements that need none of  *)
(* a cycle, each once; a cluster is a chain, of which only the first       *)
(* element may depend on others; and no level could start earlier.         *)
ScheduleIsEarliest ==
  First /\ at \in {"test", "commit", "get"} =>
    /\ {In(sched, p) : p \in Slots(sched)} = Elements \ Stuck(conf.depend)
    /\ \A p, q \in Slots(sched) : In(sched, p) = In(sched, q) => p = q
    /\ \A p \in Slots(sched) : LET needs == conf.depend[In(sched, p)] IN
         /\ p[3] > 1 => needs = {In(sched, <<p[1], p[2], p[3] - 1>>)}
         /\ p[3] = 1 => needs \subseteq Levels(sched, 1..(p[1] - 1))
         /\ p[3] = 1 /\ p[1] > 1 => needs \cap Levels(sched, {p[1] - 1}) # {}

(* While no run has failed, an element runs when all it depends on has run *)
(* in this run, and never two times at once.                               *)
DependenciesFirst ==
  IsSound => \A x \in Busy :
    /\ \A d \in conf.depend[Running(x)] : ran[d] = 1
    /\ ran[Running(x)] = 0
    /\ \A y \in Busy \ {x} : Running(x) # Running(y)

(* A run whose check passes has run every element once and left nothing    *)
(* running; after the first Init only a cycle or an error prevents that.   *)
RunsAreComplete ==
  IsSound /\ at \in {"test", "join"} /\ verdict # "none" =>
    /\ DOMAIN jobs = {}
    /\ verdict = "ok" => \A e \in Elements : ran[e] = 1
    /\ First /\ Acyclic(conf.depend) => verdict = "ok"

(* GetMaxParaSize is the width of the graph, and no more elements than     *)
(* that run at the same time.                                              *)
MaxParaIsWidth ==
  Acyclic(conf.depend) /\ at # "init" =>
    /\ para = Width(conf.depend)
    /\ ~failed => Cardinality(Busy) <= para
=============================================================================
