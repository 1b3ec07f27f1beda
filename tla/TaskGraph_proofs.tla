-------------------------- MODULE TaskGraph_proofs --------------------------
(***************************************************************************)
(* Theorems about TaskGraph for any graph, any pipelines and any number of *)
(* threads: an element is started once in a run, after all it depends on,  *)
(* and when a run ends well, all elements have been run.                   *)
(***************************************************************************)
EXTENDS TaskGraph, FiniteSetTheorems, WellFoundedInduction, TLAPS

MainPlaces == {"init", "test", "setup", "setting", "before", "fronts", "wait", "blocked",
               "verdict", "reset", "thrown", "destroy", "exit", "exiting", "join", "end"}
Results  == {"none", "pending", "ok", "error", "crash"}
Verdicts == {"none", "error", "ok", "check failed"}

FrameSet == [e : Elements, at : Places, i : Nat, held : Nat, ok : BOOLEAN,
             todo : SUBSET Elements, ready : SUBSET Elements]
TaskSet  == {Exec(e) : e \in Elements} \cup {Async(e, n) : e \in Elements, n \in Nat}

(* All types, those of the records too.                                    *)
MainType ==
  main \in [at : MainPlaces, todo : SUBSET Elements, left : 0..conf.runs, ok : BOOLEAN,
            reset : BOOLEAN, verdict : Verdicts]
StackType == stack \in [Threads -> Seq(FrameSet)] /\ tasks \subseteq TaskSet
ElementType ==
  /\ cur \in [Elements -> States] /\ repo \in States
  /\ done \in [Elements -> BOOLEAN] /\ left \in [Elements -> 0..(DependModulus - 1)]
  /\ triggered \in [Elements -> BOOLEAN] /\ fut \in [Elements -> [n : Nat, st : Results]]
EngineType ==
  /\ engine \in [alive : BOOLEAN, finished : Nat, runs : Nat, ok : BOOLEAN]
  /\ control \in [state : States, todo : SUBSET Elements, calls : Nat]
  /\ open \in BOOLEAN /\ ran \in [Elements -> Nat]
  /\ failed \in BOOLEAN /\ stopped \in BOOLEAN
TypeInv == conf \in Configs /\ MainType /\ StackType /\ ElementType /\ EngineType

(* A frame below another has nothing left to do, and is of no end of the   *)
(* graph: it has started a successor.  Only a frame in AfterElementRun has *)
(* successors to count down or to start.                                   *)
Low(f) == Leaving(f) /\ f.e \notin Ends
FrameInv(f) ==
  /\ f.at # "succ" => f.ready = {}
  /\ f.at = "succ" => /\ f.todo \subseteq RunBefore(f.e) /\ f.ready \subseteq RunBefore(f.e)
                      /\ f.todo \cap f.ready = {}
Below(s) == \A i \in DOMAIN s : Low(s[i])
ThreadInv(t) == stack[t] # <<>> => FrameInv(Top(t)) /\ Below(Tail(stack[t]))
MainInv == stack[Main] # <<>> => main.at = "fronts" /\ main.todo = {}
StackInv == (\A t \in Threads : ThreadInv(t)) /\ MainInv

(* Where an element is on its way through a run: among the fronts still to *)
(* be started, in the pool, in a thread (an end until it was counted), or  *)
(* among the successors a thread is going to start.                        *)
Busy(t) == stack[t] # <<>> /\ Top(t).at # "async" /\ (~Leaving(Top(t)) \/ Top(t).e \in Ends)
InRun(t)   == IF Busy(t) THEN {Top(t).e} ELSE {}
InReady(t) == IF stack[t] # <<>> THEN Top(t).ready ELSE {}
InTasks    == {e \in Elements : Exec(e) \in tasks}
InFronts   == IF main.at = "fronts" THEN main.todo ELSE {}
Containers == {<<k, t>> : k \in {"run", "ready"}, t \in Threads}
              \cup {<<"tasks", Main>>, <<"fronts", Main>>}
Contents(c) == IF c[1] = "run" THEN InRun(c[2])
               ELSE IF c[1] = "ready" THEN InReady(c[2])
               ELSE IF c[1] = "tasks" THEN InTasks ELSE InFronts
Underway(e) == \E c \in Containers : e \in Contents(c)
Disjoint == \A c, d \in Containers : \A e \in Contents(c) : e \in Contents(d) => c = d

(* Whether p has counted s down, and who has still to do so.               *)
Owes(t, p, s)  == stack[t] # <<>> /\ Top(t).at = "succ" /\ Top(t).e = p /\ s \in Top(t).todo
Counted(p, s)  == done[p] /\ \A t \in Threads : ~Owes(t, p, s)
Missing(s)     == {p \in conf.depend[s] : ~Counted(p, s)}
Passed         == {e \in Ends : done[e] /\ \A t \in Threads : e \notin InRun(t)}

(* A run: an element that is on its way or done was counted down by all it *)
(* depends on, left_depend_ of any other is the number of those missing,   *)
(* done_ says who is through, and the engine counts both.                  *)
Running == main.at \in {"fronts", "wait", "blocked", "verdict"}
RunInv ==
  /\ \A e \in Elements : done[e] \/ Underway(e) => Missing(e) = {}
  /\ \A e \in Elements : Missing(e) # {} => left[e] = Cardinality(Missing(e))
  /\ \A c \in Containers : \A e \in Contents(c) :
       done[e] <=> c[1] = "run" /\ Top(c[2]).at = "succ"
  /\ engine.runs = Cardinality({e \in Elements : done[e]})
  /\ engine.finished = Cardinality(Passed)
  /\ main.at = "verdict" => RunIsOver

(* Between two runs nothing is on its way.                                 *)
RestInv ==
  /\ \A c \in Containers : Contents(c) = {}
  /\ Returned /\ main.verdict # "none" /\ engine.ok => AfterRunCheck
  /\ main.at = "init" => main.verdict = "none"

OnceInv == ~failed => Disjoint /\ (Running => RunInv) /\ (~Running => RestInv)

IInv == TypeInv /\ StackInv /\ OnceInv
-----------------------------------------------------------------------------
(* The choice from a set is of the set; and what a configuration is.       *)
LEMMA FirstIn == ASSUME NEW S, S # {} PROVE First(S) \in S
BY DEF First

LEMMA ConfIs == ASSUME TypeInv PROVE IsConfig(conf)
BY GraphAssumption DEF TypeInv

LEMMA GraphIs ==
  ASSUME TypeInv
  PROVE  /\ conf.depend \in [Elements -> SUBSET Elements]
         /\ conf.fence \in [Elements -> SUBSET Elements]
         /\ conf.threads \subseteq Workers
         /\ \A e \in Elements : RunBefore(e) \subseteq Elements
         /\ Fronts \subseteq Elements /\ Ends \subseteq Elements
         /\ \A e \in Elements : DependSizes[e] \in 0..(DependModulus - 1)
         /\ DependSizes \in [Elements -> 0..(DependModulus - 1)]
         /\ Elements # {} /\ IsFiniteSet(Elements)
         /\ DependModulus \in Nat /\ DependModulus > Cardinality(Elements)
         /\ Main \in Threads
<1>1. IsConfig(conf)
  BY ConfIs
<1>2. conf.depend \in [Elements -> SUBSET Elements] /\ conf.fence \in [Elements -> SUBSET Elements]
      /\ conf.threads \subseteq Workers
  BY <1>1 DEF IsConfig
<1>3. ASSUME NEW e \in Elements PROVE DependSizes[e] \in 0..(DependModulus - 1)
  <2>1. conf.depend[e] \subseteq Elements
    BY <1>2
  <2>2. IsFiniteSet(Elements) /\ DependModulus \in Nat /\ DependModulus > Cardinality(Elements)
    BY GraphAssumption
  <2>3. IsFiniteSet(conf.depend[e]) /\ Cardinality(conf.depend[e]) <= Cardinality(Elements)
    BY <2>1, <2>2, FS_Subset
  <2>4. Cardinality(conf.depend[e]) \in Nat /\ Cardinality(Elements) \in Nat
    BY <2>2, <2>3, FS_CardinalityType
  <2>5. DependSizes[e] = Cardinality(conf.depend[e])
    BY DEF DependSizes
  <2> QED BY <2>2, <2>3, <2>4, <2>5
<1>4. DependSizes \in [Elements -> 0..(DependModulus - 1)]
  <2>1. DependSizes = [e \in Elements |-> DependSizes[e]]
    BY DEF DependSizes
  <2> QED BY <2>1, <1>3
<1> QED BY <1>2, <1>3, <1>4, GraphAssumption DEF RunBefore, Fronts, Ends, Threads

-----------------------------------------------------------------------------
(* The calls of a thread: its active frame and what replaces it.           *)
LEMMA SeqFacts ==
  ASSUME NEW S, NEW s \in Seq(S), NEW g \in S
  PROVE  /\ <<g>> \o s \in Seq(S) /\ <<g>> \o s # <<>> /\ Head(<<g>> \o s) = g
         /\ Tail(<<g>> \o s) = s /\ Len(<<g>> \o s) = Len(s) + 1
         /\ s # <<>> => Head(s) \in S /\ Tail(s) \in Seq(S) /\ Len(Tail(s)) = Len(s) - 1
<1>1. <<g>> \in Seq(S)
  OBVIOUS
<1>2. <<g>> \o s \in Seq(S) /\ Len(<<g>> \o s) = Len(s) + 1
  BY <1>1
<1>3. <<g>> \o s # <<>> /\ Head(<<g>> \o s) = g
  BY <1>1, <1>2
<1>4. Tail(<<g>> \o s) = s
  BY <1>1, <1>2
<1> QED BY <1>2, <1>3, <1>4

LEMMA TopIs ==
  ASSUME TypeInv, NEW t \in Threads, stack[t] # <<>>
  PROVE  /\ stack[t] \in Seq(FrameSet) /\ Top(t) \in FrameSet
         /\ Tail(stack[t]) \in Seq(FrameSet)
<1>1. stack[t] \in Seq(FrameSet)
  BY DEF TypeInv, StackType
<1> QED BY <1>1 DEF Top

(* A step that replaces the calls of one thread.                           *)
LEMMA Replaced ==
  ASSUME TypeInv, NEW t \in Threads, NEW s \in Seq(FrameSet), stack' = [stack EXCEPT ![t] = s]
  PROVE  /\ stack' \in [Threads -> Seq(FrameSet)] /\ stack'[t] = s
         /\ \A u \in Threads : u # t => stack'[u] = stack[u]
BY DEF TypeInv, StackType

LEMMA Went ==
  ASSUME TypeInv, NEW t \in Threads, stack[t] # <<>>, NEW g \in FrameSet, Goto(t, g)
  PROVE  /\ stack' \in [Threads -> Seq(FrameSet)]
         /\ stack'[t] # <<>> /\ Head(stack'[t]) = g /\ Tail(stack'[t]) = Tail(stack[t])
         /\ \A u \in Threads : u # t => stack'[u] = stack[u]
<1>1. Tail(stack[t]) \in Seq(FrameSet)
  BY TopIs
<1>2. <<g>> \o Tail(stack[t]) \in Seq(FrameSet) /\ <<g>> \o Tail(stack[t]) # <<>>
      /\ Head(<<g>> \o Tail(stack[t])) = g /\ Tail(<<g>> \o Tail(stack[t])) = Tail(stack[t])
  BY <1>1, SeqFacts
<1>3. stack' = [stack EXCEPT ![t] = <<g>> \o Tail(stack[t])]
  BY DEF Goto
<1>4. /\ stack' \in [Threads -> Seq(FrameSet)] /\ stack'[t] = <<g>> \o Tail(stack[t])
      /\ \A u \in Threads : u # t => stack'[u] = stack[u]
  BY <1>2, <1>3, Replaced
<1> QED BY <1>2, <1>4
-----------------------------------------------------------------------------
(* Types.                                                                  *)
LEMMA InitTypes == ASSUME Init PROVE TypeInv
<1>1. conf \in Configs /\ IsConfig(conf)
  BY GraphAssumption DEF Init
<1>2. conf.runs \in Nat
  BY <1>1 DEF IsConfig
<1>3. MainType
  BY <1>2 DEF Init, MainType, MainPlaces, Verdicts
<1>4. StackType
  <2>1. stack = [t \in Threads |-> <<>>] /\ tasks = {}
    BY DEF Init
  <2> QED BY <2>1 DEF StackType
<1>5. \A e \in Elements : DependSizes[e] \in 0..(DependModulus - 1)
  <2> SUFFICES ASSUME NEW e \in Elements PROVE DependSizes[e] \in 0..(DependModulus - 1)
    OBVIOUS
  <2>1. conf.depend[e] \subseteq Elements
    BY <1>1 DEF IsConfig
  <2>2. IsFiniteSet(Elements) /\ DependModulus \in Nat /\ DependModulus > Cardinality(Elements)
    BY GraphAssumption
  <2>3. IsFiniteSet(conf.depend[e]) /\ Cardinality(conf.depend[e]) <= Cardinality(Elements)
    BY <2>1, <2>2, FS_Subset
  <2>4. Cardinality(conf.depend[e]) \in Nat /\ Cardinality(Elements) \in Nat
    BY <2>2, <2>3, FS_CardinalityType
  <2> QED BY <2>2, <2>3, <2>4 DEF DependSizes
<1>6. DependSizes \in [Elements -> 0..(DependModulus - 1)]
  BY <1>5 DEF DependSizes
<1>7. ElementType
  BY <1>6 DEF Init, ElementType, States, Results
<1>8. EngineType
  BY DEF Init, EngineType, States
<1> QED BY <1>1, <1>3, <1>4, <1>7, <1>8 DEF TypeInv

LEMMA FrameMakes ==
  ASSUME NEW e \in Elements, NEW p \in Places
  PROVE  Frame(e, p) \in FrameSet
BY DEF Frame, FrameSet

LEMMA ExecIs == \A e \in Elements : Exec(e) \in TaskSet
BY DEF TaskSet

(* Process of the engine.                                                  *)
LEMMA Processes ==
  ASSUME TypeInv, NEW t \in Threads, NEW e \in Elements, NEW last \in BOOLEAN,
         NEW g \in Seq(FrameSet), Process(t, e, last, g)
  PROVE  /\ stack' \in [Threads -> Seq(FrameSet)] /\ tasks' \subseteq TaskSet
         /\ \A u \in Threads : u # t => stack'[u] = stack[u]
         /\ \/ stack'[t] = g /\ tasks' = tasks /\ ~engine.ok
            \/ stack'[t] = g /\ tasks' = tasks \cup {Exec(e)}
            \/ stack'[t] = <<Frame(e, "start")>> \o g /\ tasks' = tasks /\ last
<1>1. Frame(e, "start") \in FrameSet
  BY FrameMakes DEF Places
<1>2. <<Frame(e, "start")>> \o g \in Seq(FrameSet)
  BY <1>1, SeqFacts
<1>3. tasks \subseteq TaskSet
  BY DEF TypeInv, StackType
<1>4. CASE stack' = [stack EXCEPT ![t] = g] /\ tasks' = tasks /\ ~engine.ok
  BY <1>3, <1>4, Replaced
<1>5. CASE stack' = [stack EXCEPT ![t] = <<Frame(e, "start")>> \o g] /\ tasks' = tasks /\ last
  BY <1>2, <1>3, <1>5, Replaced
<1>6. CASE stack' = [stack EXCEPT ![t] = g] /\ tasks' = tasks \cup {Exec(e)}
  BY <1>3, <1>6, Replaced, ExecIs
<1> QED BY <1>4, <1>5, <1>6 DEF Process

(* The next round of an element.                                           *)
LEMMA Rounds ==
  ASSUME TypeInv, NEW t \in Threads, stack[t] # <<>>, Round(t, Top(t))
  PROVE  \E g \in FrameSet :
           /\ Goto(t, g) /\ g.e = Top(t).e /\ g.ready = Top(t).ready
           /\ g.at \in {"finish", "await", "run"}
           /\ tasks' \subseteq TaskSet /\ fut' \in [Elements -> [n : Nat, st : Results]]
           /\ \A e \in Elements : Exec(e) \in tasks' <=> Exec(e) \in tasks
<1> DEFINE f == Top(t)
<1>1. f \in FrameSet
  BY TopIs
<1>2. f.e \in Elements /\ tasks \subseteq TaskSet /\ fut \in [Elements -> [n : Nat, st : Results]]
  BY <1>1 DEF FrameSet, TypeInv, StackType, ElementType
<1>3. CASE Goto(t, [f EXCEPT !.at = "finish"]) /\ UNCHANGED <<tasks, fut>>
  <2>1. [f EXCEPT !.at = "finish"] \in FrameSet
    BY <1>1 DEF FrameSet, Places
  <2>2. [f EXCEPT !.at = "finish"].e = f.e /\ [f EXCEPT !.at = "finish"].ready = f.ready
        /\ [f EXCEPT !.at = "finish"].at = "finish"
    BY <1>1 DEF FrameSet
  <2> QED BY <1>2, <1>3, <2>1, <2>2
<1>4. CASE /\ Goto(t, [f EXCEPT !.at = "run", !.ok = TRUE, !.todo = conf.fence[f.e]])
           /\ UNCHANGED <<tasks, fut>>
  <2> DEFINE g == [f EXCEPT !.at = "run", !.ok = TRUE, !.todo = conf.fence[f.e]]
  <2>1. conf.fence[f.e] \subseteq Elements
    BY <1>2, GraphIs
  <2>2. g \in FrameSet
    BY <1>1, <2>1 DEF FrameSet, Places
  <2>3. g.e = f.e /\ g.ready = f.ready /\ g.at = "run"
    BY <1>1 DEF FrameSet
  <2> QED BY <1>2, <1>4, <2>2, <2>3
<1>5. CASE \E n \in Nat : /\ Goto(t, [f EXCEPT !.at = "await"])
                          /\ fut' = [fut EXCEPT ![f.e] = [n |-> n, st |-> "pending"]]
                          /\ tasks' = tasks \cup {Async(f.e, n)}
  <2> DEFINE g == [f EXCEPT !.at = "await"]
  <2>1. PICK n \in Nat : /\ Goto(t, g)
                         /\ fut' = [fut EXCEPT ![f.e] = [n |-> n, st |-> "pending"]]
                         /\ tasks' = tasks \cup {Async(f.e, n)}
    BY <1>5
  <2>2. g \in FrameSet
    BY <1>1 DEF FrameSet, Places
  <2>3. g.e = f.e /\ g.ready = f.ready /\ g.at = "await"
    BY <1>1 DEF FrameSet
  <2>4. [n |-> n, st |-> "pending"] \in [n : Nat, st : Results]
    BY DEF Results
  <2>5. fut' \in [Elements -> [n : Nat, st : Results]]
    BY <1>2, <2>1, <2>4
  <2>6. Async(f.e, n) \in TaskSet /\ \A e \in Elements : Exec(e) # Async(f.e, n)
    BY <1>2 DEF TaskSet, Exec, Async
  <2> QED BY <1>2, <2>1, <2>2, <2>3, <2>5, <2>6
<1>6. fut[f.e].n + 1 \in Nat
  BY <1>2
<1> QED BY <1>3, <1>4, <1>5, <1>6 DEF Round, AsyncRun

LEMMA HoldRuns ==
  ASSUME TypeInv, NEW t \in Threads, HoldAsync(t), NEW e, e = Top(t).e
  PROVE  /\ stack[t] # <<>> /\ Top(t).at = "check" /\ IsAsync(e)
         /\ e \in Elements /\ Top(t).held \in Nat /\ Top(t).held < conf.holds[e]
         /\ \E g \in FrameSet, n \in Nat :
              /\ Goto(t, g) /\ g.e = e /\ g.ready = Top(t).ready /\ g.at = "await"
              /\ fut' = [fut EXCEPT ![e] = [n |-> n, st |-> "pending"]]
              /\ tasks' = tasks \cup {Async(e, n)}
         /\ UNCHANGED <<conf, main, cur, repo, done, left, triggered, engine, control, open, ran,
                        failed, stopped>>
<1> DEFINE f == Top(t)
           h == [f EXCEPT !.held = @ + 1]
           g == [h EXCEPT !.at = "await"]
<1>1. stack[t] # <<>> /\ f.at = "check"
  BY DEF HoldAsync, At
<1>2. f \in FrameSet
  BY <1>1, TopIs
<1>3. f.held + 1 \in Nat /\ e \in Elements /\ f.held \in Nat
  BY <1>2 DEF FrameSet
<1>4. h \in FrameSet /\ h.e = e /\ h.ready = f.ready
  BY <1>2, <1>3 DEF FrameSet
<1>5. IsAsync(e) /\ f.held < conf.holds[e] /\ AsyncRun(t, h)
  BY DEF HoldAsync
<1> HIDE DEF h
<1>6. g \in FrameSet /\ g.e = e /\ g.ready = f.ready /\ g.at = "await"
  BY <1>4 DEF FrameSet, Places
<1>7. fut[e].n + 1 \in Nat
  BY <1>3 DEF TypeInv, ElementType
<1>8. /\ Goto(t, g) /\ fut' = [fut EXCEPT ![e] = [n |-> fut[e].n + 1, st |-> "pending"]]
      /\ tasks' = tasks \cup {Async(e, fut[e].n + 1)}
  BY <1>4, <1>5 DEF AsyncRun
<1>9. UNCHANGED <<conf, main, cur, repo, done, left, triggered, engine, control, open, ran, failed,
                  stopped>>
  BY DEF HoldAsync
<1> HIDE DEF g
<1> QED BY <1>1, <1>3, <1>5, <1>6, <1>7, <1>8, <1>9
-----------------------------------------------------------------------------
(* Most steps of a thread only move the element it runs: outside of        *)
(* AfterElementRun, with nothing else of the engine's changed but done_    *)
(* and left_depend_ of the element, which PrepareRun resets.               *)
Moves(t) ==
  /\ stack[t] # <<>> /\ Top(t).at \notin {"async", "succ"}
  /\ \E g \in FrameSet : /\ Goto(t, g) /\ g.at \notin {"async", "succ"}
                         /\ g.e = Top(t).e /\ g.ready = Top(t).ready
SameExecs == \A e \in Elements : Exec(e) \in tasks' <=> Exec(e) \in tasks
Resets(t) ==
  /\ done' \in [Elements -> BOOLEAN] /\ left' \in [Elements -> 0..(DependModulus - 1)]
  /\ done'[Top(t).e] => done[Top(t).e]
  /\ \A e \in Elements : e # Top(t).e => done'[e] = done[e] /\ left'[e] = left[e]
Typed ==
  /\ tasks' \subseteq TaskSet /\ cur' \in [Elements -> States]
  /\ triggered' \in [Elements -> BOOLEAN] /\ ran' \in [Elements -> Nat]
  /\ fut' \in [Elements -> [n : Nat, st : Results]]
Still(t) ==
  /\ Moves(t) /\ SameExecs /\ Resets(t) /\ Typed
  /\ UNCHANGED <<conf, main, repo, engine, control, open, failed, stopped>>

LEMMA MoveTo ==
  ASSUME TypeInv, NEW t \in Threads, stack[t] # <<>>, Top(t).at \notin {"async", "succ"},
         NEW g \in FrameSet, Goto(t, g), g.at \notin {"async", "succ"},
         g.e = Top(t).e, g.ready = Top(t).ready
  PROVE  Moves(t)
BY DEF Moves

LEMMA NothingReset ==
  ASSUME TypeInv, NEW t \in Threads, stack[t] # <<>>, done' = done, left' = left
  PROVE  Resets(t)
<1>1. Top(t).e \in Elements
  BY TopIs DEF FrameSet
<1> QED BY <1>1 DEF Resets, TypeInv, ElementType

LEMMA StartStill == ASSUME TypeInv, NEW t \in Threads, Start(t) PROVE Still(t)
<1> DEFINE e == Top(t).e
<1>1. stack[t] # <<>> /\ Top(t).at = "start" /\ Round(t, Top(t))
  BY DEF Start, At
<1>2. PICK g \in FrameSet :
           /\ Goto(t, g) /\ g.e = Top(t).e /\ g.ready = Top(t).ready
           /\ g.at \in {"finish", "await", "run"}
           /\ tasks' \subseteq TaskSet /\ fut' \in [Elements -> [n : Nat, st : Results]]
           /\ \A x \in Elements : Exec(x) \in tasks' <=> Exec(x) \in tasks
  BY <1>1, Rounds
<1>3. Moves(t)
  BY <1>1, <1>2, MoveTo
<1>4. e \in Elements
  BY <1>1, TopIs DEF FrameSet
<1>5. /\ done \in [Elements -> BOOLEAN] /\ left \in [Elements -> 0..(DependModulus - 1)]
      /\ triggered \in [Elements -> BOOLEAN] /\ cur \in [Elements -> States]
      /\ ran \in [Elements -> Nat]
  BY DEF TypeInv, ElementType, EngineType
<1>6. DependSizes[e] \in 0..(DependModulus - 1)
  BY <1>4, GraphIs
<1>7. Resets(t) /\ triggered' \in [Elements -> BOOLEAN]
  <2>1. CASE UNCHANGED <<done, left, triggered>>
    BY <2>1, <1>1, <1>5, NothingReset
  <2>2. CASE PrepareRun(e) /\ triggered' = [triggered EXCEPT ![e] = TRUE]
    <3>1. done' = [done EXCEPT ![e] = FALSE] /\ left' = [left EXCEPT ![e] = DependSizes[e]]
      BY <2>2 DEF PrepareRun
    <3>2. done' \in [Elements -> BOOLEAN] /\ ~done'[e]
          /\ \A x \in Elements : x # e => done'[x] = done[x]
      BY <3>1, <1>4, <1>5
    <3>3. left' \in [Elements -> 0..(DependModulus - 1)]
          /\ \A x \in Elements : x # e => left'[x] = left[x]
      BY <3>1, <1>4, <1>5, <1>6
    <3> QED BY <2>2, <3>2, <3>3, <1>5 DEF Resets
  <2> QED BY <2>1, <2>2 DEF Start
<1>8. UNCHANGED <<conf, main, cur, repo, engine, control, open, ran, failed, stopped>>
  BY DEF Start
<1> QED BY <1>2, <1>3, <1>5, <1>7, <1>8 DEF Still, SameExecs, Typed

(* The steps that change neither done_ nor left_depend_.                   *)
LEMMA StillBy ==
  ASSUME TypeInv, NEW t \in Threads, Moves(t), SameExecs,
         tasks' \subseteq TaskSet, cur' \in [Elements -> States], ran' \in [Elements -> Nat],
         fut' \in [Elements -> [n : Nat, st : Results]],
         UNCHANGED <<conf, main, repo, done, left, triggered, engine, control, open, failed,
                     stopped>>
  PROVE  Still(t)
<1>1. stack[t] # <<>>
  BY DEF Moves
<1>2. Resets(t)
  BY <1>1, NothingReset
<1> QED BY <1>2 DEF Still, Typed, TypeInv, ElementType

LEMMA NextRoundStill == ASSUME TypeInv, NEW t \in Threads, NextRound(t) PROVE Still(t)
<1>1. stack[t] # <<>> /\ Top(t).at = "loop" /\ Round(t, Top(t))
  BY DEF NextRound, At
<1>2. PICK g \in FrameSet :
           /\ Goto(t, g) /\ g.e = Top(t).e /\ g.ready = Top(t).ready
           /\ g.at \in {"finish", "await", "run"}
           /\ tasks' \subseteq TaskSet /\ fut' \in [Elements -> [n : Nat, st : Results]]
           /\ \A x \in Elements : Exec(x) \in tasks' <=> Exec(x) \in tasks
  BY <1>1, Rounds
<1>3. Moves(t)
  BY <1>1, <1>2, MoveTo
<1>4. cur' \in [Elements -> States] /\ ran' \in [Elements -> Nat]
  BY DEF NextRound, TypeInv, ElementType, EngineType
<1>5. UNCHANGED <<conf, main, repo, done, left, triggered, engine, control, open, failed, stopped>>
  BY DEF NextRound
<1> QED BY <1>2, <1>3, <1>4, <1>5, StillBy DEF SameExecs

LEMMA RunUserStill == ASSUME TypeInv, NEW t \in Threads, RunUser(t) PROVE Still(t)
<1> DEFINE f == Top(t)
           g(o) == [f EXCEPT !.at = IF o = "crash" THEN "finish" ELSE "check", !.ok = @ /\ o = "ok"]
<1>1. stack[t] # <<>> /\ f.at = "run"
  BY DEF RunUser, At
<1>2. PICK o \in Outcomes(f.e) : Goto(t, g(o))
  BY DEF RunUser
<1>3. f \in FrameSet
  BY <1>1, TopIs
<1>4. g(o) \in FrameSet /\ g(o).at \in {"finish", "check"} /\ g(o).e = f.e /\ g(o).ready = f.ready
  BY <1>3 DEF FrameSet, Places
<1> HIDE DEF g
<1>5. Moves(t)
  BY <1>1, <1>2, <1>4, MoveTo
<1>6. ran' \in [Elements -> Nat]
  BY <1>3 DEF RunUser, FrameSet, TypeInv, EngineType
<1>7. UNCHANGED <<conf, main, tasks, cur, repo, done, left, triggered, fut, engine, control, open,
                  failed, stopped>>
  BY DEF RunUser
<1> QED BY <1>5, <1>6, <1>7, StillBy DEF SameExecs, TypeInv, StackType, ElementType

LEMMA RunFenceStill == ASSUME TypeInv, NEW t \in Threads, RunFence(t) PROVE Still(t)
<1> DEFINE f == Top(t)
           x == First(f.todo)
           g == [f EXCEPT !.todo = @ \ {x}, !.at = IF fut[x].st = "crash" THEN "finish" ELSE @,
                          !.ok = @ /\ fut[x].st \in {"none", "ok"}]
<1>1. stack[t] # <<>> /\ f.at = "run" /\ f.todo # {}
  BY DEF RunFence, At
<1>2. Goto(t, g) /\ fut' = [fut EXCEPT ![x].st = "none"]
  BY DEF RunFence
<1>3. f \in FrameSet
  BY <1>1, TopIs
<1>4. g \in FrameSet /\ g.at \in {"finish", "run"} /\ g.e = f.e /\ g.ready = f.ready
  BY <1>1, <1>3 DEF FrameSet, Places
<1>5. fut' \in [Elements -> [n : Nat, st : Results]]
  <2>1. fut \in [Elements -> [n : Nat, st : Results]]
    BY DEF TypeInv, ElementType
  <2> QED BY <1>2, <2>1 DEF Results
<1> HIDE DEF g
<1>6. Moves(t)
  BY <1>1, <1>2, <1>4, MoveTo
<1>7. UNCHANGED <<conf, main, tasks, cur, repo, done, left, triggered, engine, control, open, ran,
                  failed, stopped>>
  BY DEF RunFence
<1> QED BY <1>5, <1>6, <1>7, StillBy DEF SameExecs, TypeInv, StackType, ElementType, EngineType

LEMMA AwaitReadyStill == ASSUME TypeInv, NEW t \in Threads, AwaitReady(t) PROVE Still(t)
<1> DEFINE f == Top(t)
           g == [f EXCEPT !.at = IF fut[f.e].st = "crash" THEN "finish" ELSE "check",
                          !.ok = fut[f.e].st = "ok"]
<1>1. stack[t] # <<>> /\ f.at = "await"
  BY DEF AwaitReady, At
<1>2. Goto(t, g) /\ fut' = [fut EXCEPT ![f.e].st = "none"]
  BY DEF AwaitReady
<1>3. f \in FrameSet
  BY <1>1, TopIs
<1>4. g \in FrameSet /\ g.at \in {"finish", "check"} /\ g.e = f.e /\ g.ready = f.ready
  BY <1>3 DEF FrameSet, Places
<1>5. fut' \in [Elements -> [n : Nat, st : Results]]
  <2>1. fut \in [Elements -> [n : Nat, st : Results]]
    BY DEF TypeInv, ElementType
  <2> QED BY <1>2, <2>1 DEF Results
<1> HIDE DEF g
<1>6. Moves(t)
  BY <1>1, <1>2, <1>4, MoveTo
<1>7. UNCHANGED <<conf, main, tasks, cur, repo, done, left, triggered, engine, control, open, ran,
                  failed, stopped>>
  BY DEF AwaitReady
<1> QED BY <1>5, <1>6, <1>7, StillBy DEF SameExecs, TypeInv, StackType, ElementType, EngineType

LEMMA AwaitTimeoutStill == ASSUME TypeInv, NEW t \in Threads, AwaitTimeout(t) PROVE Still(t)
<1> DEFINE f == Top(t)
           g == [f EXCEPT !.at = "check", !.ok = conf.timeout[f.e] # "kAsError"]
<1>1. stack[t] # <<>> /\ f.at = "await"
  BY DEF AwaitTimeout, At
<1>2. Goto(t, g)
  BY DEF AwaitTimeout
<1>3. f \in FrameSet
  BY <1>1, TopIs
<1>4. g \in FrameSet /\ g.at = "check" /\ g.e = f.e /\ g.ready = f.ready
  BY <1>3 DEF FrameSet, Places
<1>5. cur' \in [Elements -> States]
  <2>1. cur \in [Elements -> States]
    BY DEF TypeInv, ElementType
  <2>2. cur' = cur \/ cur' = [cur EXCEPT ![f.e] = "kTimeout"]
    BY DEF AwaitTimeout
  <2> QED BY <2>1, <2>2 DEF States
<1> HIDE DEF g
<1>6. Moves(t)
  BY <1>1, <1>2, <1>4, MoveTo
<1>7. UNCHANGED <<conf, main, tasks, repo, done, left, triggered, fut, engine, control, open, ran,
                  failed, stopped>>
  BY DEF AwaitTimeout
<1> QED BY <1>5, <1>6, <1>7, StillBy DEF SameExecs, TypeInv, StackType, ElementType, EngineType

LEMMA MoveStill ==
  ASSUME TypeInv, NEW t \in Threads, NEW p \in Places \ {"async", "succ"}, stack[t] # <<>>,
         Top(t).at \notin {"async", "succ"}, Move(t, p)
  PROVE  Moves(t)
<1> DEFINE g == [Top(t) EXCEPT !.at = p]
<1>1. Goto(t, g)
  BY DEF Move
<1>2. Top(t) \in FrameSet
  BY TopIs
<1>3. g \in FrameSet /\ g.at = p /\ g.e = Top(t).e /\ g.ready = Top(t).ready
  BY <1>2 DEF FrameSet
<1> HIDE DEF g
<1> QED BY <1>1, <1>3, MoveTo

LEMMA CheckYieldStill == ASSUME TypeInv, NEW t \in Threads, CheckYield(t) PROVE Still(t)
<1> DEFINE f == Top(t)
<1>1. stack[t] # <<>> /\ f.at = "check"
  BY DEF CheckYield, At
<1>2. f \in FrameSet
  BY <1>1, TopIs
<1>3. UNCHANGED <<conf, main, tasks, cur, repo, done, left, triggered, fut, engine, control, open,
                  ran, failed, stopped>>
  BY DEF CheckYield
<1>4. Moves(t)
  <2>1. CASE Move(t, "doze")
    BY <2>1, <1>1, MoveStill DEF Places
  <2>2. CASE Goto(t, [f EXCEPT !.at = "run", !.held = @ + 1])
    <3> DEFINE g == [f EXCEPT !.at = "run", !.held = @ + 1]
    <3>3. f.held + 1 \in Nat
      BY <1>2 DEF FrameSet
    <3>4. g \in FrameSet
      BY <1>2, <3>3 DEF FrameSet, Places
    <3>1. g \in FrameSet /\ g.at = "run" /\ g.e = f.e /\ g.ready = f.ready
      BY <1>2, <3>4 DEF FrameSet
    <3>2. Goto(t, g)
      BY <2>2
    <3> HIDE DEF g
    <3> QED BY <1>1, <3>1, <3>2, MoveTo
  <2>3. CASE Goto(t, [f EXCEPT !.at = IF f.i + 1 < conf.loop[f.e] THEN "loop" ELSE "finish",
                               !.held = 0, !.i = @ + 1])
    <3> DEFINE g == [f EXCEPT !.at = IF f.i + 1 < conf.loop[f.e] THEN "loop" ELSE "finish",
                              !.held = 0, !.i = @ + 1]
    <3>3. f.i + 1 \in Nat
      BY <1>2 DEF FrameSet
    <3>4. g \in FrameSet
      BY <1>2, <3>3 DEF FrameSet, Places
    <3>1. g \in FrameSet /\ g.at \in {"loop", "finish"} /\ g.e = f.e /\ g.ready = f.ready
      BY <1>2, <3>4 DEF FrameSet
    <3>2. Goto(t, g)
      BY <2>3
    <3> HIDE DEF g
    <3> QED BY <1>1, <3>1, <3>2, MoveTo
  <2> QED BY <2>1, <2>2, <2>3 DEF CheckYield
<1> QED BY <1>3, <1>4, StillBy DEF SameExecs, TypeInv, StackType, ElementType, EngineType

LEMMA DozeStill == ASSUME TypeInv, NEW t \in Threads, Doze(t) \/ SpuriousWakeup(t) PROVE Still(t)
<1>1. stack[t] # <<>> /\ Top(t).at \in {"doze", "asleep"}
      /\ (Move(t, "asleep") \/ Move(t, "check"))
  BY DEF Doze, SpuriousWakeup, At
<1>2. UNCHANGED <<conf, main, tasks, cur, repo, done, left, triggered, fut, engine, control, open,
                  ran, failed, stopped>>
  BY DEF Doze, SpuriousWakeup
<1>3. Moves(t)
  BY <1>1, MoveStill DEF Places
<1> QED BY <1>2, <1>3, StillBy DEF SameExecs, TypeInv, StackType, ElementType, EngineType

LEMMA HoldAsyncStill == ASSUME TypeInv, NEW t \in Threads, HoldAsync(t) PROVE Still(t)
<1>1. PICK e : e = Top(t).e
  OBVIOUS
<1>2. /\ stack[t] # <<>> /\ Top(t).at = "check" /\ e \in Elements
      /\ UNCHANGED <<conf, main, cur, repo, done, left, triggered, engine, control, open, ran,
                     failed, stopped>>
  BY <1>1, HoldRuns
<1>3. PICK g \in FrameSet, n \in Nat :
        /\ Goto(t, g) /\ g.e = e /\ g.ready = Top(t).ready /\ g.at = "await"
        /\ fut' = [fut EXCEPT ![e] = [n |-> n, st |-> "pending"]]
        /\ tasks' = tasks \cup {Async(e, n)}
  BY <1>1, HoldRuns
<1>4. Moves(t)
  BY <1>1, <1>2, <1>3, MoveTo
<1>5. [n |-> n, st |-> "pending"] \in [n : Nat, st : Results]
  BY DEF Results
<1>6. fut' \in [Elements -> [n : Nat, st : Results]]
  BY <1>2, <1>3, <1>5 DEF TypeInv, ElementType
<1>7. Async(e, n) \in TaskSet /\ \A x \in Elements : Exec(x) # Async(e, n)
  BY <1>2 DEF TaskSet, Exec, Async
<1>8. tasks' \subseteq TaskSet /\ SameExecs
  BY <1>3, <1>7 DEF SameExecs, TypeInv, StackType
<1> QED BY <1>2, <1>4, <1>6, <1>8, StillBy DEF TypeInv, ElementType, EngineType
-----------------------------------------------------------------------------
(* The steps of a thread outside of Run: what they do to its calls.        *)
LEMMA StillTypes == ASSUME TypeInv, NEW t \in Threads, Still(t) PROVE TypeInv'
<1>1. stack' \in [Threads -> Seq(FrameSet)]
  BY Went DEF Still, Moves
<1>2. UNCHANGED <<conf, main, repo, engine, control, open, failed, stopped>> /\ Typed /\ Resets(t)
  BY DEF Still
<1>3. StackType' /\ MainType'
  BY <1>1, <1>2 DEF StackType, MainType, Typed, TypeInv
<1>4. ElementType' /\ EngineType'
  BY <1>2 DEF ElementType, EngineType, Typed, Resets, TypeInv
<1> QED BY <1>2, <1>3, <1>4 DEF TypeInv

LEMMA TypesBy ==
  ASSUME TypeInv, conf' = conf, MainType', StackType', ElementType', EngineType'
  PROVE  TypeInv'
BY DEF TypeInv

LEMMA TakeDoes ==
  ASSUME TypeInv, NEW t \in Threads, Take(t)
  PROVE  /\ stack[t] = <<>> /\ stack' \in [Threads -> Seq(FrameSet)]
         /\ \A u \in Threads : u # t => stack'[u] = stack[u]
         /\ \E k \in tasks, g \in FrameSet :
              /\ tasks' = tasks \ {k} /\ stack'[t] = <<g>> /\ g.e = k.e
              /\ g.todo = {} /\ g.ready = {}
              /\ g.at = IF k.kind = "exec" THEN "start" ELSE "async"
<1> DEFINE h(k) == IF k.kind = "exec" THEN Frame(k.e, "start")
                   ELSE [Frame(k.e, "async") EXCEPT !.i = k.n]
<1>1. PICK k \in tasks : tasks' = tasks \ {k} /\ stack' = [stack EXCEPT ![t] = <<h(k)>>]
  BY DEF Take
<1>2. stack[t] = <<>>
  BY DEF Take
<1>3. k \in TaskSet
  BY DEF TypeInv, StackType
<1>4. h(k) \in FrameSet /\ h(k).e = k.e /\ h(k).todo = {} /\ h(k).ready = {}
      /\ h(k).at = IF k.kind = "exec" THEN "start" ELSE "async"
  <2>1. k.e \in Elements /\ k.n \in Nat /\ k.kind \in {"exec", "async"}
    BY <1>3 DEF TaskSet, Exec, Async
  <2> QED BY <2>1 DEF Frame, FrameSet, Places
<1> HIDE DEF h
<1>5. <<h(k)>> \in Seq(FrameSet)
  BY <1>4
<1>6. stack' \in [Threads -> Seq(FrameSet)] /\ stack'[t] = <<h(k)>>
      /\ \A u \in Threads : u # t => stack'[u] = stack[u]
  BY <1>1, <1>5, Replaced
<1> QED BY <1>1, <1>2, <1>4, <1>6

LEMMA TakeTypes == ASSUME TypeInv, NEW t \in Threads, Take(t) PROVE TypeInv'
<1>1. stack' \in [Threads -> Seq(FrameSet)] /\ \E k \in tasks : tasks' = tasks \ {k}
  BY TakeDoes
<1>2. UNCHANGED <<conf, main, cur, repo, done, left, triggered, fut, engine, control, open, ran,
                  failed, stopped>>
  BY DEF Take
<1>3. StackType'
  BY <1>1 DEF TypeInv, StackType
<1> QED BY <1>2, <1>3, TypesBy DEF TypeInv, MainType, ElementType, EngineType

LEMMA Drops ==
  ASSUME TypeInv, NEW t \in Threads, stack[t] # <<>>, stack' = [stack EXCEPT ![t] = Tail(@)]
  PROVE  /\ stack' \in [Threads -> Seq(FrameSet)] /\ stack'[t] = Tail(stack[t])
         /\ \A u \in Threads : u # t => stack'[u] = stack[u]
<1>1. Tail(stack[t]) \in Seq(FrameSet)
  BY TopIs
<1> QED BY <1>1, Replaced

LEMMA RunAsyncTypes == ASSUME TypeInv, NEW t \in Threads, RunAsync(t) PROVE TypeInv'
<1>1. stack[t] # <<>> /\ stack' = [stack EXCEPT ![t] = Tail(@)]
  BY DEF RunAsync, At
<1>2. StackType'
  BY <1>1, Drops DEF RunAsync, TypeInv, StackType
<1>3. Top(t).e \in Elements /\ fut \in [Elements -> [n : Nat, st : Results]]
      /\ ran \in [Elements -> Nat]
  BY <1>1, TopIs DEF FrameSet, TypeInv, ElementType, EngineType
<1>4. fut' \in [Elements -> [n : Nat, st : Results]]
  <2>1. PICK o \in Outcomes(Top(t).e) :
          fut' = IF fut[Top(t).e].n = Top(t).i /\ fut[Top(t).e].st = "pending"
                 THEN [fut EXCEPT ![Top(t).e].st = o] ELSE fut
    BY DEF RunAsync
  <2>2. o \in Results
    BY DEF Outcomes, Results
  <2> QED BY <2>1, <2>2, <1>3
<1>5. ran' \in [Elements -> Nat]
  BY <1>3 DEF RunAsync
<1>6. UNCHANGED <<conf, main, tasks, cur, repo, done, left, triggered, engine, control, open,
                  failed, stopped>>
  BY DEF RunAsync
<1> QED BY <1>2, <1>4, <1>5, <1>6, TypesBy DEF TypeInv, MainType, ElementType, EngineType

LEMMA FinishDoes ==
  ASSUME TypeInv, NEW t \in Threads, Finish(t)
  PROVE  /\ stack[t] # <<>> /\ Top(t).at = "finish"
         /\ \E g \in FrameSet : /\ Goto(t, g) /\ g.e = Top(t).e /\ g.at = "succ"
                                /\ g.todo = RunBefore(Top(t).e) /\ g.ready = Top(t).ready
         /\ done' = [done EXCEPT ![Top(t).e] = TRUE]
         /\ engine' = [engine EXCEPT !.ok = @ /\ Top(t).ok, !.runs = @ + 1]
         /\ UNCHANGED <<conf, main, tasks, cur, repo, left, triggered, fut, control, open, ran,
                        failed, stopped>>
<1> DEFINE f == Top(t)
           g == [f EXCEPT !.at = "succ", !.todo = RunBefore(f.e)]
<1>1. stack[t] # <<>> /\ f.at = "finish" /\ Goto(t, g)
  BY DEF Finish, At
<1>2. f \in FrameSet
  BY <1>1, TopIs
<1>3. RunBefore(f.e) \subseteq Elements
  BY <1>2, GraphIs DEF FrameSet
<1>4. g \in FrameSet
  BY <1>2, <1>3 DEF FrameSet, Places
<1>5. g.e = f.e /\ g.at = "succ" /\ g.todo = RunBefore(f.e) /\ g.ready = f.ready
  BY <1>2 DEF FrameSet
<1> HIDE DEF g
<1> QED BY <1>1, <1>4, <1>5 DEF Finish

LEMMA FinishTypes == ASSUME TypeInv, NEW t \in Threads, Finish(t) PROVE TypeInv'
<1>1. stack' \in [Threads -> Seq(FrameSet)]
  BY FinishDoes, Went
<1>2. done' = [done EXCEPT ![Top(t).e] = TRUE]
      /\ engine' = [engine EXCEPT !.ok = @ /\ Top(t).ok, !.runs = @ + 1]
      /\ UNCHANGED <<conf, main, tasks, cur, repo, left, triggered, fut, control, open, ran,
                     failed, stopped>>
  BY FinishDoes
<1>3. Top(t) \in FrameSet
  BY FinishDoes, TopIs
<1>4. engine' \in [alive : BOOLEAN, finished : Nat, runs : Nat, ok : BOOLEAN]
  <2>1. engine \in [alive : BOOLEAN, finished : Nat, runs : Nat, ok : BOOLEAN]
    BY DEF TypeInv, EngineType
  <2>2. Top(t).ok \in BOOLEAN
    BY <1>3 DEF FrameSet
  <2>3. engine.runs + 1 \in Nat
    BY <2>1
  <2>4. (engine.ok /\ Top(t).ok) \in BOOLEAN
    OBVIOUS
  <2> DEFINE k == engine.ok /\ Top(t).ok
             m == engine.runs + 1
  <2>5. engine' = [engine EXCEPT !.ok = k, !.runs = m] /\ k \in BOOLEAN /\ m \in Nat
    BY <1>2, <2>3
  <2> HIDE DEF k, m
  <2> QED BY <2>1, <2>5
<1>5. done' \in [Elements -> BOOLEAN]
  BY <1>2 DEF TypeInv, ElementType
<1> QED BY <1>1, <1>2, <1>4, <1>5, TypesBy
        DEF TypeInv, MainType, StackType, ElementType, EngineType

LEMMA CountDownDoes ==
  ASSUME TypeInv, NEW t \in Threads, CountDown(t)
  PROVE  /\ stack[t] # <<>> /\ Top(t).at = "succ"
         /\ \E s \in Top(t).todo, n \in 0..(DependModulus - 1), g \in FrameSet :
              /\ n = (left[s] + DependModulus - 1) % DependModulus
              /\ left' = [left EXCEPT ![s] = n]
              /\ Goto(t, g) /\ g.e = Top(t).e /\ g.at = "succ" /\ g.todo = Top(t).todo \ {s}
              /\ g.ready = IF n = 0 THEN Top(t).ready \cup {s} ELSE Top(t).ready
         /\ UNCHANGED <<conf, main, tasks, cur, repo, done, triggered, fut, engine, control, open,
                        ran, failed, stopped>>
<1> DEFINE f == Top(t)
           s == First(f.todo)
           n == (left[s] + DependModulus - 1) % DependModulus
           g == [f EXCEPT !.todo = @ \ {s}, !.ready = IF IsReady(n) THEN @ \cup {s} ELSE @]
<1>1. stack[t] # <<>> /\ f.at = "succ" /\ f.todo # {} /\ Goto(t, g)
      /\ left' = [left EXCEPT ![s] = n]
  BY DEF CountDown, At
<1>2. f \in FrameSet
  BY <1>1, TopIs
<1>3. s \in f.todo
  BY <1>1, FirstIn
<1>4. s \in Elements
  BY <1>2, <1>3 DEF FrameSet
<1>5. n \in 0..(DependModulus - 1)
  <2>1. left[s] \in 0..(DependModulus - 1)
    BY <1>4 DEF TypeInv, ElementType
  <2>2. DependModulus \in Nat /\ DependModulus > 0
    BY <2>1, GraphAssumption
  <2> QED BY <2>1, <2>2
<1> HIDE DEF n
<1>6. g \in FrameSet
  BY <1>2, <1>4 DEF FrameSet
<1>7. g.e = f.e /\ g.at = "succ" /\ g.todo = f.todo \ {s}
      /\ g.ready = IF n = 0 THEN f.ready \cup {s} ELSE f.ready
  BY <1>1, <1>2 DEF FrameSet, IsReady
<1>8. n = (left[s] + DependModulus - 1) % DependModulus
  BY DEF n
<1>9. UNCHANGED <<conf, main, tasks, cur, repo, done, triggered, fut, engine, control, open, ran,
                  failed, stopped>>
  BY DEF CountDown
<1> HIDE DEF g, s
<1> QED BY <1>1, <1>3, <1>5, <1>6, <1>7, <1>8, <1>9 DEF s

LEMMA CountDownTypes == ASSUME TypeInv, NEW t \in Threads, CountDown(t) PROVE TypeInv'
<1>1. stack[t] # <<>>
  BY CountDownDoes
<1>2. PICK s \in Top(t).todo, n \in 0..(DependModulus - 1), g \in FrameSet :
        left' = [left EXCEPT ![s] = n] /\ Goto(t, g)
  BY CountDownDoes
<1>3. stack' \in [Threads -> Seq(FrameSet)]
  BY <1>1, <1>2, Went
<1>4. left' \in [Elements -> 0..(DependModulus - 1)]
  BY <1>2 DEF TypeInv, ElementType
<1>5. UNCHANGED <<conf, main, tasks, cur, repo, done, triggered, fut, engine, control, open,
                  ran, failed, stopped>>
  BY CountDownDoes
<1> QED BY <1>3, <1>4, <1>5, TypesBy DEF TypeInv, MainType, StackType, ElementType, EngineType

LEMMA StartReadyDoes ==
  ASSUME TypeInv, NEW t \in Threads, StartReady(t)
  PROVE  /\ stack[t] # <<>> /\ Top(t).at = "succ" /\ Top(t).todo = {}
         /\ \E s \in Top(t).ready, g \in FrameSet :
              /\ g.e = Top(t).e /\ g.at = "succ" /\ g.todo = {} /\ g.ready = Top(t).ready \ {s}
              /\ Process(t, s, Top(t).ready = {s}, <<g>> \o Tail(stack[t]))
         /\ UNCHANGED <<conf, main, cur, repo, done, left, triggered, fut, engine, control, open,
                        ran, failed, stopped>>
<1> DEFINE f == Top(t)
           s == First(f.ready)
           g == [f EXCEPT !.ready = @ \ {s}]
<1>1. stack[t] # <<>> /\ f.at = "succ" /\ f.todo = {} /\ f.ready # {}
      /\ Process(t, s, f.ready = {s}, <<g>> \o Tail(stack[t]))
  BY DEF StartReady, At
<1>2. f \in FrameSet
  BY <1>1, TopIs
<1>3. s \in f.ready
  BY <1>1, FirstIn
<1>4. g \in FrameSet /\ g.e = f.e /\ g.at = "succ" /\ g.todo = {} /\ g.ready = f.ready \ {s}
  BY <1>1, <1>2 DEF FrameSet
<1>5. UNCHANGED <<conf, main, cur, repo, done, left, triggered, fut, engine, control, open, ran,
                  failed, stopped>>
  BY DEF StartReady
<1> HIDE DEF g, s
<1> QED BY <1>1, <1>3, <1>4, <1>5

LEMMA StartReadyTypes == ASSUME TypeInv, NEW t \in Threads, StartReady(t) PROVE TypeInv'
<1>1. PICK s \in Top(t).ready, g \in FrameSet :
        Process(t, s, Top(t).ready = {s}, <<g>> \o Tail(stack[t]))
  BY StartReadyDoes
<1>2. Tail(stack[t]) \in Seq(FrameSet) /\ Top(t) \in FrameSet
  BY StartReadyDoes, TopIs
<1>3. s \in Elements
  BY <1>2 DEF FrameSet
<1>4. <<g>> \o Tail(stack[t]) \in Seq(FrameSet)
  BY <1>2, SeqFacts
<1>5. StackType'
  BY <1>1, <1>3, <1>4, Processes DEF StackType
<1>6. UNCHANGED <<conf, main, cur, repo, done, left, triggered, fut, engine, control, open,
                  ran, failed, stopped>>
  BY StartReadyDoes
<1> QED BY <1>5, <1>6, TypesBy DEF TypeInv, MainType, ElementType, EngineType

LEMMA LeaveDoes ==
  ASSUME TypeInv, NEW t \in Threads, Leave(t)
  PROVE  /\ stack[t] # <<>> /\ Leaving(Top(t))
         /\ stack' \in [Threads -> Seq(FrameSet)] /\ stack'[t] = Tail(stack[t])
         /\ \A u \in Threads : u # t => stack'[u] = stack[u]
         /\ engine' = [engine EXCEPT !.finished = @ + IF Top(t).e \in Ends THEN 1 ELSE 0]
         /\ main' = main \/ (main.at = "blocked" /\ main' = [main EXCEPT !.at = "wait"])
         /\ UNCHANGED <<conf, tasks, cur, repo, done, left, triggered, fut, control, open, ran,
                        failed, stopped>>
<1>1. stack[t] # <<>> /\ Leaving(Top(t)) /\ stack' = [stack EXCEPT ![t] = Tail(@)]
  BY DEF Leave, At, Leaving
<1>2. /\ stack' \in [Threads -> Seq(FrameSet)] /\ stack'[t] = Tail(stack[t])
      /\ \A u \in Threads : u # t => stack'[u] = stack[u]
  BY <1>1, Drops
<1>3. engine' = [engine EXCEPT !.finished = @ + IF Top(t).e \in Ends THEN 1 ELSE 0]
  BY DEF Leave
<1>4. main' = main \/ (main.at = "blocked" /\ main' = [main EXCEPT !.at = "wait"])
  <2> DEFINE m == engine.finished + IF Top(t).e \in Ends THEN 1 ELSE 0
             w == Wakes(Top(t).e, m)
  <2>1. main' = IF w /\ main.at = "blocked" THEN [main EXCEPT !.at = "wait"] ELSE main
    BY DEF Leave
  <2> HIDE DEF w
  <2>2. CASE w /\ main.at = "blocked"
    <3>1. main' = [main EXCEPT !.at = "wait"]
      BY <2>1, <2>2
    <3> QED BY <2>2, <3>1
  <2>3. CASE ~(w /\ main.at = "blocked")
    <3>1. main' = main
      BY <2>1, <2>3
    <3> QED BY <3>1
  <2> QED BY <2>2, <2>3
<1>5. UNCHANGED <<conf, tasks, cur, repo, done, left, triggered, fut, control, open, ran,
                  failed, stopped>>
  BY DEF Leave
<1> QED BY <1>1, <1>2, <1>3, <1>4, <1>5

LEMMA LeaveTypes == ASSUME TypeInv, NEW t \in Threads, Leave(t) PROVE TypeInv'
<1>1. /\ stack' \in [Threads -> Seq(FrameSet)]
      /\ engine' = [engine EXCEPT !.finished = @ + IF Top(t).e \in Ends THEN 1 ELSE 0]
      /\ main' = main \/ (main.at = "blocked" /\ main' = [main EXCEPT !.at = "wait"])
      /\ UNCHANGED <<conf, tasks, cur, repo, done, left, triggered, fut, control, open, ran,
                     failed, stopped>>
  BY LeaveDoes
<1>2. MainType'
  BY <1>1 DEF TypeInv, MainType, MainPlaces
<1>3. engine' \in [alive : BOOLEAN, finished : Nat, runs : Nat, ok : BOOLEAN]
  <2>1. engine \in [alive : BOOLEAN, finished : Nat, runs : Nat, ok : BOOLEAN]
    BY DEF TypeInv, EngineType
  <2>2. engine.finished + (IF Top(t).e \in Ends THEN 1 ELSE 0) \in Nat
    BY <2>1
  <2> QED BY <1>1, <2>1, <2>2
<1> QED BY <1>1, <1>2, <1>3, TypesBy DEF TypeInv, StackType, ElementType, EngineType
-----------------------------------------------------------------------------
(* The steps of the pipeline thread and of the controller.                 *)
LEMMA SetStateDoes ==
  ASSUME TypeInv, NEW x \in Elements, NEW s \in States, SetState(x, s)
  PROVE  /\ cur' \in [Elements -> States]
         /\ stack' = stack \/ (\E t \in Threads : Moves(t))
<1>1. cur' \in [Elements -> States]
  BY DEF SetState, TypeInv, ElementType
<1>2. CASE UNCHANGED stack
  BY <1>1, <1>2
<1>3. CASE \E t \in Sleepers(x) : Move(t, "check")
  <2>1. PICK t \in Sleepers(x) : Move(t, "check")
    BY <1>3
  <2>2. t \in Threads /\ stack[t] # <<>> /\ Top(t).at = "asleep"
    BY DEF Sleepers, At
  <2>3. Moves(t)
    BY <2>1, <2>2, MoveStill DEF Places
  <2> QED BY <1>1, <2>2, <2>3
<1> QED BY <1>2, <1>3 DEF SetState

LEMMA StackAfter ==
  ASSUME TypeInv, tasks' = tasks, stack' = stack \/ (\E t \in Threads : Moves(t))
  PROVE  StackType'
<1>1. CASE stack' = stack
  BY <1>1 DEF TypeInv, StackType
<1>2. CASE \E t \in Threads : Moves(t)
  <2>1. PICK t \in Threads : Moves(t)
    BY <1>2
  <2>2. stack' \in [Threads -> Seq(FrameSet)]
    BY <2>1, Went DEF Moves
  <2> QED BY <2>2 DEF TypeInv, StackType
<1> QED BY <1>1, <1>2

LEMMA InitTypesHold == ASSUME TypeInv, MainInit PROVE TypeInv'
<1>1. main' = [main EXCEPT !.at = "test"] /\ MainType'
  BY DEF MainInit, TypeInv, MainType, MainPlaces
<1>2. repo' = "kNormal" /\ cur' = [e \in Elements |-> "kNormal"] /\ open' = TRUE
      /\ engine' = [alive |-> TRUE, finished |-> 0, runs |-> 0, ok |-> TRUE]
      /\ triggered' = [e \in Elements |-> FALSE]
      /\ UNCHANGED <<conf, stack, tasks, done, left, fut, control, ran, failed, stopped>>
  BY DEF MainInit, InitEnv, InitEngine, InitElements, PoolSetup, PreSetup
<1>3. ElementType'
  BY <1>2 DEF TypeInv, ElementType, States
<1>4. EngineType'
  BY <1>2 DEF TypeInv, EngineType
<1> QED BY <1>1, <1>2, <1>3, <1>4, TypesBy DEF TypeInv, StackType

(* Only main and, possibly, the repository change.                         *)
LEMMA MainOnly ==
  ASSUME TypeInv, MainType', repo' \in States,
         UNCHANGED <<conf, stack, tasks, cur, done, left, triggered, fut, engine, control, open,
                     ran, failed, stopped>>
  PROVE  TypeInv'
<1>1. ElementType'
  BY DEF TypeInv, ElementType
<1> QED BY <1>1, TypesBy DEF TypeInv, StackType, EngineType

LEMMA TestTypes == ASSUME TypeInv, MainTest PROVE TypeInv'
<1> DEFINE n == RunsLeft(main.left)
           p == IF RunAgain THEN "setup" ELSE "destroy"
<1>1. main' = [main EXCEPT !.at = p, !.left = n]
  BY DEF MainTest
<1>2. conf.runs \in Nat
  BY ConfIs DEF IsConfig
<1>3. main.left \in 0..conf.runs
  BY DEF TypeInv, MainType
<1>4. n \in 0..conf.runs
  BY <1>2, <1>3 DEF RunsLeft
<1>5. p \in MainPlaces
  BY DEF MainPlaces
<1>6. conf' = conf
  BY DEF MainTest
<1> HIDE DEF n, p
<1>7. MainType'
  BY <1>1, <1>4, <1>5, <1>6 DEF TypeInv, MainType
<1> QED BY <1>7, MainOnly DEF MainTest, TypeInv, ElementType

LEMMA PullBeginTypes ==
  ASSUME TypeInv, NEW at, NEW s \in States, NEW p \in MainPlaces, NEW q \in MainPlaces,
         MainPullBegin(at, s, p, q)
  PROVE  TypeInv'
<1>1. \/ main' = [main EXCEPT !.at = q]
      \/ main' = [main EXCEPT !.at = p, !.todo = Elements]
  BY DEF MainPullBegin
<1>2. MainType'
  BY <1>1 DEF TypeInv, MainType, MainPullBegin
<1>3. repo' \in States
  BY DEF MainPullBegin, TypeInv, ElementType
<1> QED BY <1>2, <1>3, MainOnly DEF MainPullBegin

LEMMA PullTypes ==
  ASSUME TypeInv, NEW at, NEW s \in States, NEW q \in MainPlaces, MainPull(at, s, q)
  PROVE  TypeInv' /\ (stack' = stack \/ (\E t \in Threads : Moves(t)))
<1> DEFINE x == First(main.todo)
<1>1. SetState(x, s) /\ main.todo # {}
  BY DEF MainPull
<1>2. x \in main.todo
  BY <1>1, FirstIn
<1>3. x \in Elements
  BY <1>2 DEF TypeInv, MainType
<1>4. cur' \in [Elements -> States] /\ (stack' = stack \/ (\E t \in Threads : Moves(t)))
  BY <1>1, <1>3, SetStateDoes
<1>5. UNCHANGED <<conf, tasks, repo, done, left, triggered, fut, engine, control, open, ran,
                  failed, stopped>>
  BY DEF MainPull
<1>6. StackType'
  BY <1>4, <1>5, StackAfter
<1>7. main' = [main EXCEPT !.todo = @ \ {x}, !.at = IF main.todo = {x} THEN q ELSE @]
  BY DEF MainPull
<1>8. MainType'
  BY <1>5, <1>7 DEF TypeInv, MainType
<1>9. ElementType'
  BY <1>4, <1>5 DEF TypeInv, ElementType
<1> QED BY <1>4, <1>5, <1>6, <1>8, <1>9, TypesBy DEF TypeInv, EngineType

LEMMA BeforeTypes == ASSUME TypeInv, MainBefore PROVE TypeInv'
<1>1. Fronts \subseteq Elements
  BY GraphIs
<1>2. MainType'
  BY <1>1 DEF MainBefore, TypeInv, MainType, MainPlaces, Verdicts
<1>3. DependSizes \in [Elements -> 0..(DependModulus - 1)]
  BY GraphIs
<1>4. ElementType'
  BY <1>3 DEF MainBefore, TypeInv, ElementType
<1>5. EngineType'
  BY DEF MainBefore, TypeInv, EngineType
<1> QED BY <1>2, <1>4, <1>5, TypesBy DEF MainBefore, TypeInv, StackType

LEMMA FrontsDoes ==
  ASSUME TypeInv, MainFronts
  PROVE  /\ main.at = "fronts" /\ stack[Main] = <<>>
         /\ \E e \in main.todo : /\ main' = [main EXCEPT !.todo = @ \ {e}]
                                 /\ Process(Main, e, main.todo = {e}, <<>>)
         /\ UNCHANGED <<conf, cur, repo, done, left, triggered, fut, engine, control, open, ran,
                        failed, stopped>>
<1> DEFINE e == First(main.todo)
<1>1. main.todo # {} /\ main' = [main EXCEPT !.todo = @ \ {e}]
      /\ Process(Main, e, main.todo = {e}, <<>>)
  BY DEF MainFronts
<1>2. e \in main.todo
  BY <1>1, FirstIn
<1>3. main.at = "fronts" /\ stack[Main] = <<>>
      /\ UNCHANGED <<conf, cur, repo, done, left, triggered, fut, engine, control, open, ran,
                     failed, stopped>>
  BY DEF MainFronts
<1> HIDE DEF e
<1> QED BY <1>1, <1>2, <1>3

LEMMA FrontsTypes == ASSUME TypeInv, MainFronts PROVE TypeInv'
<1>1. PICK e \in main.todo : /\ main' = [main EXCEPT !.todo = @ \ {e}]
                             /\ Process(Main, e, main.todo = {e}, <<>>)
  BY FrontsDoes
<1>2. e \in Elements /\ Main \in Threads
  BY GraphIs DEF TypeInv, MainType
<1>3. <<>> \in Seq(FrameSet)
  OBVIOUS
<1>4. StackType'
  BY <1>1, <1>2, <1>3, Processes DEF StackType
<1>5. UNCHANGED <<conf, cur, repo, done, left, triggered, fut, engine, control, open, ran,
                  failed, stopped>>
  BY FrontsDoes
<1>6. MainType'
  BY <1>1, <1>5 DEF TypeInv, MainType
<1> QED BY <1>4, <1>5, <1>6, TypesBy DEF TypeInv, ElementType, EngineType

LEMMA WaitTypes == ASSUME TypeInv, MainWait \/ MainSpuriousWakeup PROVE TypeInv'
<1>1. \E p \in {"verdict", "blocked", "wait"} : main' = [main EXCEPT !.at = p]
  BY DEF MainWait, MainSpuriousWakeup
<1>2. UNCHANGED <<conf, stack, tasks, cur, repo, done, left, triggered, fut, engine, control, open,
                  ran, failed, stopped>>
  BY DEF MainWait, MainSpuriousWakeup
<1>3. MainType'
  BY <1>1, <1>2 DEF TypeInv, MainType, MainPlaces
<1> QED BY <1>2, <1>3, MainOnly DEF TypeInv, ElementType

LEMMA VerdictTypes == ASSUME TypeInv, MainVerdict PROVE TypeInv'
<1>1. main' = [main EXCEPT !.at = "reset", !.todo = AsyncElements, !.verdict = RunStatus,
                           !.reset = TRUE]
      /\ failed' = (failed \/ RunStatus = "error")
      /\ UNCHANGED <<conf, stack, tasks, cur, repo, done, left, triggered, fut, engine, control,
                     open, ran, stopped>>
  BY DEF MainVerdict
<1>2. RunStatus \in Verdicts /\ AsyncElements \subseteq Elements
  BY DEF RunStatus, Verdicts, AsyncElements
<1>3. MainType'
  BY <1>1, <1>2 DEF TypeInv, MainType, MainPlaces
<1>4. EngineType'
  BY <1>1 DEF TypeInv, EngineType
<1> QED BY <1>1, <1>3, <1>4, TypesBy DEF TypeInv, StackType, ElementType

LEMMA ResetTypes == ASSUME TypeInv, MainReset PROVE TypeInv'
<1> DEFINE x == First(main.todo)
           p == IF Holds(x) /\ fut[x].st = "crash" THEN "thrown" ELSE main.at
           r == main.reset /\ (Holds(x) => fut[x].st \in {"none", "ok"})
<1>1. main' = [main EXCEPT !.todo = @ \ {x}, !.at = p, !.reset = r]
  BY DEF MainReset
<1>2. p \in MainPlaces /\ r \in BOOLEAN
  BY DEF MainPlaces, TypeInv, MainType
<1> HIDE DEF p, r
<1>3. UNCHANGED <<conf, stack, tasks, repo, done, left, triggered, engine, control, open, ran,
                  failed, stopped>>
  BY DEF MainReset
<1>4. MainType'
  BY <1>1, <1>2, <1>3 DEF TypeInv, MainType
<1>5. fut' \in [Elements -> [n : Nat, st : Results]]
  <2>1. fut \in [Elements -> [n : Nat, st : Results]]
    BY DEF TypeInv, ElementType
  <2>2. fut' = fut \/ fut' = [fut EXCEPT ![x].st = "none"]
    BY DEF MainReset
  <2> QED BY <2>1, <2>2 DEF Results
<1>6. cur' \in [Elements -> States]
  <2>1. cur \in [Elements -> States]
    BY DEF TypeInv, ElementType
  <2>2. cur' = cur \/ cur' = [cur EXCEPT ![x] = "kNormal"]
    BY DEF MainReset
  <2> QED BY <2>1, <2>2 DEF States
<1>7. ElementType'
  BY <1>3, <1>5, <1>6 DEF TypeInv, ElementType
<1> QED BY <1>3, <1>4, <1>7, TypesBy DEF TypeInv, StackType, EngineType

LEMMA ReturnTypes == ASSUME TypeInv, MainReturn PROVE TypeInv'
<1> DEFINE r == main.ok /\ main.reset
<1>1. main' = [main EXCEPT !.at = "test", !.ok = r]
  BY DEF MainReturn
<1>2. r \in BOOLEAN
  OBVIOUS
<1> HIDE DEF r
<1>3. UNCHANGED <<conf, stack, tasks, cur, repo, done, left, triggered, fut, engine, control, open,
                  ran, failed, stopped>>
  BY DEF MainReturn
<1>4. MainType'
  BY <1>1, <1>2, <1>3 DEF TypeInv, MainType, MainPlaces
<1> QED BY <1>3, <1>4, MainOnly DEF TypeInv, ElementType

LEMMA EndTypes == ASSUME TypeInv, MainDestroy \/ MainJoin PROVE TypeInv'
<1>1. MainType'
  BY DEF MainDestroy, MainJoin, TypeInv, MainType, MainPlaces
<1>2. ElementType'
  BY DEF MainDestroy, MainJoin, TypeInv, ElementType
<1>3. EngineType'
  BY DEF MainDestroy, MainJoin, TypeInv, EngineType
<1> QED BY <1>1, <1>2, <1>3, TypesBy DEF MainDestroy, MainJoin, TypeInv, StackType

LEMMA ControlTypes ==
  ASSUME TypeInv, Pull \/ (\E s \in Controls : Call(s))
  PROVE  TypeInv' /\ (stack' = stack \/ (\E t \in Threads : Moves(t)))
<1>1. ASSUME Pull PROVE TypeInv' /\ (stack' = stack \/ (\E t \in Threads : Moves(t)))
  <2> DEFINE x == First(control.todo)
  <2>1. control.todo # {} /\ SetState(x, control.state)
    BY <1>1 DEF Pull
  <2>2. x \in control.todo
    BY <2>1, FirstIn
  <2>3. x \in Elements /\ control.state \in States
    BY <2>2 DEF TypeInv, EngineType
  <2>4. cur' \in [Elements -> States] /\ (stack' = stack \/ (\E t \in Threads : Moves(t)))
    BY <2>1, <2>3, SetStateDoes
  <2>5. UNCHANGED <<conf, main, tasks, repo, done, left, triggered, fut, engine, open, ran,
                    failed, stopped>> /\ control' = [control EXCEPT !.todo = @ \ {x}]
    BY <1>1 DEF Pull
  <2>6. StackType'
    BY <2>4, <2>5, StackAfter
  <2>7. ElementType'
    BY <2>4, <2>5 DEF TypeInv, ElementType
  <2>8. EngineType'
    BY <2>5 DEF TypeInv, EngineType
  <2> QED BY <2>4, <2>5, <2>6, <2>7, <2>8, TypesBy DEF TypeInv, MainType
<1>2. ASSUME NEW s \in Controls, Call(s)
      PROVE  TypeInv' /\ (stack' = stack \/ (\E t \in Threads : Moves(t)))
  <2>1. s \in States
    BY GraphAssumption DEF States
  <2>2. UNCHANGED <<conf, main, stack, tasks, cur, done, left, triggered, fut, engine, open, ran,
                    failed>>
        /\ repo' = s /\ stopped' = (stopped \/ s # "kNormal")
        /\ control' = [state |-> s, todo |-> IF repo = s THEN {} ELSE Elements,
                       calls |-> control.calls + 1]
    BY <1>2 DEF Call
  <2>3. control' \in [state : States, todo : SUBSET Elements, calls : Nat]
    BY <2>1, <2>2 DEF TypeInv, EngineType
  <2>4. ElementType'
    BY <2>1, <2>2 DEF TypeInv, ElementType
  <2>5. EngineType'
    BY <2>2, <2>3 DEF TypeInv, EngineType
  <2> QED BY <2>2, <2>4, <2>5, TypesBy DEF TypeInv, MainType, StackType
<1> QED BY <1>1, <1>2
-----------------------------------------------------------------------------
(* The kinds of steps a thread takes.                                      *)
LEMMA ThreadKinds ==
  ASSUME TypeInv, NEW t \in Threads, ThreadStep(t) \/ SpuriousWakeup(t)
  PROVE  \/ Still(t) \/ Take(t) \/ RunAsync(t) \/ Finish(t) \/ CountDown(t) \/ StartReady(t)
         \/ Leave(t)
BY StartStill, NextRoundStill, RunUserStill, RunFenceStill, AwaitReadyStill, AwaitTimeoutStill,
   CheckYieldStill, HoldAsyncStill, DozeStill DEF ThreadStep

LEMMA ThreadTypes ==
  ASSUME TypeInv, NEW t \in Threads, ThreadStep(t) \/ SpuriousWakeup(t)
  PROVE  TypeInv'
BY ThreadKinds, StillTypes, TakeTypes, RunAsyncTypes, FinishTypes, CountDownTypes,
   StartReadyTypes, LeaveTypes

LEMMA MainTypes ==
  ASSUME TypeInv, MainStep \/ MainSpuriousWakeup
  PROVE  TypeInv'
<1>1. CASE MainInit
  BY <1>1, InitTypesHold
<1>2. CASE MainTest
  BY <1>2, TestTypes
<1>3. CASE MainSetup
  BY <1>3, PullBeginTypes DEF MainSetup, States, MainPlaces
<1>4. CASE MainExit
  BY <1>4, PullBeginTypes DEF MainExit, States, MainPlaces
<1>5. CASE MainSetting
  BY <1>5, PullTypes DEF MainSetting, States, MainPlaces
<1>6. CASE MainExiting
  BY <1>6, PullTypes DEF MainExiting, States, MainPlaces
<1>7. CASE MainBefore \/ MainFronts
  BY <1>7, BeforeTypes, FrontsTypes
<1>8. CASE MainWait \/ MainSpuriousWakeup
  BY <1>8, WaitTypes
<1>9. CASE MainVerdict \/ MainReset \/ MainReturn
  BY <1>9, VerdictTypes, ResetTypes, ReturnTypes
<1>10. CASE MainDestroy \/ MainJoin
  BY <1>10, EndTypes
<1> QED BY <1>1, <1>2, <1>3, <1>4, <1>5, <1>6, <1>7, <1>8, <1>9, <1>10 DEF MainStep

LEMMA TypeStep == ASSUME TypeInv, [Next]_vars PROVE TypeInv'
<1>1. CASE UNCHANGED vars
  BY <1>1 DEF vars, TypeInv, MainType, StackType, ElementType, EngineType
<1>2. CASE \E t \in Threads : ThreadStep(t) \/ SpuriousWakeup(t)
  BY <1>2, ThreadTypes
<1>3. CASE MainStep \/ MainSpuriousWakeup
  BY <1>3, MainTypes
<1>4. CASE Pull \/ (\E s \in Controls : Call(s))
  BY <1>4, ControlTypes
<1> QED BY <1>1, <1>2, <1>3, <1>4 DEF Next

LEMMA TypesAgree == ASSUME TypeInv PROVE TypeOK
<1>1. ASSUME NEW t \in Threads, NEW i \in 1..Len(stack[t])
      PROVE  stack[t][i] \in FrameSet
  BY DEF TypeInv, StackType
<1>2. /\ main.at \in MainPlaces /\ main.todo \subseteq Elements /\ main.left \in 0..conf.runs
  BY DEF TypeInv, MainType
<1> QED BY <1>1, <1>2 DEF TypeInv, TypeOK, MainPlaces, FrameSet, ElementType
-----------------------------------------------------------------------------
(* Calls: what is true of the frames of a thread.                          *)
LEMMA GraphStays ==
  ASSUME conf' = conf
  PROVE  /\ \A e : RunBefore(e)' = RunBefore(e)
         /\ Ends' = Ends /\ Fronts' = Fronts /\ DependSizes' = DependSizes
         /\ \A f : Low(f)' = Low(f) /\ FrameInv(f)' = FrameInv(f)
         /\ \A s : Below(s)' = Below(s)
BY DEF RunBefore, Ends, Fronts, DependSizes, Low, Leaving, FrameInv, Below

LEMMA BelowFacts ==
  ASSUME NEW s \in Seq(FrameSet), NEW g \in FrameSet, Below(s)
  PROVE  /\ Low(g) => Below(<<g>> \o s)
         /\ s # <<>> => Low(Head(s)) /\ Below(Tail(s))
<1>1. ASSUME Low(g) PROVE Below(<<g>> \o s)
  <2> SUFFICES ASSUME NEW i \in DOMAIN (<<g>> \o s) PROVE Low((<<g>> \o s)[i])
    BY DEF Below
  <2>1. \/ (<<g>> \o s)[i] = g
        \/ (i - 1 \in DOMAIN s /\ (<<g>> \o s)[i] = s[i - 1])
    OBVIOUS
  <2> QED BY <1>1, <2>1 DEF Below
<1>2. ASSUME s # <<>> PROVE Low(Head(s)) /\ Below(Tail(s))
  <2>1. 1 \in DOMAIN s /\ Head(s) = s[1]
    BY <1>2
  <2>2. ASSUME NEW i \in DOMAIN Tail(s) PROVE i + 1 \in DOMAIN s /\ Tail(s)[i] = s[i + 1]
    BY <1>2
  <2> QED BY <2>1, <2>2 DEF Below
<1> QED BY <1>1, <1>2

LEMMA StaysElsewhere ==
  ASSUME conf' = conf, NEW t \in Threads, \A u \in Threads : u # t => stack'[u] = stack[u],
         \A u \in Threads : ThreadInv(u), ThreadInv(t)'
  PROVE  \A u \in Threads : ThreadInv(u)'
<1> SUFFICES ASSUME NEW u \in Threads, u # t PROVE ThreadInv(u)'
  OBVIOUS
<1>1. stack'[u] = stack[u] /\ ThreadInv(u)
  OBVIOUS
<1> QED BY <1>1, GraphStays DEF ThreadInv, Top

LEMMA MovesCalls ==
  ASSUME TypeInv, StackInv, conf' = conf, NEW t \in Threads, Moves(t)
  PROVE  \A u \in Threads : ThreadInv(u)'
<1>1. PICK g \in FrameSet : /\ Goto(t, g) /\ g.at \notin {"async", "succ"}
                            /\ g.e = Top(t).e /\ g.ready = Top(t).ready
  BY DEF Moves
<1>2. stack[t] # <<>> /\ Top(t).at # "succ"
  BY DEF Moves
<1>3. Head(stack'[t]) = g /\ Tail(stack'[t]) = Tail(stack[t])
      /\ \A u \in Threads : u # t => stack'[u] = stack[u]
  BY <1>1, <1>2, Went
<1>4. FrameInv(Top(t)) /\ Below(Tail(stack[t]))
  BY <1>2 DEF StackInv, ThreadInv
<1>5. FrameInv(g)
  BY <1>1, <1>2, <1>4 DEF FrameInv
<1>6. ThreadInv(t)'
  BY <1>3, <1>4, <1>5, GraphStays DEF ThreadInv, Top
<1> QED BY <1>3, <1>6, StaysElsewhere DEF StackInv

(* A thread that drops its active frame: the next has nothing left to do.  *)
LEMMA DropsCalls ==
  ASSUME TypeInv, StackInv, conf' = conf, NEW t \in Threads, stack[t] # <<>>,
         stack'[t] = Tail(stack[t]), \A u \in Threads : u # t => stack'[u] = stack[u]
  PROVE  /\ \A u \in Threads : ThreadInv(u)'
         /\ stack'[t] # <<>> => Low(Head(stack'[t]))
<1>1. Below(Tail(stack[t])) /\ Tail(stack[t]) \in Seq(FrameSet)
  BY TopIs DEF StackInv, ThreadInv
<1>2. PICK q \in Seq(FrameSet) : q = Tail(stack[t])
  BY <1>1
<1>3. Top(t) \in FrameSet
  BY TopIs
<1>4. q # <<>> => Low(Head(q)) /\ Below(Tail(q))
  BY <1>1, <1>2, <1>3, BelowFacts
<1>5. \A f : Low(f) => FrameInv(f)
  BY DEF Low, Leaving, FrameInv
<1>6. ThreadInv(t)'
  BY <1>2, <1>4, <1>5, GraphStays DEF ThreadInv, Top
<1> QED BY <1>2, <1>4, <1>6, StaysElsewhere DEF StackInv

LEMMA ProcessCalls ==
  ASSUME TypeInv, StackInv, conf' = conf, NEW t \in Threads, NEW g \in Seq(FrameSet),
         NEW e \in Elements,
         stack'[t] = g \/ stack'[t] = <<Frame(e, "start")>> \o g,
         \A u \in Threads : u # t => stack'[u] = stack[u],
         g # <<>> => FrameInv(Head(g)) /\ Below(Tail(g)),
         stack'[t] # g => Below(g)
  PROVE  \A u \in Threads : ThreadInv(u)'
<1>1. CASE stack'[t] = g
  <2>1. ThreadInv(t)'
    BY <1>1, GraphStays DEF ThreadInv, Top
  <2> QED BY <2>1, StaysElsewhere DEF StackInv
<1>2. CASE stack'[t] # g
  <2> DEFINE f == Frame(e, "start")
  <2>1. f \in FrameSet
    BY FrameMakes DEF Places
  <2>2. stack'[t] = <<f>> \o g
    BY <1>2
  <2>3. Head(<<f>> \o g) = f /\ Tail(<<f>> \o g) = g
    BY <2>1, SeqFacts
  <2>4. FrameInv(f)
    BY DEF FrameInv, Frame
  <2> HIDE DEF f
  <2>5. ThreadInv(t)'
    BY <1>2, <2>2, <2>3, <2>4, GraphStays DEF ThreadInv, Top
  <2> QED BY <2>5, StaysElsewhere DEF StackInv
<1> QED BY <1>1, <1>2
LEMMA TakeCalls ==
  ASSUME TypeInv, StackInv, NEW t \in Threads, Take(t)
  PROVE  \A u \in Threads : ThreadInv(u)'
<1>1. conf' = conf /\ \A u \in Threads : u # t => stack'[u] = stack[u]
  BY TakeDoes DEF Take
<1>2. PICK k \in tasks, g \in FrameSet :
        /\ stack'[t] = <<g>> /\ g.ready = {}
        /\ g.at = IF k.kind = "exec" THEN "start" ELSE "async"
  BY TakeDoes
<1>3. Head(<<g>>) = g /\ Tail(<<g>>) = <<>>
  OBVIOUS
<1>4. FrameInv(g) /\ Below(<<>>)
  BY <1>2 DEF FrameInv, Below
<1>5. ThreadInv(t)'
  BY <1>1, <1>2, <1>3, <1>4, GraphStays DEF ThreadInv, Top
<1> QED BY <1>1, <1>5, StaysElsewhere DEF StackInv

(* A thread whose active frame becomes another one.                        *)
LEMMA WentCalls ==
  ASSUME TypeInv, StackInv, conf' = conf, NEW t \in Threads, stack[t] # <<>>,
         NEW g \in FrameSet, Goto(t, g), FrameInv(g)
  PROVE  \A u \in Threads : ThreadInv(u)'
<1>1. Head(stack'[t]) = g /\ Tail(stack'[t]) = Tail(stack[t])
      /\ \A u \in Threads : u # t => stack'[u] = stack[u]
  BY Went
<1>2. Below(Tail(stack[t]))
  BY DEF StackInv, ThreadInv
<1>3. ThreadInv(t)'
  BY <1>1, <1>2, GraphStays DEF ThreadInv, Top
<1> QED BY <1>1, <1>3, StaysElsewhere DEF StackInv

LEMMA FinishCalls ==
  ASSUME TypeInv, StackInv, NEW t \in Threads, Finish(t)
  PROVE  \A u \in Threads : ThreadInv(u)'
<1>1. stack[t] # <<>> /\ Top(t).at = "finish" /\ conf' = conf
  BY FinishDoes
<1>2. PICK g \in FrameSet : /\ Goto(t, g) /\ g.e = Top(t).e /\ g.at = "succ"
                            /\ g.todo = RunBefore(Top(t).e) /\ g.ready = Top(t).ready
  BY FinishDoes
<1>3. FrameInv(Top(t))
  BY <1>1 DEF StackInv, ThreadInv
<1>4. FrameInv(g)
  BY <1>1, <1>2, <1>3 DEF FrameInv
<1> QED BY <1>1, <1>2, <1>4, WentCalls

LEMMA CountDownCalls ==
  ASSUME TypeInv, StackInv, NEW t \in Threads, CountDown(t)
  PROVE  \A u \in Threads : ThreadInv(u)'
<1>1. stack[t] # <<>> /\ Top(t).at = "succ" /\ conf' = conf
  BY CountDownDoes
<1>2. PICK s \in Top(t).todo, n \in 0..(DependModulus - 1), g \in FrameSet :
              /\ n = (left[s] + DependModulus - 1) % DependModulus
              /\ left' = [left EXCEPT ![s] = n]
              /\ Goto(t, g) /\ g.e = Top(t).e /\ g.at = "succ" /\ g.todo = Top(t).todo \ {s}
              /\ g.ready = IF n = 0 THEN Top(t).ready \cup {s} ELSE Top(t).ready
  BY CountDownDoes
<1>3. FrameInv(Top(t))
  BY <1>1 DEF StackInv, ThreadInv
<1>4. FrameInv(g)
  BY <1>1, <1>2, <1>3 DEF FrameInv
<1> QED BY <1>1, <1>2, <1>4, WentCalls

LEMMA StartReadyCalls ==
  ASSUME TypeInv, StackInv, NEW t \in Threads, StartReady(t)
  PROVE  \A u \in Threads : ThreadInv(u)'
<1>1. stack[t] # <<>> /\ Top(t).at = "succ" /\ Top(t).todo = {} /\ conf' = conf
  BY StartReadyDoes
<1>2. PICK s \in Top(t).ready, g \in FrameSet :
              /\ g.e = Top(t).e /\ g.at = "succ" /\ g.todo = {} /\ g.ready = Top(t).ready \ {s}
              /\ Process(t, s, Top(t).ready = {s}, <<g>> \o Tail(stack[t]))
  BY StartReadyDoes
<1>3. FrameInv(Top(t)) /\ Below(Tail(stack[t]))
  BY <1>1 DEF StackInv, ThreadInv
<1>4. FrameInv(g)
  BY <1>1, <1>2, <1>3 DEF FrameInv
<1>5. Tail(stack[t]) \in Seq(FrameSet) /\ Top(t) \in FrameSet
  BY <1>1, TopIs
<1>6. s \in Elements
  BY <1>5 DEF FrameSet
<1>7. PICK h \in Seq(FrameSet) : h = <<g>> \o Tail(stack[t]) /\ Head(h) = g
                                 /\ Tail(h) = Tail(stack[t])
  BY <1>5, SeqFacts
<1>8. /\ \A u \in Threads : u # t => stack'[u] = stack[u]
      /\ stack'[t] = h \/ (stack'[t] = <<Frame(s, "start")>> \o h /\ Top(t).ready = {s})
  <2>1. PICK last \in BOOLEAN : last = (Top(t).ready = {s})
    OBVIOUS
  <2>2. Process(t, s, last, h)
    BY <1>2, <1>7, <2>1
  <2> QED BY <1>6, <2>1, <2>2, Processes
<1>9. ASSUME Top(t).ready = {s} PROVE Below(h)
  <2>1. s \in RunBefore(g.e)
    BY <1>1, <1>2, <1>3 DEF FrameInv
  <2>2. Low(g)
    BY <1>2, <1>9, <2>1 DEF Low, Leaving, Ends
  <2> QED BY <1>3, <1>5, <1>7, <2>2, BelowFacts
<1> QED BY <1>1, <1>3, <1>4, <1>6, <1>7, <1>8, <1>9, ProcessCalls

LEMMA FrontsCalls ==
  ASSUME TypeInv, StackInv, MainFronts
  PROVE  StackInv'
<1>1. main.at = "fronts" /\ stack[Main] = <<>> /\ conf' = conf
  BY FrontsDoes
<1>2. PICK e \in main.todo : /\ main' = [main EXCEPT !.todo = @ \ {e}]
                             /\ Process(Main, e, main.todo = {e}, <<>>)
  BY FrontsDoes
<1>3. e \in Elements /\ Main \in Threads /\ <<>> \in Seq(FrameSet)
  BY GraphIs DEF TypeInv, MainType
<1>4. PICK h \in Seq(FrameSet) : h = <<>>
  BY <1>3
<1>5. /\ \A u \in Threads : u # Main => stack'[u] = stack[u]
      /\ stack'[Main] = h \/ (stack'[Main] = <<Frame(e, "start")>> \o h /\ main.todo = {e})
  BY <1>2, <1>3, <1>4, Processes
<1>6. Below(h)
  BY <1>4 DEF Below
<1>7. \A u \in Threads : ThreadInv(u)'
  BY <1>1, <1>3, <1>4, <1>5, <1>6, ProcessCalls
<1>8. main'.at = "fronts" /\ main'.todo = main.todo \ {e}
  BY <1>1, <1>2 DEF TypeInv, MainType
<1>9. MainInv'
  BY <1>4, <1>5, <1>8 DEF MainInv
<1> QED BY <1>7, <1>9 DEF StackInv

(* Main has no calls but while it runs the last front.                     *)
LEMMA ThreadCalls ==
  ASSUME TypeInv, StackInv, NEW t \in Threads, ThreadStep(t) \/ SpuriousWakeup(t)
  PROVE  StackInv'
<1>1. \/ Still(t) \/ Take(t) \/ RunAsync(t) \/ Finish(t) \/ CountDown(t) \/ StartReady(t)
      \/ Leave(t)
  BY ThreadKinds
<1>2. ASSUME Still(t)
      PROVE  (\A u \in Threads : ThreadInv(u)') /\ main' = main /\ stack[t] # <<>>
             /\ \A u \in Threads : u # t => stack'[u] = stack[u]
  BY <1>2, MovesCalls, Went DEF Still, Moves
<1>3. ASSUME Take(t)
      PROVE  (\A u \in Threads : ThreadInv(u)') /\ main' = main /\ t \in conf.threads
             /\ \A u \in Threads : u # t => stack'[u] = stack[u]
  BY <1>3, TakeCalls, TakeDoes DEF Take
<1>4. ASSUME RunAsync(t)
      PROVE  (\A u \in Threads : ThreadInv(u)') /\ main' = main /\ stack[t] # <<>>
             /\ \A u \in Threads : u # t => stack'[u] = stack[u]
  BY <1>4, DropsCalls, Drops DEF RunAsync, At
<1>5. ASSUME Finish(t)
      PROVE  (\A u \in Threads : ThreadInv(u)') /\ main' = main /\ stack[t] # <<>>
             /\ \A u \in Threads : u # t => stack'[u] = stack[u]
  BY <1>5, FinishCalls, FinishDoes, Went
<1>6. ASSUME CountDown(t)
      PROVE  (\A u \in Threads : ThreadInv(u)') /\ main' = main /\ stack[t] # <<>>
             /\ \A u \in Threads : u # t => stack'[u] = stack[u]
  BY <1>6, CountDownCalls, CountDownDoes, Went
<1>7. ASSUME StartReady(t)
      PROVE  (\A u \in Threads : ThreadInv(u)') /\ main' = main /\ stack[t] # <<>>
             /\ \A u \in Threads : u # t => stack'[u] = stack[u]
  <2>1. \A u \in Threads : u # t => stack'[u] = stack[u]
    BY <1>7, StartReadyDoes DEF Process, TypeInv, StackType
  <2> QED BY <1>7, <2>1, StartReadyCalls, StartReadyDoes
<1>8. ASSUME Leave(t)
      PROVE  (\A u \in Threads : ThreadInv(u)') /\ stack[t] # <<>>
             /\ (main' = main \/ (main.at = "blocked" /\ main' = [main EXCEPT !.at = "wait"]))
             /\ \A u \in Threads : u # t => stack'[u] = stack[u]
  BY <1>8, DropsCalls, LeaveDoes
<1>9. /\ \A u \in Threads : ThreadInv(u)'
      /\ \A u \in Threads : u # t => stack'[u] = stack[u]
      /\ stack[t] # <<>> \/ t \in conf.threads
  <2>1. CASE Still(t) \/ Take(t) \/ RunAsync(t)
    BY <2>1, <1>2, <1>3, <1>4
  <2>2. CASE Finish(t) \/ CountDown(t) \/ StartReady(t) \/ Leave(t)
    BY <2>2, <1>5, <1>6, <1>7, <1>8
  <2> QED BY <1>1, <2>1, <2>2
<1>10. main' = main \/ (main.at = "blocked" /\ main' = [main EXCEPT !.at = "wait"])
  BY <1>1, <1>2, <1>3, <1>4, <1>5, <1>6, <1>7, <1>8
<1>11. MainInv'
  <2>1. Main \notin conf.threads /\ Main \in Threads
    BY GraphIs, GraphAssumption
  <2>2. ASSUME stack'[Main] # <<>> PROVE stack[Main] # <<>>
    BY <2>1, <2>2, <1>9
  <2>3. ASSUME stack[Main] # <<>> PROVE main'.at = "fronts" /\ main'.todo = {}
    BY <2>3, <1>10 DEF StackInv, MainInv
  <2> QED BY <2>2, <2>3 DEF MainInv
<1> QED BY <1>9, <1>11 DEF StackInv

LEMMA SameCalls ==
  ASSUME TypeInv, StackInv, conf' = conf, stack' = stack \/ (\E t \in Threads : Moves(t)),
         stack[Main] # <<>> => main' = main
  PROVE  StackInv'
<1>1. \A u \in Threads : ThreadInv(u)'
  <2>1. CASE stack' = stack
    BY <2>1, GraphStays DEF StackInv, ThreadInv, Top
  <2>2. CASE \E t \in Threads : Moves(t)
    BY <2>2, MovesCalls
  <2> QED BY <2>1, <2>2
<1>2. stack'[Main] # <<>> => stack[Main] # <<>>
  <2>1. CASE stack' = stack
    BY <2>1
  <2>2. CASE \E t \in Threads : Moves(t)
    <3>1. PICK t \in Threads : Moves(t)
      BY <2>2
    <3>2. stack[t] # <<>> /\ \A u \in Threads : u # t => stack'[u] = stack[u]
      BY <3>1, Went DEF Moves
    <3> QED BY <3>2, GraphIs
  <2> QED BY <2>1, <2>2
<1>3. MainInv'
  BY <1>2 DEF StackInv, MainInv
<1> QED BY <1>1, <1>3 DEF StackInv

LEMMA StackStep == ASSUME TypeInv, StackInv, [Next]_vars PROVE StackInv'
<1>1. CASE UNCHANGED vars
  BY <1>1, SameCalls DEF vars
<1>2. CASE \E t \in Threads : ThreadStep(t) \/ SpuriousWakeup(t)
  BY <1>2, ThreadCalls
<1>3. CASE MainFronts
  BY <1>3, FrontsCalls
<1>4. CASE MainSetting \/ MainExiting
  <2>1. main.at # "fronts" /\ conf' = conf /\ (stack' = stack \/ (\E t \in Threads : Moves(t)))
    <3>1. CASE MainSetting
      <4>1. MainPull("setting", "kNormal", "before")
        BY <3>1 DEF MainSetting
      <4>2. "kNormal" \in States /\ "before" \in MainPlaces
        BY DEF States, MainPlaces
      <4>3. stack' = stack \/ (\E t \in Threads : Moves(t))
        BY <4>1, <4>2, PullTypes
      <4> QED BY <4>1, <4>3 DEF MainPull
    <3>2. CASE MainExiting
      <4>1. MainPull("exiting", "kCreate", "join")
        BY <3>2 DEF MainExiting
      <4>2. "kCreate" \in States /\ "join" \in MainPlaces
        BY DEF States, MainPlaces
      <4>3. stack' = stack \/ (\E t \in Threads : Moves(t))
        BY <4>1, <4>2, PullTypes
      <4> QED BY <4>1, <4>3 DEF MainPull
    <3> QED BY <1>4, <3>1, <3>2
  <2>2. stack[Main] = <<>>
    BY <2>1 DEF StackInv, MainInv
  <2> QED BY <2>1, <2>2, SameCalls
<1>5. CASE Pull \/ (\E s \in Controls : Call(s))
  <2>1. conf' = conf /\ main' = main
    BY <1>5 DEF Pull, Call
  <2>2. stack' = stack \/ (\E t \in Threads : Moves(t))
    BY <1>5, ControlTypes
  <2> QED BY <2>1, <2>2, SameCalls
<1>6. CASE \/ MainInit \/ MainTest \/ MainSetup \/ MainExit \/ MainBefore \/ MainWait
           \/ MainSpuriousWakeup \/ MainVerdict \/ MainReset \/ MainReturn \/ MainDestroy
           \/ MainJoin
  <2>1. conf' = conf /\ stack' = stack
    BY <1>6 DEF MainInit, MainTest, MainSetup, MainExit, MainPullBegin, MainBefore, MainWait,
                MainSpuriousWakeup, MainVerdict, MainReset, MainReturn, MainDestroy, MainJoin
  <2>2. main.at # "fronts" \/ stack[Main] = <<>>
    BY <1>6 DEF MainInit, MainTest, MainSetup, MainExit, MainPullBegin, MainBefore, MainWait,
                MainSpuriousWakeup, MainVerdict, MainReset, MainReturn, MainDestroy, MainJoin
  <2>3. stack[Main] = <<>>
    BY <2>2 DEF StackInv, MainInv
  <2> QED BY <2>1, <2>3, SameCalls
<1> QED BY <1>1, <1>2, <1>3, <1>4, <1>5, <1>6 DEF Next, MainStep
-----------------------------------------------------------------------------
(* Where an element is on its way.                                         *)
LEMMA ContentsAre ==
  /\ \A t \in Threads : /\ <<"run", t>> \in Containers /\ Contents(<<"run", t>>) = InRun(t)
                        /\ <<"ready", t>> \in Containers /\ Contents(<<"ready", t>>) = InReady(t)
  /\ <<"tasks", Main>> \in Containers /\ Contents(<<"tasks", Main>>) = InTasks
  /\ <<"fronts", Main>> \in Containers /\ Contents(<<"fronts", Main>>) = InFronts
BY DEF Containers, Contents

LEMMA ContainerKinds ==
  \A c \in Containers : \/ \E t \in Threads : c = <<"run", t>> \/ c = <<"ready", t>>
                        \/ c = <<"tasks", Main>> \/ c = <<"fronts", Main>>
BY DEF Containers

LEMMA ContentsThen ==
  /\ \A t \in Threads : /\ Contents(<<"run", t>>)' = InRun(t)'
                        /\ Contents(<<"ready", t>>)' = InReady(t)'
  /\ Contents(<<"tasks", Main>>)' = InTasks'
  /\ Contents(<<"fronts", Main>>)' = InFronts'
BY DEF Contents

(* What changes for one thread only.                                       *)
LEMMA ContentsElsewhere ==
  ASSUME conf' = conf, NEW u \in Threads, stack'[u] = stack[u]
  PROVE  /\ InRun(u)' = InRun(u) /\ InReady(u)' = InReady(u)
         /\ \A p, s : Owes(u, p, s)' <=> Owes(u, p, s)
         /\ Top(u)' = Top(u)
<1>1. Top(u)' = Top(u)
  BY DEF Top
<1>2. Ends' = Ends
  BY GraphStays
<1>3. Busy(u)' <=> Busy(u)
  BY <1>1, <1>2 DEF Busy, Leaving
<1> QED BY <1>1, <1>3 DEF InRun, InReady, Owes

LEMMA SameContents ==
  ASSUME \A t \in Threads : InRun(t)' = InRun(t) /\ InReady(t)' = InReady(t),
         InTasks' = InTasks, InFronts' = InFronts
  PROVE  \A c \in Containers : Contents(c)' = Contents(c)
<1> SUFFICES ASSUME NEW c \in Containers PROVE Contents(c)' = Contents(c)
  OBVIOUS
<1>1. CASE \E t \in Threads : c = <<"run", t>> \/ c = <<"ready", t>>
  BY <1>1, ContentsAre, ContentsThen
<1>2. CASE c = <<"tasks", Main>> \/ c = <<"fronts", Main>>
  BY <1>2, ContentsAre, ContentsThen
<1> QED BY <1>1, <1>2, ContainerKinds

LEMMA ContentsType ==
  ASSUME TypeInv
  PROVE  /\ \A c \in Containers : Contents(c) \subseteq Elements
         /\ \A t \in Threads : InRun(t) \subseteq Elements /\ InReady(t) \subseteq Elements
<1>1. ASSUME NEW t \in Threads PROVE InRun(t) \subseteq Elements /\ InReady(t) \subseteq Elements
  <2>1. stack[t] # <<>> => Top(t).e \in Elements /\ Top(t).ready \subseteq Elements
    BY TopIs DEF FrameSet
  <2> QED BY <2>1 DEF InRun, InReady, Busy
<1>2. InTasks \subseteq Elements /\ InFronts \subseteq Elements
  BY DEF InTasks, InFronts, TypeInv, MainType
<1>3. ASSUME NEW c \in Containers PROVE Contents(c) \subseteq Elements
  BY <1>1, <1>2, ContainerKinds, ContentsAre
<1> QED BY <1>1, <1>3
-----------------------------------------------------------------------------
(* A step on which the elements of E come to c2 and others may leave where *)
(* they were, but an end that is done stays in its thread.                 *)
Shifts(E, c2) ==
  /\ \A c \in Containers : /\ Contents(c)' \subseteq Contents(c) \cup E
                           /\ c # c2 => Contents(c)' \subseteq Contents(c) \ E
                           /\ c[1] = "run" => Contents(c) \cap Ends \subseteq Contents(c)'
  /\ \A e \in E : e \in Elements /\ ~done[e] /\ Missing(e) = {}
SameTops(E, c2) ==
  /\ E # {} /\ c2[1] = "run" => Contents(c2)' \subseteq E /\ Top(c2[2])'.at # "succ"
  /\ \A t \in Threads : (E = {} \/ c2 # <<"run", t>>) /\ Busy(t)' =>
                           (Top(t)'.at = "succ" <=> Top(t).at = "succ")
SameDebts ==
  /\ \A t \in Threads, p \in Elements, s \in Elements : Owes(t, p, s)' <=> Owes(t, p, s)
  /\ \A x \in Elements : Missing(x) # {} => left'[x] = left[x]
SameEngine == engine'.runs = engine.runs /\ engine'.finished = engine.finished
              /\ engine'.ok = engine.ok

LEMMA ShiftDisjoint ==
  ASSUME Disjoint, NEW E, NEW c2 \in Containers, Shifts(E, c2)
  PROVE  Disjoint'
<1>1. Containers' = Containers
  BY DEF Containers, Threads
<1>2. ASSUME NEW c \in Containers, NEW d \in Containers, NEW x, x \in Contents(c)',
             x \in Contents(d)'
      PROVE  c = d
  <2>1. CASE x \in E
    BY <1>2, <2>1 DEF Shifts
  <2>2. CASE x \notin E
    <3>1. x \in Contents(c) /\ x \in Contents(d)
      BY <1>2, <2>2 DEF Shifts
    <3> QED BY <3>1 DEF Disjoint
  <2> QED BY <2>1, <2>2
<1> QED BY <1>1, <1>2 DEF Disjoint

LEMMA SameMissing ==
  ASSUME TypeInv, conf' = conf, done' = done, SameDebts
  PROVE  \A s \in Elements : Missing(s)' = Missing(s)
<1> SUFFICES ASSUME NEW s \in Elements PROVE Missing(s)' = Missing(s)
  OBVIOUS
<1>1. conf.depend[s] \subseteq Elements
  BY GraphIs
<1>2. \A p \in Elements : Counted(p, s)' <=> Counted(p, s)
  BY DEF Counted, SameDebts, Threads
<1> QED BY <1>1, <1>2 DEF Missing

LEMMA ShiftPassed ==
  ASSUME TypeInv, conf' = conf, done' = done, NEW E, NEW c2 \in Containers, Shifts(E, c2)
  PROVE  Passed' = Passed
<1>1. Ends' = Ends /\ Ends \subseteq Elements
  BY GraphStays, GraphIs
<1>2. ASSUME NEW x \in Ends, done[x]
      PROVE  (\A t \in Threads : x \notin InRun(t)') <=> (\A t \in Threads : x \notin InRun(t))
  <2>1. x \notin E
    BY <1>2 DEF Shifts
  <2>2. ASSUME NEW t \in Threads PROVE x \in InRun(t)' <=> x \in InRun(t)
    <3>1. <<"run", t>> \in Containers /\ Contents(<<"run", t>>) = InRun(t)
          /\ Contents(<<"run", t>>)' = InRun(t)'
      BY ContentsAre, ContentsThen
    <3> QED BY <3>1, <2>1, <1>2 DEF Shifts
  <2> QED BY <2>2
<1>3. Threads' = Threads
  BY DEF Threads
<1> QED BY <1>1, <1>2, <1>3 DEF Passed
LEMMA ShiftRun ==
  ASSUME TypeInv, RunInv, conf' = conf, done' = done, NEW E, NEW c2 \in Containers,
         Shifts(E, c2), SameTops(E, c2), SameDebts, SameEngine,
         main'.at = "verdict" => main.at = "verdict" \/ RunIsOver
  PROVE  RunInv'
<1>1. Containers' = Containers /\ Threads' = Threads
  BY DEF Containers, Threads
<1>2. \A s \in Elements : Missing(s)' = Missing(s)
  BY SameMissing
<1>3. ASSUME NEW e \in Elements, (done[e] \/ Underway(e))'
      PROVE  Missing(e)' = {}
  <2>1. CASE e \in E
    BY <2>1, <1>2 DEF Shifts
  <2>2. CASE e \notin E
    <3>1. Underway(e)' => Underway(e)
      BY <2>2, <1>1 DEF Underway, Shifts
    <3> QED BY <1>2, <1>3, <3>1 DEF RunInv
  <2> QED BY <2>1, <2>2
<1>4. ASSUME NEW e \in Elements, Missing(e)' # {}
      PROVE  left'[e] = Cardinality(Missing(e)')
  BY <1>2, <1>4 DEF RunInv, SameDebts
<1>5. ASSUME NEW c \in Containers, NEW e \in Contents(c)'
      PROVE  done[e] <=> c[1] = "run" /\ Top(c[2])'.at = "succ"
  <2>1. CASE e \in E
    <3>1. c = c2 /\ ~done[e] /\ E # {}
      BY <2>1, <1>5 DEF Shifts
    <3> QED BY <3>1 DEF SameTops
  <2>2. CASE e \notin E
    <3>1. e \in Contents(c)
      BY <2>2, <1>5 DEF Shifts
    <3>2. done[e] <=> c[1] = "run" /\ Top(c[2]).at = "succ"
      BY <3>1 DEF RunInv
    <3>3. CASE c[1] # "run"
      BY <3>2, <3>3
    <3>4. CASE c[1] = "run"
      <4>1. PICK t \in Threads : c = <<"run", t>>
        BY <3>4, ContainerKinds
      <4>2. Busy(t)'
        BY <4>1, <1>5, ContentsThen DEF InRun
      <4>3. E = {} \/ c2 # c
        BY <2>2, <1>5, <3>4 DEF SameTops
      <4>4. Top(t)'.at = "succ" <=> Top(t).at = "succ"
        BY <4>1, <4>2, <4>3 DEF SameTops
      <4> QED BY <3>2, <4>1, <4>4
    <3> QED BY <3>3, <3>4
  <2> QED BY <2>1, <2>2
<1>6. (engine.runs = Cardinality({e \in Elements : done[e]}))'
  BY DEF RunInv, SameEngine
<1>7. (engine.finished = Cardinality(Passed))'
  <2>1. Passed' = Passed
    BY ShiftPassed
  <2> QED BY <2>1 DEF RunInv, SameEngine
<1>8. (main.at = "verdict" => RunIsOver)'
  <2>1. Ends' = Ends
    BY GraphStays
  <2> QED BY <2>1 DEF RunInv, RunIsOver, SameEngine
<1> QED BY <1>1, <1>3, <1>4, <1>5, <1>6, <1>7, <1>8 DEF RunInv

(* Nothing moves.                                                          *)
LEMMA NothingShifts ==
  ASSUME TypeInv, \A c \in Containers : Contents(c)' = Contents(c)
  PROVE  \A c2 \in Containers : Shifts({}, c2)
BY DEF Shifts

LEMMA DebtsBy ==
  ASSUME TypeInv, conf' = conf, NEW t \in Threads,
         \A u \in Threads : u # t => stack'[u] = stack[u],
         \A p \in Elements, s \in Elements : Owes(t, p, s)' <=> Owes(t, p, s),
         \A x \in Elements : Missing(x) # {} => left'[x] = left[x]
  PROVE  SameDebts
BY ContentsElsewhere DEF SameDebts

LEMMA NoDebts ==
  ASSUME NEW t, stack[t] = <<>> \/ Top(t).at # "succ" \/ Top(t).todo = {}
  PROVE  \A p, s : ~Owes(t, p, s)
BY DEF Owes

LEMMA NoDebtsThen ==
  ASSUME NEW t, stack'[t] = <<>> \/ Head(stack'[t]).at # "succ" \/ Head(stack'[t]).todo = {}
  PROVE  \A p, s : ~Owes(t, p, s)'
BY DEF Owes, Top

(* What is on its way was counted down by all it depends on.               *)
LEMMA UnderwayIs ==
  ASSUME TypeInv, RunInv, NEW c \in Containers, NEW e \in Contents(c)
  PROVE  e \in Elements /\ Missing(e) = {}
<1>1. e \in Elements
  BY ContentsType
<1> QED BY <1>1 DEF RunInv, Underway

LEMMA RunDone ==
  ASSUME TypeInv, RunInv, NEW t \in Threads
  PROVE  /\ \A e \in InRun(t) : e \in Elements /\ Missing(e) = {} /\ (done[e] <=> Top(t).at = "succ")
         /\ \A e \in InReady(t) : e \in Elements /\ Missing(e) = {} /\ ~done[e]
         /\ \A e \in InTasks \cup InFronts : e \in Elements /\ Missing(e) = {} /\ ~done[e]
<1>1. ASSUME NEW e \in InRun(t)
      PROVE  e \in Elements /\ Missing(e) = {} /\ (done[e] <=> Top(t).at = "succ")
  <2>1. <<"run", t>> \in Containers /\ e \in Contents(<<"run", t>>)
    BY ContentsAre
  <2>2. done[e] <=> <<"run", t>>[1] = "run" /\ Top(<<"run", t>>[2]).at = "succ"
    BY <2>1 DEF RunInv
  <2> QED BY <2>1, <2>2, UnderwayIs
<1>2. ASSUME NEW e \in InReady(t) PROVE e \in Elements /\ Missing(e) = {} /\ ~done[e]
  <2>1. <<"ready", t>> \in Containers /\ e \in Contents(<<"ready", t>>)
    BY ContentsAre
  <2>2. done[e] <=> <<"ready", t>>[1] = "run" /\ Top(<<"ready", t>>[2]).at = "succ"
    BY <2>1 DEF RunInv
  <2> QED BY <2>1, <2>2, UnderwayIs
<1>3. ASSUME NEW e \in InTasks PROVE e \in Elements /\ Missing(e) = {} /\ ~done[e]
  <2>1. <<"tasks", Main>> \in Containers /\ e \in Contents(<<"tasks", Main>>)
    BY ContentsAre
  <2>2. done[e] <=> <<"tasks", Main>>[1] = "run" /\ Top(<<"tasks", Main>>[2]).at = "succ"
    BY <2>1 DEF RunInv
  <2> QED BY <2>1, <2>2, UnderwayIs
<1>4. ASSUME NEW e \in InFronts PROVE e \in Elements /\ Missing(e) = {} /\ ~done[e]
  <2>1. <<"fronts", Main>> \in Containers /\ e \in Contents(<<"fronts", Main>>)
    BY ContentsAre
  <2>2. done[e] <=> <<"fronts", Main>>[1] = "run" /\ Top(<<"fronts", Main>>[2]).at = "succ"
    BY <2>1 DEF RunInv
  <2> QED BY <2>1, <2>2, UnderwayIs
<1> QED BY <1>1, <1>2, <1>3, <1>4

(* A step that only moves the element of a thread.                         *)
LEMMA MovesViews ==
  ASSUME TypeInv, StackInv, conf' = conf, NEW t \in Threads, Moves(t), SameExecs,
         InFronts' = InFronts
  PROVE  /\ \A c \in Containers : Contents(c)' = Contents(c)
         /\ \A u \in Threads, p \in Elements, s \in Elements : Owes(u, p, s)' <=> Owes(u, p, s)
         /\ InRun(t) = {Top(t).e}
         /\ \A c2 \in Containers : SameTops({}, c2)
<1>1. PICK g \in FrameSet : /\ Goto(t, g) /\ g.at \notin {"async", "succ"}
                            /\ g.e = Top(t).e /\ g.ready = Top(t).ready
  BY DEF Moves
<1>2. stack[t] # <<>> /\ Top(t).at \notin {"async", "succ"}
  BY DEF Moves
<1>3. stack'[t] # <<>> /\ Head(stack'[t]) = g /\ \A u \in Threads : u # t => stack'[u] = stack[u]
  BY <1>1, <1>2, Went
<1>4. Top(t)' = g
  BY <1>3 DEF Top
<1>5. Busy(t) /\ Busy(t)'
  BY <1>1, <1>2, <1>3, <1>4 DEF Busy, Leaving
<1>6. InRun(t)' = InRun(t) /\ InReady(t)' = InReady(t) /\ InRun(t) = {Top(t).e}
  BY <1>1, <1>2, <1>3, <1>4, <1>5 DEF InRun, InReady
<1>7. \A u \in Threads : u # t => InRun(u)' = InRun(u) /\ InReady(u)' = InReady(u)
                                  /\ Top(u)' = Top(u)
  BY <1>3, ContentsElsewhere
<1>8. InTasks' = InTasks
  BY DEF InTasks, SameExecs
<1>9. \A c \in Containers : Contents(c)' = Contents(c)
  BY <1>6, <1>7, <1>8, SameContents
<1>10. \A p, s : ~Owes(t, p, s) /\ ~Owes(t, p, s)'
  BY <1>1, <1>2, <1>3, NoDebts, NoDebtsThen
<1>11. \A u \in Threads, p \in Elements, s \in Elements : Owes(u, p, s)' <=> Owes(u, p, s)
  BY <1>3, <1>10, ContentsElsewhere
<1>12. \A c2 \in Containers : SameTops({}, c2)
  BY <1>1, <1>2, <1>4, <1>7 DEF SameTops
<1> QED BY <1>6, <1>9, <1>11, <1>12
-----------------------------------------------------------------------------
(* The steps of a thread during a run.                                     *)
LEMMA StillRun ==
  ASSUME TypeInv, StackInv, RunInv, NEW t \in Threads, Still(t)
  PROVE  RunInv' /\ (Disjoint => Disjoint')
<1>1. Moves(t) /\ SameExecs /\ Resets(t)
      /\ UNCHANGED <<conf, main, repo, engine, control, open, failed, stopped>>
  BY DEF Still
<1>2. InFronts' = InFronts
  BY <1>1 DEF InFronts
<1>3. /\ \A c \in Containers : Contents(c)' = Contents(c)
      /\ \A u \in Threads, p \in Elements, s \in Elements : Owes(u, p, s)' <=> Owes(u, p, s)
      /\ InRun(t) = {Top(t).e}
      /\ \A c2 \in Containers : SameTops({}, c2)
  BY <1>1, <1>2, MovesViews
<1>4. Top(t).e \in Elements /\ Missing(Top(t).e) = {} /\ ~done[Top(t).e]
  BY <1>1, <1>3, RunDone DEF Moves
<1>5. done' = done
  BY <1>1, <1>4 DEF Resets, TypeInv, ElementType
<1>6. SameDebts
  BY <1>1, <1>3, <1>4 DEF Resets, SameDebts
<1>7. SameEngine
  BY <1>1 DEF SameEngine
<1>8. PICK c2 \in Containers : c2 = <<"run", t>>
  BY ContentsAre
<1>9. Shifts({}, c2)
  BY <1>3, NothingShifts
<1>10. RunInv'
  BY <1>1, <1>3, <1>5, <1>6, <1>7, <1>9, ShiftRun
<1> QED BY <1>9, <1>10, ShiftDisjoint

(* What the calls and tasks of a step without such moves look like.        *)
LEMMA ExecsDiffer == \A x \in Elements, y \in Elements : Exec(x) = Exec(y) => x = y
<1> SUFFICES ASSUME NEW x \in Elements, NEW y \in Elements, Exec(x) = Exec(y) PROVE x = y
  OBVIOUS
<1>1. Exec(x).e = x /\ Exec(y).e = y
  BY DEF Exec
<1> QED BY <1>1

LEMMA TakeViews ==
  ASSUME TypeInv, NEW t \in Threads, Take(t)
  PROVE  /\ InRun(t) = {} /\ InReady(t) = {} /\ InReady(t)' = {} /\ InFronts' = InFronts
         /\ \A u \in Threads : u # t => InRun(u)' = InRun(u) /\ InReady(u)' = InReady(u)
                                        /\ Top(u)' = Top(u)
         /\ \A u \in Threads, p \in Elements, s \in Elements : Owes(u, p, s)' <=> Owes(u, p, s)
         /\ \/ InRun(t)' = {} /\ InTasks' = InTasks
            \/ \E e \in InTasks : /\ InRun(t)' = {e} /\ InTasks' = InTasks \ {e}
                                  /\ Top(t)'.at = "start"
<1>1. /\ stack[t] = <<>> /\ conf' = conf /\ main' = main
      /\ \A u \in Threads : u # t => stack'[u] = stack[u]
  BY TakeDoes DEF Take
<1>2. PICK k \in tasks, g \in FrameSet :
              /\ tasks' = tasks \ {k} /\ stack'[t] = <<g>> /\ g.e = k.e
              /\ g.todo = {} /\ g.ready = {}
              /\ g.at = IF k.kind = "exec" THEN "start" ELSE "async"
  BY TakeDoes
<1>3. stack'[t] # <<>> /\ Top(t)' = g /\ Head(stack'[t]) = g
  BY <1>2 DEF Top
<1>4. InRun(t) = {} /\ InReady(t) = {} /\ InReady(t)' = {} /\ InFronts' = InFronts
  BY <1>1, <1>2, <1>3 DEF InRun, Busy, InReady, InFronts
<1>5. \A u \in Threads : u # t => InRun(u)' = InRun(u) /\ InReady(u)' = InReady(u)
                                  /\ Top(u)' = Top(u)
  BY <1>1, ContentsElsewhere
<1>6. \A p, s : ~Owes(t, p, s) /\ ~Owes(t, p, s)'
  BY <1>1, <1>2, <1>3, NoDebts, NoDebtsThen
<1>7. \A u \in Threads, p \in Elements, s \in Elements : Owes(u, p, s)' <=> Owes(u, p, s)
  BY <1>1, <1>6, ContentsElsewhere
<1>8. CASE \E e \in Elements : k = Exec(e)
  <2>1. PICK e \in Elements : k = Exec(e)
    BY <1>8
  <2>2. k.kind = "exec" /\ k.e = e
    BY <2>1 DEF Exec
  <2>3. g.at = "start" /\ g.e = e
    BY <1>2, <2>2
  <2>4. InRun(t)' = {e}
    BY <1>3, <2>3 DEF InRun, Busy, Leaving
  <2>5. InTasks' = InTasks \ {e} /\ e \in InTasks
    BY <1>2, <2>1, ExecsDiffer DEF InTasks
  <2> QED BY <1>3, <1>4, <1>5, <1>7, <2>3, <2>4, <2>5
<1>9. CASE \E e \in Elements, n \in Nat : k = Async(e, n)
  <2>1. PICK e \in Elements, n \in Nat : k = Async(e, n)
    BY <1>9
  <2>2. k.kind = "async" /\ \A x \in Elements : k # Exec(x)
    BY <2>1 DEF Async, Exec
  <2>3. g.at = "async"
    BY <1>2, <2>2
  <2>4. InRun(t)' = {}
    BY <1>3, <2>3 DEF InRun, Busy
  <2>5. InTasks' = InTasks
    BY <1>2, <2>2 DEF InTasks
  <2> QED BY <1>4, <1>5, <1>7, <2>4, <2>5
<1>10. k \in TaskSet
  BY DEF TypeInv, StackType
<1> QED BY <1>8, <1>9, <1>10 DEF TaskSet

LEMMA TakeRun ==
  ASSUME TypeInv, StackInv, RunInv, Disjoint, NEW t \in Threads, Take(t)
  PROVE  RunInv' /\ Disjoint'
<1>1. UNCHANGED <<conf, main, cur, repo, done, left, triggered, fut, engine, control, open, ran,
                  failed, stopped>>
  BY DEF Take
<1>2. /\ InRun(t) = {} /\ InReady(t) = {} /\ InReady(t)' = {} /\ InFronts' = InFronts
      /\ \A u \in Threads : u # t => InRun(u)' = InRun(u) /\ InReady(u)' = InReady(u)
                                     /\ Top(u)' = Top(u)
      /\ \A u \in Threads, p \in Elements, s \in Elements : Owes(u, p, s)' <=> Owes(u, p, s)
  BY TakeViews
<1>3. SameDebts /\ SameEngine
  BY <1>1, <1>2 DEF SameDebts, SameEngine
<1>4. PICK c2 \in Containers : c2 = <<"run", t>>
  BY ContentsAre
<1>5. CASE InRun(t)' = {} /\ InTasks' = InTasks
  <2>1. \A c \in Containers : Contents(c)' = Contents(c)
    BY <1>2, <1>5, SameContents
  <2>2. Shifts({}, c2)
    BY <2>1, NothingShifts
  <2>3. ~Busy(t)'
    BY <1>5 DEF InRun
  <2>4. SameTops({}, c2)
    BY <1>2, <2>3 DEF SameTops
  <2> QED BY <1>1, <1>3, <2>2, <2>4, ShiftRun, ShiftDisjoint
<1>6. CASE \E e \in InTasks : /\ InRun(t)' = {e} /\ InTasks' = InTasks \ {e}
                              /\ Top(t)'.at = "start"
  <2>1. PICK e \in InTasks : InRun(t)' = {e} /\ InTasks' = InTasks \ {e} /\ Top(t)'.at = "start"
    BY <1>6
  <2>2. e \in Elements /\ Missing(e) = {} /\ ~done[e]
    BY RunDone
  <2>3. \A c \in Containers : e \in Contents(c) => c = <<"tasks", Main>>
    BY ContentsAre DEF Disjoint
  <2>4. \A c \in Containers : Contents(c)' \subseteq Contents(c) \cup {e}
    <3> SUFFICES ASSUME NEW c \in Containers PROVE Contents(c)' \subseteq Contents(c) \cup {e}
      OBVIOUS
    <3>1. CASE c = <<"tasks", Main>> \/ c = <<"fronts", Main>>
      BY <1>2, <2>1, <3>1, ContentsAre, ContentsThen
    <3>2. CASE \E u \in Threads : c = <<"run", u>> \/ c = <<"ready", u>>
      BY <1>2, <2>1, <3>2, ContentsAre, ContentsThen
    <3> QED BY <3>1, <3>2, ContainerKinds
  <2>5. \A c \in Containers : c # c2 => Contents(c)' \subseteq Contents(c) \ {e}
    <3> SUFFICES ASSUME NEW c \in Containers, c # c2 PROVE Contents(c)' \subseteq Contents(c) \ {e}
      OBVIOUS
    <3>1. CASE c = <<"tasks", Main>>
      BY <3>1, <2>1, ContentsAre, ContentsThen
    <3>2. CASE c # <<"tasks", Main>>
      <4>1. Contents(c)' = Contents(c)
        <5>1. ASSUME NEW u \in Threads, c = <<"run", u>> PROVE Contents(c)' = Contents(c)
          <6>1. u # t
            BY <1>4, <5>1
          <6> QED BY <1>2, <5>1, <6>1, ContentsAre, ContentsThen
        <5>2. ASSUME NEW u \in Threads, c = <<"ready", u>> PROVE Contents(c)' = Contents(c)
          <6>1. InReady(u)' = InReady(u)
            BY <1>2
          <6> QED BY <5>2, <6>1, ContentsAre, ContentsThen
        <5>3. ASSUME c = <<"fronts", Main>> PROVE Contents(c)' = Contents(c)
          BY <1>2, <5>3, ContentsAre, ContentsThen
        <5> QED BY <3>2, <5>1, <5>2, <5>3, ContainerKinds
      <4> QED BY <3>2, <4>1, <2>3
    <3> QED BY <3>1, <3>2
  <2>6. \A c \in Containers : c[1] = "run" => Contents(c) \cap Ends \subseteq Contents(c)'
    <3> SUFFICES ASSUME NEW c \in Containers, c[1] = "run"
                 PROVE  Contents(c) \cap Ends \subseteq Contents(c)'
      OBVIOUS
    <3>1. PICK u \in Threads : c = <<"run", u>>
      BY ContainerKinds
    <3> QED BY <1>2, <3>1, ContentsAre, ContentsThen
  <2>7. Shifts({e}, c2)
    BY <2>2, <2>4, <2>5, <2>6 DEF Shifts
  <2>8. SameTops({e}, c2)
    <3>1. Contents(c2)' \subseteq {e} /\ c2[2] = t
      BY <1>4, <2>1, ContentsThen
    <3>2. \A u \in Threads : c2 # <<"run", u>> => u # t
      BY <1>4
    <3> QED BY <1>2, <2>1, <3>1, <3>2 DEF SameTops
  <2> QED BY <1>1, <1>3, <2>7, <2>8, ShiftRun, ShiftDisjoint
<1> QED BY <1>5, <1>6, TakeViews
LEMMA DropViews ==
  ASSUME TypeInv, StackInv, conf' = conf, NEW t \in Threads, stack[t] # <<>>,
         stack'[t] = Tail(stack[t]), \A u \in Threads : u # t => stack'[u] = stack[u]
  PROVE  /\ InRun(t)' = {} /\ InReady(t)' = {} /\ ~Busy(t)'
         /\ \A p, s : ~Owes(t, p, s)'
         /\ \A u \in Threads : u # t => InRun(u)' = InRun(u) /\ InReady(u)' = InReady(u)
                                        /\ Top(u)' = Top(u)
<1>1. stack'[t] # <<>> => Low(Head(stack'[t]))
  BY DropsCalls
<1>2. stack'[t] # <<>> => Leaving(Top(t)') /\ Top(t)'.e \notin Ends' /\ Top(t)'.ready = {}
                          /\ Head(stack'[t]).todo = {}
  BY <1>1, GraphStays DEF Low, Leaving, Top
<1>3. ~Busy(t)'
  BY <1>2 DEF Busy, Leaving
<1>4. InRun(t)' = {} /\ InReady(t)' = {}
  BY <1>2, <1>3 DEF InRun, InReady
<1>5. \A p, s : ~Owes(t, p, s)'
  BY <1>2, NoDebtsThen
<1> QED BY <1>3, <1>4, <1>5, ContentsElsewhere

(* A frame that is through, and whose element was counted, goes.           *)
LEMMA DropRun ==
  ASSUME TypeInv, StackInv, RunInv, Disjoint, conf' = conf, NEW t \in Threads, stack[t] # <<>>,
         stack'[t] = Tail(stack[t]), \A u \in Threads : u # t => stack'[u] = stack[u],
         ~Busy(t), InReady(t) = {}, \A p, s : ~Owes(t, p, s),
         InFronts' = InFronts, done' = done, left' = left, tasks' = tasks, SameEngine,
         main'.at = "verdict" => main.at = "verdict"
  PROVE  RunInv' /\ Disjoint'
<1>1. /\ InRun(t)' = {} /\ InReady(t)' = {} /\ ~Busy(t)' /\ (\A p, s : ~Owes(t, p, s)')
      /\ \A u \in Threads : u # t => InRun(u)' = InRun(u) /\ InReady(u)' = InReady(u)
                                     /\ Top(u)' = Top(u)
  BY DropViews
<1>2. InRun(t) = {} /\ InTasks' = InTasks
  BY DEF InRun, InTasks
<1>3. \A c \in Containers : Contents(c)' = Contents(c)
  BY <1>1, <1>2, SameContents
<1>4. SameDebts
  BY <1>1, DebtsBy
<1>5. PICK c2 \in Containers : c2 = <<"run", t>>
  BY ContentsAre
<1>6. Shifts({}, c2) /\ SameTops({}, c2)
  BY <1>1, <1>3, NothingShifts DEF SameTops
<1> QED BY <1>4, <1>6, ShiftRun, ShiftDisjoint

LEMMA RunAsyncRun ==
  ASSUME TypeInv, StackInv, RunInv, Disjoint, NEW t \in Threads, RunAsync(t)
  PROVE  RunInv' /\ Disjoint'
<1>1. stack[t] # <<>> /\ Top(t).at = "async" /\ stack' = [stack EXCEPT ![t] = Tail(@)]
  BY DEF RunAsync, At
<1>2. UNCHANGED <<conf, main, tasks, cur, repo, done, left, triggered, engine, control, open,
                  failed, stopped>>
  BY DEF RunAsync
<1>3. stack'[t] = Tail(stack[t]) /\ \A u \in Threads : u # t => stack'[u] = stack[u]
  BY <1>1, Drops
<1>4. FrameInv(Top(t))
  BY <1>1 DEF StackInv, ThreadInv
<1>5. ~Busy(t) /\ InReady(t) = {}
  BY <1>1, <1>4 DEF Busy, InReady, FrameInv
<1>6. \A p, s : ~Owes(t, p, s)
  BY <1>1, NoDebts
<1>7. InFronts' = InFronts /\ SameEngine
  BY <1>2 DEF InFronts, SameEngine
<1> QED BY <1>1, <1>2, <1>3, <1>5, <1>6, <1>7, DropRun

LEMMA LeaveRun ==
  ASSUME TypeInv, StackInv, RunInv, Disjoint, NEW t \in Threads, Leave(t)
  PROVE  RunInv' /\ Disjoint'
<1> DEFINE e == Top(t).e
<1>1. /\ stack[t] # <<>> /\ Leaving(Top(t)) /\ stack'[t] = Tail(stack[t])
      /\ \A u \in Threads : u # t => stack'[u] = stack[u]
      /\ engine' = [engine EXCEPT !.finished = @ + IF e \in Ends THEN 1 ELSE 0]
      /\ main' = main \/ (main.at = "blocked" /\ main' = [main EXCEPT !.at = "wait"])
      /\ UNCHANGED <<conf, tasks, cur, repo, done, left, triggered, fut, control, open, ran,
                     failed, stopped>>
  BY LeaveDoes
<1>2. engine \in [alive : BOOLEAN, finished : Nat, runs : Nat, ok : BOOLEAN]
  BY DEF TypeInv, EngineType
<1>3. InFronts' = InFronts /\ (main'.at = "verdict" => main.at = "verdict")
  BY <1>1 DEF InFronts, TypeInv, MainType
<1>4. InReady(t) = {} /\ \A p, s : ~Owes(t, p, s)
  BY <1>1, NoDebts DEF InReady, Leaving
<1>5. CASE e \notin Ends
  <2>1. SameEngine
    BY <1>1, <1>2, <1>5 DEF SameEngine
  <2>2. ~Busy(t)
    BY <1>1, <1>5 DEF Busy
  <2> QED BY <1>1, <1>3, <1>4, <2>1, <2>2, DropRun
<1>6. CASE e \in Ends
  <2>1. InRun(t) = {e}
    BY <1>1, <1>6 DEF InRun, Busy, Leaving
  <2>2. e \in Elements /\ done[e]
    BY <1>1, <2>1, RunDone DEF Leaving
  <2>3. /\ InRun(t)' = {} /\ InReady(t)' = {} /\ ~Busy(t)' /\ (\A p, s : ~Owes(t, p, s)')
        /\ \A u \in Threads : u # t => InRun(u)' = InRun(u) /\ InReady(u)' = InReady(u)
                                       /\ Top(u)' = Top(u)
    BY <1>1, DropViews
  <2>4. \A u \in Threads : InRun(u)' = IF u = t THEN {} ELSE InRun(u)
    BY <2>3
  <2>5. InTasks' = InTasks
    BY <1>1 DEF InTasks
  <2>6. \A u \in Threads : u # t => e \notin InRun(u)
    <3>1. ASSUME NEW u \in Threads, e \in InRun(u) PROVE u = t
      <4>1. <<"run", u>> \in Containers /\ <<"run", t>> \in Containers
            /\ e \in Contents(<<"run", u>>) /\ e \in Contents(<<"run", t>>)
        BY <2>1, <3>1, ContentsAre
      <4>2. <<"run", u>> = <<"run", t>>
        BY <4>1 DEF Disjoint
      <4> QED BY <4>2
    <3> QED BY <3>1
  <2>7. Passed' = Passed \cup {e} /\ e \notin Passed
    <3>1. Ends' = Ends /\ Ends \subseteq Elements /\ Threads' = Threads
      BY <1>1, GraphStays, GraphIs DEF Threads
    <3>2. \A x \in Ends : (\A u \in Threads : x \notin InRun(u)') <=>
                            (x = e \/ \A u \in Threads : x \notin InRun(u))
      BY <2>1, <2>4, <2>6
    <3>3. done' = done
      BY <1>1
    <3>4. e \notin Passed
      BY <2>1 DEF Passed
    <3>5. Passed' = {x \in Ends : done[x] /\ \A u \in Threads : x \notin InRun(u)'}
      BY <3>1, <3>3 DEF Passed
    <3>6. \A x \in Ends : x \in Passed' <=> x \in Passed \cup {e}
      BY <2>2, <3>2, <3>5 DEF Passed
    <3>7. Passed' \subseteq Ends /\ Passed \subseteq Ends
      BY <3>5 DEF Passed
    <3> QED BY <1>6, <3>4, <3>6, <3>7
  <2>8. engine'.finished = Cardinality(Passed')
    <3>1. Passed \subseteq Elements /\ IsFiniteSet(Elements)
      BY GraphIs DEF Passed
    <3>2. IsFiniteSet(Passed)
      BY <3>1, FS_Subset
    <3>3. Cardinality(Passed \cup {e}) = Cardinality(Passed) + 1
      BY <2>7, <3>2, FS_AddElement
    <3>4. engine'.finished = engine.finished + 1
      BY <1>1, <1>2, <1>6
    <3> QED BY <2>7, <3>3, <3>4 DEF RunInv
  <2>9. \A c \in Containers : Contents(c)' \subseteq Contents(c)
    <3> SUFFICES ASSUME NEW c \in Containers PROVE Contents(c)' \subseteq Contents(c)
      OBVIOUS
    <3>1. ASSUME NEW u \in Threads, c = <<"run", u>> PROVE Contents(c)' \subseteq Contents(c)
      <4>1. InRun(u)' \subseteq InRun(u)
        BY <2>4
      <4> QED BY <3>1, <4>1, ContentsAre, ContentsThen
    <3>2. ASSUME NEW u \in Threads, c = <<"ready", u>> PROVE Contents(c)' \subseteq Contents(c)
      <4>1. InReady(u)' \subseteq InReady(u)
        BY <2>3
      <4> QED BY <3>2, <4>1, ContentsAre, ContentsThen
    <3>3. ASSUME c = <<"tasks", Main>> \/ c = <<"fronts", Main>>
          PROVE  Contents(c)' \subseteq Contents(c)
      BY <3>3, <2>5, <1>3, ContentsAre, ContentsThen
    <3> QED BY <3>1, <3>2, <3>3, ContainerKinds
  <2>10. SameDebts
    BY <1>1, <1>4, <2>3, DebtsBy
  <2>11. \A s \in Elements : Missing(s)' = Missing(s)
    BY <1>1, <2>10, SameMissing
  <2>12. Containers' = Containers
    BY DEF Containers, Threads
  <2>13. Disjoint'
    BY <2>9, <2>12 DEF Disjoint
  <2>14. (\A x \in Elements : done[x] \/ Underway(x) => Missing(x) = {})'
    <3>1. \A x : Underway(x)' => Underway(x)
      BY <2>9, <2>12 DEF Underway
    <3> QED BY <1>1, <3>1, <2>11 DEF RunInv
  <2>15. (\A x \in Elements : Missing(x) # {} => left[x] = Cardinality(Missing(x)))'
    BY <1>1, <2>11 DEF RunInv
  <2>16. (\A c \in Containers : \A x \in Contents(c) :
            done[x] <=> c[1] = "run" /\ Top(c[2]).at = "succ")'
    <3> SUFFICES ASSUME NEW c \in Containers, NEW x \in Contents(c)'
                 PROVE  done[x] <=> c[1] = "run" /\ Top(c[2])'.at = "succ"
      BY <1>1, <2>12
    <3>1. done[x] <=> c[1] = "run" /\ Top(c[2]).at = "succ"
      BY <2>9 DEF RunInv
    <3>2. CASE c[1] # "run"
      BY <3>1, <3>2
    <3>3. CASE c[1] = "run"
      <4>1. PICK u \in Threads : c = <<"run", u>>
        BY <3>3, ContainerKinds
      <4>2. u # t
        BY <4>1, <2>3, ContentsThen
      <4> QED BY <2>3, <3>1, <4>1, <4>2
    <3> QED BY <3>2, <3>3
  <2>17. (engine.runs = Cardinality({x \in Elements : done[x]}))'
    BY <1>1, <1>2 DEF RunInv
  <2>18. (main.at = "verdict" => RunIsOver)'
    <3>1. Ends' = Ends /\ Ends \subseteq Elements
      BY <1>1, GraphStays, GraphIs
    <3>2. Cardinality(Ends) \in Nat
      BY <3>1, GraphIs, FS_Subset, FS_CardinalityType
    <3>3. engine'.finished = engine.finished + 1 /\ engine'.ok = engine.ok
      BY <1>1, <1>2, <1>6
    <3>4. main.at = "verdict" => engine.finished >= Cardinality(Ends) \/ ~engine.ok
      BY DEF RunInv, RunIsOver
    <3>5. engine.finished >= Cardinality(Ends) => engine'.finished >= Cardinality(Ends)
      BY <1>2, <3>2, <3>3
    <3> QED BY <1>3, <3>1, <3>3, <3>4, <3>5 DEF RunIsOver
  <2> QED BY <2>8, <2>13, <2>14, <2>15, <2>16, <2>17, <2>18 DEF RunInv
<1> QED BY <1>5, <1>6
LEMMA FinishRun ==
  ASSUME TypeInv, StackInv, RunInv, Disjoint, NEW t \in Threads, Finish(t)
  PROVE  RunInv' /\ Disjoint'
<1> DEFINE e == Top(t).e
<1>1. /\ stack[t] # <<>> /\ Top(t).at = "finish"
      /\ done' = [done EXCEPT ![e] = TRUE]
      /\ engine' = [engine EXCEPT !.ok = @ /\ Top(t).ok, !.runs = @ + 1]
      /\ UNCHANGED <<conf, main, tasks, cur, repo, left, triggered, fut, control, open, ran,
                     failed, stopped>>
  BY FinishDoes
<1>2. PICK g \in FrameSet : /\ Goto(t, g) /\ g.e = e /\ g.at = "succ"
                            /\ g.todo = RunBefore(e) /\ g.ready = Top(t).ready
  BY FinishDoes
<1>3. stack'[t] # <<>> /\ Head(stack'[t]) = g /\ \A u \in Threads : u # t => stack'[u] = stack[u]
  BY <1>1, <1>2, Went
<1>4. Top(t)' = g
  BY <1>3 DEF Top
<1>5. \A u \in Threads : u # t => /\ InRun(u)' = InRun(u) /\ InReady(u)' = InReady(u)
                                  /\ Top(u)' = Top(u)
                                  /\ \A p, s : Owes(u, p, s)' <=> Owes(u, p, s)
  BY <1>1, <1>3, ContentsElsewhere
<1>6. e \in Elements
  BY <1>1, TopIs DEF FrameSet
<1>7. Top(t).ready = {}
  BY <1>1 DEF StackInv, ThreadInv, FrameInv
<1>8. InRun(t) = {e} /\ InReady(t) = {} /\ InReady(t)' = {}
  BY <1>1, <1>2, <1>3, <1>4, <1>7 DEF InRun, InReady, Busy, Leaving
<1>9. Ends' = Ends /\ Ends \subseteq Elements /\ Threads' = Threads /\ Containers' = Containers
  BY <1>1, GraphStays, GraphIs DEF Threads, Containers
<1>10. InRun(t)' = {e}
  <2>1. g.todo = {} => e \in Ends
    BY <1>2, <1>6 DEF Ends
  <2>2. Busy(t)'
    BY <1>2, <1>3, <1>4, <1>9, <2>1 DEF Busy, Leaving
  <2> QED BY <1>2, <1>4, <2>2 DEF InRun
<1>11. \A c \in Containers : Contents(c)' = Contents(c)
  <2>1. InTasks' = InTasks /\ InFronts' = InFronts
    BY <1>1 DEF InTasks, InFronts
  <2> QED BY <1>5, <1>8, <1>10, <2>1, SameContents
<1>12. ~done[e] /\ Missing(e) = {}
  BY <1>1, <1>8, RunDone
<1>13. done' \in [Elements -> BOOLEAN] /\ done'[e] /\ \A x \in Elements : x # e => done'[x] = done[x]
  BY <1>1, <1>6 DEF TypeInv, ElementType
<1>14. \A p, s : ~Owes(t, p, s)
  BY <1>1, NoDebts
<1>15. \A p, s : Owes(t, p, s)' <=> p = e /\ s \in RunBefore(e)
  BY <1>2, <1>3, <1>4 DEF Owes
<1>16. \A s \in Elements : Missing(s)' = Missing(s)
  <2> SUFFICES ASSUME NEW s \in Elements PROVE Missing(s)' = Missing(s)
    OBVIOUS
  <2>1. conf'.depend[s] = conf.depend[s] /\ conf.depend[s] \subseteq Elements
    BY <1>1, GraphIs
  <2>2. ASSUME NEW p \in conf.depend[s] PROVE Counted(p, s)' <=> Counted(p, s)
    <3>1. CASE p = e
      <4>1. s \in RunBefore(e)
        BY <3>1, <2>2 DEF RunBefore
      <4> QED BY <3>1, <4>1, <1>12, <1>15, <1>9 DEF Counted
    <3>2. CASE p # e
      <4>1. done'[p] = done[p]
        BY <2>1, <3>2, <1>13
      <4>2. \A u \in Threads : Owes(u, p, s)' <=> Owes(u, p, s)
        BY <1>5, <1>14, <1>15, <3>2
      <4> QED BY <4>1, <4>2, <1>9 DEF Counted
    <3> QED BY <3>1, <3>2
  <2> QED BY <2>1, <2>2 DEF Missing
<1>17. Disjoint'
  BY <1>9, <1>11 DEF Disjoint
<1>18. (\A x \in Elements : done[x] \/ Underway(x) => Missing(x) = {})'
  <2>1. \A x : Underway(x)' <=> Underway(x)
    BY <1>9, <1>11 DEF Underway
  <2>2. ASSUME NEW x \in Elements, done'[x] \/ Underway(x)' PROVE Missing(x)' = {}
    <3>1. CASE x = e
      BY <3>1, <1>12, <1>16
    <3>2. CASE x # e
      BY <2>1, <2>2, <3>2, <1>13, <1>16 DEF RunInv
    <3> QED BY <3>1, <3>2
  <2> QED BY <2>2
<1>19. (\A x \in Elements : Missing(x) # {} => left[x] = Cardinality(Missing(x)))'
  BY <1>1, <1>16 DEF RunInv
<1>20. (\A c \in Containers : \A x \in Contents(c) :
          done[x] <=> c[1] = "run" /\ Top(c[2]).at = "succ")'
  <2> SUFFICES ASSUME NEW c \in Containers, NEW x \in Contents(c)'
               PROVE  done'[x] <=> c[1] = "run" /\ Top(c[2])'.at = "succ"
    BY <1>9
  <2>1. x \in Contents(c) /\ x \in Elements
    BY <1>11, ContentsType
  <2>2. done[x] <=> c[1] = "run" /\ Top(c[2]).at = "succ"
    BY <2>1 DEF RunInv
  <2>3. CASE x = e
    <3>1. c = <<"run", t>>
      BY <2>1, <2>3, <1>8, ContentsAre DEF Disjoint
    <3> QED BY <3>1, <2>3, <1>2, <1>4, <1>13
  <2>4. CASE x # e
    <3>1. done'[x] = done[x]
      BY <2>1, <2>4, <1>13
    <3>2. CASE c[1] # "run"
      BY <2>2, <3>1, <3>2
    <3>3. CASE c[1] = "run"
      <4>1. PICK u \in Threads : c = <<"run", u>>
        BY <3>3, ContainerKinds
      <4>2. u # t
        BY <2>1, <2>4, <4>1, <1>8, ContentsAre
      <4> QED BY <2>2, <3>1, <4>1, <4>2, <1>5
    <3> QED BY <3>2, <3>3
  <2> QED BY <2>3, <2>4
<1>21. engine \in [alive : BOOLEAN, finished : Nat, runs : Nat, ok : BOOLEAN]
  BY DEF TypeInv, EngineType
<1>22. engine'.runs = engine.runs + 1 /\ engine'.finished = engine.finished
       /\ (~engine.ok => ~engine'.ok)
  BY <1>1, <1>21
<1>23. (engine.runs = Cardinality({x \in Elements : done[x]}))'
  <2> DEFINE D == {x \in Elements : done[x]}
  <2>1. {x \in Elements : done'[x]} = D \cup {e} /\ e \notin D
    BY <1>6, <1>12, <1>13
  <2>2. IsFiniteSet(D)
    BY GraphIs, FS_Subset
  <2>3. Cardinality(D \cup {e}) = Cardinality(D) + 1
    BY <2>1, <2>2, FS_AddElement
  <2>4. engine.runs = Cardinality(D)
    BY DEF RunInv
  <2> HIDE DEF D
  <2> QED BY <2>1, <2>3, <2>4, <1>22
<1>24. (engine.finished = Cardinality(Passed))'
  <2>1. \A u \in Threads : InRun(u)' = InRun(u)
    BY <1>5, <1>8, <1>10
  <2>2. Passed' = {x \in Ends : done'[x] /\ \A u \in Threads : x \notin InRun(u)}
    BY <2>1, <1>9 DEF Passed
  <2>3. \A x \in Ends : x \in Passed' <=> x \in Passed
    BY <2>2, <1>8, <1>9, <1>13 DEF Passed
  <2>4. Passed' = Passed
    BY <2>2, <2>3 DEF Passed
  <2> QED BY <2>4, <1>22 DEF RunInv
<1>25. (main.at = "verdict" => RunIsOver)'
  BY <1>1, <1>9, <1>22 DEF RunInv, RunIsOver
<1> QED BY <1>17, <1>18, <1>19, <1>20, <1>23, <1>24, <1>25 DEF RunInv
(* left_depend_ counts those who are missing, whatever it wraps at.        *)
LEMMA CountedDown ==
  ASSUME TypeInv, NEW S \in SUBSET Elements, S # {},
         NEW n, n = (Cardinality(S) + DependModulus - 1) % DependModulus, NEW p \in S
  PROVE  n = Cardinality(S \ {p}) /\ (n = 0 <=> S \ {p} = {})
<1>1. IsFiniteSet(S) /\ Cardinality(S) \in Nat /\ Cardinality(S) <= Cardinality(Elements)
      /\ Cardinality(Elements) \in Nat
  BY GraphIs, FS_Subset, FS_CardinalityType
<1>2. IsFiniteSet(S \ {p}) /\ Cardinality(S \ {p}) = Cardinality(S) - 1
  BY <1>1, FS_RemoveElement
<1>3. Cardinality(S \ {p}) \in Nat /\ (Cardinality(S \ {p}) = 0 <=> S \ {p} = {})
  BY <1>2, FS_CardinalityType, FS_EmptySet
<1>4. PICK k \in Nat : k = Cardinality(S) - 1
  BY <1>2, <1>3
<1>5. PICK m \in Nat : m = DependModulus /\ k < m
  BY <1>1, <1>4, GraphIs
<1>6. Cardinality(S) + DependModulus - 1 = k + m
  BY <1>1, <1>4, <1>5
<1>7. (k + m) % m = k
  BY <1>5
<1> QED BY <1>2, <1>3, <1>4, <1>5, <1>6, <1>7

LEMMA CountDownRun ==
  ASSUME TypeInv, StackInv, RunInv, Disjoint, NEW t \in Threads, CountDown(t)
  PROVE  RunInv' /\ Disjoint'
<1>0. PICK p : p = Top(t).e
  OBVIOUS
<1>1. /\ stack[t] # <<>> /\ Top(t).at = "succ"
      /\ UNCHANGED <<conf, main, tasks, cur, repo, done, triggered, fut, engine, control, open,
                     ran, failed, stopped>>
  BY CountDownDoes
<1>2. PICK s \in Top(t).todo, n \in 0..(DependModulus - 1), g \in FrameSet :
              /\ n = (left[s] + DependModulus - 1) % DependModulus
              /\ left' = [left EXCEPT ![s] = n]
              /\ Goto(t, g) /\ g.e = Top(t).e /\ g.at = "succ" /\ g.todo = Top(t).todo \ {s}
              /\ g.ready = IF n = 0 THEN Top(t).ready \cup {s} ELSE Top(t).ready
  BY CountDownDoes
<1>3. stack'[t] # <<>> /\ Head(stack'[t]) = g /\ \A u \in Threads : u # t => stack'[u] = stack[u]
  BY <1>1, <1>2, Went
<1>4. Top(t)' = g
  BY <1>3 DEF Top
<1>5. \A u \in Threads : u # t => /\ InRun(u)' = InRun(u) /\ InReady(u)' = InReady(u)
                                  /\ Top(u)' = Top(u)
                                  /\ \A q, x : Owes(u, q, x)' <=> Owes(u, q, x)
  BY <1>1, <1>3, ContentsElsewhere
<1>6. p \in Elements /\ s \in Elements /\ s \in RunBefore(p)
  <2>1. Top(t) \in FrameSet
    BY <1>0, <1>1, TopIs
  <2>2. Top(t).todo \subseteq RunBefore(p)
    BY <1>0, <1>1 DEF StackInv, ThreadInv, FrameInv
  <2> QED BY <1>0, <2>1, <2>2, <1>2 DEF FrameSet
<1>7. p \in conf.depend[s] /\ p \notin Ends /\ conf.depend[s] \subseteq Elements
  BY <1>6, GraphIs DEF RunBefore, Ends
<1>8. Ends' = Ends /\ Ends \subseteq Elements /\ Threads' = Threads /\ Containers' = Containers
  BY <1>1, GraphStays, GraphIs DEF Threads, Containers
<1>9. InRun(t) = {p} /\ done[p]
  <2>1. InRun(t) = {p}
    BY <1>0, <1>1, <1>2 DEF InRun, Busy, Leaving
  <2> QED BY <2>1, <1>1, RunDone
<1>10. Owes(t, p, s) /\ \A x : Owes(t, p, x)' <=> Owes(t, p, x) /\ x # s
  BY <1>0, <1>1, <1>2, <1>3, <1>4 DEF Owes
<1>11. \A q, x : q # p => ~Owes(t, q, x) /\ ~Owes(t, q, x)'
  BY <1>0, <1>2, <1>4 DEF Owes
<1>12. ASSUME NEW u \in Threads, NEW x, Owes(u, p, x) PROVE u = t
  <2>1. stack[u] # <<>> /\ Top(u).at = "succ" /\ Top(u).e = p /\ Top(u).todo # {}
    BY <1>12 DEF Owes
  <2>2. InRun(u) = {p}
    BY <2>1 DEF InRun, Busy, Leaving
  <2>4. <<"run", u>> \in Containers /\ <<"run", t>> \in Containers
        /\ p \in Contents(<<"run", u>>) /\ p \in Contents(<<"run", t>>)
    BY <2>2, <1>9, ContentsAre
  <2>3. <<"run", u>> = <<"run", t>>
    BY <2>4 DEF Disjoint
  <2> QED BY <2>3
<1>13. ~Counted(p, s) /\ Counted(p, s)'
  <2>1. ASSUME NEW u \in Threads PROVE ~Owes(u, p, s)'
    <3>1. CASE u = t
      BY <3>1, <1>10
    <3>2. CASE u # t
      <4>1. ~Owes(u, p, s)
        BY <3>2, <1>12
      <4> QED BY <3>2, <4>1, <1>5
    <3> QED BY <3>1, <3>2
  <2> QED BY <2>1, <1>1, <1>8, <1>9, <1>10 DEF Counted
<1>14. ASSUME NEW q, NEW x, q # p \/ x # s PROVE Counted(q, x)' <=> Counted(q, x)
  <2>1. ASSUME NEW u \in Threads PROVE Owes(u, q, x)' <=> Owes(u, q, x)
    <3>1. CASE u # t
      BY <3>1, <1>5
    <3>2. CASE u = t /\ q # p
      BY <3>2, <1>11
    <3>3. CASE u = t /\ q = p
      BY <3>3, <1>10, <1>14
    <3> QED BY <3>1, <3>2, <3>3
  <2> QED BY <2>1, <1>1, <1>8 DEF Counted
<1>15. Missing(s)' = Missing(s) \ {p} /\ p \in Missing(s)
  <2>1. p \in Missing(s)
    BY <1>7, <1>13 DEF Missing
  <2>2. Missing(s)' = {q \in conf.depend[s] : ~Counted(q, s)'}
    BY <1>1 DEF Missing
  <2>3. \A q \in conf.depend[s] : Counted(q, s)' <=> q = p \/ Counted(q, s)
    BY <1>13, <1>14
  <2> QED BY <2>1, <2>2, <2>3 DEF Missing
<1>16. \A x \in Elements : x # s => Missing(x)' = Missing(x)
  BY <1>1, <1>14 DEF Missing
<1>17. n = Cardinality(Missing(s)') /\ (n = 0 <=> Missing(s)' = {})
  <2>1. Missing(s) \subseteq Elements /\ Missing(s) # {}
    BY <1>7, <1>15 DEF Missing
  <2>2. n = (Cardinality(Missing(s)) + DependModulus - 1) % DependModulus
    BY <1>2, <1>6, <2>1 DEF RunInv
  <2> QED BY <2>1, <2>2, <1>15, CountedDown
<1>18. ~done[s] /\ ~Underway(s)
  BY <1>6, <1>15 DEF RunInv
<1>19. InRun(t)' \subseteq {p}
  BY <1>0, <1>2, <1>4 DEF InRun
<1>20. InReady(t)' = IF n = 0 THEN InReady(t) \cup {s} ELSE InReady(t)
  BY <1>1, <1>2, <1>3, <1>4 DEF InReady
<1>21. InTasks' = InTasks /\ InFronts' = InFronts
  BY <1>1 DEF InTasks, InFronts
<1>22. \A c \in Containers : c # <<"ready", t>> => Contents(c)' \subseteq Contents(c)
  <2> SUFFICES ASSUME NEW c \in Containers, c # <<"ready", t>>
               PROVE  Contents(c)' \subseteq Contents(c)
    OBVIOUS
  <2>1. ASSUME NEW u \in Threads, c = <<"run", u>> PROVE Contents(c)' \subseteq Contents(c)
    <3>1. InRun(u)' \subseteq InRun(u)
      BY <1>5, <1>9, <1>19
    <3> QED BY <2>1, <3>1, ContentsAre, ContentsThen
  <2>2. ASSUME NEW u \in Threads, c = <<"ready", u>> PROVE Contents(c)' \subseteq Contents(c)
    <3>1. InReady(u)' = InReady(u)
      BY <1>5, <2>2
    <3> QED BY <2>2, <3>1, ContentsAre, ContentsThen
  <2>3. ASSUME c = <<"tasks", Main>> \/ c = <<"fronts", Main>>
        PROVE  Contents(c)' \subseteq Contents(c)
    BY <2>3, <1>21, ContentsAre, ContentsThen
  <2> QED BY <2>1, <2>2, <2>3, ContainerKinds
<1>23. Contents(<<"ready", t>>)' \subseteq Contents(<<"ready", t>>) \cup {s}
       /\ <<"ready", t>> \in Containers
  BY <1>20, ContentsAre, ContentsThen
<1>24. \A c \in Containers : s \notin Contents(c)
  BY <1>18 DEF Underway
<1>25. Disjoint'
  <2> SUFFICES ASSUME NEW c \in Containers, NEW d \in Containers, NEW x, x \in Contents(c)',
                      x \in Contents(d)'
               PROVE  c = d
    BY <1>8 DEF Disjoint
  <2>1. CASE x = s
    <3>1. c = <<"ready", t>> /\ d = <<"ready", t>>
      BY <2>1, <1>22, <1>24
    <3> QED BY <3>1
  <2>2. CASE x # s
    <3>1. x \in Contents(c) /\ x \in Contents(d)
      BY <2>2, <1>22, <1>23
    <3> QED BY <3>1 DEF Disjoint
  <2> QED BY <2>1, <2>2
<1>26. (\A x \in Elements : done[x] \/ Underway(x) => Missing(x) = {})'
  <2> SUFFICES ASSUME NEW x \in Elements, done[x] \/ Underway(x)' PROVE Missing(x)' = {}
    BY <1>1
  <2>1. CASE x = s
    <3>1. PICK c \in Containers : s \in Contents(c)'
      BY <2>1, <1>8, <1>18 DEF Underway
    <3>2. c = <<"ready", t>>
      BY <3>1, <1>22, <1>24
    <3>3. n = 0
      BY <3>1, <3>2, <1>20, <1>24, ContentsAre, ContentsThen
    <3> QED BY <2>1, <3>3, <1>17
  <2>2. CASE x # s
    <3>1. Underway(x)' => Underway(x)
      BY <2>2, <1>8, <1>22, <1>23 DEF Underway
    <3> QED BY <2>2, <3>1, <1>16 DEF RunInv
  <2> QED BY <2>1, <2>2
<1>27. (\A x \in Elements : Missing(x) # {} => left[x] = Cardinality(Missing(x)))'
  <2>1. left \in [Elements -> 0..(DependModulus - 1)]
    BY DEF TypeInv, ElementType
  <2>2. left'[s] = n /\ \A x \in Elements : x # s => left'[x] = left[x]
    BY <1>2, <1>6, <2>1
  <2> QED BY <2>2, <1>16, <1>17 DEF RunInv
<1>28. (\A c \in Containers : \A x \in Contents(c) :
          done[x] <=> c[1] = "run" /\ Top(c[2]).at = "succ")'
  <2> SUFFICES ASSUME NEW c \in Containers, NEW x \in Contents(c)'
               PROVE  done[x] <=> c[1] = "run" /\ Top(c[2])'.at = "succ"
    BY <1>1, <1>8
  <2>1. CASE x = s
    <3>1. c = <<"ready", t>>
      BY <2>1, <1>22, <1>24
    <3> QED BY <2>1, <3>1, <1>18
  <2>2. CASE x # s
    <3>1. x \in Contents(c)
      BY <2>2, <1>22, <1>23
    <3>2. done[x] <=> c[1] = "run" /\ Top(c[2]).at = "succ"
      BY <3>1 DEF RunInv
    <3>3. CASE c[1] # "run"
      BY <3>2, <3>3
    <3>4. CASE c[1] = "run"
      <4>1. PICK u \in Threads : c = <<"run", u>>
        BY <3>4, ContainerKinds
      <4>2. Top(u)'.at = "succ" <=> Top(u).at = "succ"
        BY <1>1, <1>2, <1>4, <1>5
      <4> QED BY <3>2, <4>1, <4>2
    <3> QED BY <3>3, <3>4
  <2> QED BY <2>1, <2>2
<1>29. (engine.runs = Cardinality({x \in Elements : done[x]}))'
  BY <1>1 DEF RunInv
<1>30. (engine.finished = Cardinality(Passed))'
  <2>1. Passed' = {x \in Ends : done[x] /\ \A u \in Threads : x \notin InRun(u)'}
    BY <1>1, <1>8 DEF Passed
  <2>2. ASSUME NEW x \in Ends, NEW u \in Threads PROVE x \in InRun(u)' <=> x \in InRun(u)
    <3>1. x # p
      BY <1>7
    <3>2. CASE u = t
      BY <3>1, <3>2, <1>9, <1>19
    <3>3. CASE u # t
      BY <3>3, <1>5
    <3> QED BY <3>2, <3>3
  <2>3. Passed' = Passed
    BY <2>1, <2>2 DEF Passed
  <2> QED BY <2>3, <1>1 DEF RunInv
<1>31. (main.at = "verdict" => RunIsOver)'
  BY <1>1, <1>8 DEF RunInv, RunIsOver
<1> QED BY <1>25, <1>26, <1>27, <1>28, <1>29, <1>30, <1>31 DEF RunInv
(* An element is started: in the thread that found it ready, in the pool,  *)
(* or not at all.                                                          *)
LEMMA Started ==
  ASSUME TypeInv, RunInv, Disjoint, conf' = conf, done' = done, left' = left, SameEngine,
         main'.at = "verdict" => main.at = "verdict",
         NEW t \in Threads, \A u \in Threads : u # t => stack'[u] = stack[u],
         \A p, x : ~Owes(t, p, x) /\ ~Owes(t, p, x)',
         NEW c1 \in Containers, c1[1] \notin {"run", "tasks"}, NEW s \in Contents(c1),
         s \in Elements, ~done[s], Missing(s) = {},
         InRun(t) \cap Ends = {}, InReady(t)' \subseteq InReady(t), InFronts' \subseteq InFronts,
         s \notin Contents(c1)',
         \/ InRun(t)' = {s} /\ Top(t)'.at # "succ" /\ InTasks' \subseteq InTasks
         \/ /\ InRun(t)' \subseteq InRun(t) /\ InTasks' \subseteq InTasks \cup {s}
            /\ Busy(t)' => (Top(t)'.at = "succ" <=> Top(t).at = "succ")
  PROVE  RunInv' /\ Disjoint'
<1>1. \A u \in Threads : u # t => InRun(u)' = InRun(u) /\ InReady(u)' = InReady(u)
                                  /\ Top(u)' = Top(u)
  BY ContentsElsewhere
<1>2. SameDebts
  BY DebtsBy
<1>3. ASSUME NEW c \in Containers, c # <<"run", t>>, c # <<"tasks", Main>>
      PROVE  Contents(c)' \subseteq Contents(c)
  <2>1. ASSUME NEW u \in Threads, c = <<"run", u>> PROVE Contents(c)' \subseteq Contents(c)
    <3>1. InRun(u)' = InRun(u)
      BY <1>1, <1>3, <2>1
    <3> QED BY <2>1, <3>1, ContentsAre, ContentsThen
  <2>2. ASSUME NEW u \in Threads, c = <<"ready", u>> PROVE Contents(c)' \subseteq Contents(c)
    <3>1. InReady(u)' \subseteq InReady(u)
      BY <1>1
    <3> QED BY <2>2, <3>1, ContentsAre, ContentsThen
  <2>3. ASSUME c = <<"fronts", Main>> PROVE Contents(c)' \subseteq Contents(c)
    BY <2>3, ContentsAre, ContentsThen
  <2> QED BY <1>3, <2>1, <2>2, <2>3, ContainerKinds
<1>4. c1 # <<"run", t>> /\ c1 # <<"tasks", Main>>
  OBVIOUS
<1>5. \A c \in Containers : c # c1 => s \notin Contents(c)
  BY DEF Disjoint
<1>6. ASSUME NEW c \in Containers, c # <<"run", t>>, c # <<"tasks", Main>>
      PROVE  Contents(c)' \subseteq Contents(c) \ {s}
  <2>1. CASE c = c1
    BY <1>3, <1>6, <2>1
  <2>2. CASE c # c1
    BY <1>3, <1>5, <1>6, <2>2
  <2> QED BY <2>1, <2>2
<1>7. ASSUME NEW c \in Containers, c[1] = "run"
      PROVE  Contents(c) \cap Ends \subseteq Contents(c)'
  <2>1. PICK u \in Threads : c = <<"run", u>>
    BY <1>7, ContainerKinds
  <2>2. CASE u = t
    BY <2>1, <2>2, ContentsAre
  <2>3. CASE u # t
    BY <2>1, <2>3, <1>1, ContentsAre, ContentsThen
  <2> QED BY <2>2, <2>3
<1>8. <<"run", t>> \in Containers /\ Contents(<<"run", t>>) = InRun(t)
      /\ Contents(<<"run", t>>)' = InRun(t)'
      /\ <<"tasks", Main>> \in Containers /\ Contents(<<"tasks", Main>>) = InTasks
      /\ Contents(<<"tasks", Main>>)' = InTasks'
  BY ContentsAre, ContentsThen
<1>9. CASE InRun(t)' = {s} /\ Top(t)'.at # "succ" /\ InTasks' \subseteq InTasks
  <2>1. PICK c2 \in Containers : c2 = <<"run", t>>
    BY <1>8
  <2>2. ASSUME NEW c \in Containers, c # c2 PROVE Contents(c)' \subseteq Contents(c) \ {s}
    <3>1. CASE c = <<"tasks", Main>>
      <4>1. s \notin InTasks
        BY <1>4, <1>5, <1>8
      <4> QED BY <3>1, <4>1, <1>8, <1>9
    <3>2. CASE c # <<"tasks", Main>>
      BY <3>2, <2>1, <2>2, <1>6
    <3> QED BY <3>1, <3>2
  <2>3. Contents(c2)' = {s}
    BY <2>1, <1>8, <1>9
  <2>4. \A c \in Containers : Contents(c)' \subseteq Contents(c) \cup {s}
    BY <2>2, <2>3
  <2>5. Shifts({s}, c2)
    BY <2>2, <2>4, <1>7 DEF Shifts
  <2>6. SameTops({s}, c2)
    <3>1. c2[2] = t /\ \A u \in Threads : c2 # <<"run", u>> => u # t
      BY <2>1
    <3> QED BY <3>1, <2>3, <1>1, <1>9 DEF SameTops
  <2> QED BY <1>2, <2>5, <2>6, ShiftRun, ShiftDisjoint
<1>10. CASE /\ InRun(t)' \subseteq InRun(t) /\ InTasks' \subseteq InTasks \cup {s}
            /\ Busy(t)' => (Top(t)'.at = "succ" <=> Top(t).at = "succ")
  <2>1. PICK c2 \in Containers : c2 = <<"tasks", Main>>
    BY <1>8
  <2>2. ASSUME NEW c \in Containers, c # c2 PROVE Contents(c)' \subseteq Contents(c) \ {s}
    <3>1. CASE c = <<"run", t>>
      <4>1. s \notin InRun(t)
        BY <1>4, <1>5, <1>8
      <4> QED BY <3>1, <4>1, <1>8, <1>10
    <3>2. CASE c # <<"run", t>>
      BY <3>2, <2>1, <2>2, <1>6
    <3> QED BY <3>1, <3>2
  <2>3. Contents(c2)' \subseteq Contents(c2) \cup {s}
    BY <2>1, <1>8, <1>10
  <2>4. \A c \in Containers : Contents(c)' \subseteq Contents(c) \cup {s}
    BY <2>2, <2>3
  <2>5. Shifts({s}, c2)
    BY <2>2, <2>4, <1>7 DEF Shifts
  <2>6. SameTops({s}, c2)
    <3>1. c2[1] # "run"
      BY <2>1
    <3>2. ASSUME NEW u \in Threads, Busy(u)'
          PROVE  Top(u)'.at = "succ" <=> Top(u).at = "succ"
      BY <3>2, <1>1, <1>10
    <3> QED BY <3>1, <3>2 DEF SameTops
  <2> QED BY <1>2, <2>5, <2>6, ShiftRun, ShiftDisjoint
<1> QED BY <1>9, <1>10

LEMMA TaskGrows ==
  ASSUME TypeInv, NEW e \in Elements, tasks' = tasks \/ tasks' = tasks \cup {Exec(e)}
  PROVE  InTasks' \subseteq InTasks \cup {e} /\ (tasks' = tasks => InTasks' = InTasks)
BY ExecsDiffer DEF InTasks

LEMMA StartReadyRun ==
  ASSUME TypeInv, StackInv, RunInv, Disjoint, NEW t \in Threads, StartReady(t)
  PROVE  RunInv' /\ Disjoint'
<1>1. /\ stack[t] # <<>> /\ Top(t).at = "succ" /\ Top(t).todo = {}
      /\ UNCHANGED <<conf, main, cur, repo, done, left, triggered, fut, engine, control, open,
                     ran, failed, stopped>>
  BY StartReadyDoes
<1>2. PICK s \in Top(t).ready, g \in FrameSet :
        /\ g.e = Top(t).e /\ g.at = "succ" /\ g.todo = {} /\ g.ready = Top(t).ready \ {s}
        /\ Process(t, s, Top(t).ready = {s}, <<g>> \o Tail(stack[t]))
  BY StartReadyDoes
<1>3. Tail(stack[t]) \in Seq(FrameSet) /\ Top(t) \in FrameSet
  BY <1>1, TopIs
<1>4. s \in Elements
  BY <1>3 DEF FrameSet
<1>5. PICK h \in Seq(FrameSet) : h = <<g>> \o Tail(stack[t]) /\ Head(h) = g /\ h # <<>>
  BY <1>3, SeqFacts
<1>6. /\ \A u \in Threads : u # t => stack'[u] = stack[u]
      /\ \/ stack'[t] = h /\ (tasks' = tasks \/ tasks' = tasks \cup {Exec(s)})
         \/ stack'[t] = <<Frame(s, "start")>> \o h /\ tasks' = tasks /\ Top(t).ready = {s}
  <2>1. PICK last \in BOOLEAN : last = (Top(t).ready = {s})
    OBVIOUS
  <2>2. Process(t, s, last, h)
    BY <1>2, <1>5, <2>1
  <2> QED BY <1>4, <2>1, <2>2, Processes
<1>7. s \in RunBefore(Top(t).e)
  BY <1>1 DEF StackInv, ThreadInv, FrameInv
<1>8. InRun(t) = {Top(t).e} /\ Top(t).e \notin Ends /\ InReady(t) = Top(t).ready
  BY <1>1, <1>7 DEF InRun, Busy, Leaving, Ends, InReady
<1>9. <<"ready", t>> \in Containers /\ Contents(<<"ready", t>>) = InReady(t)
      /\ Contents(<<"ready", t>>)' = InReady(t)'
  BY ContentsAre, ContentsThen
<1>10. PICK c1 \in Containers : c1 = <<"ready", t>>
  BY <1>9
<1>11. ~done[s] /\ Missing(s) = {}
  BY <1>8, RunDone
<1>12. InTasks' \subseteq InTasks \cup {s} /\ (tasks' = tasks => InTasks' = InTasks)
  BY <1>4, <1>6, TaskGrows
<1>13. InFronts' = InFronts /\ SameEngine
  BY <1>1 DEF InFronts, SameEngine
<1>14. \A p, x : ~Owes(t, p, x)
  BY <1>1, NoDebts
<1>15. s \in Contents(c1) /\ c1[1] \notin {"run", "tasks"} /\ InRun(t) \cap Ends = {}
  BY <1>8, <1>9, <1>10
<1>16. CASE stack'[t] = h /\ (tasks' = tasks \/ tasks' = tasks \cup {Exec(s)})
  <2>1. Top(t)' = g /\ stack'[t] # <<>> /\ Head(stack'[t]) = g
    BY <1>5, <1>16 DEF Top
  <2>2. \A p, x : ~Owes(t, p, x)'
    BY <1>2, <2>1, NoDebtsThen
  <2>3. InReady(t)' = InReady(t) \ {s} /\ s \notin Contents(c1)'
    BY <1>2, <1>8, <1>9, <1>10, <2>1 DEF InReady
  <2>4. InRun(t)' \subseteq InRun(t)
    BY <1>2, <1>8, <2>1 DEF InRun
  <2>5. Top(t)'.at = "succ" <=> Top(t).at = "succ"
    BY <1>1, <1>2, <2>1
  <2> QED BY <1>1, <1>4, <1>6, <1>11, <1>12, <1>13, <1>14, <1>15, <2>2, <2>3, <2>4, <2>5, Started
<1>17. CASE stack'[t] = <<Frame(s, "start")>> \o h /\ tasks' = tasks /\ Top(t).ready = {s}
  <2> DEFINE f == Frame(s, "start")
  <2>1. f \in FrameSet /\ f.at = "start" /\ f.e = s /\ f.ready = {}
    BY <1>4, FrameMakes DEF Places, Frame
  <2>2. <<f>> \o h # <<>> /\ Head(<<f>> \o h) = f
    BY <2>1, SeqFacts
  <2>3. Top(t)' = f /\ stack'[t] # <<>> /\ Head(stack'[t]) = f
    BY <1>17, <2>2 DEF Top
  <2> HIDE DEF f
  <2>4. \A p, x : ~Owes(t, p, x)'
    BY <2>1, <2>3, NoDebtsThen
  <2>5. InRun(t)' = {s} /\ Top(t)'.at # "succ" /\ InReady(t)' = {}
    BY <2>1, <2>3 DEF InRun, Busy, Leaving, InReady
  <2>6. s \notin Contents(c1)' /\ InReady(t)' \subseteq InReady(t)
    BY <1>9, <1>10, <2>5
  <2> QED BY <1>1, <1>4, <1>6, <1>11, <1>12, <1>13, <1>14, <1>15, <1>17, <2>4, <2>5, <2>6, Started
<1> QED BY <1>6, <1>16, <1>17

LEMMA FrontsRun ==
  ASSUME TypeInv, StackInv, RunInv, Disjoint, MainFronts
  PROVE  RunInv' /\ Disjoint'
<1>1. /\ main.at = "fronts" /\ stack[Main] = <<>> /\ Main \in Threads
      /\ UNCHANGED <<conf, cur, repo, done, left, triggered, fut, engine, control, open, ran,
                     failed, stopped>>
  BY FrontsDoes, GraphIs
<1>2. PICK s \in main.todo : /\ main' = [main EXCEPT !.todo = @ \ {s}]
                             /\ Process(Main, s, main.todo = {s}, <<>>)
  BY FrontsDoes
<1>3. s \in Elements /\ <<>> \in Seq(FrameSet)
  BY DEF TypeInv, MainType
<1>4. /\ \A u \in Threads : u # Main => stack'[u] = stack[u]
      /\ \/ stack'[Main] = <<>> /\ (tasks' = tasks \/ tasks' = tasks \cup {Exec(s)})
         \/ stack'[Main] = <<Frame(s, "start")>> \o <<>> /\ tasks' = tasks
  <2>1. PICK last \in BOOLEAN : last = (main.todo = {s})
    OBVIOUS
  <2>2. Process(Main, s, last, <<>>)
    BY <1>2, <2>1
  <2> QED BY <1>1, <1>3, <2>2, Processes
<1>5. main'.at = "fronts" /\ main'.todo = main.todo \ {s}
  BY <1>1, <1>2 DEF TypeInv, MainType
<1>6. InFronts = main.todo /\ InFronts' = main.todo \ {s}
  BY <1>1, <1>5 DEF InFronts
<1>7. InRun(Main) = {} /\ InReady(Main) = {}
  BY <1>1 DEF InRun, Busy, InReady
<1>8. <<"fronts", Main>> \in Containers /\ Contents(<<"fronts", Main>>) = InFronts
      /\ Contents(<<"fronts", Main>>)' = InFronts'
  BY ContentsAre, ContentsThen
<1>9. PICK c1 \in Containers : c1 = <<"fronts", Main>>
  BY <1>8
<1>10. ~done[s] /\ Missing(s) = {}
  BY <1>1, <1>6, RunDone
<1>11. InTasks' \subseteq InTasks \cup {s} /\ (tasks' = tasks => InTasks' = InTasks)
  BY <1>3, <1>4, TaskGrows
<1>12. SameEngine
  BY <1>1 DEF SameEngine
<1>13. \A p, x : ~Owes(Main, p, x)
  BY <1>1, NoDebts
<1>14. s \in Contents(c1) /\ c1[1] \notin {"run", "tasks"} /\ InRun(Main) \cap Ends = {}
       /\ s \notin Contents(c1)' /\ InFronts' \subseteq InFronts
  BY <1>6, <1>7, <1>8, <1>9
<1>15. CASE stack'[Main] = <<>> /\ (tasks' = tasks \/ tasks' = tasks \cup {Exec(s)})
  <2>1. \A p, x : ~Owes(Main, p, x)'
    BY <1>15, NoDebtsThen
  <2>2. ~Busy(Main)' /\ InRun(Main)' = {} /\ InReady(Main)' = {}
    BY <1>15 DEF InRun, Busy, InReady
  <2> QED BY <1>1, <1>3, <1>4, <1>5, <1>7, <1>10, <1>11, <1>12, <1>13, <1>14, <2>1, <2>2, Started
<1>16. CASE stack'[Main] = <<Frame(s, "start")>> \o <<>> /\ tasks' = tasks
  <2> DEFINE f == Frame(s, "start")
  <2>1. f \in FrameSet /\ f.at = "start" /\ f.e = s /\ f.ready = {}
    BY <1>3, FrameMakes DEF Places, Frame
  <2>2. <<f>> \o <<>> # <<>> /\ Head(<<f>> \o <<>>) = f
    BY <2>1, <1>3, SeqFacts
  <2>3. Top(Main)' = f /\ stack'[Main] # <<>> /\ Head(stack'[Main]) = f
    BY <1>16, <2>2 DEF Top
  <2> HIDE DEF f
  <2>4. \A p, x : ~Owes(Main, p, x)'
    BY <2>1, <2>3, NoDebtsThen
  <2>5. InRun(Main)' = {s} /\ Top(Main)'.at # "succ" /\ InReady(Main)' = {}
    BY <2>1, <2>3 DEF InRun, Busy, Leaving, InReady
  <2> QED BY <1>1, <1>3, <1>4, <1>5, <1>7, <1>10, <1>11, <1>12, <1>13, <1>14, <1>16, <2>4, <2>5,
             Started
<1> QED BY <1>4, <1>15, <1>16
-----------------------------------------------------------------------------
(* A run that is over: all elements are done, and nothing is on its way.   *)
LEMMA LeastElement ==
  ASSUME NEW S \in SUBSET Nat, S # {}
  PROVE  \E m \in S : \A k \in S : m <= k
<1>1. \E m \in S : \A k \in S : ~(<<k, m>> \in OpToRel(<, Nat))
  BY NatLessThanWellFounded, WFMin
<1>2. ASSUME NEW m \in S, NEW k \in S, ~(<<k, m>> \in OpToRel(<, Nat))
      PROVE  m <= k
  BY <1>2 DEF OpToRel
<1> QED BY <1>1, <1>2

(* Any elements have one among them after which none of them comes.        *)
LEMMA LastElement ==
  ASSUME TypeInv, NEW N \in SUBSET Elements, N # {}
  PROVE  \E e \in N : RunBefore(e) \cap N = {}
<1> DEFINE Endless(S) == S # {} /\ \A e \in S : RunBefore(e) \cap S # {}
           Sizes == {n \in Nat : \E S \in SUBSET Elements : Endless(S) /\ Cardinality(S) = n}
<1>1. SUFFICES ASSUME Endless(N) PROVE FALSE
  OBVIOUS
<1>2. IsFiniteSet(Elements) /\ Registered(conf)
  BY GraphIs, ConfIs DEF IsConfig
<1>3. \A S \in SUBSET Elements : IsFiniteSet(S) /\ Cardinality(S) \in Nat
  BY <1>2, FS_Subset, FS_CardinalityType
<1>4. Sizes # {} /\ Sizes \in SUBSET Nat
  BY <1>1, <1>3
<1> HIDE DEF Sizes
<1>5. PICK m \in Sizes : \A k \in Sizes : m <= k
  BY <1>4, LeastElement
<1> USE DEF Sizes
<1>6. PICK S \in SUBSET Elements : Endless(S) /\ Cardinality(S) = m
  BY <1>5
<1>7. PICK x \in S : conf.depend[x] \cap S = {}
  BY <1>2, <1>6 DEF Registered
<1>8. ASSUME NEW e \in S PROVE \E y \in S \ {x} : y \in RunBefore(e)
  <2>1. PICK y \in RunBefore(e) \cap S : TRUE
    BY <1>6
  <2>2. e \in conf.depend[y]
    BY <2>1 DEF RunBefore
  <2>3. y # x
    BY <2>2, <1>7
  <2> QED BY <2>1, <2>3
<1>9. Endless(S \ {x})
  BY <1>8
<1>10. Cardinality(S \ {x}) = m - 1 /\ m \in Nat
  BY <1>3, <1>6, FS_RemoveElement
<1>11. Cardinality(S \ {x}) \in Sizes
  BY <1>3, <1>9
<1> HIDE DEF Sizes
<1>12. m <= m - 1 /\ m \in Nat
  BY <1>4, <1>5, <1>10, <1>11
<1> QED BY <1>12

LEMMA AllDone ==
  ASSUME TypeInv, StackInv, RunInv, main.at = "verdict", engine.ok
  PROVE  (\A e \in Elements : done[e]) /\ (\A c \in Containers : Contents(c) = {})
<1>1. Ends \subseteq Elements /\ IsFiniteSet(Ends) /\ IsFiniteSet(Passed)
      /\ Passed \subseteq Ends /\ Cardinality(Passed) \in Nat /\ Cardinality(Ends) \in Nat
  <2>1. Passed \subseteq Ends /\ Ends \subseteq Elements /\ IsFiniteSet(Elements)
    BY GraphIs DEF Passed
  <2> QED BY <2>1, FS_Subset, FS_CardinalityType
<1>2. Cardinality(Passed) >= Cardinality(Ends)
  BY DEF RunInv, RunIsOver
<1>3. Passed = Ends
  BY <1>1, <1>2, FS_Subset
<1>4. \A e \in Ends : done[e] /\ \A t \in Threads : e \notin InRun(t)
  BY <1>3 DEF Passed
<1>5. \A e \in Elements : done[e]
  <2> SUFFICES ASSUME NEW x \in Elements, ~done[x] PROVE FALSE
    OBVIOUS
  <2> DEFINE N == {e \in Elements : ~done[e]}
  <2>1. PICK e \in N : RunBefore(e) \cap N = {}
    BY LastElement
  <2>2. e \notin Ends
    BY <2>1, <1>4
  <2>3. PICK s \in RunBefore(e) : TRUE
    BY <2>1, <2>2 DEF Ends
  <2>4. s \in Elements /\ e \in conf.depend[s]
    BY <2>3 DEF RunBefore
  <2>5. done[s]
    BY <2>1, <2>3, <2>4
  <2>6. Missing(s) = {}
    BY <2>4, <2>5 DEF RunInv
  <2>7. Counted(e, s)
    BY <2>4, <2>6 DEF Missing
  <2> QED BY <2>1, <2>7 DEF Counted
<1>6. ASSUME NEW t \in Threads PROVE InRun(t) = {}
  <2> SUFFICES ASSUME NEW e \in InRun(t) PROVE FALSE
    OBVIOUS
  <2>1. e \in Elements /\ Top(t).at = "succ"
    BY <1>5, RunDone
  <2>2. e \notin Ends
    BY <1>4
  <2>3. Busy(t) /\ e = Top(t).e
    BY DEF InRun
  <2>4. stack[t] # <<>> /\ ~Leaving(Top(t))
    BY <2>2, <2>3 DEF Busy
  <2>5. Top(t).ready = {}
    <3>1. InReady(t) = {}
      BY <1>5, RunDone
    <3> QED BY <2>4, <3>1 DEF InReady
  <2>6. PICK s \in Top(t).todo : TRUE
    BY <2>1, <2>4, <2>5 DEF Leaving
  <2>7. s \in RunBefore(e)
    BY <2>1, <2>3, <2>4, <2>6 DEF StackInv, ThreadInv, FrameInv
  <2>8. s \in Elements /\ e \in conf.depend[s]
    BY <2>7 DEF RunBefore
  <2>9. Owes(t, e, s)
    BY <2>1, <2>3, <2>4, <2>6 DEF Owes
  <2>10. e \in Missing(s)
    BY <2>8, <2>9 DEF Missing, Counted
  <2> QED BY <1>5, <2>8, <2>10 DEF RunInv
<1>7. ASSUME NEW t \in Threads PROVE InReady(t) = {}
  BY <1>5, RunDone
<1>8. InTasks = {} /\ InFronts = {}
  BY <1>5, RunDone, GraphIs
<1> QED BY <1>5, <1>6, <1>7, <1>8, ContainerKinds, ContentsAre

(* Between two runs.                                                       *)
LEMMA RestIs ==
  ASSUME TypeInv, RestInv, NEW t \in Threads
  PROVE  InRun(t) = {} /\ InReady(t) = {} /\ ~Busy(t) /\ InTasks = {} /\ InFronts = {}
<1>1. InRun(t) = {} /\ InReady(t) = {} /\ InTasks = {} /\ InFronts = {}
  BY ContentsAre DEF RestInv
<1> QED BY <1>1 DEF InRun

LEMMA NothingThere ==
  ASSUME \A t \in Threads : InRun(t)' = {} /\ InReady(t)' = {}, InTasks' = {}, InFronts' = {}
  PROVE  (\A c \in Containers : Contents(c) = {})' /\ Disjoint'
<1>1. Containers' = Containers
  BY DEF Containers, Threads
<1>2. \A c \in Containers : Contents(c)' = {}
  BY ContainerKinds, ContentsThen
<1> QED BY <1>1, <1>2 DEF Disjoint

LEMMA RestKeeps ==
  ASSUME TypeInv, RestInv, conf' = conf,
         \A t \in Threads : InRun(t)' = {} /\ InReady(t)' = {}, InTasks' = {}, InFronts' = {},
         done' = done, engine'.runs = engine.runs, engine'.ok = engine.ok,
         main'.verdict = main.verdict, main'.at # "init" \/ main.at = "init",
         Returned' => Returned \/ main.verdict = "none"
  PROVE  RestInv' /\ Disjoint'
<1>1. (\A c \in Containers : Contents(c) = {})' /\ Disjoint'
  BY NothingThere
<1>2. AfterRunCheck => AfterRunCheck'
  BY DEF AfterRunCheck
<1>3. (Returned /\ main.verdict # "none" /\ engine.ok => AfterRunCheck)'
  BY <1>2 DEF RestInv
<1>4. (main.at = "init" => main.verdict = "none")'
  BY DEF RestInv
<1> QED BY <1>1, <1>3, <1>4 DEF RestInv
LEMMA RestThread ==
  ASSUME TypeInv, StackInv, RestInv, ~Running, NEW t \in Threads,
         ThreadStep(t) \/ SpuriousWakeup(t)
  PROVE  RestInv' /\ Disjoint' /\ main' = main
<1>1. \A u \in Threads : InRun(u) = {} /\ InReady(u) = {} /\ ~Busy(u)
  BY RestIs
<1>2. InTasks = {} /\ InFronts = {}
  BY RestIs
<1>3. ~Still(t)
  <2>1. Moves(t) => Busy(t)
    BY DEF Moves, Busy, Leaving
  <2> QED BY <1>1, <2>1 DEF Still
<1>4. ~Finish(t) /\ ~CountDown(t)
  <2>1. Finish(t) => Busy(t)
    BY DEF Finish, At, Busy, Leaving
  <2>2. CountDown(t) => Busy(t)
    BY DEF CountDown, At, Busy, Leaving
  <2> QED BY <1>1, <2>1, <2>2
<1>5. ~StartReady(t)
  <2>1. StartReady(t) => InReady(t) # {}
    BY DEF StartReady, At, InReady
  <2> QED BY <1>1, <2>1
<1>6. CASE Take(t)
  <2>1. InReady(t)' = {} /\ InFronts' = InFronts
        /\ \A u \in Threads : u # t => InRun(u)' = InRun(u) /\ InReady(u)' = InReady(u)
    BY <1>6, TakeViews
  <2>2. InRun(t)' = {} /\ InTasks' = InTasks
    BY <1>2, <1>6, TakeViews
  <2>3. UNCHANGED <<conf, main, cur, repo, done, left, triggered, fut, engine, control, open, ran,
                    failed, stopped>>
    BY <1>6 DEF Take
  <2>4. \A u \in Threads : InRun(u)' = {} /\ InReady(u)' = {}
    BY <1>1, <2>1, <2>2
  <2>5. Returned' => Returned
    BY <2>3 DEF Returned
  <2> QED BY <1>2, <2>1, <2>2, <2>3, <2>4, <2>5, RestKeeps
<1>7. CASE RunAsync(t) \/ Leave(t)
  <2>1. /\ stack[t] # <<>> /\ stack'[t] = Tail(stack[t]) /\ conf' = conf /\ done' = done
        /\ tasks' = tasks /\ \A u \in Threads : u # t => stack'[u] = stack[u]
    <3>1. CASE RunAsync(t)
      <4>1. stack[t] # <<>> /\ stack' = [stack EXCEPT ![t] = Tail(@)]
        BY <3>1 DEF RunAsync, At
      <4> QED BY <3>1, <4>1, Drops DEF RunAsync
    <3>2. CASE Leave(t)
      BY <3>2, LeaveDoes
    <3> QED BY <1>7, <3>1, <3>2
  <2>2. main' = main /\ engine'.runs = engine.runs /\ engine'.ok = engine.ok
    <3>1. CASE RunAsync(t)
      BY <3>1 DEF RunAsync
    <3>2. CASE Leave(t)
      <4>1. engine' = [engine EXCEPT !.finished = @ + IF Top(t).e \in Ends THEN 1 ELSE 0]
            /\ (main' = main \/ (main.at = "blocked" /\ main' = [main EXCEPT !.at = "wait"]))
        BY <3>2, LeaveDoes
      <4> QED BY <4>1 DEF Running, TypeInv, EngineType
    <3> QED BY <1>7, <3>1, <3>2
  <2>3. InRun(t)' = {} /\ InReady(t)' = {}
        /\ \A u \in Threads : u # t => InRun(u)' = InRun(u) /\ InReady(u)' = InReady(u)
    BY <2>1, DropViews
  <2>4. \A u \in Threads : InRun(u)' = {} /\ InReady(u)' = {}
    BY <1>1, <2>3
  <2>5. InTasks' = {} /\ InFronts' = {} /\ (Returned' => Returned)
    BY <1>2, <2>1, <2>2 DEF InTasks, InFronts, Returned
  <2> QED BY <2>1, <2>2, <2>4, <2>5, RestKeeps
<1> QED BY <1>3, <1>4, <1>5, <1>6, <1>7, ThreadKinds

(* Steps of others that change no call but may wake a sleeper.             *)
LEMMA WakeViews ==
  ASSUME TypeInv, StackInv, conf' = conf, tasks' = tasks,
         stack' = stack \/ (\E t \in Threads : Moves(t)), InFronts' = InFronts
  PROVE  /\ \A c \in Containers : Contents(c)' = Contents(c)
         /\ \A u \in Threads, p \in Elements, s \in Elements : Owes(u, p, s)' <=> Owes(u, p, s)
         /\ \A c2 \in Containers : SameTops({}, c2)
<1>1. CASE stack' = stack
  <2>1. \A u \in Threads : InRun(u)' = InRun(u) /\ InReady(u)' = InReady(u) /\ Top(u)' = Top(u)
                           /\ \A p, s : Owes(u, p, s)' <=> Owes(u, p, s)
    BY <1>1, ContentsElsewhere
  <2>2. InTasks' = InTasks
    BY DEF InTasks
  <2>3. \A c \in Containers : Contents(c)' = Contents(c)
    BY <2>1, <2>2, SameContents
  <2>4. \A c2 \in Containers : SameTops({}, c2)
    BY <2>1 DEF SameTops
  <2> QED BY <2>1, <2>3, <2>4
<1>2. CASE \E t \in Threads : Moves(t)
  <2>1. PICK t \in Threads : Moves(t)
    BY <1>2
  <2>2. SameExecs
    BY DEF SameExecs
  <2> QED BY <2>1, <2>2, MovesViews
<1> QED BY <1>1, <1>2

LEMMA WakeRun ==
  ASSUME TypeInv, StackInv, RunInv, Disjoint, conf' = conf, tasks' = tasks,
         stack' = stack \/ (\E t \in Threads : Moves(t)), InFronts' = InFronts,
         done' = done, left' = left, engine' = engine,
         main'.at = "verdict" => main.at = "verdict" \/ RunIsOver
  PROVE  RunInv' /\ Disjoint'
<1>1. /\ \A c \in Containers : Contents(c)' = Contents(c)
      /\ \A u \in Threads, p \in Elements, s \in Elements : Owes(u, p, s)' <=> Owes(u, p, s)
      /\ \A c2 \in Containers : SameTops({}, c2)
  BY WakeViews
<1>2. SameDebts /\ SameEngine
  BY <1>1 DEF SameDebts, SameEngine
<1>3. PICK c2 \in Containers : c2 = <<"tasks", Main>>
  BY ContentsAre
<1>4. Shifts({}, c2) /\ SameTops({}, c2)
  BY <1>1, NothingShifts
<1> QED BY <1>2, <1>4, ShiftRun, ShiftDisjoint

LEMMA WakeRest ==
  ASSUME TypeInv, StackInv, RestInv, conf' = conf, tasks' = tasks,
         stack' = stack \/ (\E t \in Threads : Moves(t)), InFronts' = {},
         done' = done, engine'.runs = engine.runs, engine'.ok = engine.ok,
         main'.verdict = main.verdict, main'.at # "init" \/ main.at = "init",
         Returned' => Returned \/ main.verdict = "none"
  PROVE  RestInv' /\ Disjoint'
<1>1. \A u \in Threads : InRun(u) = {} /\ InReady(u) = {} /\ ~Busy(u)
  BY RestIs
<1>2. InTasks = {} /\ InFronts = {}
  BY RestIs, GraphIs
<1>3. stack' = stack
  <2>1. ASSUME NEW t \in Threads, Moves(t) PROVE Busy(t)
    BY <2>1 DEF Moves, Busy, Leaving
  <2> QED BY <1>1, <2>1
<1>4. \A u \in Threads : InRun(u)' = {} /\ InReady(u)' = {}
  BY <1>1, <1>3, ContentsElsewhere
<1>5. InTasks' = {}
  BY <1>2 DEF InTasks
<1> QED BY <1>4, <1>5, RestKeeps

(* The steps that begin and end a run.                                     *)
LEMMA BeforeRun ==
  ASSUME TypeInv, StackInv, RestInv, MainBefore
  PROVE  RunInv' /\ Disjoint'
<1>1. /\ main.at = "before"
      /\ main' = [main EXCEPT !.at = "fronts", !.todo = Fronts, !.verdict = "none"]
      /\ engine' = [engine EXCEPT !.finished = 0, !.runs = 0, !.ok = TRUE]
      /\ done' = [e \in Elements |-> FALSE] /\ left' = DependSizes
      /\ UNCHANGED <<conf, stack, tasks, cur, repo, triggered, fut, control, open, failed, stopped>>
  BY DEF MainBefore
<1>2. \A u \in Threads : InRun(u) = {} /\ InReady(u) = {} /\ InTasks = {}
  BY RestIs
<1>3. \A u \in Threads : InRun(u)' = {} /\ InReady(u)' = {}
  BY <1>1, <1>2, ContentsElsewhere
<1>4. InTasks' = {}
  BY <1>1, <1>2, GraphIs DEF InTasks
<1>5. main'.at = "fronts" /\ main'.todo = Fronts
  BY <1>1 DEF TypeInv, MainType
<1>6. InFronts' = Fronts
  BY <1>5 DEF InFronts
<1>7. Containers' = Containers /\ Threads' = Threads /\ Ends' = Ends
  BY <1>1, GraphStays DEF Containers, Threads
<1>8. \A c \in Containers : Contents(c)' # {} => c = <<"fronts", Main>>
  BY <1>3, <1>4, ContainerKinds, ContentsThen
<1>9. Contents(<<"fronts", Main>>)' = Fronts
  BY <1>6, ContentsThen
<1>10. Disjoint'
  BY <1>7, <1>8 DEF Disjoint
<1>11. \A s \in Elements : Missing(s)' = conf.depend[s]
  <2>1. \A p, s : p \in Elements => ~Counted(p, s)'
    BY <1>1 DEF Counted
  <2> QED BY <1>1, <2>1, GraphIs DEF Missing
<1>12. (\A x \in Elements : done[x] \/ Underway(x) => Missing(x) = {})'
  <2> SUFFICES ASSUME NEW x \in Elements, done'[x] \/ Underway(x)' PROVE Missing(x)' = {}
    OBVIOUS
  <2>1. x \in Fronts
    BY <1>1, <1>7, <1>8, <1>9 DEF Underway
  <2> QED BY <2>1, <1>11 DEF Fronts
<1>13. (\A x \in Elements : Missing(x) # {} => left[x] = Cardinality(Missing(x)))'
  BY <1>1, <1>11 DEF DependSizes
<1>14. (\A c \in Containers : \A x \in Contents(c) :
          done[x] <=> c[1] = "run" /\ Top(c[2]).at = "succ")'
  <2> SUFFICES ASSUME NEW c \in Containers, NEW x \in Contents(c)'
               PROVE  done'[x] <=> c[1] = "run" /\ Top(c[2])'.at = "succ"
    BY <1>7
  <2>1. c = <<"fronts", Main>> /\ x \in Fronts
    BY <1>8, <1>9
  <2>2. ~done'[x]
    BY <1>1, <2>1, GraphIs
  <2> QED BY <2>1, <2>2
<1>15. engine'.runs = 0 /\ engine'.finished = 0
  BY <1>1 DEF TypeInv, EngineType
<1>16. (engine.runs = Cardinality({x \in Elements : done[x]}))'
  <2>1. {x \in Elements : done'[x]} = {}
    BY <1>1
  <2> QED BY <1>15, <2>1, FS_EmptySet
<1>17. (engine.finished = Cardinality(Passed))'
  <2>1. Passed' = {}
    BY <1>1, <1>7, GraphIs DEF Passed
  <2> QED BY <1>15, <2>1, FS_EmptySet
<1>18. (main.at = "verdict" => RunIsOver)'
  BY <1>5
<1> QED BY <1>10, <1>12, <1>13, <1>14, <1>16, <1>17, <1>18 DEF RunInv

LEMMA VerdictRest ==
  ASSUME TypeInv, StackInv, RunInv, MainVerdict, ~failed'
  PROVE  RestInv' /\ Disjoint' /\ main'.at = "reset"
<1>1. /\ main.at = "verdict"
      /\ main' = [main EXCEPT !.at = "reset", !.todo = AsyncElements, !.verdict = RunStatus,
                              !.reset = TRUE]
      /\ failed' = (failed \/ RunStatus = "error")
      /\ UNCHANGED <<conf, stack, tasks, cur, repo, done, left, triggered, fut, engine, control,
                     open, ran, stopped>>
  BY DEF MainVerdict
<1>2. engine.ok
  BY <1>1 DEF RunStatus
<1>3. (\A e \in Elements : done[e]) /\ (\A c \in Containers : Contents(c) = {})
  BY <1>1, <1>2, AllDone
<1>4. main'.at = "reset"
  BY <1>1 DEF TypeInv, MainType
<1>5. \A u \in Threads : InRun(u) = {} /\ InReady(u) = {}
  BY <1>3, ContentsAre
<1>6. InTasks = {}
  BY <1>3, ContentsAre
<1>7. \A u \in Threads : InRun(u)' = {} /\ InReady(u)' = {}
  BY <1>1, <1>5, ContentsElsewhere
<1>8. InTasks' = {} /\ InFronts' = {}
  BY <1>1, <1>4, <1>6 DEF InTasks, InFronts
<1>9. (\A c \in Containers : Contents(c) = {})' /\ Disjoint'
  BY <1>7, <1>8, NothingThere
<1>10. AfterRunCheck'
  <2>1. {x \in Elements : done[x]} = Elements
    BY <1>3
  <2>2. engine.runs = Cardinality(Elements)
    BY <2>1 DEF RunInv
  <2> QED BY <1>1, <1>3, <2>2 DEF AfterRunCheck
<1> QED BY <1>4, <1>9, <1>10 DEF RestInv
-----------------------------------------------------------------------------
(* Every step.                                                             *)
LEMMA ThreadOnce ==
  ASSUME TypeInv, StackInv, OnceInv, ~failed', NEW t \in Threads,
         ThreadStep(t) \/ SpuriousWakeup(t)
  PROVE  OnceInv'
<1>1. \/ Still(t) \/ Take(t) \/ RunAsync(t) \/ Finish(t) \/ CountDown(t) \/ StartReady(t)
      \/ Leave(t)
  BY ThreadKinds
<1>2. failed' = failed /\ (main' = main \/ (main.at = "blocked" /\ main' = [main EXCEPT !.at = "wait"]))
  <2>1. CASE Still(t)
    BY <2>1 DEF Still
  <2>2. CASE Take(t)
    BY <2>2 DEF Take
  <2>3. CASE RunAsync(t)
    BY <2>3 DEF RunAsync
  <2>4. CASE Finish(t)
    BY <2>4 DEF Finish
  <2>5. CASE CountDown(t)
    BY <2>5 DEF CountDown
  <2>6. CASE StartReady(t)
    BY <2>6 DEF StartReady
  <2>7. CASE Leave(t)
    BY <2>7, LeaveDoes
  <2> QED BY <1>1, <2>1, <2>2, <2>3, <2>4, <2>5, <2>6, <2>7
<1>3. Disjoint /\ (Running => RunInv) /\ (~Running => RestInv)
  BY <1>2 DEF OnceInv
<1>4. CASE Running
  <2>1. RunInv' /\ Disjoint'
    BY <1>1, <1>3, <1>4, StillRun, TakeRun, RunAsyncRun, FinishRun, CountDownRun, StartReadyRun,
       LeaveRun
  <2>2. Running'
    BY <1>2, <1>4 DEF Running, TypeInv, MainType
  <2> QED BY <2>1, <2>2 DEF OnceInv
<1>5. CASE ~Running
  <2>1. RestInv' /\ Disjoint' /\ main' = main
    BY <1>3, <1>5, RestThread
  <2>2. ~Running'
    BY <1>5, <2>1 DEF Running
  <2> QED BY <2>1, <2>2 DEF OnceInv
<1> QED BY <1>4, <1>5

(* The steps of the pipeline thread between two runs.                      *)
LEMMA RestOnce ==
  ASSUME TypeInv, StackInv, RestInv, conf' = conf, tasks' = tasks,
         stack' = stack \/ (\E t \in Threads : Moves(t)),
         done' = done, engine'.runs = engine.runs, engine'.ok = engine.ok,
         main'.verdict = main.verdict,
         main'.at \notin {"init", "fronts", "wait", "blocked", "verdict"},
         Returned' => Returned \/ main.verdict = "none"
  PROVE  OnceInv'
<1>1. InFronts' = {}
  BY DEF InFronts
<1>2. RestInv' /\ Disjoint'
  BY <1>1, WakeRest
<1>3. ~Running'
  BY DEF Running
<1> QED BY <1>2, <1>3 DEF OnceInv

LEMMA PullOnce ==
  ASSUME TypeInv, StackInv, RestInv,
         MainSetup \/ MainExit \/ MainSetting \/ MainExiting
  PROVE  OnceInv'
<1>1. main.at \in {"setup", "exit", "setting", "exiting"}
  BY DEF MainSetup, MainExit, MainSetting, MainExiting, MainPullBegin, MainPull
<1>2. UNCHANGED <<conf, tasks, done, engine>>
  BY DEF MainSetup, MainExit, MainSetting, MainExiting, MainPullBegin, MainPull
<1>3. stack' = stack \/ (\E t \in Threads : Moves(t))
  <2>1. CASE MainSetup \/ MainExit
    BY <2>1 DEF MainSetup, MainExit, MainPullBegin
  <2>2. CASE MainSetting
    <3>1. "kNormal" \in States /\ "before" \in MainPlaces /\ MainPull("setting", "kNormal", "before")
      BY <2>2 DEF MainSetting, States, MainPlaces
    <3> QED BY <3>1, PullTypes
  <2>3. CASE MainExiting
    <3>1. "kCreate" \in States /\ "join" \in MainPlaces /\ MainPull("exiting", "kCreate", "join")
      BY <2>3 DEF MainExiting, States, MainPlaces
    <3> QED BY <3>1, PullTypes
  <2> QED BY <2>1, <2>2, <2>3
<1>4. main'.verdict = main.verdict /\ main'.at \in {"setting", "before", "exiting", "join"}
  <2>1. CASE MainSetup \/ MainExit
    BY <2>1 DEF MainSetup, MainExit, MainPullBegin, TypeInv, MainType
  <2>2. CASE MainSetting \/ MainExiting
    BY <2>2 DEF MainSetting, MainExiting, MainPull, TypeInv, MainType
  <2> QED BY <2>1, <2>2
<1>5. Returned
  BY <1>1 DEF Returned
<1> QED BY <1>2, <1>3, <1>4, <1>5, RestOnce

LEMMA MainOnce ==
  ASSUME TypeInv, StackInv, OnceInv, ~failed', MainStep \/ MainSpuriousWakeup
  PROVE  OnceInv'
<1>1. ~failed
  BY DEF MainStep, MainSpuriousWakeup, MainInit, MainTest, MainSetup, MainExit, MainPullBegin,
         MainSetting, MainExiting, MainPull, MainBefore, MainFronts, MainWait, MainVerdict,
         MainReset, MainReturn, MainDestroy, MainJoin
<1>2. Disjoint /\ (Running => RunInv) /\ (~Running => RestInv)
  BY <1>1 DEF OnceInv
<1>3. CASE MainInit
  <2>1. main.at = "init" /\ main' = [main EXCEPT !.at = "test"]
        /\ UNCHANGED <<conf, stack, tasks, done>>
    BY <1>3 DEF MainInit
  <2>2. main'.at = "test" /\ main'.verdict = "none"
    BY <1>2, <2>1 DEF Running, RestInv, TypeInv, MainType
  <2>3. \A u \in Threads : InRun(u) = {} /\ InReady(u) = {} /\ InTasks = {}
    BY <1>2, <2>1, RestIs DEF Running
  <2>4. \A u \in Threads : InRun(u)' = {} /\ InReady(u)' = {}
    BY <2>1, <2>3, ContentsElsewhere
  <2>5. InTasks' = {} /\ InFronts' = {}
    BY <2>1, <2>2, <2>3, GraphIs DEF InTasks, InFronts
  <2>6. (\A c \in Containers : Contents(c) = {})' /\ Disjoint'
    BY <2>4, <2>5, NothingThere
  <2> QED BY <2>2, <2>6 DEF OnceInv, Running, RestInv
<1>4. CASE MainTest
  <2>1. main.at = "test" /\ UNCHANGED <<conf, stack, tasks, done, engine>>
        /\ main' = [main EXCEPT !.at = IF RunAgain THEN "setup" ELSE "destroy",
                                !.left = RunsLeft(@)]
    BY <1>4 DEF MainTest
  <2>2. main'.verdict = main.verdict /\ main'.at \in {"setup", "destroy"}
    BY <2>1 DEF TypeInv, MainType
  <2>3. Returned /\ ~Running
    BY <2>1 DEF Returned, Running
  <2> QED BY <1>2, <2>1, <2>2, <2>3, RestOnce
<1>5. CASE MainSetup \/ MainExit \/ MainSetting \/ MainExiting
  <2>1. ~Running
    BY <1>5 DEF MainSetup, MainExit, MainSetting, MainExiting, MainPullBegin, MainPull, Running
  <2> QED BY <1>2, <1>5, <2>1, PullOnce
<1>6. CASE MainBefore
  <2>1. ~Running /\ main'.at = "fronts"
    BY <1>6 DEF MainBefore, Running, TypeInv, MainType
  <2>2. RunInv' /\ Disjoint'
    BY <1>2, <1>6, <2>1, BeforeRun
  <2> QED BY <2>1, <2>2 DEF OnceInv, Running
<1>7. CASE MainFronts
  <2>1. main.at = "fronts" /\ main'.at = "fronts"
    BY <1>7 DEF MainFronts, TypeInv, MainType
  <2>2. RunInv' /\ Disjoint'
    BY <1>2, <1>7, <2>1, FrontsRun DEF Running
  <2> QED BY <2>1, <2>2 DEF OnceInv, Running
<1>8. CASE MainWait \/ MainSpuriousWakeup
  <2>1. UNCHANGED <<conf, stack, tasks, done, left, engine>>
    BY <1>8 DEF MainWait, MainSpuriousWakeup
  <2>2. Running /\ InFronts = {}
    BY <1>8 DEF MainWait, MainSpuriousWakeup, Running, InFronts
  <2>3. main'.at \in {"verdict", "blocked", "wait"} /\ (main'.at = "verdict" => RunIsOver)
    <3>1. CASE MainWait
      BY <3>1 DEF MainWait, TypeInv, MainType
    <3>2. CASE MainSpuriousWakeup
      BY <3>2 DEF MainSpuriousWakeup, TypeInv, MainType
    <3> QED BY <1>8, <3>1, <3>2
  <2>4. InFronts' = InFronts
    BY <2>2, <2>3 DEF InFronts
  <2>5. RunInv' /\ Disjoint'
    BY <1>2, <2>1, <2>2, <2>3, <2>4, WakeRun
  <2> QED BY <2>3, <2>5 DEF OnceInv, Running
<1>9. CASE MainVerdict
  <2>1. Running
    BY <1>9 DEF MainVerdict, Running
  <2>2. RestInv' /\ Disjoint' /\ main'.at = "reset"
    BY <1>2, <1>9, <2>1, VerdictRest
  <2> QED BY <2>2 DEF OnceInv, Running
<1>10. CASE MainReset
  <2>1. main.at = "reset" /\ UNCHANGED <<conf, stack, tasks, done, engine>>
    BY <1>10 DEF MainReset
  <2>2. main'.verdict = main.verdict /\ main'.at \in {"reset", "thrown"}
    BY <1>10, <2>1 DEF MainReset, TypeInv, MainType
  <2>3. Returned /\ ~Running
    BY <2>1 DEF Returned, Running
  <2> QED BY <1>2, <2>1, <2>2, <2>3, RestOnce
<1>11. CASE MainReturn
  <2>1. main.at = "reset" /\ UNCHANGED <<conf, stack, tasks, done, engine>>
    BY <1>11 DEF MainReturn
  <2>2. main'.verdict = main.verdict /\ main'.at = "test"
    BY <1>11 DEF MainReturn, TypeInv, MainType
  <2>3. Returned /\ ~Running
    BY <2>1 DEF Returned, Running
  <2> QED BY <1>2, <2>1, <2>2, <2>3, RestOnce
<1>12. CASE MainDestroy
  <2>1. main.at = "destroy" /\ UNCHANGED <<conf, stack, tasks, done>>
        /\ engine' = [engine EXCEPT !.alive = FALSE] /\ main' = [main EXCEPT !.at = "exit"]
    BY <1>12 DEF MainDestroy
  <2>2. main'.verdict = main.verdict /\ main'.at = "exit"
        /\ engine'.runs = engine.runs /\ engine'.ok = engine.ok
    BY <2>1 DEF TypeInv, MainType, EngineType
  <2>3. Returned /\ ~Running
    BY <2>1 DEF Returned, Running
  <2> QED BY <1>2, <2>1, <2>2, <2>3, RestOnce
<1>13. CASE MainJoin
  <2>1. main.at = "join" /\ UNCHANGED <<conf, stack, tasks, done, engine>>
    BY <1>13 DEF MainJoin
  <2>2. main'.verdict = main.verdict /\ main'.at \in {"join", "end"}
    BY <1>13, <2>1 DEF MainJoin, TypeInv, MainType
  <2>3. Returned /\ ~Running
    BY <2>1 DEF Returned, Running
  <2> QED BY <1>2, <2>1, <2>2, <2>3, RestOnce
<1> QED BY <1>3, <1>4, <1>5, <1>6, <1>7, <1>8, <1>9, <1>10, <1>11, <1>12, <1>13 DEF MainStep

LEMMA ControlOnce ==
  ASSUME TypeInv, StackInv, OnceInv, ~failed', \/ UNCHANGED vars
                                               \/ Pull \/ (\E s \in Controls : Call(s))
  PROVE  OnceInv'
<1>1. UNCHANGED <<conf, main, tasks, done, left, engine, failed>>
  BY DEF vars, Pull, Call
<1>2. stack' = stack \/ (\E t \in Threads : Moves(t))
  BY ControlTypes DEF vars
<1>3. Disjoint /\ (Running => RunInv) /\ (~Running => RestInv)
  BY <1>1 DEF OnceInv
<1>4. InFronts' = InFronts
  BY <1>1 DEF InFronts
<1>5. CASE Running
  <2>1. RunInv' /\ Disjoint'
    BY <1>1, <1>2, <1>3, <1>4, <1>5, WakeRun
  <2> QED BY <1>1, <1>5, <2>1 DEF OnceInv, Running
<1>6. CASE ~Running
  <2>1. InFronts' = {}
    BY <1>4, <1>6 DEF InFronts, Running
  <2>2. Returned' => Returned
    BY <1>1 DEF Returned
  <2>3. RestInv' /\ Disjoint'
    BY <1>1, <1>2, <1>3, <1>6, <2>1, <2>2, WakeRest
  <2> QED BY <1>1, <1>6, <2>3 DEF OnceInv, Running
<1> QED BY <1>5, <1>6

LEMMA OnceStep == ASSUME TypeInv, StackInv, OnceInv, [Next]_vars PROVE OnceInv'
<1>1. CASE failed'
  BY <1>1 DEF OnceInv
<1>2. CASE ~failed'
  <2>1. CASE \E t \in Threads : ThreadStep(t) \/ SpuriousWakeup(t)
    BY <1>2, <2>1, ThreadOnce
  <2>2. CASE MainStep \/ MainSpuriousWakeup
    BY <1>2, <2>2, MainOnce
  <2>3. CASE UNCHANGED vars \/ Pull \/ (\E s \in Controls : Call(s))
    BY <1>2, <2>3, ControlOnce
  <2> QED BY <2>1, <2>2, <2>3 DEF Next
<1> QED BY <1>1, <1>2

LEMMA InitOnce == ASSUME Init PROVE StackInv /\ OnceInv
<1>1. TypeInv
  BY InitTypes
<1>2. stack = [t \in Threads |-> <<>>] /\ tasks = {} /\ main.at = "init"
      /\ main.verdict = "none"
  BY DEF Init
<1>3. StackInv
  BY <1>1, <1>2, GraphIs DEF StackInv, ThreadInv, MainInv
<1>4. \A u \in Threads : InRun(u) = {} /\ InReady(u) = {}
  BY <1>2 DEF InRun, Busy, InReady
<1>5. InTasks = {} /\ InFronts = {}
  BY <1>2 DEF InTasks, InFronts
<1>6. \A c \in Containers : Contents(c) = {}
  BY <1>4, <1>5, ContainerKinds, ContentsAre
<1>7. RestInv /\ ~Running
  BY <1>2, <1>6 DEF RestInv, Returned, Running
<1>8. Disjoint
  BY <1>6 DEF Disjoint
<1> QED BY <1>3, <1>7, <1>8 DEF OnceInv

(* Whatever the threads, Process and the controller do, the calls of a     *)
(* thread are nested as AfterElementRun nests them, and until a run fails, *)
(* an element is on its way in one place at most, left_depend_ counts what *)
(* it waits for, and nothing is on its way between two runs.               *)
THEOREM GraphInvariant == Spec => []IInv
<1>1. Init => IInv
  BY InitTypes, InitOnce DEF IInv
<1>2. IInv /\ [Next]_vars => IInv'
  BY TypeStep, StackStep, OnceStep DEF IInv
<1> QED BY <1>1, <1>2, PTL DEF Spec
-----------------------------------------------------------------------------
(* What the properties say of frames, in terms of where an element is.     *)
LEMMA TopFrame ==
  ASSUME TypeInv, StackInv, NEW x \in Frames, ~Leaving(F(x))
  PROVE  \E t \in Threads : x = <<t, 1>> /\ stack[t] # <<>> /\ F(x) = Top(t)
<1>1. PICK t \in Threads : \E j \in DOMAIN stack[t] : x = <<t, j>>
  BY DEF Frames
<1>2. PICK j \in DOMAIN stack[t] : x = <<t, j>>
  BY <1>1
<1>3. stack[t] \in Seq(FrameSet)
  BY DEF TypeInv, StackType
<1>4. DOMAIN stack[t] = 1..Len(stack[t]) /\ Len(stack[t]) \in Nat
  BY <1>3
<1>5. j \in 1..Len(stack[t]) /\ stack[t] # <<>>
  BY <1>3, <1>4
<1>6. F(x) = stack[t][j]
  BY <1>2 DEF F
<1>7. j = 1
  <2> SUFFICES ASSUME j # 1 PROVE FALSE
    OBVIOUS
  <2>1. Tail(stack[t]) \in Seq(FrameSet) /\ Len(Tail(stack[t])) = Len(stack[t]) - 1
    BY <1>3, <1>5
  <2>2. j - 1 \in DOMAIN Tail(stack[t])
    BY <1>4, <1>5, <2>1
  <2>3. Tail(stack[t])[j - 1] = stack[t][j]
    BY <1>3, <1>4, <1>5, <2>1
  <2>4. Below(Tail(stack[t]))
    BY <1>5 DEF StackInv, ThreadInv
  <2>5. Low(Tail(stack[t])[j - 1])
    BY <2>2, <2>4 DEF Below
  <2> QED BY <1>6, <2>3, <2>5 DEF Low
<1>8. F(x) = Top(t)
  BY <1>3, <1>5, <1>6, <1>7 DEF Top
<1> QED BY <1>2, <1>5, <1>7, <1>8

LEMMA FrameIs ==
  ASSUME TypeInv, StackInv, NEW x \in Frames, F(x).at # "async", ~Leaving(F(x))
  PROVE  \E t \in Threads : /\ x = <<t, 1>> /\ stack[t] # <<>> /\ F(x) = Top(t)
                            /\ F(x).e \in InRun(t)
<1>1. PICK t \in Threads : x = <<t, 1>> /\ stack[t] # <<>> /\ F(x) = Top(t)
  BY TopFrame
<1>2. F(x).e \in InRun(t)
  BY <1>1 DEF Busy, InRun
<1> QED BY <1>1, <1>2

LEMMA TwiceNowhere ==
  ASSUME TypeInv, OnceInv, ~failed
  PROVE  Disjoint
BY DEF OnceInv

LEMMA ExecsAre ==
  ASSUME TypeInv, StackInv, OnceInv, ~failed, NEW e \in Elements
  PROVE  /\ \A x, y \in ExecsOf(e) : x = y
         /\ ExecsOf(e) # {} => Exec(e) \notin tasks
<1>1. ASSUME NEW x \in ExecsOf(e) PROVE \E t \in Threads : x = <<t, 1>> /\ e \in InRun(t)
  <2>1. x \in Frames /\ F(x).e = e /\ F(x).at # "async" /\ ~Leaving(F(x))
    BY DEF ExecsOf
  <2> QED BY <2>1, FrameIs
<1>2. ASSUME NEW x \in ExecsOf(e), NEW y \in ExecsOf(e) PROVE x = y
  <2>1. PICK t \in Threads : x = <<t, 1>> /\ e \in InRun(t)
    BY <1>1
  <2>2. PICK u \in Threads : y = <<u, 1>> /\ e \in InRun(u)
    BY <1>1
  <2>3. <<"run", t>> \in Containers /\ e \in Contents(<<"run", t>>)
        /\ <<"run", u>> \in Containers /\ e \in Contents(<<"run", u>>)
    BY <2>1, <2>2, ContentsAre
  <2>4. <<"run", t>> = <<"run", u>>
    BY <2>3, TwiceNowhere DEF Disjoint
  <2> QED BY <2>1, <2>2, <2>4
<1>3. ASSUME NEW x \in ExecsOf(e) PROVE Exec(e) \notin tasks
  <2>1. PICK t \in Threads : x = <<t, 1>> /\ e \in InRun(t)
    BY <1>1
  <2> SUFFICES ASSUME Exec(e) \in tasks PROVE FALSE
    OBVIOUS
  <2>2. e \in InTasks
    BY DEF InTasks
  <2>3. <<"run", t>> \in Containers /\ e \in Contents(<<"run", t>>)
        /\ <<"tasks", Main>> \in Containers /\ e \in Contents(<<"tasks", Main>>)
    BY <2>1, <2>2, ContentsAre
  <2>4. <<"run", t>> = <<"tasks", Main>>
    BY <2>3, TwiceNowhere DEF Disjoint
  <2> QED BY <2>4
<1> QED BY <1>2, <1>3

LEMMA OnceOf == ASSUME IInv PROVE StartedOnce
<1>1. TypeInv /\ StackInv /\ OnceInv
  BY DEF IInv
<1>2. TypeOK
  BY <1>1, TypesAgree
<1>3. ASSUME ~failed, NEW e \in Elements
      PROVE  Cardinality(ExecsOf(e)) + Cardinality(tasks \cap {Exec(e)}) <= 1
  <2>1. (\A x, y \in ExecsOf(e) : x = y) /\ (ExecsOf(e) # {} => Exec(e) \notin tasks)
    BY <1>1, <1>3, ExecsAre
  <2>2. Cardinality(ExecsOf(e)) = 0 \/ (Cardinality(ExecsOf(e)) = 1 /\ ExecsOf(e) # {})
    <3>1. CASE ExecsOf(e) = {}
      <4>1. Cardinality(ExecsOf(e)) = Cardinality({})
        BY <3>1
      <4> QED BY <4>1, FS_EmptySet
    <3>2. CASE ExecsOf(e) # {}
      <4>1. PICK x \in ExecsOf(e) : TRUE
        BY <3>2
      <4>2. ExecsOf(e) = {x}
        BY <2>1, <4>1
      <4> QED BY <3>2, <4>2, FS_Singleton
    <3> QED BY <3>1, <3>2
  <2>3. Cardinality(tasks \cap {Exec(e)}) = IF Exec(e) \in tasks THEN 1 ELSE 0
    <3>1. CASE Exec(e) \in tasks
      <4>1. tasks \cap {Exec(e)} = {Exec(e)}
        BY <3>1
      <4> QED BY <3>1, <4>1, FS_Singleton
    <3>2. CASE Exec(e) \notin tasks
      <4>1. tasks \cap {Exec(e)} = {}
        BY <3>2
      <4> QED BY <3>2, <4>1, FS_EmptySet
    <3> QED BY <3>1, <3>2
  <2>4. ExecsOf(e) = {} => Cardinality(ExecsOf(e)) = 0
    <3> SUFFICES ASSUME ExecsOf(e) = {} PROVE Cardinality(ExecsOf(e)) = 0
      OBVIOUS
    <3>1. Cardinality(ExecsOf(e)) = Cardinality({})
      OBVIOUS
    <3> QED BY <3>1, FS_EmptySet
  <2> QED BY <2>1, <2>2, <2>3, <2>4
<1> QED BY <1>2, <1>3 DEF StartedOnce

(* However many predecessors finish at once and whichever of them starts   *)
(* it, the pool or the thread itself, an element is started once, and no   *)
(* counter of dependencies wraps.                                          *)
THEOREM GraphStartsOnce == Spec => []StartedOnce
<1>1. IInv => StartedOnce
  BY OnceOf
<1> QED BY <1>1, GraphInvariant, PTL

(* A run in terms of frames: what is done when Run of an element is on.    *)
LEMMA DependsDone ==
  ASSUME TypeInv, StackInv, OnceInv, ~failed, NEW x \in Frames, F(x).at \in Inside
  PROVE  Running /\ RunInv /\ \A d \in conf.depend[F(x).e] : d \in Elements /\ done[d]
<1>1. F(x).at # "async" /\ ~Leaving(F(x))
  BY DEF Inside, Leaving
<1>2. PICK t \in Threads : /\ x = <<t, 1>> /\ stack[t] # <<>> /\ F(x) = Top(t)
                           /\ F(x).e \in InRun(t)
  BY <1>1, FrameIs
<1>3. Running
  BY <1>2, RestIs DEF OnceInv
<1>4. RunInv
  BY <1>3 DEF OnceInv
<1>5. F(x).e \in Elements /\ Missing(F(x).e) = {}
  BY <1>2, <1>4, RunDone
<1>6. conf.depend[F(x).e] \subseteq Elements
  BY <1>5, GraphIs
<1>7. ASSUME NEW d \in conf.depend[F(x).e] PROVE done[d]
  BY <1>5 DEF Missing, Counted
<1> QED BY <1>3, <1>4, <1>6, <1>7

(* Wait has returned without an error: nothing is on its way and all is    *)
(* done.                                                                   *)
LEMMA AllOver ==
  ASSUME TypeInv, StackInv, OnceInv, ~failed, Returned, main.verdict # "none", engine.ok
  PROVE  /\ AfterRunCheck
         /\ \A e \in Elements : Exec(e) \notin tasks
         /\ \A e \in Elements : ExecsOf(e) = {}
<1>1. AfterRunCheck /\ \A c \in Containers : Contents(c) = {}
  <2>1. CASE main.at = "verdict"
    <3>1. RunInv
      BY <2>1 DEF OnceInv, Running
    <3>2. (\A e \in Elements : done[e]) /\ (\A c \in Containers : Contents(c) = {})
      BY <2>1, <3>1, AllDone
    <3>3. {e \in Elements : done[e]} = Elements
      BY <3>2
    <3>4. engine.runs = Cardinality(Elements)
      BY <3>1, <3>3 DEF RunInv
    <3> QED BY <3>2, <3>4 DEF AfterRunCheck
  <2>2. CASE main.at # "verdict"
    <3>1. ~Running
      BY <2>2 DEF Returned, Running
    <3>2. RestInv
      BY <3>1 DEF OnceInv
    <3> QED BY <3>2 DEF RestInv
  <2> QED BY <2>1, <2>2
<1>2. \A e \in Elements : Exec(e) \notin tasks
  <2>1. InTasks = {}
    BY <1>1, ContentsAre
  <2> QED BY <2>1 DEF InTasks
<1>3. ASSUME NEW e \in Elements PROVE ExecsOf(e) = {}
  <2> SUFFICES ASSUME NEW x \in ExecsOf(e) PROVE FALSE
    OBVIOUS
  <2>1. x \in Frames /\ F(x).at # "async" /\ ~Leaving(F(x))
    BY DEF ExecsOf
  <2>2. PICK t \in Threads : /\ x = <<t, 1>> /\ stack[t] # <<>> /\ F(x) = Top(t)
                             /\ F(x).e \in InRun(t)
    BY <2>1, FrameIs
  <2>3. InRun(t) = {}
    BY <1>1, ContentsAre
  <2> QED BY <2>2, <2>3
<1> QED BY <1>1, <1>2, <1>3
-----------------------------------------------------------------------------
(* Results that are still to come: the calls of Run in the pool for the    *)
(* elements with a time-out.                                               *)

(* Unless somebody cancels or yields, an element is normal or over its     *)
(* time from Init to Destroy.                                              *)
Prepared == main.at \in {"test", "setup", "setting", "before", "fronts", "wait", "blocked",
                         "verdict", "reset", "thrown", "destroy", "exit"}
StateInv ==
  ~stopped =>
    /\ control.todo # {} => control.state = "kNormal"
    /\ Prepared => \A e \in Elements : cur[e] = "kNormal" \/ (IsAsync(e) /\ cur[e] = "kTimeout")

(* Which way an element goes through its rounds depends on its time-out.   *)
Path(t) ==
  stack[t] # <<>> =>
    /\ Top(t).at = "start" => Top(t).i = 0 /\ Top(t).held = 0
    /\ Top(t).at \in {"async", "await"} => IsAsync(Top(t).e)
    /\ Top(t).at \in {"run", "loop"} => ~IsAsync(Top(t).e)
    /\ Top(t).at \in {"run", "check", "doze", "asleep"} /\ ~IsAsync(Top(t).e) =>
         Top(t).todo \subseteq conf.fence[Top(t).e]
TasksPath == \A k \in tasks : k.kind = "async" => IsAsync(k.e)
PathInv   == TasksPath /\ \A t \in Threads : Path(t)

(* The calls of Run in the pool for e: those committed, those in a thread. *)
CallTasks(e)   == {k \in tasks : k.kind = "async" /\ k.e = e}
CallThreads(e) == {t \in Threads : At(t, "async") /\ Top(t).e = e}
Calling(e)     == CallTasks(e) # {} \/ CallThreads(e) # {}

(* There is one, and it is the one the future waits for.                   *)
CallInv(e) ==
  /\ \A k \in CallTasks(e) : k.n = fut[e].n
  /\ \A t \in CallThreads(e) : Top(t).i = fut[e].n
  /\ \A t, u \in CallThreads(e) : t = u
  /\ CallTasks(e) # {} => CallThreads(e) = {}
  /\ Calling(e) => fut[e].st = "pending"

(* It was made in this run, or Reset is going to wait for it.              *)
Holding == main.at \in {"reset", "thrown"}
Launched(e) ==
  \/ Running /\ (done[e] \/ \E t \in Threads : e \in InRun(t) /\ Top(t).at # "start")
  \/ Holding /\ Holds(e) /\ e \in main.todo

(* The elements whose result somebody waits for in each run.  One that is  *)
(* held may be called again before its call has ended.                     *)
Fenced     == UNION {conf.fence[d] : d \in Elements}
Fencing    == ~stopped /\ FencesInPlace(conf)
Watched(e) == conf.holds[e] = 0 /\ (Holds(e) \/ (Fencing /\ e \in Fenced))
CallsInv ==
  ~failed => \A e \in Elements : Watched(e) => CallInv(e) /\ (Calling(e) => Launched(e))

(* The results a fence has got in its round.                               *)
Got(f) ==
  IF f.at = "run" THEN conf.fence[f.e] \ f.todo
  ELSE IF f.at \in {"check", "doze", "asleep", "loop"} \/ (f.at = "finish" /\ f.ok)
  THEN conf.fence[f.e] ELSE {}

(* Behind a fence nothing it is for is still running.                      *)
Quiet(d) == \A f \in conf.fence[d] : ~Calling(f)
FenceInv ==
  ~failed /\ Fencing /\ Running =>
    /\ \A d \in Elements : engine.ok /\ done[d] => Quiet(d)
    /\ \A t \in Threads : \A s \in InRun(t) : \A d \in conf.depend[s] : Quiet(d)
    /\ \A s \in InTasks : \A d \in conf.depend[s] : Quiet(d)
    /\ \A t \in Threads : Busy(t) => \A f \in Got(Top(t)) : ~Calling(f)

(* How often Run of an element was called, where its loop and its holds    *)
(* stand; one that may fail is left out.                                   *)
Plainly == Elements \ (AsyncElements \cup conf.hidden \cup conf.fails)
RunsOf(f) == f.i * (conf.holds[f.e] + 1) + f.held
RoundInv(f) ==
  /\ f.at = "start" => ran[f.e] = 0
  /\ f.at = "loop" => ran[f.e] = RunsOf(f) /\ f.held = 0
  /\ f.at = "run" => ran[f.e] = RunsOf(f)
  /\ f.at \in {"check", "doze", "asleep"} => ran[f.e] = RunsOf(f) + 1
  /\ f.at \in {"loop", "run", "check", "doze", "asleep"} =>
       /\ f.i < conf.loop[f.e] /\ f.held <= conf.holds[f.e]
       /\ f.ok \/ conf.fence[f.e] # {}
  /\ f.at = "finish" /\ f.ok => ran[f.e] = conf.loop[f.e] * (conf.holds[f.e] + 1)
RanInv ==
  /\ ~failed /\ ~stopped /\ Running =>
       /\ \A t \in Threads : \A e \in InRun(t) \cap Plainly : RoundInv(Top(t))
       /\ \A e \in Plainly : ~done[e] /\ (\A t \in Threads : e \notin InRun(t)) => ran[e] = 0
       /\ \A e \in Plainly : engine.ok /\ done[e] => ran[e] = conf.loop[e] * (conf.holds[e] + 1)
  /\ ~failed /\ ~stopped /\ main.at = "reset" =>
       \A e \in Plainly : ran[e] = conf.loop[e] * (conf.holds[e] + 1)

ResultInv == StateInv /\ PathInv /\ CallsInv /\ FenceInv /\ RanInv

(* What each step of an element does to the frame it is in.                *)
MovesOn(t) ==
  /\ stack[t] # <<>> /\ stack'[t] # <<>>
  /\ Top(t)'.e = Top(t).e /\ Top(t).e \in Elements
  /\ \A u \in Threads : u # t => stack'[u] = stack[u]
SameRound(t) == Top(t)'.i = Top(t).i /\ Top(t)'.held = Top(t).held
SameHand(t)  == Top(t)'.ok = Top(t).ok /\ Top(t)'.todo = Top(t).todo

LEMMA MovesBy ==
  ASSUME TypeInv, NEW t \in Threads, stack[t] # <<>>, NEW g \in FrameSet, Goto(t, g),
         g.e = Top(t).e
  PROVE  MovesOn(t) /\ Top(t)' = g
<1>1. Top(t).e \in Elements
  BY TopIs DEF FrameSet
<1>2. /\ stack'[t] # <<>> /\ Head(stack'[t]) = g
      /\ \A u \in Threads : u # t => stack'[u] = stack[u]
  BY Went
<1> QED BY <1>1, <1>2 DEF MovesOn, Top

LEMMA RoundDoes ==
  ASSUME TypeInv, NEW t \in Threads, stack[t] # <<>>, Round(t, Top(t)),
         NEW e, e = Top(t).e
  PROVE  /\ MovesOn(t) /\ SameRound(t)
         /\ \/ /\ Top(t)'.at = "finish" /\ SameHand(t) /\ tasks' = tasks /\ fut' = fut
               /\ Top(t).i >= conf.loop[e] \/ cur[e] # "kNormal" \/ e \in conf.hidden
            \/ /\ Top(t)'.at = "run" /\ ~IsAsync(e) /\ Top(t)'.ok /\ tasks' = tasks /\ fut' = fut
               /\ Top(t)'.todo = conf.fence[e] /\ ~(Top(t).i >= conf.loop[e])
            \/ /\ Top(t)'.at = "await" /\ IsAsync(e)
               /\ \E n \in Nat : /\ fut' = [fut EXCEPT ![e] = [n |-> n, st |-> "pending"]]
                                 /\ tasks' = tasks \cup {Async(e, n)}
<1> DEFINE f == Top(t)
<1>1. f \in FrameSet
  BY TopIs
<1>2. e \in Elements /\ fut \in [Elements -> [n : Nat, st : Results]]
  BY <1>1 DEF FrameSet, TypeInv, ElementType
<1>3. CASE /\ Goto(t, [f EXCEPT !.at = "finish"]) /\ UNCHANGED <<tasks, fut>>
           /\ f.i >= conf.loop[e] \/ cur[e] # "kNormal" \/ e \in conf.hidden
  <2> DEFINE g == [f EXCEPT !.at = "finish"]
  <2>1. g \in FrameSet
    BY <1>1 DEF FrameSet, Places
  <2>2. g.e = f.e /\ g.i = f.i /\ g.held = f.held /\ g.ok = f.ok /\ g.todo = f.todo
        /\ g.at = "finish"
    BY <1>1 DEF FrameSet
  <2>3. Goto(t, g)
    BY <1>3
  <2> HIDE DEF g
  <2>4. MovesOn(t) /\ Top(t)' = g
    BY <2>1, <2>2, <2>3, MovesBy
  <2> QED BY <1>3, <2>2, <2>4 DEF SameRound, SameHand
<1>4. CASE /\ Goto(t, [f EXCEPT !.at = "run", !.ok = TRUE, !.todo = conf.fence[e]])
           /\ UNCHANGED <<tasks, fut>> /\ ~IsAsync(e) /\ ~(f.i >= conf.loop[e])
  <2> DEFINE g == [f EXCEPT !.at = "run", !.ok = TRUE, !.todo = conf.fence[e]]
  <2>1. conf.fence[e] \subseteq Elements
    BY <1>2, GraphIs
  <2>2. g \in FrameSet
    BY <1>1, <2>1 DEF FrameSet, Places
  <2>3. g.e = f.e /\ g.i = f.i /\ g.held = f.held /\ g.ok /\ g.todo = conf.fence[e] /\ g.at = "run"
    BY <1>1 DEF FrameSet
  <2>4. Goto(t, g)
    BY <1>4
  <2> HIDE DEF g
  <2>5. MovesOn(t) /\ Top(t)' = g
    BY <2>2, <2>3, <2>4, MovesBy
  <2> QED BY <1>4, <2>3, <2>5 DEF SameRound
<1>5. CASE \E n \in Nat : /\ Goto(t, [f EXCEPT !.at = "await"]) /\ IsAsync(e)
                          /\ fut' = [fut EXCEPT ![e] = [n |-> n, st |-> "pending"]]
                          /\ tasks' = tasks \cup {Async(e, n)}
  <2> DEFINE g == [f EXCEPT !.at = "await"]
  <2>1. g \in FrameSet
    BY <1>1 DEF FrameSet, Places
  <2>2. g.e = f.e /\ g.i = f.i /\ g.held = f.held /\ g.at = "await"
    BY <1>1 DEF FrameSet
  <2>3. Goto(t, g)
    BY <1>5
  <2> HIDE DEF g
  <2>4. MovesOn(t) /\ Top(t)' = g
    BY <2>1, <2>2, <2>3, MovesBy
  <2> QED BY <1>5, <2>2, <2>4 DEF SameRound
<1>6. fut[e].n + 1 \in Nat
  BY <1>2
<1> QED BY <1>3, <1>4, <1>5, <1>6 DEF Round, AsyncRun

LEMMA StartDoes ==
  ASSUME TypeInv, NEW t \in Threads, Start(t) \/ NextRound(t)
  PROVE  /\ stack[t] # <<>> /\ Top(t).at \in {"start", "loop"} /\ Round(t, Top(t))
         /\ Start(t) => Top(t).at = "start"
         /\ NextRound(t) => Top(t).at = "loop" /\ done' = done
         /\ \A x \in Elements : x # Top(t).e => done'[x] = done[x]
         /\ \A x \in Elements : done'[x] => done[x]
         /\ UNCHANGED <<conf, main, cur, repo, engine, control, open, ran, failed, stopped>>
<1>1. stack[t] # <<>> /\ Top(t).at \in {"start", "loop"} /\ Round(t, Top(t))
  BY DEF Start, NextRound, At
<1>2. \A x \in Elements : /\ x # Top(t).e => done'[x] = done[x]
                          /\ done'[x] => done[x]
  BY DEF Start, NextRound, PrepareRun, TypeInv, ElementType
<1> QED BY <1>1, <1>2 DEF Start, NextRound, At

LEMMA RunUserDoes ==
  ASSUME TypeInv, NEW t \in Threads, RunUser(t)
  PROVE  /\ MovesOn(t) /\ SameRound(t) /\ Top(t).at = "run"
         /\ Top(t).todo = {} /\ Top(t)'.todo = {}
         /\ \/ Top(t)'.at = "check" /\ (Top(t).e \notin conf.fails => Top(t)'.ok = Top(t).ok)
            \/ Top(t)'.at = "finish" /\ ~Top(t)'.ok /\ Top(t).e \in conf.fails
         /\ ran' = [ran EXCEPT ![Top(t).e] = @ + 1]
         /\ UNCHANGED <<conf, main, tasks, cur, repo, done, left, triggered, fut, engine, control,
                        open, failed, stopped>>
<1> DEFINE f == Top(t)
<1>1. stack[t] # <<>> /\ f.at = "run" /\ f.todo = {}
  BY DEF RunUser, At
<1>2. PICK o \in Outcomes(f.e) :
        Goto(t, [f EXCEPT !.at = IF o = "crash" THEN "finish" ELSE "check", !.ok = @ /\ o = "ok"])
  BY DEF RunUser
<1>3. f \in FrameSet
  BY <1>1, TopIs
<1> DEFINE g == [f EXCEPT !.at = IF o = "crash" THEN "finish" ELSE "check", !.ok = @ /\ o = "ok"]
<1>4. g \in FrameSet
  BY <1>3 DEF FrameSet, Places
<1>5. g.e = f.e /\ g.i = f.i /\ g.held = f.held /\ g.todo = f.todo
      /\ g.at = (IF o = "crash" THEN "finish" ELSE "check") /\ g.ok = (f.ok /\ o = "ok")
  BY <1>3 DEF FrameSet
<1>6. Goto(t, g)
  BY <1>2
<1>7. f.ok \in BOOLEAN
  BY <1>3 DEF FrameSet
<1> HIDE DEF g
<1>8. MovesOn(t) /\ Top(t)' = g
  BY <1>1, <1>4, <1>5, <1>6, MovesBy
<1>9. CASE o = "ok"
  BY <1>1, <1>5, <1>7, <1>8, <1>9 DEF RunUser, SameRound
<1>10. CASE o # "ok"
  <2>1. f.e \in conf.fails
    BY <1>10 DEF Outcomes
  <2>2. ~g.ok
    BY <1>5, <1>10
  <2>3. g.at = "check" \/ g.at = "finish"
    BY <1>5
  <2> QED BY <1>1, <1>5, <1>8, <2>1, <2>2, <2>3 DEF RunUser, SameRound
<1> QED BY <1>9, <1>10

LEMMA RunFenceDoes ==
  ASSUME TypeInv, NEW t \in Threads, RunFence(t)
  PROVE  /\ MovesOn(t) /\ SameRound(t) /\ Top(t).at = "run" /\ Top(t).todo # {}
         /\ \E x \in Top(t).todo : /\ Top(t)'.todo = Top(t).todo \ {x} /\ fut[x].st # "pending"
                                   /\ fut' = [fut EXCEPT ![x].st = "none"]
         /\ Top(t)'.at = "run" \/ (Top(t)'.at = "finish" /\ ~Top(t)'.ok)
         /\ UNCHANGED <<conf, main, tasks, cur, repo, done, left, triggered, engine, control, open,
                        ran, failed, stopped>>
<1> DEFINE f == Top(t)
           x == First(f.todo)
           g == [f EXCEPT !.todo = @ \ {x}, !.at = IF fut[x].st = "crash" THEN "finish" ELSE @,
                          !.ok = @ /\ fut[x].st \in {"none", "ok"}]
<1>1. stack[t] # <<>> /\ f.at = "run" /\ f.todo # {}
  BY DEF RunFence, At
<1>2. Goto(t, g) /\ fut' = [fut EXCEPT ![x].st = "none"] /\ fut[x].st # "pending"
  BY DEF RunFence
<1>3. f \in FrameSet
  BY <1>1, TopIs
<1>4. g \in FrameSet
  BY <1>1, <1>3 DEF FrameSet, Places
<1>5. g.e = f.e /\ g.i = f.i /\ g.held = f.held /\ g.todo = f.todo \ {x}
      /\ g.at = (IF fut[x].st = "crash" THEN "finish" ELSE "run")
      /\ (fut[x].st = "crash" => ~g.ok)
  BY <1>1, <1>3 DEF FrameSet
<1>6. x \in f.todo
  BY <1>1, FirstIn
<1>7. g.at = "run" \/ (g.at = "finish" /\ ~g.ok)
  BY <1>5
<1> HIDE DEF g, x
<1>8. MovesOn(t) /\ Top(t)' = g
  BY <1>1, <1>2, <1>4, <1>5, MovesBy
<1> QED BY <1>1, <1>2, <1>5, <1>6, <1>7, <1>8 DEF RunFence, SameRound

LEMMA AwaitDoes ==
  ASSUME TypeInv, NEW t \in Threads, AwaitReady(t) \/ AwaitTimeout(t), NEW e, e = Top(t).e
  PROVE  /\ MovesOn(t) /\ Top(t).at = "await" /\ Top(t)'.at \in {"check", "finish"}
         /\ \/ fut' = fut
            \/ fut' = [fut EXCEPT ![e].st = "none"] /\ fut[e].st # "pending"
         /\ cur' = cur \/ cur' = [cur EXCEPT ![e] = "kTimeout"]
         /\ UNCHANGED <<conf, main, tasks, repo, done, left, triggered, engine, control, open, ran,
                        failed, stopped>>
<1> DEFINE f == Top(t)
<1>1. stack[t] # <<>> /\ f.at = "await"
  BY DEF AwaitReady, AwaitTimeout, At
<1>2. f \in FrameSet
  BY <1>1, TopIs
<1>3. CASE AwaitReady(t)
  <2> DEFINE g == [f EXCEPT !.at = IF fut[f.e].st = "crash" THEN "finish" ELSE "check",
                            !.ok = fut[f.e].st = "ok"]
  <2>1. g \in FrameSet
    BY <1>2 DEF FrameSet, Places
  <2>2. g.e = f.e /\ g.at \in {"check", "finish"}
    BY <1>2 DEF FrameSet
  <2>3. Goto(t, g)
    BY <1>3 DEF AwaitReady
  <2> HIDE DEF g
  <2>4. MovesOn(t) /\ Top(t)' = g
    BY <1>1, <2>1, <2>2, <2>3, MovesBy
  <2> QED BY <1>1, <1>3, <2>2, <2>4 DEF AwaitReady
<1>4. CASE AwaitTimeout(t)
  <2> DEFINE g == [f EXCEPT !.at = "check", !.ok = conf.timeout[f.e] # "kAsError"]
  <2>1. g \in FrameSet
    BY <1>2 DEF FrameSet, Places
  <2>2. g.e = f.e /\ g.at = "check"
    BY <1>2 DEF FrameSet
  <2>3. Goto(t, g)
    BY <1>4 DEF AwaitTimeout
  <2> HIDE DEF g
  <2>4. MovesOn(t) /\ Top(t)' = g
    BY <1>1, <2>1, <2>2, <2>3, MovesBy
  <2> QED BY <1>1, <1>4, <2>2, <2>4 DEF AwaitTimeout
<1> QED BY <1>3, <1>4

LEMMA MoveDoes ==
  ASSUME TypeInv, NEW t \in Threads, stack[t] # <<>>, NEW p \in Places, Move(t, p)
  PROVE  MovesOn(t) /\ SameRound(t) /\ SameHand(t) /\ Top(t)'.at = p
<1> DEFINE g == [Top(t) EXCEPT !.at = p]
<1>1. Top(t) \in FrameSet
  BY TopIs
<1>2. g \in FrameSet
  BY <1>1 DEF FrameSet
<1>3. g.e = Top(t).e /\ g.i = Top(t).i /\ g.held = Top(t).held /\ g.ok = Top(t).ok
      /\ g.todo = Top(t).todo /\ g.at = p
  BY <1>1 DEF FrameSet
<1>4. Goto(t, g)
  BY DEF Move
<1> HIDE DEF g
<1>5. MovesOn(t) /\ Top(t)' = g
  BY <1>2, <1>3, <1>4, MovesBy
<1> QED BY <1>3, <1>5 DEF SameRound, SameHand

LEMMA CheckYieldDoes ==
  ASSUME TypeInv, NEW t \in Threads, CheckYield(t), NEW e, e = Top(t).e
  PROVE  /\ MovesOn(t) /\ SameHand(t) /\ Top(t).at = "check"
         /\ \/ Top(t)'.at = "doze" /\ SameRound(t)
            \/ /\ Top(t)'.at = "run" /\ Top(t).held < conf.holds[e] /\ Top(t)'.i = Top(t).i
               /\ Top(t)'.held = Top(t).held + 1 /\ ~IsAsync(e)
            \/ /\ Top(t)'.at = IF Top(t).i + 1 < conf.loop[e] THEN "loop" ELSE "finish"
               /\ ~(Top(t).ok /\ Top(t).held < conf.holds[e])
               /\ Top(t)'.i = Top(t).i + 1 /\ Top(t)'.held = 0
         /\ UNCHANGED <<conf, main, tasks, cur, repo, done, left, triggered, fut, engine, control,
                        open, ran, failed, stopped>>
<1> DEFINE f == Top(t)
<1>1. stack[t] # <<>> /\ f.at = "check"
  BY DEF CheckYield, At
<1>2. f \in FrameSet
  BY <1>1, TopIs
<1>3. CASE Move(t, "doze")
  BY <1>1, <1>3, MoveDoes DEF Places, CheckYield
<1>4. CASE Goto(t, [f EXCEPT !.at = "run", !.held = @ + 1]) /\ f.held < conf.holds[e]
           /\ ~IsAsync(e)
  <2> DEFINE g == [f EXCEPT !.at = "run", !.held = @ + 1]
  <2>1. f.held + 1 \in Nat
    BY <1>2 DEF FrameSet
  <2>2. g \in FrameSet
    BY <1>2, <2>1 DEF FrameSet, Places
  <2>3. g.at = "run" /\ g.e = f.e /\ g.i = f.i /\ g.held = f.held + 1 /\ g.ok = f.ok
        /\ g.todo = f.todo
    BY <1>2 DEF FrameSet
  <2>4. Goto(t, g)
    BY <1>4
  <2> HIDE DEF g
  <2>5. MovesOn(t) /\ Top(t)' = g
    BY <1>1, <2>2, <2>3, <2>4, MovesBy
  <2> QED BY <1>1, <1>4, <2>3, <2>5 DEF SameHand, CheckYield
<1>5. CASE /\ Goto(t, [f EXCEPT !.at = IF f.i + 1 < conf.loop[e] THEN "loop" ELSE "finish",
                                !.held = 0, !.i = @ + 1])
           /\ ~(f.ok /\ f.held < conf.holds[e])
  <2> DEFINE g == [f EXCEPT !.at = IF f.i + 1 < conf.loop[e] THEN "loop" ELSE "finish",
                            !.held = 0, !.i = @ + 1]
  <2>1. f.i + 1 \in Nat
    BY <1>2 DEF FrameSet
  <2>2. g \in FrameSet
    BY <1>2, <2>1 DEF FrameSet, Places
  <2>3. g.at = (IF f.i + 1 < conf.loop[e] THEN "loop" ELSE "finish") /\ g.e = f.e
        /\ g.i = f.i + 1 /\ g.held = 0 /\ g.ok = f.ok /\ g.todo = f.todo
    BY <1>2 DEF FrameSet
  <2>4. Goto(t, g)
    BY <1>5
  <2> HIDE DEF g
  <2>5. MovesOn(t) /\ Top(t)' = g
    BY <1>1, <2>2, <2>3, <2>4, MovesBy
  <2> QED BY <1>1, <1>5, <2>3, <2>5 DEF SameHand, CheckYield
<1> QED BY <1>3, <1>4, <1>5 DEF CheckYield

LEMMA HoldAsyncDoes ==
  ASSUME TypeInv, NEW t \in Threads, HoldAsync(t), NEW e, e = Top(t).e
  PROVE  /\ MovesOn(t) /\ Top(t).at = "check" /\ Top(t)'.at = "await" /\ IsAsync(e)
         /\ e \in Elements /\ conf.holds[e] # 0
         /\ \E n \in Nat : /\ fut' = [fut EXCEPT ![e] = [n |-> n, st |-> "pending"]]
                           /\ tasks' = tasks \cup {Async(e, n)}
         /\ UNCHANGED <<conf, main, cur, repo, done, left, triggered, engine, control, open, ran,
                        failed, stopped>>
<1>1. /\ stack[t] # <<>> /\ Top(t).at = "check" /\ IsAsync(e) /\ e \in Elements
      /\ Top(t).held \in Nat /\ Top(t).held < conf.holds[e]
      /\ UNCHANGED <<conf, main, cur, repo, done, left, triggered, engine, control, open, ran,
                     failed, stopped>>
  BY HoldRuns
<1>2. PICK g \in FrameSet, n \in Nat :
        /\ Goto(t, g) /\ g.e = e /\ g.ready = Top(t).ready /\ g.at = "await"
        /\ fut' = [fut EXCEPT ![e] = [n |-> n, st |-> "pending"]]
        /\ tasks' = tasks \cup {Async(e, n)}
  BY HoldRuns
<1>3. MovesOn(t) /\ Top(t)' = g
  BY <1>1, <1>2, MovesBy
<1>4. conf.holds[e] # 0
  BY <1>1
<1> QED BY <1>1, <1>2, <1>3, <1>4

(* A sleeper wakes up, or falls asleep.                                    *)
Stirs(t) ==
  /\ MovesOn(t) /\ SameRound(t) /\ SameHand(t)
  /\ Top(t).at \in {"doze", "asleep"} /\ Top(t)'.at \in {"asleep", "check"}

LEMMA DozeDoes ==
  ASSUME TypeInv, NEW t \in Threads, Doze(t) \/ SpuriousWakeup(t)
  PROVE  /\ Stirs(t)
         /\ UNCHANGED <<conf, main, tasks, cur, repo, done, left, triggered, fut, engine, control,
                        open, ran, failed, stopped>>
<1>1. stack[t] # <<>> /\ Top(t).at \in {"doze", "asleep"}
      /\ (Move(t, "asleep") \/ Move(t, "check"))
  BY DEF Doze, SpuriousWakeup, At
<1>2. MovesOn(t) /\ SameRound(t) /\ SameHand(t) /\ Top(t)'.at \in {"asleep", "check"}
  BY <1>1, MoveDoes DEF Places
<1> QED BY <1>1, <1>2 DEF Stirs, Doze, SpuriousWakeup

LEMMA SetStateWakes ==
  ASSUME TypeInv, NEW x \in Elements, NEW s \in States, SetState(x, s)
  PROVE  /\ cur' = [cur EXCEPT ![x] = s]
         /\ stack' = stack \/ (\E t \in Threads : Stirs(t))
<1>1. CASE stack' = stack
  BY <1>1 DEF SetState
<1>2. CASE \E t \in Sleepers(x) : Move(t, "check")
  <2>1. PICK t \in Sleepers(x) : Move(t, "check")
    BY <1>2
  <2>2. t \in Threads /\ stack[t] # <<>> /\ Top(t).at = "asleep"
    BY <2>1 DEF Sleepers, At
  <2>3. Stirs(t)
    BY <2>1, <2>2, MoveDoes DEF Places, Stirs
  <2> QED BY <2>2, <2>3 DEF SetState
<1> QED BY <1>1, <1>2 DEF SetState

LEMMA TakesTask ==
  ASSUME TypeInv, NEW t \in Threads, Take(t)
  PROVE  /\ stack[t] = <<>> /\ stack'[t] # <<>>
         /\ \A u \in Threads : u # t => stack'[u] = stack[u]
         /\ \E k \in tasks :
              /\ tasks' = tasks \ {k}
              /\ \/ \E e \in Elements : k = Exec(e) /\ Top(t)' = Frame(e, "start")
                 \/ \E e \in Elements, n \in Nat : /\ k = Async(e, n) /\ Top(t)'.at = "async"
                                                   /\ Top(t)'.e = e /\ Top(t)'.i = n
         /\ UNCHANGED <<conf, main, cur, repo, done, left, triggered, fut, engine, control, open,
                        ran, failed, stopped>>
<1>1. PICK k \in tasks :
        /\ tasks' = tasks \ {k}
        /\ stack' = [stack EXCEPT ![t] =
             <<IF k.kind = "exec" THEN Frame(k.e, "start")
               ELSE [Frame(k.e, "async") EXCEPT !.i = k.n]>>]
  BY DEF Take
<1>2. stack \in [Threads -> Seq(FrameSet)] /\ k \in TaskSet
  BY DEF TypeInv, StackType
<1>3. /\ stack'[t] = <<IF k.kind = "exec" THEN Frame(k.e, "start")
                       ELSE [Frame(k.e, "async") EXCEPT !.i = k.n]>>
      /\ \A u \in Threads : u # t => stack'[u] = stack[u]
  BY <1>1, <1>2
<1>4. CASE \E e \in Elements : k = Exec(e)
  <2>1. PICK e \in Elements : k = Exec(e)
    BY <1>4
  <2>2. k.kind = "exec" /\ k.e = e
    BY <2>1 DEF Exec
  <2>3. stack'[t] = <<Frame(e, "start")>>
    BY <1>3, <2>2
  <2>4. Top(t)' = Frame(e, "start") /\ stack'[t] # <<>>
    BY <2>3 DEF Top
  <2> QED BY <1>1, <1>3, <2>1, <2>4 DEF Take
<1>5. CASE \E e \in Elements, n \in Nat : k = Async(e, n)
  <2>1. PICK e \in Elements, n \in Nat : k = Async(e, n)
    BY <1>5
  <2>2. k.kind = "async" /\ k.e = e /\ k.n = n
    BY <2>1 DEF Async
  <2> DEFINE g == [Frame(e, "async") EXCEPT !.i = n]
  <2>3. g.at = "async" /\ g.e = e /\ g.i = n
    BY DEF Frame
  <2>4. stack'[t] = <<g>>
    BY <1>3, <2>2
  <2> HIDE DEF g
  <2>5. Top(t)' = g /\ stack'[t] # <<>>
    BY <2>4 DEF Top
  <2> QED BY <1>1, <1>3, <2>1, <2>3, <2>5 DEF Take
<1> QED BY <1>2, <1>4, <1>5 DEF TaskSet

(* What an end of its run leads to: another element starts here, or goes   *)
(* to the pool, but only if no error is known.                             *)
LEMMA ProcessOk ==
  ASSUME TypeInv, NEW t \in Threads, NEW e \in Elements, NEW last \in BOOLEAN,
         NEW g \in Seq(FrameSet), Process(t, e, last, g)
  PROVE  /\ \A u \in Threads : u # t => stack'[u] = stack[u]
         /\ \/ stack'[t] = g /\ tasks' = tasks
            \/ stack'[t] = g /\ tasks' = tasks \cup {Exec(e)} /\ engine.ok
            \/ /\ stack'[t] # <<>> /\ Top(t)' = Frame(e, "start") /\ tasks' = tasks /\ engine.ok
<1>1. CASE stack' = [stack EXCEPT ![t] = g] /\ tasks' = tasks
  BY <1>1, Replaced
<1>2. CASE stack' = [stack EXCEPT ![t] = g] /\ tasks' = tasks \cup {Exec(e)} /\ engine.ok
  BY <1>2, Replaced
<1>3. CASE stack' = [stack EXCEPT ![t] = <<Frame(e, "start")>> \o g] /\ tasks' = tasks /\ engine.ok
  <2>1. Frame(e, "start") \in FrameSet
    BY FrameMakes DEF Places
  <2>2. <<Frame(e, "start")>> \o g \in Seq(FrameSet) /\ <<Frame(e, "start")>> \o g # <<>>
        /\ Head(<<Frame(e, "start")>> \o g) = Frame(e, "start")
    BY <2>1, SeqFacts
  <2>3. /\ stack'[t] = <<Frame(e, "start")>> \o g
        /\ \A u \in Threads : u # t => stack'[u] = stack[u]
    BY <1>3, <2>2, Replaced
  <2> QED BY <1>3, <2>2, <2>3 DEF Top
<1> QED BY <1>1, <1>2, <1>3 DEF Process

(* The other steps of a thread: outside of Run and of FatProcessor.        *)
Others(t) == Finish(t) \/ CountDown(t) \/ StartReady(t) \/ Leave(t) \/ RunAsync(t)

LEMMA OthersDo ==
  ASSUME TypeInv, StackInv, NEW t \in Threads, Others(t)
  PROVE  /\ stack[t] # <<>> /\ \A u \in Threads : u # t => stack'[u] = stack[u]
         /\ Top(t).at \in {"finish", "succ", "async"}
         /\ stack'[t] # <<>> =>
              \/ Top(t)'.at = "succ" /\ (Busy(t)' => Top(t)'.e = Top(t).e /\ Busy(t))
              \/ \E s \in InReady(t) : Top(t)' = Frame(s, "start") /\ engine.ok
         /\ \/ tasks' = tasks
            \/ \E s \in InReady(t) : tasks' = tasks \cup {Exec(s)} /\ engine.ok
         /\ UNCHANGED <<conf, cur, repo, control, failed, stopped>>
<1>1. CASE Finish(t)
  <2>1. PICK g \in FrameSet : Goto(t, g) /\ g.e = Top(t).e /\ g.at = "succ"
    BY <1>1, FinishDoes
  <2>2. stack[t] # <<>> /\ Top(t).at = "finish" /\ tasks' = tasks
        /\ UNCHANGED <<conf, cur, repo, control, failed, stopped>>
    BY <1>1, FinishDoes
  <2>3. MovesOn(t) /\ Top(t)' = g
    BY <2>1, <2>2, MovesBy
  <2>4. Busy(t)
    BY <2>2 DEF Busy, Leaving
  <2> QED BY <2>1, <2>2, <2>3, <2>4 DEF MovesOn
<1>2. CASE CountDown(t)
  <2>1. PICK s \in Top(t).todo, n \in 0..(DependModulus - 1), g \in FrameSet :
              /\ n = (left[s] + DependModulus - 1) % DependModulus
              /\ left' = [left EXCEPT ![s] = n]
              /\ Goto(t, g) /\ g.e = Top(t).e /\ g.at = "succ" /\ g.todo = Top(t).todo \ {s}
              /\ g.ready = IF n = 0 THEN Top(t).ready \cup {s} ELSE Top(t).ready
    BY <1>2, CountDownDoes
  <2>2. stack[t] # <<>> /\ Top(t).at = "succ" /\ tasks' = tasks
        /\ UNCHANGED <<conf, cur, repo, control, failed, stopped>>
    BY <1>2, CountDownDoes
  <2>3. MovesOn(t) /\ Top(t)' = g
    BY <2>1, <2>2, MovesBy
  <2>4. Busy(t)
    BY <2>1, <2>2 DEF Busy, Leaving
  <2> QED BY <2>1, <2>2, <2>3, <2>4 DEF MovesOn
<1>3. CASE StartReady(t)
  <2>1. PICK s \in Top(t).ready, g \in FrameSet :
              /\ g.e = Top(t).e /\ g.at = "succ" /\ g.todo = {} /\ g.ready = Top(t).ready \ {s}
              /\ Process(t, s, Top(t).ready = {s}, <<g>> \o Tail(stack[t]))
    BY <1>3, StartReadyDoes
  <2>2. stack[t] # <<>> /\ Top(t).at = "succ"
        /\ UNCHANGED <<conf, cur, repo, control, failed, stopped>>
    BY <1>3, StartReadyDoes
  <2>3. s \in InReady(t)
    BY <2>2 DEF InReady
  <2>4. Busy(t)
    BY <2>2, <2>3 DEF Busy, Leaving, InReady
  <2>5. Tail(stack[t]) \in Seq(FrameSet) /\ Top(t).ready \subseteq Elements
    BY <2>2, TopIs DEF FrameSet
  <2> DEFINE q == <<g>> \o Tail(stack[t])
  <2>6. q \in Seq(FrameSet) /\ q # <<>> /\ Head(q) = g
    BY <2>5, SeqFacts
  <2>7. PICK last \in BOOLEAN : last = (Top(t).ready = {s})
    OBVIOUS
  <2>8. Process(t, s, last, q)
    BY <2>1, <2>7
  <2> HIDE DEF q
  <2>9. /\ \A u \in Threads : u # t => stack'[u] = stack[u]
        /\ \/ stack'[t] = q /\ tasks' = tasks
           \/ stack'[t] = q /\ tasks' = tasks \cup {Exec(s)} /\ engine.ok
           \/ stack'[t] # <<>> /\ Top(t)' = Frame(s, "start") /\ tasks' = tasks /\ engine.ok
    BY <2>5, <2>6, <2>8, ProcessOk
  <2>10. CASE stack'[t] = q
    <3>1. Top(t)' = g
      BY <2>6, <2>10 DEF Top
    <3>2. Top(t)'.at = "succ" /\ Top(t)'.e = Top(t).e
      BY <2>1, <3>1
    <3>3. tasks' = tasks \/ (\E x \in InReady(t) : tasks' = tasks \cup {Exec(x)} /\ engine.ok)
      BY <2>3, <2>9
    <3> QED BY <2>2, <2>4, <2>9, <3>2, <3>3
  <2>11. CASE Top(t)' = Frame(s, "start") /\ tasks' = tasks /\ engine.ok
    BY <2>2, <2>3, <2>9, <2>11
  <2> QED BY <2>9, <2>10, <2>11
<1>4. CASE Leave(t) \/ RunAsync(t)
  <2>1. /\ stack[t] # <<>> /\ Top(t).at \in {"succ", "async"}
        /\ stack' = [stack EXCEPT ![t] = Tail(@)] /\ tasks' = tasks
        /\ UNCHANGED <<conf, cur, repo, control, failed, stopped>>
    BY <1>4 DEF Leave, RunAsync, At
  <2>2. stack'[t] = Tail(stack[t]) /\ \A u \in Threads : u # t => stack'[u] = stack[u]
    BY <2>1, Drops
  <2>3. ~Busy(t)'
    BY <2>1, <2>2, DropViews
  <2>4. stack'[t] # <<>> => Low(Head(stack'[t]))
    BY <2>1, <2>2, DropsCalls
  <2> QED BY <2>1, <2>2, <2>3, <2>4 DEF Low, Leaving, Top
<1> QED BY <1>1, <1>2, <1>3, <1>4 DEF Others

LEMMA ThreadDoes ==
  ASSUME NEW t, ThreadStep(t) \/ SpuriousWakeup(t)
  PROVE  \/ Take(t) \/ (Start(t) \/ NextRound(t)) \/ RunUser(t) \/ RunFence(t)
         \/ (AwaitReady(t) \/ AwaitTimeout(t)) \/ CheckYield(t) \/ HoldAsync(t)
         \/ (Doze(t) \/ SpuriousWakeup(t))
         \/ Others(t)
BY DEF ThreadStep, Others

LEMMA FrontsDo ==
  ASSUME TypeInv, MainFronts
  PROVE  /\ stack[Main] = <<>> /\ \A u \in Threads : u # Main => stack'[u] = stack[u]
         /\ stack'[Main] # <<>> => \E s \in InFronts : Top(Main)' = Frame(s, "start") /\ engine.ok
         /\ \/ tasks' = tasks
            \/ \E s \in InFronts : tasks' = tasks \cup {Exec(s)} /\ engine.ok
         /\ main'.at = main.at
         /\ UNCHANGED <<conf, cur, repo, done, left, triggered, fut, engine, control, open, ran,
                        failed, stopped>>
<1>1. PICK s \in main.todo : /\ main' = [main EXCEPT !.todo = @ \ {s}]
                             /\ Process(Main, s, main.todo = {s}, <<>>)
  BY FrontsDoes
<1>2. main.at = "fronts" /\ stack[Main] = <<>> /\ main \in
        [at : MainPlaces, todo : SUBSET Elements, left : 0..conf.runs, ok : BOOLEAN,
         reset : BOOLEAN, verdict : Verdicts]
  BY FrontsDoes DEF TypeInv, MainType
<1>3. s \in InFronts /\ s \in Elements /\ main'.at = main.at
  BY <1>1, <1>2 DEF InFronts
<1>4. PICK last \in BOOLEAN : last = (main.todo = {s})
  OBVIOUS
<1>5. Process(Main, s, last, <<>>)
  BY <1>1, <1>4
<1>6. <<>> \in Seq(FrameSet) /\ Main \in Threads
  BY GraphIs
<1>7. /\ \A u \in Threads : u # Main => stack'[u] = stack[u]
      /\ \/ stack'[Main] = <<>> /\ tasks' = tasks
         \/ stack'[Main] = <<>> /\ tasks' = tasks \cup {Exec(s)} /\ engine.ok
         \/ stack'[Main] # <<>> /\ Top(Main)' = Frame(s, "start") /\ tasks' = tasks /\ engine.ok
  BY <1>3, <1>5, <1>6, ProcessOk
<1> QED BY <1>2, <1>3, <1>7, FrontsDoes
-----------------------------------------------------------------------------
(* Which way an element goes.                                              *)
LEMMA PathBy ==
  ASSUME PathInv, conf' = conf, NEW t \in Threads,
         \A u \in Threads : u # t => stack'[u] = stack[u], Path(t)', TasksPath'
  PROVE  PathInv'
<1>1. Threads' = Threads
  BY DEF Threads
<1>2. ASSUME NEW u \in Threads, u # t PROVE Path(u)'
  <2>1. stack'[u] = stack[u] /\ Top(u)' = Top(u)
    BY <1>2 DEF Top
  <2>2. Path(u)
    BY DEF PathInv
  <2> QED BY <2>1, <2>2 DEF Path, IsAsync
<1> QED BY <1>1, <1>2 DEF PathInv

LEMMA SameTasksPath == ASSUME TasksPath, conf' = conf, tasks' \subseteq tasks PROVE TasksPath'
BY DEF TasksPath, IsAsync

LEMMA ExecsPath ==
  ASSUME TasksPath, conf' = conf,
         tasks' = tasks \/ (\E s \in Elements : tasks' = tasks \cup {Exec(s)})
  PROVE  TasksPath'
BY DEF TasksPath, IsAsync, Exec

LEMMA AsyncOnce ==
  ASSUME TypeInv, NEW e \in Elements, IsAsync(e)
  PROVE  conf.loop[e] \in Nat /\ conf.loop[e] <= 1
<1>1. IsConfig(conf)
  BY ConfIs
<1>2. Suitable(conf) /\ conf.loop \in [Elements -> Nat]
  BY <1>1 DEF IsConfig
<1> QED BY <1>2 DEF Suitable, IsAsync

LEMMA RoundPath ==
  ASSUME TypeInv, PathInv, NEW t \in Threads, Start(t) \/ NextRound(t)
  PROVE  PathInv'
<1>1. /\ stack[t] # <<>> /\ Round(t, Top(t)) /\ conf' = conf
  BY StartDoes
<1>2. PICK e : e = Top(t).e
  OBVIOUS
<1>3. MovesOn(t) /\
      (\/ Top(t)'.at = "finish" /\ tasks' = tasks
       \/ /\ Top(t)'.at = "run" /\ ~IsAsync(e) /\ tasks' = tasks /\ Top(t)'.todo = conf.fence[e]
       \/ /\ Top(t)'.at = "await" /\ IsAsync(e) /\ \E n \in Nat : tasks' = tasks \cup {Async(e, n)})
  BY <1>1, <1>2, RoundDoes
<1>4. TasksPath'
  BY <1>1, <1>3 DEF PathInv, TasksPath, IsAsync, Async
<1>5. Path(t)'
  BY <1>1, <1>2, <1>3 DEF Path, IsAsync, MovesOn
<1> QED BY <1>1, <1>3, <1>4, <1>5, PathBy DEF MovesOn

LEMMA ThreadPath ==
  ASSUME TypeInv, StackInv, PathInv, NEW t \in Threads, ThreadStep(t) \/ SpuriousWakeup(t)
  PROVE  PathInv'
<1>1. CASE Take(t)
  <2>1. PICK k \in tasks :
              /\ tasks' = tasks \ {k}
              /\ \/ \E e \in Elements : k = Exec(e) /\ Top(t)' = Frame(e, "start")
                 \/ \E e \in Elements, n \in Nat : /\ k = Async(e, n) /\ Top(t)'.at = "async"
                                                   /\ Top(t)'.e = e /\ Top(t)'.i = n
    BY <1>1, TakesTask
  <2>2. conf' = conf /\ \A u \in Threads : u # t => stack'[u] = stack[u]
    BY <1>1, TakesTask
  <2>3. TasksPath'
    BY <2>1, <2>2, SameTasksPath DEF PathInv
  <2>4. CASE \E e \in Elements : Top(t)' = Frame(e, "start")
    <3>1. Top(t)'.at = "start" /\ Top(t)'.i = 0 /\ Top(t)'.held = 0
      BY <2>4 DEF Frame
    <3>2. Path(t)'
      BY <3>1 DEF Path
    <3> QED BY <2>2, <2>3, <3>2, PathBy
  <2>5. CASE \E e \in Elements, n \in Nat : /\ k = Async(e, n) /\ Top(t)'.at = "async"
                                            /\ Top(t)'.e = e /\ Top(t)'.i = n
    <3>1. PICK e \in Elements, n \in Nat : /\ k = Async(e, n) /\ Top(t)'.at = "async"
                                           /\ Top(t)'.e = e
      BY <2>5
    <3>2. IsAsync(e)
      BY <2>1, <3>1 DEF PathInv, TasksPath, Async
    <3>3. Path(t)'
      BY <2>2, <3>1, <3>2 DEF Path, IsAsync
    <3> QED BY <2>2, <2>3, <3>3, PathBy
  <2> QED BY <2>1, <2>4, <2>5
<1>2. CASE Start(t) \/ NextRound(t)
  BY <1>2, RoundPath
<1>3. CASE RunUser(t)
  <2>1. MovesOn(t) /\ Top(t)'.at \in {"check", "finish"} /\ Top(t)'.todo = {}
        /\ UNCHANGED <<conf, tasks>>
    BY <1>3, RunUserDoes
  <2>2. Path(t)'
    BY <2>1 DEF Path
  <2> QED BY <2>1, <2>2, PathBy, SameTasksPath DEF MovesOn, PathInv
<1>4. CASE RunFence(t)
  <2>1. MovesOn(t) /\ Top(t).at = "run" /\ Top(t)'.at \in {"run", "finish"}
        /\ Top(t)'.todo \subseteq Top(t).todo /\ UNCHANGED <<conf, tasks>>
    BY <1>4, RunFenceDoes
  <2>2. Path(t)'
    BY <2>1 DEF Path, PathInv, MovesOn, IsAsync
  <2> QED BY <2>1, <2>2, PathBy, SameTasksPath DEF MovesOn, PathInv
<1>5. CASE AwaitReady(t) \/ AwaitTimeout(t)
  <2>1. PICK e : e = Top(t).e
    OBVIOUS
  <2>2. MovesOn(t) /\ Top(t).at = "await" /\ Top(t)'.at \in {"check", "finish"}
        /\ UNCHANGED <<conf, tasks>>
    BY <1>5, <2>1, AwaitDoes
  <2>3. Path(t)'
    BY <2>2 DEF Path, PathInv, MovesOn, IsAsync
  <2> QED BY <2>2, <2>3, PathBy, SameTasksPath DEF MovesOn, PathInv
<1>6. CASE CheckYield(t)
  <2>1. PICK e : e = Top(t).e
    OBVIOUS
  <2>2. /\ MovesOn(t) /\ SameHand(t) /\ Top(t).at = "check"
        /\ \/ Top(t)'.at = "doze"
           \/ Top(t)'.at = "run" /\ ~IsAsync(e)
           \/ Top(t)'.at = "loop" /\ Top(t).i + 1 < conf.loop[e]
           \/ Top(t)'.at = "finish"
        /\ UNCHANGED <<conf, tasks>>
    BY <1>6, <2>1, CheckYieldDoes
  <2>3. Top(t).i \in Nat /\ Top(t).held \in Nat /\ e \in Elements
    BY <2>1, <2>2, TopIs DEF FrameSet, MovesOn
  <2>4. Top(t)'.at \in {"run", "loop"} => ~IsAsync(e)
    BY <2>2, <2>3, AsyncOnce
  <2>5. Path(t)'
    BY <2>1, <2>2, <2>4 DEF Path, PathInv, MovesOn, SameHand, IsAsync
  <2> QED BY <2>2, <2>5, PathBy, SameTasksPath DEF MovesOn, PathInv
<1>7. CASE Doze(t) \/ SpuriousWakeup(t)
  <2>1. Stirs(t) /\ UNCHANGED <<conf, tasks>>
    BY <1>7, DozeDoes
  <2>2. Path(t)'
    BY <2>1 DEF Path, PathInv, MovesOn, Stirs, SameHand, IsAsync
  <2> QED BY <2>1, <2>2, PathBy, SameTasksPath DEF MovesOn, PathInv, Stirs
<1>8. CASE Others(t)
  <2>1. /\ \A u \in Threads : u # t => stack'[u] = stack[u]
        /\ stack'[t] # <<>> => \/ Top(t)'.at = "succ"
                               \/ \E s \in InReady(t) : Top(t)' = Frame(s, "start")
        /\ tasks' = tasks \/ (\E s \in InReady(t) : tasks' = tasks \cup {Exec(s)})
        /\ conf' = conf
    BY <1>8, OthersDo
  <2>2. stack'[t] # <<>> =>
          Top(t)'.at = "succ" \/ (Top(t)'.at = "start" /\ Top(t)'.i = 0 /\ Top(t)'.held = 0)
    BY <2>1 DEF Frame
  <2>3. Path(t)'
    BY <2>2 DEF Path
  <2>4. InReady(t) \subseteq Elements
    BY ContentsType
  <2>5. TasksPath'
    BY <2>1, <2>4, ExecsPath DEF PathInv
  <2> QED BY <2>1, <2>3, <2>5, PathBy
<1>9. CASE HoldAsync(t)
  <2>1. PICK e : e = Top(t).e
    OBVIOUS
  <2>2. MovesOn(t) /\ Top(t)'.at = "await" /\ IsAsync(e) /\ conf' = conf
    BY <1>9, <2>1, HoldAsyncDoes
  <2>3. PICK n \in Nat : tasks' = tasks \cup {Async(e, n)}
    BY <1>9, <2>1, HoldAsyncDoes
  <2>4. TasksPath'
    BY <2>2, <2>3 DEF PathInv, TasksPath, IsAsync, Async
  <2>5. Path(t)'
    BY <2>1, <2>2 DEF Path, IsAsync, MovesOn
  <2> QED BY <2>2, <2>4, <2>5, PathBy DEF MovesOn
<1> QED BY <1>1, <1>2, <1>3, <1>4, <1>5, <1>6, <1>7, <1>8, <1>9, ThreadDoes

(* A step that starts nothing and wakes one thread at most.                *)
LEMMA StirsPath ==
  ASSUME TypeInv, PathInv, conf' = conf, tasks' = tasks,
         stack' = stack \/ (\E t \in Threads : Stirs(t))
  PROVE  PathInv'
<1>1. CASE stack' = stack
  <2>1. \A t \in Threads : Top(t)' = Top(t)
    BY <1>1 DEF Top
  <2> QED BY <1>1, <2>1 DEF PathInv, Path, TasksPath, IsAsync, Threads
<1>2. CASE \E t \in Threads : Stirs(t)
  <2>1. PICK t \in Threads : Stirs(t)
    BY <1>2
  <2>2. Path(t)'
    BY <2>1 DEF Path, PathInv, MovesOn, Stirs, SameHand, IsAsync
  <2> QED BY <2>1, <2>2, PathBy, SameTasksPath DEF MovesOn, PathInv, Stirs
<1> QED BY <1>1, <1>2

(* The steps of the pipeline thread and of the controller: each leaves the *)
(* calls and the pool alone, wakes one thread, or starts a front.          *)
Controller == Pull \/ \E s \in Controls : Call(s)

LEMMA MainCalls ==
  ASSUME TypeInv, MainStep \/ MainSpuriousWakeup \/ Controller
  PROVE  \/ conf' = conf /\ tasks' = tasks /\ (stack' = stack \/ (\E t \in Threads : Stirs(t)))
         \/ MainFronts
<1>1. CASE MainSetting \/ MainExiting
  <2>1. PICK s \in States, x \in Elements : SetState(x, s) /\ conf' = conf /\ tasks' = tasks
    <3>1. main.todo \subseteq Elements
      BY DEF TypeInv, MainType
    <3>2. "kNormal" \in States /\ "kCreate" \in States
      BY DEF States
    <3>3. main.todo # {} /\ (SetState(First(main.todo), "kNormal") \/ SetState(First(main.todo), "kCreate"))
          /\ conf' = conf /\ tasks' = tasks
      BY <1>1 DEF MainSetting, MainExiting, MainPull
    <3>4. First(main.todo) \in Elements
      BY <3>1, <3>3, FirstIn
    <3> QED BY <3>2, <3>3, <3>4
  <2>2. stack' = stack \/ (\E t \in Threads : Stirs(t))
    BY <2>1, SetStateWakes
  <2> QED BY <2>1, <2>2
<1>2. CASE Pull
  <2>1. control.todo \subseteq Elements /\ control.state \in States
    BY DEF TypeInv, EngineType
  <2>2. control.todo # {} /\ SetState(First(control.todo), control.state)
        /\ conf' = conf /\ tasks' = tasks
    BY <1>2 DEF Pull
  <2>3. First(control.todo) \in Elements
    BY <2>1, <2>2, FirstIn
  <2>4. stack' = stack \/ (\E t \in Threads : Stirs(t))
    BY <2>1, <2>2, <2>3, SetStateWakes
  <2> QED BY <2>2, <2>4
<1>3. CASE \/ MainInit \/ MainTest \/ MainSetup \/ MainBefore \/ MainWait \/ MainVerdict
           \/ MainReset \/ MainReturn \/ MainDestroy \/ MainExit \/ MainJoin
           \/ MainSpuriousWakeup \/ (\E s \in Controls : Call(s))
  BY <1>3 DEF MainInit, MainTest, MainSetup, MainBefore, MainWait, MainVerdict, MainReset,
       MainReturn, MainDestroy, MainExit, MainJoin, MainSpuriousWakeup, Call, MainPullBegin
<1> QED BY <1>1, <1>2, <1>3 DEF MainStep, Controller

LEMMA NextIs ==
  ASSUME [Next]_vars
  PROVE  \/ \E t \in Threads : ThreadStep(t) \/ SpuriousWakeup(t)
         \/ MainStep \/ MainSpuriousWakeup \/ Controller
         \/ UNCHANGED vars
BY DEF Next, Controller

LEMMA PathStep == ASSUME TypeInv, StackInv, PathInv, [Next]_vars PROVE PathInv'
<1>1. CASE \E t \in Threads : ThreadStep(t) \/ SpuriousWakeup(t)
  BY <1>1, ThreadPath
<1>2. CASE MainFronts
  <2>1. /\ \A u \in Threads : u # Main => stack'[u] = stack[u]
        /\ stack'[Main] # <<>> => \E s \in InFronts : Top(Main)' = Frame(s, "start")
        /\ tasks' = tasks \/ (\E s \in InFronts : tasks' = tasks \cup {Exec(s)})
        /\ conf' = conf
    BY <1>2, FrontsDo
  <2>2. stack'[Main] # <<>> => Top(Main)'.at = "start" /\ Top(Main)'.i = 0 /\ Top(Main)'.held = 0
    BY <2>1 DEF Frame
  <2>3. Path(Main)' /\ Main \in Threads
    BY <2>2, GraphIs DEF Path
  <2>4. InFronts \subseteq Elements
    BY ContentsType, ContentsAre
  <2>5. TasksPath'
    BY <2>1, <2>4, ExecsPath DEF PathInv
  <2> QED BY <2>1, <2>3, <2>5, PathBy
<1>3. CASE conf' = conf /\ tasks' = tasks /\ (stack' = stack \/ (\E t \in Threads : Stirs(t)))
  BY <1>3, StirsPath
<1>4. CASE UNCHANGED vars
  BY <1>3, <1>4 DEF vars
<1> QED BY <1>1, <1>2, <1>3, <1>4, NextIs, MainCalls

LEMMA InitPath == ASSUME Init PROVE PathInv
BY DEF Init, PathInv, TasksPath, Path
-----------------------------------------------------------------------------
(* The states of the elements.                                             *)
LEMMA ThreadKeeps ==
  ASSUME TypeInv, StackInv, NEW t \in Threads, ThreadStep(t) \/ SpuriousWakeup(t)
  PROVE  /\ UNCHANGED <<conf, control, stopped, failed>>
         /\ main' = main \/ (main.at = "blocked" /\ main'.at = "wait")
         /\ cur' = cur \/ (/\ stack[t] # <<>> /\ Top(t).at = "await"
                           /\ cur' = [cur EXCEPT ![Top(t).e] = "kTimeout"])
<1>1. CASE Take(t)
  BY <1>1 DEF Take
<1>2. CASE Start(t) \/ NextRound(t)
  BY <1>2 DEF Start, NextRound
<1>3. CASE RunUser(t) \/ RunFence(t) \/ CheckYield(t) \/ HoldAsync(t) \/ Doze(t) \/ SpuriousWakeup(t)
  BY <1>3 DEF RunUser, RunFence, CheckYield, HoldAsync, Doze, SpuriousWakeup
<1>4. CASE AwaitReady(t) \/ AwaitTimeout(t)
  <2>1. PICK e : e = Top(t).e
    OBVIOUS
  <2>2. MovesOn(t) /\ Top(t).at = "await" /\ (cur' = cur \/ cur' = [cur EXCEPT ![e] = "kTimeout"])
        /\ UNCHANGED <<conf, control, stopped, failed, main>>
    BY <1>4, <2>1, AwaitDoes
  <2> QED BY <2>1, <2>2 DEF MovesOn
<1>5. CASE Finish(t) \/ CountDown(t) \/ StartReady(t) \/ RunAsync(t)
  BY <1>5 DEF Finish, CountDown, StartReady, RunAsync
<1>6. CASE Leave(t)
  <2>1. main' = main \/ (main.at = "blocked" /\ main' = [main EXCEPT !.at = "wait"])
    BY <1>6, LeaveDoes
  <2>2. main.at = "blocked" /\ main' = [main EXCEPT !.at = "wait"] => main'.at = "wait"
    BY DEF TypeInv, MainType
  <2> QED BY <1>6, <2>1, <2>2, LeaveDoes
<1> QED BY <1>1, <1>2, <1>3, <1>4, <1>5, <1>6 DEF ThreadStep

(* What the pipeline thread does to its place and to the states.           *)
LEMMA MainKeeps ==
  ASSUME TypeInv, MainStep \/ MainSpuriousWakeup
  PROVE  /\ UNCHANGED <<conf, control, stopped>> /\ (failed => failed')
         /\ Prepared' => Prepared \/ MainInit
         /\ \/ cur' = cur \/ MainInit \/ ~Prepared'
            \/ \E x \in Elements : cur' = [cur EXCEPT ![x] = "kNormal"]
<1>1. UNCHANGED <<conf, control, stopped>> /\ (failed => failed')
  <2>1. UNCHANGED <<conf, control, stopped>>
    BY DEF MainStep, MainSpuriousWakeup, MainInit, MainTest, MainSetup, MainExit, MainPullBegin,
           MainSetting, MainExiting, MainPull, MainBefore, MainFronts, MainWait, MainVerdict,
           MainReset, MainReturn, MainDestroy, MainJoin
  <2>2. CASE MainVerdict
    BY <2>1, <2>2 DEF MainVerdict
  <2>3. CASE ~MainVerdict
    <3>1. failed' = failed
      BY <2>3 DEF MainStep, MainSpuriousWakeup, MainInit, MainTest, MainSetup, MainExit,
             MainPullBegin, MainSetting, MainExiting, MainPull, MainBefore, MainFronts, MainWait,
             MainReset, MainReturn, MainDestroy, MainJoin
    <3> QED BY <2>1, <3>1
  <2> QED BY <2>2, <2>3
<1>2. main \in [at : MainPlaces, todo : SUBSET Elements, left : 0..conf.runs, ok : BOOLEAN,
                reset : BOOLEAN, verdict : Verdicts]
  BY DEF TypeInv, MainType
<1>3. CASE MainSetting
  <2>1. main.todo # {} /\ main.at = "setting" /\ SetState(First(main.todo), "kNormal")
    BY <1>3 DEF MainSetting, MainPull
  <2>2. First(main.todo) \in Elements /\ cur' = [cur EXCEPT ![First(main.todo)] = "kNormal"]
    BY <1>2, <2>1, FirstIn DEF SetState
  <2> QED BY <1>1, <2>1, <2>2 DEF Prepared
<1>4. CASE MainReset
  <2>1. main.todo # {} /\ main.at = "reset"
        /\ (cur' = cur \/ cur' = [cur EXCEPT ![First(main.todo)] = "kNormal"])
    BY <1>4 DEF MainReset
  <2>2. First(main.todo) \in Elements
    BY <1>2, <2>1, FirstIn
  <2> QED BY <1>1, <2>1, <2>2 DEF Prepared
<1>5. CASE MainExiting
  <2>1. main'.at \in {"exiting", "join"}
    BY <1>2, <1>5 DEF MainExiting, MainPull
  <2> QED BY <1>1, <2>1 DEF Prepared
<1>6. CASE MainExit \/ MainJoin
  <2>1. main'.at \in {"exiting", "join", "end"}
    BY <1>2, <1>6 DEF MainExit, MainPullBegin, MainJoin
  <2> QED BY <1>1, <2>1 DEF Prepared
<1>7. CASE MainInit
  BY <1>1, <1>7
<1>8. CASE \/ MainTest \/ MainSetup \/ MainBefore \/ MainFronts \/ MainWait \/ MainVerdict
           \/ MainReturn \/ MainDestroy \/ MainSpuriousWakeup
  <2>1. Prepared
    BY <1>8 DEF MainTest, MainSetup, MainBefore, MainFronts, MainWait, MainVerdict, MainReturn,
         MainDestroy, MainSpuriousWakeup, MainPullBegin, Prepared
  <2>2. cur' = cur
    BY <1>8 DEF MainTest, MainSetup, MainBefore, MainFronts, MainWait, MainVerdict, MainReturn,
         MainDestroy, MainSpuriousWakeup, MainPullBegin
  <2> QED BY <1>1, <2>1, <2>2
<1> QED BY <1>3, <1>4, <1>5, <1>6, <1>7, <1>8 DEF MainStep

LEMMA StateStep == ASSUME TypeInv, StackInv, PathInv, StateInv, [Next]_vars PROVE StateInv'
<1>1. cur \in [Elements -> States]
  BY DEF TypeInv, ElementType
<1>2. CASE \E t \in Threads : ThreadStep(t) \/ SpuriousWakeup(t)
  <2>1. PICK t \in Threads : ThreadStep(t) \/ SpuriousWakeup(t)
    BY <1>2
  <2>2. /\ UNCHANGED <<conf, control, stopped>>
        /\ main' = main \/ (main.at = "blocked" /\ main'.at = "wait")
        /\ cur' = cur \/ (/\ stack[t] # <<>> /\ Top(t).at = "await"
                          /\ cur' = [cur EXCEPT ![Top(t).e] = "kTimeout"])
    BY <2>1, ThreadKeeps
  <2>3. Prepared' => Prepared
    BY <2>2 DEF Prepared
  <2>4. CASE cur' = cur
    BY <2>2, <2>3, <2>4 DEF StateInv, IsAsync
  <2>5. CASE stack[t] # <<>> /\ Top(t).at = "await" /\ cur' = [cur EXCEPT ![Top(t).e] = "kTimeout"]
    <3>1. IsAsync(Top(t).e) /\ Top(t).e \in Elements
      BY <2>5, TopIs DEF PathInv, Path, FrameSet
    <3>2. \A e \in Elements : cur'[e] = cur[e] \/ (IsAsync(e) /\ cur'[e] = "kTimeout")
      BY <1>1, <2>5, <3>1
    <3> QED BY <2>2, <2>3, <3>2 DEF StateInv, IsAsync
  <2> QED BY <2>2, <2>4, <2>5
<1>3. CASE MainStep \/ MainSpuriousWakeup
  <2>1. /\ UNCHANGED <<conf, control, stopped>>
        /\ Prepared' => Prepared \/ MainInit
        /\ \/ cur' = cur \/ MainInit \/ ~Prepared'
           \/ \E x \in Elements : cur' = [cur EXCEPT ![x] = "kNormal"]
    BY <1>3, MainKeeps
  <2>2. CASE MainInit
    <3>1. \A e \in Elements : cur'[e] = "kNormal"
      BY <2>2 DEF MainInit, InitEnv, PreSetup
    <3> QED BY <2>1, <3>1 DEF StateInv
  <2>3. CASE ~MainInit /\ Prepared'
    <3>1. \A e \in Elements : cur'[e] = cur[e] \/ cur'[e] = "kNormal"
      BY <1>1, <2>1, <2>3
    <3> QED BY <2>1, <2>3, <3>1 DEF StateInv, IsAsync
  <2>4. CASE ~Prepared'
    BY <2>1, <2>4 DEF StateInv
  <2> QED BY <2>2, <2>3, <2>4
<1>4. CASE Controller
  <2>1. Prepared' <=> Prepared
    BY <1>4 DEF Controller, Pull, Call, Prepared
  <2>2. CASE Pull
    <3>1. /\ control.todo # {} /\ UNCHANGED <<conf, stopped>>
          /\ cur' = [cur EXCEPT ![First(control.todo)] = control.state]
          /\ control' = [control EXCEPT !.todo = @ \ {First(control.todo)}]
      BY <2>2 DEF Pull, SetState
    <3>2. control'.state = control.state
      BY <3>1 DEF TypeInv, EngineType
    <3>3. ~stopped => \A e \in Elements : cur'[e] = cur[e] \/ cur'[e] = "kNormal"
      BY <1>1, <3>1 DEF StateInv
    <3> QED BY <2>1, <3>1, <3>2, <3>3 DEF StateInv, IsAsync
  <2>3. CASE \E s \in Controls : Call(s)
    <3>1. PICK s \in Controls : Call(s)
      BY <2>3
    <3>2. control'.state = s /\ stopped' = (stopped \/ s # "kNormal") /\ UNCHANGED <<conf, cur>>
      BY <3>1 DEF Call
    <3> QED BY <2>1, <3>2 DEF StateInv, IsAsync
  <2> QED BY <1>4, <2>2, <2>3 DEF Controller
<1>5. CASE UNCHANGED vars
  BY <1>5 DEF StateInv, vars, Prepared, IsAsync
<1> QED BY <1>2, <1>3, <1>4, <1>5, NextIs

LEMMA InitState == ASSUME Init PROVE StateInv
BY DEF Init, StateInv, Prepared
-----------------------------------------------------------------------------
(* What a step does to the calls of Run in the pool for e.                 *)
CallsIn(t, e) == At(t, "async") /\ Top(t).e = e
KeepsCalls(e) ==
  /\ CallTasks(e)' = CallTasks(e) /\ CallThreads(e)' = CallThreads(e)
  /\ \A t \in CallThreads(e) : Top(t)' = Top(t)
  /\ fut'[e].n = fut[e].n /\ (fut[e].st = "pending" => fut'[e].st = "pending")
TakesCall(e) ==
  \E k \in CallTasks(e), t \in Threads :
    /\ CallTasks(e)' = CallTasks(e) \ {k} /\ CallThreads(e)' = CallThreads(e) \cup {t}
    /\ \A u \in Threads : u # t => Top(u)' = Top(u)
    /\ Top(t)'.i = k.n /\ fut' = fut
EndsCall(e) ==
  /\ \E t \in CallThreads(e) : CallThreads(e)' = CallThreads(e) \ {t}
  /\ CallTasks(e)' = CallTasks(e)
MakesCall(e) ==
  /\ CallThreads(e)' = CallThreads(e)
  /\ \E n \in Nat : /\ CallTasks(e)' = CallTasks(e) \cup {Async(e, n)}
                    /\ fut'[e] = [n |-> n, st |-> "pending"]
  /\ IsAsync(e)
  /\ \E t \in Threads : /\ Start(t) \/ NextRound(t) \/ HoldAsync(t)
                        /\ Top(t).e = e /\ Top(t)'.at = "await" /\ MovesOn(t)

LEMMA ThreadsOf == \A e : CallThreads(e) = {t \in Threads : CallsIn(t, e)}
BY DEF CallThreads, CallsIn

LEMMA SameThreads ==
  ASSUME NEW t \in Threads, \A u \in Threads : u # t => stack'[u] = stack[u], NEW e,
         ~CallsIn(t, e), ~CallsIn(t, e)'
  PROVE  CallThreads(e)' = CallThreads(e) /\ \A u \in CallThreads(e) : Top(u)' = Top(u)
<1>1. \A u \in Threads : u # t => (CallsIn(u, e)' <=> CallsIn(u, e)) /\ Top(u)' = Top(u)
  BY DEF CallsIn, At, Top
<1>2. Threads' = Threads
  BY DEF Threads
<1> QED BY <1>1, <1>2 DEF CallThreads, CallsIn

LEMMA SameTasks ==
  ASSUME \/ tasks' = tasks \/ (\E s : tasks' = tasks \cup {Exec(s)})
         \/ (\E s : tasks' = tasks \ {Exec(s)}), NEW e
  PROVE  CallTasks(e)' = CallTasks(e)
<1>1. \A s : Exec(s).kind # "async"
  BY DEF Exec
<1> QED BY <1>1 DEF CallTasks

LEMMA SameFut ==
  ASSUME TypeInv, NEW e \in Elements,
         \/ fut' = fut
         \/ \E x \in Elements : fut' = [fut EXCEPT ![x].st = "none"] /\ fut[x].st # "pending"
  PROVE  fut'[e].n = fut[e].n /\ (fut[e].st = "pending" => fut'[e].st = "pending")
<1>1. fut \in [Elements -> [n : Nat, st : Results]]
  BY DEF TypeInv, ElementType
<1> QED BY <1>1

LEMMA TakeCall ==
  ASSUME TypeInv, NEW t \in Threads, Take(t), NEW e \in Elements
  PROVE  KeepsCalls(e) \/ TakesCall(e)
<1>1. /\ stack[t] = <<>> /\ stack'[t] # <<>> /\ fut' = fut
      /\ \A u \in Threads : u # t => stack'[u] = stack[u]
  BY TakesTask
<1>2. ~CallsIn(t, e)
  BY <1>1 DEF CallsIn, At
<1>3. PICK k \in tasks :
        /\ tasks' = tasks \ {k}
        /\ \/ \E x \in Elements : k = Exec(x) /\ Top(t)' = Frame(x, "start")
           \/ \E x \in Elements, n \in Nat : /\ k = Async(x, n) /\ Top(t)'.at = "async"
                                             /\ Top(t)'.e = x /\ Top(t)'.i = n
  BY TakesTask
<1>4. CASE \E x \in Elements : k = Exec(x) /\ Top(t)' = Frame(x, "start")
  <2>1. ~CallsIn(t, e)'
    BY <1>4 DEF CallsIn, At, Frame
  <2>2. CallTasks(e)' = CallTasks(e)
    BY <1>3, <1>4, SameTasks
  <2> QED BY <1>1, <1>2, <2>1, <2>2, SameThreads DEF KeepsCalls
<1>5. CASE \E x \in Elements, n \in Nat : /\ k = Async(x, n) /\ Top(t)'.at = "async"
                                          /\ Top(t)'.e = x /\ Top(t)'.i = n
  <2>1. PICK x \in Elements, n \in Nat : /\ k = Async(x, n) /\ Top(t)'.at = "async"
                                         /\ Top(t)'.e = x /\ Top(t)'.i = n
    BY <1>5
  <2>2. k.kind = "async" /\ k.e = x /\ k.n = n
    BY <2>1 DEF Async
  <2>3. CASE x = e
    <3>1. k \in CallTasks(e) /\ CallTasks(e)' = CallTasks(e) \ {k}
      BY <1>3, <2>2, <2>3 DEF CallTasks
    <3>2. \A u \in Threads : u # t => (CallsIn(u, e)' <=> CallsIn(u, e)) /\ Top(u)' = Top(u)
      BY <1>1 DEF CallsIn, At, Top
    <3>3. CallsIn(t, e)'
      BY <1>1, <2>1, <2>3 DEF CallsIn, At
    <3>4. Threads' = Threads
      BY DEF Threads
    <3>5. CallThreads(e)' = CallThreads(e) \cup {t}
      BY <3>2, <3>3, <3>4 DEF CallThreads, CallsIn
    <3> QED BY <1>1, <2>1, <2>2, <3>1, <3>2, <3>5 DEF TakesCall
  <2>4. CASE x # e
    <3>1. ~CallsIn(t, e)'
      BY <2>1, <2>4 DEF CallsIn
    <3>2. CallTasks(e)' = CallTasks(e)
      BY <1>3, <2>2, <2>4 DEF CallTasks
    <3> QED BY <1>1, <1>2, <3>1, <3>2, SameThreads DEF KeepsCalls
  <2> QED BY <2>3, <2>4
<1> QED BY <1>3, <1>4, <1>5

LEMMA MakeCall ==
  ASSUME TypeInv, NEW t \in Threads, Start(t) \/ NextRound(t) \/ HoldAsync(t), MovesOn(t),
         Top(t).at # "async", Top(t)'.at = "await", NEW x, x = Top(t).e, IsAsync(x), NEW n \in Nat,
         fut' = [fut EXCEPT ![x] = [n |-> n, st |-> "pending"]],
         tasks' = tasks \cup {Async(x, n)}, NEW e \in Elements
  PROVE  KeepsCalls(e) \/ MakesCall(e)
<1>1. ~CallsIn(t, e) /\ ~CallsIn(t, e)'
  BY DEF CallsIn, At
<1>2. CallThreads(e)' = CallThreads(e) /\ \A u \in CallThreads(e) : Top(u)' = Top(u)
  BY <1>1, SameThreads DEF MovesOn
<1>3. fut \in [Elements -> [n : Nat, st : Results]]
  BY DEF TypeInv, ElementType
<1>4. CASE x = e
  <2>1. CallTasks(e)' = CallTasks(e) \cup {Async(e, n)}
    BY <1>4 DEF CallTasks, Async
  <2>2. fut'[e] = [n |-> n, st |-> "pending"]
    BY <1>3, <1>4
  <2> QED BY <1>2, <1>4, <2>1, <2>2 DEF MakesCall
<1>5. CASE x # e
  <2>1. CallTasks(e)' = CallTasks(e)
    BY <1>5 DEF CallTasks, Async
  <2>2. fut'[e] = fut[e]
    BY <1>3, <1>5
  <2> QED BY <1>2, <2>1, <2>2 DEF KeepsCalls
<1> QED BY <1>4, <1>5

LEMMA RoundCall ==
  ASSUME TypeInv, NEW t \in Threads, Start(t) \/ NextRound(t), NEW e \in Elements
  PROVE  KeepsCalls(e) \/ MakesCall(e)
<1>1. stack[t] # <<>> /\ Top(t).at \in {"start", "loop"} /\ Round(t, Top(t)) /\ conf' = conf
  BY StartDoes
<1>2. PICK x : x = Top(t).e
  OBVIOUS
<1>3. MovesOn(t) /\
      (\/ Top(t)'.at \in {"finish", "run"} /\ tasks' = tasks /\ fut' = fut
       \/ /\ Top(t)'.at = "await" /\ IsAsync(x)
          /\ \E n \in Nat : /\ fut' = [fut EXCEPT ![x] = [n |-> n, st |-> "pending"]]
                            /\ tasks' = tasks \cup {Async(x, n)})
  BY <1>1, <1>2, RoundDoes
<1>4. CASE Top(t)'.at \in {"finish", "run"} /\ tasks' = tasks /\ fut' = fut
  <2>1. ~CallsIn(t, e) /\ ~CallsIn(t, e)'
    BY <1>1, <1>4 DEF CallsIn, At
  <2>2. CallThreads(e)' = CallThreads(e) /\ \A u \in CallThreads(e) : Top(u)' = Top(u)
    BY <1>3, <2>1, SameThreads DEF MovesOn
  <2> QED BY <1>4, <2>2, SameTasks DEF KeepsCalls
<1>5. CASE \E n \in Nat : /\ fut' = [fut EXCEPT ![x] = [n |-> n, st |-> "pending"]]
                          /\ tasks' = tasks \cup {Async(x, n)} /\ Top(t)'.at = "await" /\ IsAsync(x)
  BY <1>1, <1>2, <1>3, <1>5, MakeCall
<1> QED BY <1>3, <1>4, <1>5

LEMMA HoldCall ==
  ASSUME TypeInv, NEW t \in Threads, HoldAsync(t), NEW e \in Elements
  PROVE  KeepsCalls(e) \/ MakesCall(e)
<1>1. PICK x : x = Top(t).e
  OBVIOUS
<1>2. MovesOn(t) /\ Top(t).at = "check" /\ Top(t)'.at = "await" /\ IsAsync(x)
  BY <1>1, HoldAsyncDoes
<1>3. PICK n \in Nat : /\ fut' = [fut EXCEPT ![x] = [n |-> n, st |-> "pending"]]
                       /\ tasks' = tasks \cup {Async(x, n)}
  BY <1>1, HoldAsyncDoes
<1> QED BY <1>1, <1>2, <1>3, MakeCall

LEMMA EndCall ==
  ASSUME TypeInv, StackInv, NEW t \in Threads, RunAsync(t), NEW e \in Elements
  PROVE  KeepsCalls(e) \/ EndsCall(e)
<1>1. /\ stack[t] # <<>> /\ \A u \in Threads : u # t => stack'[u] = stack[u]
      /\ stack'[t] # <<>> => Low(Head(stack'[t]))
  <2>1. stack[t] # <<>> /\ stack' = [stack EXCEPT ![t] = Tail(@)] /\ conf' = conf
    BY DEF RunAsync, At
  <2>2. stack'[t] = Tail(stack[t]) /\ \A u \in Threads : u # t => stack'[u] = stack[u]
    BY <2>1, Drops
  <2> QED BY <2>1, <2>2, DropsCalls
<1>2. Top(t).at = "async" /\ tasks' = tasks
  BY DEF RunAsync, At
<1>3. ~CallsIn(t, e)'
  BY <1>1 DEF CallsIn, At, Low, Leaving, Top
<1>4. CallTasks(e)' = CallTasks(e)
  BY <1>2, SameTasks
<1>5. CASE Top(t).e = e
  <2>1. \A u \in Threads : u # t => (CallsIn(u, e)' <=> CallsIn(u, e))
    BY <1>1 DEF CallsIn, At, Top
  <2>2. t \in CallThreads(e) /\ Threads' = Threads
    BY <1>1, <1>2, <1>5 DEF CallThreads, At, Threads
  <2>3. CallThreads(e)' = CallThreads(e) \ {t}
    BY <1>3, <2>1, <2>2 DEF CallThreads, CallsIn
  <2> QED BY <1>4, <2>2, <2>3 DEF EndsCall
<1>6. CASE Top(t).e # e
  <2>1. CallThreads(e)' = CallThreads(e) /\ \A u \in CallThreads(e) : Top(u)' = Top(u)
    BY <1>1, <1>3, <1>6, SameThreads DEF CallsIn
  <2>2. fut \in [Elements -> [n : Nat, st : Results]]
    BY DEF TypeInv, ElementType
  <2>3. fut'[e] = fut[e]
    BY <1>6, <2>2 DEF RunAsync
  <2> QED BY <1>4, <2>1, <2>3 DEF KeepsCalls
<1> QED BY <1>5, <1>6

LEMMA QuietMove ==
  ASSUME TypeInv, NEW t \in Threads, MovesOn(t), Top(t).at # "async", Top(t)'.at # "async",
         tasks' = tasks, NEW e \in Elements,
         \/ fut' = fut
         \/ \E x \in Elements : fut' = [fut EXCEPT ![x].st = "none"] /\ fut[x].st # "pending"
  PROVE  KeepsCalls(e)
<1>1. ~CallsIn(t, e) /\ ~CallsIn(t, e)'
  BY DEF CallsIn, At
<1>2. CallThreads(e)' = CallThreads(e) /\ \A u \in CallThreads(e) : Top(u)' = Top(u)
  BY <1>1, SameThreads DEF MovesOn
<1> QED BY <1>2, SameTasks, SameFut DEF KeepsCalls

LEMMA ThreadMakes ==
  ASSUME TypeInv, StackInv, NEW t \in Threads, ThreadStep(t) \/ SpuriousWakeup(t),
         NEW e \in Elements
  PROVE  KeepsCalls(e) \/ TakesCall(e) \/ EndsCall(e) \/ MakesCall(e)
<1>1. CASE Take(t)
  BY <1>1, TakeCall
<1>2. CASE Start(t) \/ NextRound(t)
  BY <1>2, RoundCall
<1>3. CASE RunUser(t)
  <2>1. MovesOn(t) /\ Top(t).at = "run" /\ Top(t)'.at \in {"check", "finish"}
        /\ UNCHANGED <<tasks, fut>>
    BY <1>3, RunUserDoes
  <2> QED BY <2>1, QuietMove
<1>4. CASE RunFence(t)
  <2>1. /\ MovesOn(t) /\ Top(t).at = "run" /\ Top(t)'.at \in {"run", "finish"} /\ tasks' = tasks
        /\ \E x \in Top(t).todo : fut[x].st # "pending" /\ fut' = [fut EXCEPT ![x].st = "none"]
    BY <1>4, RunFenceDoes
  <2>2. Top(t).todo \subseteq Elements
    BY <2>1, TopIs DEF MovesOn, FrameSet
  <2> QED BY <2>1, <2>2, QuietMove
<1>5. CASE AwaitReady(t) \/ AwaitTimeout(t)
  <2>1. PICK x : x = Top(t).e
    OBVIOUS
  <2>2. /\ MovesOn(t) /\ Top(t).at = "await" /\ Top(t)'.at \in {"check", "finish"} /\ tasks' = tasks
        /\ fut' = fut \/ (fut' = [fut EXCEPT ![x].st = "none"] /\ fut[x].st # "pending")
    BY <1>5, <2>1, AwaitDoes
  <2> QED BY <2>1, <2>2, QuietMove DEF MovesOn
<1>6. CASE CheckYield(t)
  <2>1. PICK x : x = Top(t).e
    OBVIOUS
  <2>2. /\ MovesOn(t) /\ Top(t).at = "check" /\ Top(t)'.at \in {"doze", "run", "loop", "finish"}
        /\ UNCHANGED <<tasks, fut>>
    BY <1>6, <2>1, CheckYieldDoes
  <2> QED BY <2>2, QuietMove
<1>7. CASE Doze(t) \/ SpuriousWakeup(t)
  <2>1. Stirs(t) /\ UNCHANGED <<tasks, fut>>
    BY <1>7, DozeDoes
  <2> QED BY <2>1, QuietMove DEF Stirs
<1>8. CASE RunAsync(t)
  BY <1>8, EndCall
<1>9. CASE Finish(t) \/ CountDown(t) \/ StartReady(t) \/ Leave(t)
  <2>1. /\ \A u \in Threads : u # t => stack'[u] = stack[u]
        /\ stack'[t] # <<>> => \/ Top(t)'.at = "succ"
                               \/ \E s \in InReady(t) : Top(t)' = Frame(s, "start")
        /\ tasks' = tasks \/ (\E s \in InReady(t) : tasks' = tasks \cup {Exec(s)})
    BY <1>9, OthersDo DEF Others
  <2>2. fut' = fut /\ Top(t).at \in {"finish", "succ"}
    BY <1>9 DEF Finish, CountDown, StartReady, Leave, At
  <2>3. ~CallsIn(t, e) /\ ~CallsIn(t, e)'
    BY <2>1, <2>2 DEF CallsIn, At, Frame
  <2>4. CallThreads(e)' = CallThreads(e) /\ \A u \in CallThreads(e) : Top(u)' = Top(u)
    BY <2>1, <2>3, SameThreads
  <2>5. CallTasks(e)' = CallTasks(e)
    BY <2>1, SameTasks
  <2> QED BY <2>2, <2>4, <2>5 DEF KeepsCalls
<1>10. CASE HoldAsync(t)
  BY <1>10, HoldCall
<1> QED BY <1>1, <1>2, <1>3, <1>4, <1>5, <1>6, <1>7, <1>8, <1>9, <1>10 DEF ThreadStep

LEMMA MainMakes ==
  ASSUME TypeInv, MainStep \/ MainSpuriousWakeup \/ Controller \/ UNCHANGED vars,
         NEW e \in Elements
  PROVE  KeepsCalls(e)
<1>1. CASE MainFronts
  <2>1. /\ stack[Main] = <<>> /\ \A u \in Threads : u # Main => stack'[u] = stack[u]
        /\ stack'[Main] # <<>> => \E s \in InFronts : Top(Main)' = Frame(s, "start")
        /\ tasks' = tasks \/ (\E s \in InFronts : tasks' = tasks \cup {Exec(s)})
        /\ fut' = fut
    BY <1>1, FrontsDo
  <2>2. ~CallsIn(Main, e) /\ ~CallsIn(Main, e)' /\ Main \in Threads
    BY <2>1, GraphIs DEF CallsIn, At, Frame
  <2>3. CallThreads(e)' = CallThreads(e) /\ \A u \in CallThreads(e) : Top(u)' = Top(u)
    BY <2>1, <2>2, SameThreads
  <2>4. CallTasks(e)' = CallTasks(e)
    BY <2>1, SameTasks
  <2> QED BY <2>1, <2>3, <2>4 DEF KeepsCalls
<1>2. CASE ~MainFronts
  <2>1. tasks' = tasks /\ (stack' = stack \/ (\E t \in Threads : Stirs(t)))
    BY <1>2, MainCalls DEF vars
  <2>2. \/ fut' = fut
        \/ \E x \in Elements : fut' = [fut EXCEPT ![x].st = "none"] /\ fut[x].st # "pending"
    <3>1. CASE MainReset
      <4>1. /\ main.todo # {} /\ (Holds(First(main.todo)) => fut[First(main.todo)].st # "pending")
            /\ fut' = IF Holds(First(main.todo)) THEN [fut EXCEPT ![First(main.todo)].st = "none"]
                      ELSE fut
        BY <3>1 DEF MainReset
      <4>2. First(main.todo) \in Elements
        BY <4>1, FirstIn DEF TypeInv, MainType
      <4> QED BY <4>1, <4>2
    <3>2. CASE ~MainReset
      <4>1. fut' = fut
        BY <1>2, <3>2 DEF MainStep, MainSpuriousWakeup, Controller, vars, MainInit, MainTest, MainSetup,
           MainExit, MainPullBegin, MainSetting, MainExiting, MainPull, MainBefore, MainWait,
           MainVerdict, MainReturn, MainDestroy, MainJoin, Pull, Call
      <4> QED BY <4>1
    <3> QED BY <3>1, <3>2
  <2>3. CASE stack' = stack
    <3>1. \A u \in Threads : Top(u)' = Top(u) /\ (CallsIn(u, e)' <=> CallsIn(u, e))
      BY <2>3 DEF Top, CallsIn, At
    <3>2. CallThreads(e)' = CallThreads(e)
      BY <3>1 DEF CallThreads, CallsIn, Threads
    <3>3. \A u \in CallThreads(e) : Top(u)' = Top(u)
      BY <3>1 DEF CallThreads
    <3>4. CallTasks(e)' = CallTasks(e)
      BY <2>1, SameTasks
    <3> QED BY <2>2, <3>2, <3>3, <3>4, SameFut DEF KeepsCalls
  <2>4. CASE \E t \in Threads : Stirs(t)
    BY <2>1, <2>2, <2>4, QuietMove DEF Stirs
  <2> QED BY <2>1, <2>3, <2>4
<1> QED BY <1>1, <1>2

LEMMA StepMakes ==
  ASSUME TypeInv, StackInv, [Next]_vars, NEW e \in Elements
  PROVE  KeepsCalls(e) \/ TakesCall(e) \/ EndsCall(e) \/ MakesCall(e)
BY NextIs, ThreadMakes, MainMakes

(* The one call goes its way.                                              *)
LEMMA CallingStep ==
  ASSUME TypeInv, StackInv, [Next]_vars, NEW e \in Elements
  PROVE  Calling(e)' => Calling(e) \/ MakesCall(e)
<1>1. CASE KeepsCalls(e)
  BY <1>1 DEF KeepsCalls, Calling
<1>2. CASE TakesCall(e)
  BY <1>2 DEF TakesCall, Calling
<1>3. CASE EndsCall(e)
  BY <1>3 DEF EndsCall, Calling
<1> QED BY <1>1, <1>2, <1>3, StepMakes

LEMMA CallInvStep ==
  ASSUME TypeInv, StackInv, [Next]_vars, NEW e \in Elements, CallInv(e),
         MakesCall(e) => ~Calling(e)
  PROVE  CallInv(e)'
<1>1. CASE KeepsCalls(e)
  <2>1. CallTasks(e)' = CallTasks(e) /\ CallThreads(e)' = CallThreads(e)
        /\ (Calling(e)' <=> Calling(e))
    BY <1>1 DEF KeepsCalls, Calling
  <2>2. \A t \in CallThreads(e) : Top(t)'.i = Top(t).i
    BY <1>1 DEF KeepsCalls
  <2> QED BY <1>1, <2>1, <2>2 DEF CallInv, KeepsCalls
<1>2. CASE TakesCall(e)
  <2>1. PICK k \in CallTasks(e), t \in Threads :
          /\ CallTasks(e)' = CallTasks(e) \ {k} /\ CallThreads(e)' = CallThreads(e) \cup {t}
          /\ Top(t)'.i = k.n /\ fut' = fut
    BY <1>2 DEF TakesCall
  <2>2. CallThreads(e) = {} /\ fut[e].st = "pending" /\ \A m \in CallTasks(e) : m.n = fut[e].n
    BY <2>1 DEF CallInv, Calling
  <2>3. ASSUME NEW m \in CallTasks(e) PROVE m = Async(e, fut[e].n)
    <3>1. m \in TaskSet /\ m.kind = "async" /\ m.e = e /\ m.n = fut[e].n
      BY <2>2 DEF CallTasks, TypeInv, StackType
    <3>2. m # Exec(m.e)
      BY <3>1 DEF Exec
    <3> QED BY <3>1, <3>2 DEF TaskSet, Exec, Async
  <2>4. CallTasks(e)' = {} /\ CallThreads(e)' = {t}
    BY <2>1, <2>2, <2>3
  <2>5. Top(t)'.i = fut'[e].n /\ fut'[e].st = "pending"
    BY <2>1, <2>2
  <2> QED BY <2>4, <2>5 DEF CallInv
<1>3. CASE EndsCall(e)
  <2>1. CallThreads(e)' = {} /\ CallTasks(e)' = {}
    BY <1>3 DEF EndsCall, CallInv
  <2> QED BY <2>1 DEF CallInv, Calling
<1>4. CASE MakesCall(e)
  <2>1. CallTasks(e) = {} /\ CallThreads(e) = {}
    BY <1>4 DEF Calling
  <2>2. PICK n \in Nat : /\ CallTasks(e)' = CallTasks(e) \cup {Async(e, n)}
                         /\ fut'[e] = [n |-> n, st |-> "pending"]
    BY <1>4 DEF MakesCall
  <2>3. CallThreads(e)' = {}
    BY <1>4, <2>1 DEF MakesCall
  <2>4. \A k \in CallTasks(e)' : k.n = n
    BY <2>1, <2>2 DEF Async
  <2> QED BY <2>2, <2>3, <2>4 DEF CallInv
<1> QED BY <1>1, <1>2, <1>3, <1>4, StepMakes
-----------------------------------------------------------------------------
(* A thread goes on in an element, takes a task, or is outside of Run.     *)
Works(t) ==
  /\ MovesOn(t) /\ Top(t).at \in {"start", "loop", "run", "await", "check", "doze", "asleep"}
  /\ Top(t)'.at \in {"loop", "run", "await", "check", "doze", "asleep", "finish"}
  /\ \A x \in Elements : x # Top(t).e \/ Top(t).at # "start" => done'[x] = done[x]
  /\ \A x \in Elements : done'[x] => done[x]
  /\ \A x \in Elements : Exec(x) \in tasks' => Exec(x) \in tasks
  /\ UNCHANGED <<conf, main, engine, control, failed, stopped>>

LEMMA WorksOrNot ==
  ASSUME TypeInv, NEW t \in Threads, ThreadStep(t) \/ SpuriousWakeup(t)
  PROVE  Take(t) \/ Works(t) \/ Others(t)
<1>1. CASE Start(t) \/ NextRound(t)
  <2>1. /\ stack[t] # <<>> /\ Top(t).at \in {"start", "loop"} /\ Round(t, Top(t))
        /\ Start(t) => Top(t).at = "start"
        /\ NextRound(t) => Top(t).at = "loop" /\ done' = done
        /\ \A x \in Elements : x # Top(t).e => done'[x] = done[x]
        /\ \A x \in Elements : done'[x] => done[x]
        /\ UNCHANGED <<conf, main, engine, control, failed, stopped>>
    BY <1>1, StartDoes
  <2>2. PICK e : e = Top(t).e
    OBVIOUS
  <2>3. /\ MovesOn(t) /\ Top(t)'.at \in {"finish", "run", "await"}
        /\ tasks' = tasks \/ (\E n \in Nat : tasks' = tasks \cup {Async(e, n)})
    BY <2>1, <2>2, RoundDoes
  <2>4. \A x \in Elements : x # Top(t).e \/ Top(t).at # "start" => done'[x] = done[x]
    BY <1>1, <2>1
  <2>5. \A x \in Elements : Exec(x) \in tasks' => Exec(x) \in tasks
    BY <2>3 DEF Exec, Async
  <2> QED BY <2>1, <2>3, <2>4, <2>5 DEF Works
<1>2. CASE RunUser(t)
  BY <1>2, RunUserDoes DEF Works
<1>3. CASE RunFence(t)
  BY <1>3, RunFenceDoes DEF Works
<1>4. CASE AwaitReady(t) \/ AwaitTimeout(t)
  <2>1. PICK e : e = Top(t).e
    OBVIOUS
  <2> QED BY <1>4, <2>1, AwaitDoes DEF Works
<1>5. CASE CheckYield(t)
  <2>1. PICK e : e = Top(t).e
    OBVIOUS
  <2> QED BY <1>5, <2>1, CheckYieldDoes DEF Works
<1>6. CASE Doze(t) \/ SpuriousWakeup(t)
  BY <1>6, DozeDoes DEF Works, Stirs
<1>7. CASE HoldAsync(t)
  <2>1. PICK e : e = Top(t).e
    OBVIOUS
  <2>2. /\ MovesOn(t) /\ Top(t).at = "check" /\ Top(t)'.at = "await"
        /\ UNCHANGED <<conf, main, done, engine, control, failed, stopped>>
    BY <1>7, <2>1, HoldAsyncDoes
  <2>3. PICK n \in Nat : tasks' = tasks \cup {Async(e, n)}
    BY <1>7, <2>1, HoldAsyncDoes
  <2>4. \A x \in Elements : Exec(x) \in tasks' => Exec(x) \in tasks
    BY <2>3 DEF Exec, Async
  <2> QED BY <2>2, <2>4 DEF Works
<1> QED BY <1>1, <1>2, <1>3, <1>4, <1>5, <1>6, <1>7, ThreadDoes

LEMMA WorkRuns ==
  ASSUME TypeInv, NEW t \in Threads, Works(t)
  PROVE  /\ Busy(t) /\ Busy(t)' /\ InRun(t) = {Top(t).e} /\ InRun(t)' = {Top(t).e}
<1>1. Busy(t)
  BY DEF Works, MovesOn, Busy, Leaving
<1>2. Busy(t)' /\ Top(t)'.e = Top(t).e
  BY DEF Works, MovesOn, Busy, Leaving
<1> QED BY <1>1, <1>2 DEF InRun

(* A run begins with BeforeRun and ends with the verdict.                  *)
LEMMA RunningStep ==
  ASSUME TypeInv, StackInv, [Next]_vars
  PROVE  \/ Running /\ Running'
         \/ Running /\ ~Running' /\ MainVerdict
         \/ ~Running /\ Running' /\ MainBefore
         \/ ~Running /\ ~Running'
<1>1. CASE \E t \in Threads : ThreadStep(t) \/ SpuriousWakeup(t)
  BY <1>1, ThreadKeeps DEF Running
<1>2. CASE MainFronts
  BY <1>2, FrontsDo DEF Running
<1>3. CASE MainSetup \/ MainSetting \/ MainExit \/ MainExiting
  BY <1>3 DEF MainSetup, MainSetting, MainExit, MainExiting, MainPullBegin, MainPull, TypeInv,
     MainType, Running
<1>4. CASE MainBefore \/ MainVerdict
  BY <1>4 DEF MainBefore, MainVerdict, TypeInv, MainType, Running
<1>5. CASE MainInit \/ MainTest \/ MainReset \/ MainReturn \/ MainDestroy \/ MainJoin
  BY <1>5 DEF MainInit, MainTest, MainReset, MainReturn, MainDestroy, MainJoin, TypeInv,
     MainType, Running
<1>6. CASE MainWait \/ MainSpuriousWakeup
  BY <1>6 DEF MainWait, MainSpuriousWakeup, TypeInv, MainType, Running
<1>7. CASE Controller \/ UNCHANGED vars
  BY <1>7 DEF Controller, Pull, Call, vars, Running
<1> QED BY <1>1, <1>2, <1>3, <1>4, <1>5, <1>6, <1>7, NextIs DEF MainStep

(* The steps of a run that are not of a thread.                            *)
LEMMA RunMain ==
  ASSUME TypeInv, Running, MainStep \/ MainSpuriousWakeup \/ Controller \/ UNCHANGED vars
  PROVE  /\ UNCHANGED <<conf, done, engine>>
         /\ \/ MainFronts
            \/ tasks' = tasks /\ (stack' = stack \/ (\E t \in Threads : Stirs(t)))
<1>1. CASE MainFronts
  BY <1>1, FrontsDo
<1>2. CASE MainWait \/ MainSpuriousWakeup \/ MainVerdict \/ Controller \/ UNCHANGED vars
  <2>1. UNCHANGED <<conf, done, engine>>
    BY <1>2 DEF MainWait, MainSpuriousWakeup, MainVerdict, Controller, Pull, Call, vars
  <2> QED BY <1>2, <2>1, MainCalls DEF vars, MainStep
<1>3. ~(\/ MainInit \/ MainTest \/ MainSetup \/ MainSetting \/ MainBefore \/ MainReset \/ MainReturn
        \/ MainDestroy \/ MainExit \/ MainExiting \/ MainJoin)
  BY DEF MainInit, MainTest, MainSetup, MainSetting, MainBefore, MainReset, MainReturn, MainDestroy,
     MainExit, MainExiting, MainJoin, MainPullBegin, MainPull, Running
<1> QED BY <1>1, <1>2, <1>3 DEF MainStep

(* What is done stays done until the run is over.                          *)
LEMMA DoneStays ==
  ASSUME TypeInv, StackInv, Running, RunInv, [Next]_vars, NEW e \in Elements, done[e]
  PROVE  done'[e]
<1>1. CASE \E t \in Threads : ThreadStep(t) \/ SpuriousWakeup(t)
  <2>1. PICK t \in Threads : ThreadStep(t) \/ SpuriousWakeup(t)
    BY <1>1
  <2>2. CASE Take(t)
    BY <2>2 DEF Take
  <2>3. CASE Works(t)
    <3>1. InRun(t) = {Top(t).e}
      BY <2>3, WorkRuns
    <3>2. e = Top(t).e => Top(t).at = "succ"
      BY <3>1, RunDone
    <3> QED BY <2>3, <3>2 DEF Works
  <2>4. CASE Finish(t)
    BY <2>4 DEF Finish, TypeInv, ElementType
  <2>5. CASE CountDown(t) \/ StartReady(t) \/ Leave(t) \/ RunAsync(t)
    BY <2>5 DEF CountDown, StartReady, Leave, RunAsync
  <2> QED BY <2>1, <2>2, <2>3, <2>4, <2>5, WorksOrNot DEF Others
<1>2. CASE MainStep \/ MainSpuriousWakeup \/ Controller \/ UNCHANGED vars
  BY <1>2, RunMain
<1> QED BY <1>1, <1>2, NextIs

(* An element that was started is run on or done.                          *)
LEMMA RunStays ==
  ASSUME TypeInv, StackInv, Running, RunInv, [Next]_vars, NEW t \in Threads, NEW e \in InRun(t)
  PROVE  done'[e] \/ (e \in InRun(t)' /\ (Top(t).at # "start" => Top(t)'.at # "start"))
<1>1. Busy(t) /\ e = Top(t).e /\ stack[t] # <<>> /\ e \in Elements
      /\ (done[e] <=> Top(t).at = "succ")
  BY RunDone DEF InRun, Busy
<1>2. CASE \E u \in Threads : ThreadStep(u) \/ SpuriousWakeup(u)
  <2>1. PICK u \in Threads : ThreadStep(u) \/ SpuriousWakeup(u)
    BY <1>2
  <2>2. UNCHANGED conf
    BY <2>1, ThreadKeeps
  <2>3. CASE u # t
    <3>1. stack'[t] = stack[t]
      <4>1. CASE Take(u)
        BY <2>3, <4>1, TakesTask
      <4>2. CASE Works(u)
        BY <2>3, <4>2 DEF Works, MovesOn
      <4>3. CASE Others(u)
        BY <2>3, <4>3, OthersDo
      <4> QED BY <2>1, <4>1, <4>2, <4>3, WorksOrNot
    <3> QED BY <2>2, <3>1, ContentsElsewhere
  <2>4. CASE u = t /\ Take(t)
    BY <1>1, <2>4, TakesTask
  <2>5. CASE u = t /\ Works(t)
    <3>1. InRun(t)' = {Top(t).e}
      BY <2>5, WorkRuns
    <3> QED BY <1>1, <2>5, <3>1 DEF Works
  <2>6. CASE u = t /\ Finish(t)
    BY <1>1, <2>6 DEF Finish, TypeInv, ElementType
  <2>7. CASE u = t /\ (CountDown(t) \/ StartReady(t) \/ Leave(t))
    BY <1>1, <2>7, DoneStays DEF CountDown, StartReady, Leave, At
  <2>8. CASE u = t /\ RunAsync(t)
    BY <1>1, <2>8 DEF RunAsync, At, Busy
  <2> QED BY <2>1, <2>3, <2>4, <2>5, <2>6, <2>7, <2>8, WorksOrNot DEF Others
<1>3. CASE MainFronts
  <2>1. t # Main /\ stack'[t] = stack[t] /\ conf' = conf
    BY <1>1, <1>3, FrontsDo
  <2> QED BY <2>1, ContentsElsewhere
<1>4. CASE ~MainFronts /\ (MainStep \/ MainSpuriousWakeup \/ Controller \/ UNCHANGED vars)
  <2>1. conf' = conf /\ (stack' = stack \/ (\E u \in Threads : Stirs(u)))
    BY <1>4, RunMain
  <2>2. CASE stack'[t] = stack[t]
    BY <2>1, <2>2, ContentsElsewhere
  <2>3. CASE Stirs(t)
    <3>1. stack'[t] # <<>> /\ Top(t)'.e = e /\ Top(t)'.at \in {"asleep", "check"}
      BY <1>1, <2>3 DEF Stirs, MovesOn
    <3> QED BY <3>1 DEF InRun, Busy, Leaving
  <2>4. stack'[t] = stack[t] \/ Stirs(t)
    BY <2>1 DEF Stirs, MovesOn
  <2> QED BY <2>2, <2>3, <2>4
<1> QED BY <1>2, <1>3, <1>4, NextIs
-----------------------------------------------------------------------------
(* A call is made by an element that has just started, once in a run.      *)
LEMMA MadeAtStart ==
  ASSUME TypeInv, StackInv, PathInv, OnceInv, ~failed, NEW e \in Elements, MakesCall(e),
         conf.holds[e] = 0
  PROVE  /\ Running /\ RunInv /\ ~done[e] /\ main' = main
         /\ \E t \in Threads : /\ e \in InRun(t) /\ Top(t).at = "start"
                               /\ e \in InRun(t)' /\ Top(t)'.at = "await"
<1>1. PICK t \in Threads : /\ Start(t) \/ NextRound(t)
                           /\ Top(t).e = e /\ Top(t)'.at = "await" /\ MovesOn(t)
  BY HoldAsyncDoes DEF MakesCall
<1>2. /\ stack[t] # <<>> /\ main' = main /\ conf' = conf
      /\ Start(t) => Top(t).at = "start"
      /\ NextRound(t) => Top(t).at = "loop"
  BY <1>1, StartDoes
<1>3. Top(t).at = "start"
  BY <1>1, <1>2 DEF MakesCall, PathInv, Path
<1>4. e \in InRun(t) /\ e \in InRun(t)'
  BY <1>1, <1>2, <1>3 DEF InRun, Busy, Leaving, MovesOn
<1>5. Running
  BY <1>4, RestIs DEF OnceInv
<1>6. RunInv
  BY <1>5 DEF OnceInv
<1>7. ~done[e]
  BY <1>3, <1>4, <1>6, RunDone
<1> QED BY <1>1, <1>2, <1>3, <1>4, <1>5, <1>6, <1>7

LEMMA MadeOnce ==
  ASSUME TypeInv, StackInv, PathInv, OnceInv, ~failed, NEW e \in Elements, MakesCall(e),
         conf.holds[e] = 0
  PROVE  ~Launched(e) /\ Launched(e)'
<1>1. Running /\ ~done[e] /\ main' = main
  BY MadeAtStart
<1>2. PICK t \in Threads : /\ e \in InRun(t) /\ Top(t).at = "start"
                           /\ e \in InRun(t)' /\ Top(t)'.at = "await"
  BY MadeAtStart
<1>3. ASSUME NEW u \in Threads, e \in InRun(u) PROVE Top(u).at = "start"
  <2>1. <<"run", t>> \in Containers /\ e \in Contents(<<"run", t>>)
        /\ <<"run", u>> \in Containers /\ e \in Contents(<<"run", u>>)
    BY <1>2, <1>3, ContentsAre
  <2>2. <<"run", t>> = <<"run", u>>
    BY <2>1 DEF OnceInv, Disjoint
  <2> QED BY <1>2, <2>2
<1>4. ~Launched(e)
  BY <1>1, <1>3 DEF Launched, Running, Holding
<1>5. Running' /\ Threads' = Threads
  BY <1>1 DEF Running, Threads
<1> QED BY <1>2, <1>4, <1>5 DEF Launched

LEMMA LaunchedStays ==
  ASSUME TypeInv, StackInv, OnceInv, ~failed, [Next]_vars, NEW e \in Elements,
         CallInv(e), Calling(e), Launched(e), MainVerdict => Holds(e)
  PROVE  Launched(e)'
<1>0. Threads' = Threads
  BY DEF Threads
<1>1. CASE Running
  <2>1. RunInv
    BY <1>1 DEF OnceInv
  <2>2. CASE Running'
    <3>1. CASE done[e]
      <4>1. done'[e]
        BY <1>1, <2>1, <3>1, DoneStays
      <4> QED BY <2>2, <4>1 DEF Launched
    <3>2. CASE \E t \in Threads : e \in InRun(t) /\ Top(t).at # "start"
      <4>1. PICK t \in Threads : e \in InRun(t) /\ Top(t).at # "start"
        BY <3>2
      <4>2. done'[e] \/ (e \in InRun(t)' /\ Top(t)'.at # "start")
        BY <1>1, <2>1, <4>1, RunStays
      <4> QED BY <1>0, <2>2, <4>2 DEF Launched
    <3> QED BY <1>1, <3>1, <3>2 DEF Launched, Running, Holding
  <2>3. CASE MainVerdict
    <3>1. main'.at = "reset" /\ main'.todo = AsyncElements /\ conf' = conf
      BY <2>3 DEF MainVerdict, TypeInv, MainType
    <3>2. Holds(e) /\ e \in AsyncElements
      BY <2>3 DEF Holds, AsyncElements, IsAsync
    <3>3. Holding' /\ Holds(e)' /\ e \in main'.todo
      BY <3>1, <3>2 DEF Holding, Holds
    <3> QED BY <3>3 DEF Launched
  <2> QED BY <1>1, <2>2, <2>3, RunningStep
<1>2. CASE ~Running
  <2>1. Holding /\ Holds(e) /\ e \in main.todo
    BY <1>2 DEF Launched
  <2>2. conf' = conf => (Holds(e)' <=> Holds(e))
    BY DEF Holds
  <2>3. CASE \E t \in Threads : ThreadStep(t) \/ SpuriousWakeup(t)
    <3>1. main' = main /\ conf' = conf
      BY <2>1, <2>3, ThreadKeeps DEF Holding
    <3> QED BY <2>1, <2>2, <3>1 DEF Launched, Holding
  <2>4. CASE Controller \/ UNCHANGED vars
    <3>1. main' = main /\ conf' = conf
      BY <2>4 DEF Controller, Pull, Call, vars
    <3> QED BY <2>1, <2>2, <3>1 DEF Launched, Holding
  <2>5. CASE MainStep \/ MainSpuriousWakeup
    <3>1. MainReset
      BY <2>1, <2>5 DEF MainStep, MainSpuriousWakeup, MainInit, MainTest, MainSetup, MainExit, MainPullBegin,
           MainSetting, MainExiting, MainPull, MainBefore, MainFronts, MainWait, MainVerdict, MainReturn,
           MainDestroy, MainJoin, Holding
    <3> DEFINE x == First(main.todo)
    <3>2. /\ main.at = "reset" /\ (Holds(x) => fut[x].st # "pending") /\ conf' = conf
          /\ main' = [main EXCEPT !.todo = @ \ {x},
               !.at = IF Holds(x) /\ fut[x].st = "crash" THEN "thrown" ELSE @,
               !.reset = @ /\ (Holds(x) => fut[x].st \in {"none", "ok"})]
      BY <3>1 DEF MainReset
    <3>3. x # e
      BY <2>1, <3>2 DEF CallInv
    <3>4. main'.todo = main.todo \ {x} /\ main'.at \in {"reset", "thrown"}
      BY <3>2 DEF TypeInv, MainType
    <3>5. e \in main'.todo /\ Holding'
      BY <2>1, <3>3, <3>4 DEF Holding
    <3> QED BY <2>1, <2>2, <3>2, <3>5 DEF Launched
  <2> QED BY <2>3, <2>4, <2>5, NextIs
<1> QED BY <1>1, <1>2

(* What the calls are watched for does not change, but Cancel or Yield     *)
(* ends it.                                                                *)
LEMMA ConfStays ==
  ASSUME TypeInv, StackInv, [Next]_vars
  PROVE  conf' = conf /\ (stopped => stopped') /\ (failed => failed')
<1>1. CASE \E t \in Threads : ThreadStep(t) \/ SpuriousWakeup(t)
  BY <1>1, ThreadKeeps
<1>2. CASE MainStep \/ MainSpuriousWakeup
  BY <1>2, MainKeeps
<1>3. CASE Pull \/ UNCHANGED vars
  BY <1>3 DEF Pull, vars
<1>4. CASE \E s \in Controls : Call(s)
  <2>1. PICK s \in Controls : Call(s)
    BY <1>4
  <2>2. conf' = conf /\ failed' = failed /\ stopped' = (stopped \/ s # "kNormal")
    BY <2>1 DEF Call
  <2> QED BY <2>2
<1> QED BY <1>1, <1>2, <1>3, <1>4, NextIs DEF Controller

LEMMA WatchStays ==
  ASSUME conf' = conf, stopped => stopped'
  PROVE  /\ Fencing' => Fencing
         /\ \A e : Watched(e)' => Watched(e)
<1>1. FencesInPlace(conf)' <=> FencesInPlace(conf)
  BY DEF FencesInPlace, Closed
<1>2. Fencing' => Fencing
  BY <1>1 DEF Fencing
<1>3. Fenced' = Fenced
  BY DEF Fenced
<1> QED BY <1>2, <1>3 DEF Watched, Holds

(* A good verdict: behind the fences it is quiet.                          *)
LEMMA VerdictQuiet ==
  ASSUME TypeInv, StackInv, OnceInv, FenceInv, ~failed', MainVerdict, NEW e \in Elements,
         Watched(e), Calling(e)
  PROVE  Holds(e)
<1>1. ~failed /\ Running /\ main.at = "verdict"
  BY DEF MainVerdict, Running
<1>2. engine.ok
  BY DEF MainVerdict, RunStatus
<1>3. RunInv
  BY <1>1 DEF OnceInv
<1>4. \A d \in Elements : done[d]
  BY <1>1, <1>2, <1>3, AllDone
<1>5. ASSUME Fencing, NEW d \in Elements PROVE e \notin conf.fence[d]
  BY <1>1, <1>2, <1>4, <1>5 DEF FenceInv, Quiet
<1> QED BY <1>5 DEF Watched, Fenced

LEMMA CallsStep ==
  ASSUME TypeInv, StackInv, PathInv, OnceInv, CallsInv, FenceInv, [Next]_vars
  PROVE  CallsInv'
<1> SUFFICES ASSUME ~failed', NEW e \in Elements, Watched(e)'
             PROVE  CallInv(e)' /\ (Calling(e)' => Launched(e)')
  BY DEF CallsInv
<1>1. ~failed /\ Watched(e) /\ conf.holds[e] = 0
  BY ConfStays, WatchStays DEF Watched
<1>2. CallInv(e) /\ (Calling(e) => Launched(e))
  BY <1>1 DEF CallsInv
<1>3. MakesCall(e) => ~Calling(e) /\ Launched(e)'
  BY <1>1, <1>2, MadeOnce
<1>4. CallInv(e)'
  BY <1>2, <1>3, CallInvStep
<1>5. ASSUME Calling(e) PROVE Launched(e)'
  <2>1. MainVerdict => Holds(e)
    BY <1>1, <1>5, VerdictQuiet
  <2> QED BY <1>1, <1>2, <1>5, <2>1, LaunchedStays
<1>6. Calling(e)' => Calling(e) \/ MakesCall(e)
  BY CallingStep
<1> QED BY <1>3, <1>4, <1>5, <1>6
-----------------------------------------------------------------------------
(* A fence that is in its place comes after what it is for.                *)
LEMMA FencedDone ==
  ASSUME TypeInv, RunInv, FencesInPlace(conf), NEW d \in Elements, Missing(d) = {},
         NEW f \in conf.fence[d]
  PROVE  f \in Elements /\ done[f] /\ conf.holds[f] = 0
<1> DEFINE S == {x \in Elements : done[x]} \cup {d}
<1>1. conf.fence[d] \subseteq Elements /\ conf.fence[d] # {}
  BY GraphIs
<1>2. ASSUME NEW x \in S PROVE conf.depend[x] \subseteq S
  <2>1. x \in Elements /\ Missing(x) = {}
    BY <1>2 DEF RunInv
  <2>2. conf.depend[x] \subseteq Elements
    BY <2>1, GraphIs
  <2>3. \A p \in conf.depend[x] : done[p]
    BY <2>1 DEF Missing, Counted
  <2> QED BY <2>2, <2>3
<1>3. Closed(conf, S) /\ S \in SUBSET Elements /\ d \in S
  BY <1>2 DEF Closed
<1>4. conf.timeout[d] = "sync" /\ conf.holds[f] = 0
  BY <1>1 DEF FencesInPlace
<1>5. \A T \in SUBSET Elements : d \in T /\ Closed(conf, T) => conf.fence[d] \subseteq T
  BY <1>1 DEF FencesInPlace
<1> HIDE DEF S
<1>6. f \in S
  BY <1>3, <1>5
<1>7. conf.timeout[f] # "sync"
  BY <1>1, ConfIs DEF IsConfig, FenceSuitable
<1> QED BY <1>1, <1>4, <1>6, <1>7 DEF S

LEMMA QuietStays ==
  ASSUME TypeInv, StackInv, PathInv, OnceInv, ~failed, Running, FencesInPlace(conf), [Next]_vars,
         NEW d \in Elements, Missing(d) = {}
  PROVE  /\ Quiet(d) => Quiet(d)'
         /\ \A f \in conf.fence[d] : ~Calling(f) => ~Calling(f)'
<1>1. RunInv
  BY DEF OnceInv
<1>2. ASSUME NEW f \in conf.fence[d], ~Calling(f) PROVE ~Calling(f)'
  <2>1. f \in Elements /\ done[f] /\ conf.holds[f] = 0
    BY <1>1, FencedDone
  <2>2. ~MakesCall(f)
    BY <2>1, MadeAtStart
  <2> QED BY <1>2, <2>1, <2>2, CallingStep
<1>3. conf' = conf
  BY ConfStays
<1> QED BY <1>2, <1>3 DEF Quiet

(* Where an element that is now in a thread or in the pool was before.     *)
Comes(s) ==
  \/ \E t \in Threads : s \in InRun(t)
  \/ s \in InTasks
  \/ engine.ok /\ (s \in InFronts \/ \E t \in Threads : s \in InReady(t))

LEMMA Comers ==
  ASSUME TypeInv, StackInv, Running, [Next]_vars
  PROVE  /\ \A t \in Threads : \A s \in InRun(t)' : Comes(s)
         /\ \A s \in InTasks' : Comes(s)
<1>0. conf' = conf
  BY ConfStays
<1>1. CASE \E t \in Threads : ThreadStep(t) \/ SpuriousWakeup(t)
  <2>1. PICK t \in Threads : ThreadStep(t) \/ SpuriousWakeup(t)
    BY <1>1
  <2>2. SUFFICES /\ \A u \in Threads : u # t => stack'[u] = stack[u]
                 /\ \A s \in InRun(t)' : Comes(s)
                 /\ \A s \in InTasks' : Comes(s)
    <3>1. ASSUME NEW u \in Threads, u # t, stack'[u] = stack[u] PROVE \A s \in InRun(u)' : Comes(s)
      <4>1. InRun(u)' = InRun(u)
        BY <1>0, <3>1, ContentsElsewhere
      <4> QED BY <4>1 DEF Comes
    <3> QED BY <3>1
  <2>3. CASE Take(t)
    <3>1. PICK k \in tasks :
            /\ tasks' = tasks \ {k}
            /\ \/ \E x \in Elements : k = Exec(x) /\ Top(t)' = Frame(x, "start")
               \/ \E x \in Elements, n \in Nat : /\ k = Async(x, n) /\ Top(t)'.at = "async"
                                                 /\ Top(t)'.e = x /\ Top(t)'.i = n
      BY <2>3, TakesTask
    <3>2. \A u \in Threads : u # t => stack'[u] = stack[u]
      BY <2>3, TakesTask
    <3>3. InTasks' \subseteq InTasks
      BY <3>1 DEF InTasks
    <3>4. CASE \E x \in Elements : k = Exec(x) /\ Top(t)' = Frame(x, "start")
      <4>1. PICK x \in Elements : k = Exec(x) /\ Top(t)' = Frame(x, "start")
        BY <3>4
      <4>2. Top(t)'.e = x
        BY <4>1 DEF Frame
      <4>3. x \in InTasks /\ InRun(t)' \subseteq {x}
        BY <4>1, <4>2 DEF InTasks, InRun
      <4> QED BY <3>2, <3>3, <4>3 DEF Comes
    <3>5. CASE Top(t)'.at = "async"
      <4>1. InRun(t)' = {}
        BY <3>5 DEF InRun, Busy
      <4> QED BY <3>2, <3>3, <4>1 DEF Comes
    <3> QED BY <3>1, <3>4, <3>5
  <2>4. CASE Works(t)
    <3>1. InRun(t)' = InRun(t)
      BY <2>4, WorkRuns
    <3>2. InTasks' \subseteq InTasks
      BY <2>4 DEF Works, InTasks
    <3> QED BY <2>4, <3>1, <3>2 DEF Comes, Works, MovesOn
  <2>5. CASE Others(t)
    <3>1. /\ \A u \in Threads : u # t => stack'[u] = stack[u]
          /\ stack'[t] # <<>> =>
               \/ Top(t)'.at = "succ" /\ (Busy(t)' => Top(t)'.e = Top(t).e /\ Busy(t))
               \/ \E s \in InReady(t) : Top(t)' = Frame(s, "start") /\ engine.ok
          /\ \/ tasks' = tasks
             \/ \E s \in InReady(t) : tasks' = tasks \cup {Exec(s)} /\ engine.ok
      BY <2>5, OthersDo
    <3>2. ASSUME NEW s \in InTasks' PROVE Comes(s)
      <4>1. s \in Elements /\ Exec(s) \in tasks'
        BY <3>2 DEF InTasks
      <4>2. CASE Exec(s) \in tasks
        BY <4>1, <4>2 DEF InTasks, Comes
      <4>3. CASE Exec(s) \notin tasks
        <5>1. PICK x \in InReady(t) : tasks' = tasks \cup {Exec(x)} /\ engine.ok
          BY <3>1, <4>1, <4>3
        <5>2. x \in Elements
          BY ContentsType
        <5>3. s = x
          BY <4>1, <4>3, <5>1, <5>2, ExecsDiffer
        <5> QED BY <5>1, <5>3 DEF Comes
      <4> QED BY <4>2, <4>3
    <3>3. ASSUME NEW s \in InRun(t)' PROVE Comes(s)
      <4>1. Busy(t)' /\ s = Top(t)'.e /\ stack'[t] # <<>>
        BY <3>3 DEF InRun, Busy
      <4>2. CASE Top(t)'.e = Top(t).e /\ Busy(t)
        BY <4>1, <4>2 DEF InRun, Comes
      <4>3. CASE \E x \in InReady(t) : Top(t)' = Frame(x, "start") /\ engine.ok
        BY <4>1, <4>3 DEF Frame, Comes
      <4> QED BY <3>1, <4>1, <4>2, <4>3
    <3> QED BY <3>1, <3>2, <3>3
  <2> QED BY <2>1, <2>3, <2>4, <2>5, WorksOrNot
<1>2. CASE MainFronts
  <2>1. /\ \A u \in Threads : u # Main => stack'[u] = stack[u]
        /\ stack'[Main] # <<>> => \E s \in InFronts : Top(Main)' = Frame(s, "start") /\ engine.ok
        /\ \/ tasks' = tasks
           \/ \E s \in InFronts : tasks' = tasks \cup {Exec(s)} /\ engine.ok
    BY <1>2, FrontsDo
  <2>2. ASSUME NEW s \in InTasks' PROVE Comes(s)
    <3>1. s \in Elements /\ Exec(s) \in tasks'
      BY <2>2 DEF InTasks
    <3>2. CASE Exec(s) \in tasks
      BY <3>1, <3>2 DEF InTasks, Comes
    <3>3. CASE Exec(s) \notin tasks
      <4>1. PICK x \in InFronts : tasks' = tasks \cup {Exec(x)} /\ engine.ok
        BY <2>1, <3>1, <3>3
      <4>2. x \in Elements
        BY ContentsType, ContentsAre
      <4>3. s = x
        BY <3>1, <3>3, <4>1, <4>2, ExecsDiffer
      <4> QED BY <4>1, <4>3 DEF Comes
    <3> QED BY <3>2, <3>3
  <2>3. ASSUME NEW t \in Threads, NEW s \in InRun(t)' PROVE Comes(s)
    <3>1. CASE t = Main
      <4>1. s = Top(Main)'.e /\ stack'[Main] # <<>>
        BY <2>3, <3>1 DEF InRun, Busy
      <4> QED BY <2>1, <4>1 DEF Frame, Comes
    <3>2. CASE t # Main
      <4>1. InRun(t)' = InRun(t)
        BY <1>0, <2>1, <3>2, ContentsElsewhere
      <4> QED BY <2>3, <4>1 DEF Comes
    <3> QED BY <3>1, <3>2
  <2> QED BY <2>2, <2>3
<1>3. CASE ~MainFronts /\ (MainStep \/ MainSpuriousWakeup \/ Controller \/ UNCHANGED vars)
  <2>1. tasks' = tasks /\ (stack' = stack \/ (\E u \in Threads : Stirs(u)))
    BY <1>3, RunMain
  <2>2. InTasks' = InTasks
    BY <2>1 DEF InTasks
  <2>3. ASSUME NEW t \in Threads PROVE InRun(t)' \subseteq InRun(t)
    <3>1. CASE stack'[t] = stack[t]
      BY <1>0, <3>1, ContentsElsewhere
    <3>2. CASE Stirs(t)
      BY <3>2 DEF Stirs, MovesOn, InRun, Busy, Leaving
    <3>3. stack'[t] = stack[t] \/ Stirs(t)
      BY <2>1 DEF Stirs, MovesOn
    <3> QED BY <3>1, <3>2, <3>3
  <2> QED BY <2>2, <2>3 DEF Comes
<1> QED BY <1>1, <1>2, <1>3, NextIs

(* What a fence gets in a step was there, or was no longer pending.        *)
LEMMA GotOf ==
  ASSUME conf' = conf, NEW t \in Threads, MovesOn(t)
  PROVE  /\ Got(Top(t))' \subseteq conf.fence[Top(t).e]
         /\ Top(t).at \in {"check", "doze", "asleep", "loop"} =>
              Got(Top(t)) = conf.fence[Top(t).e]
         /\ Top(t)'.at \in {"start", "async", "await", "succ"} => Got(Top(t))' = {}
BY DEF Got, MovesOn

LEMMA RoundGot ==
  ASSUME TypeInv, PathInv, StateInv, Running, Fencing, NEW t \in Threads, Start(t) \/ NextRound(t)
  PROVE  Got(Top(t))' \subseteq Got(Top(t))
<1>1. /\ stack[t] # <<>> /\ Top(t).at \in {"start", "loop"} /\ Round(t, Top(t)) /\ conf' = conf
  BY StartDoes
<1>2. PICK e : e = Top(t).e
  OBVIOUS
<1>3. /\ MovesOn(t)
      /\ \/ /\ Top(t)'.at = "finish"
            /\ Top(t).i >= conf.loop[e] \/ cur[e] # "kNormal" \/ e \in conf.hidden
         \/ Top(t)'.at = "run" /\ Top(t)'.todo = conf.fence[e]
         \/ Top(t)'.at = "await"
  BY <1>1, <1>2, RoundDoes
<1>4. e \in Elements
  BY <1>2, <1>3 DEF MovesOn
<1>5. CASE Top(t).at = "loop" \/ Top(t)'.at = "await" \/ conf.fence[e] = {}
  BY <1>1, <1>2, <1>3, <1>5, GotOf
<1>6. CASE Top(t)'.at = "run" /\ Top(t)'.todo = conf.fence[e]
  <2>1. Top(t)'.e = e
    BY <1>2, <1>3 DEF MovesOn
  <2>2. Got(Top(t))' = {}
    BY <1>1, <1>6, <2>1 DEF Got
  <2> QED BY <2>2
<1>7. CASE /\ Top(t).at = "start" /\ conf.fence[e] # {}
           /\ Top(t).i >= conf.loop[e] \/ cur[e] # "kNormal" \/ e \in conf.hidden
  <2>1. e \notin conf.hidden /\ conf.timeout[e] = "sync" /\ conf.loop[e] >= 1
    BY <1>4, <1>7 DEF Fencing, FencesInPlace
  <2>2. Top(t).i = 0
    BY <1>1, <1>7 DEF PathInv, Path
  <2>3. cur[e] = "kNormal"
    BY <1>4, <2>1 DEF Fencing, StateInv, Prepared, Running, IsAsync
  <2>4. ~(0 >= conf.loop[e])
    <3>1. conf.loop[e] \in Nat
      BY <1>4, ConfIs DEF IsConfig
    <3> QED BY <2>1, <3>1
  <2> QED BY <1>7, <2>1, <2>2, <2>3, <2>4
<1> QED BY <1>1, <1>3, <1>5, <1>6, <1>7

LEMMA GotGrows ==
  ASSUME TypeInv, StackInv, PathInv, StateInv, Running, Fencing, [Next]_vars, NEW t \in Threads,
         stack'[t] # <<>>
  PROVE  \A f \in Got(Top(t))' : \/ stack[t] # <<>> /\ f \in Got(Top(t))
                                 \/ /\ stack[t] # <<>> /\ Top(t).at = "run"
                                    /\ f \in conf.fence[Top(t).e] /\ fut[f].st # "pending"
<1>0. conf' = conf
  BY ConfStays
<1>1. CASE stack'[t] = stack[t]
  <2>1. Got(Top(t))' = Got(Top(t))
    BY <1>0, <1>1 DEF Got, Top
  <2> QED BY <1>1, <2>1
<1>2. CASE ThreadStep(t) \/ SpuriousWakeup(t)
  <2>1. CASE Take(t)
    <3>1. Top(t)'.at \in {"start", "async"}
      BY <2>1, TakesTask DEF Frame
    <3> QED BY <3>1 DEF Got
  <2>2. CASE Start(t) \/ NextRound(t)
    <3>1. stack[t] # <<>> /\ Got(Top(t))' \subseteq Got(Top(t))
      BY <2>2, RoundGot, StartDoes
    <3> QED BY <3>1
  <2>3. CASE RunUser(t)
    <3>1. MovesOn(t) /\ Top(t).at = "run" /\ Top(t).todo = {}
      BY <2>3, RunUserDoes
    <3>2. Got(Top(t)) = conf.fence[Top(t).e]
      BY <3>1 DEF Got
    <3> QED BY <1>0, <3>1, <3>2, GotOf DEF MovesOn
  <2>4. CASE RunFence(t)
    <3>1. /\ MovesOn(t) /\ Top(t).at = "run"
          /\ Top(t)'.at = "run" \/ (Top(t)'.at = "finish" /\ ~Top(t)'.ok)
      BY <2>4, RunFenceDoes
    <3>2. PICK x \in Top(t).todo : Top(t)'.todo = Top(t).todo \ {x} /\ fut[x].st # "pending"
      BY <2>4, RunFenceDoes
    <3>3. CASE Top(t)'.at = "run"
      <4>1. Got(Top(t))' = conf.fence[Top(t).e] \ (Top(t).todo \ {x})
        BY <1>0, <3>1, <3>2, <3>3 DEF Got, MovesOn
      <4>2. Got(Top(t)) = conf.fence[Top(t).e] \ Top(t).todo
        BY <3>1 DEF Got
      <4> QED BY <3>1, <3>2, <4>1, <4>2 DEF MovesOn
    <3>4. CASE Top(t)'.at = "finish" /\ ~Top(t)'.ok
      BY <3>4 DEF Got
    <3> QED BY <3>1, <3>3, <3>4
  <2>5. CASE AwaitReady(t) \/ AwaitTimeout(t)
    <3>1. PICK e : e = Top(t).e
      OBVIOUS
    <3>2. MovesOn(t) /\ Top(t).at = "await"
      BY <2>5, <3>1, AwaitDoes
    <3>3. IsAsync(e) /\ e \in Elements
      BY <3>1, <3>2 DEF PathInv, Path, MovesOn
    <3>4. conf.fence[e] = {}
      BY <3>3 DEF Fencing, FencesInPlace, IsAsync
    <3>5. Got(Top(t))' \subseteq conf.fence[e]
      BY <1>0, <3>1, <3>2, GotOf
    <3> QED BY <3>4, <3>5
  <2>6. CASE CheckYield(t)
    <3>1. PICK e : e = Top(t).e
      OBVIOUS
    <3>2. MovesOn(t) /\ Top(t).at = "check"
      BY <2>6, <3>1, CheckYieldDoes
    <3> QED BY <1>0, <3>2, GotOf DEF MovesOn
  <2>7. CASE Doze(t) \/ SpuriousWakeup(t)
    <3>1. MovesOn(t) /\ Top(t).at \in {"doze", "asleep"}
      BY <2>7, DozeDoes DEF Stirs
    <3> QED BY <1>0, <3>1, GotOf DEF MovesOn
  <2>8. CASE Others(t)
    <3>1. Top(t)'.at \in {"succ", "start"}
      <4>1. \/ Top(t)'.at = "succ"
            \/ \E s \in InReady(t) : Top(t)' = Frame(s, "start")
        BY <2>8, OthersDo
      <4> QED BY <4>1 DEF Frame
    <3> QED BY <3>1 DEF Got
  <2>9. CASE HoldAsync(t)
    <3>1. PICK e : e = Top(t).e
      OBVIOUS
    <3>2. MovesOn(t) /\ IsAsync(e) /\ e \in Elements
      BY <2>9, <3>1, HoldAsyncDoes
    <3>3. conf.fence[e] = {}
      BY <3>2 DEF Fencing, FencesInPlace, IsAsync
    <3>4. Got(Top(t))' \subseteq conf.fence[e]
      BY <1>0, <3>1, <3>2, GotOf
    <3> QED BY <3>3, <3>4
  <2> QED BY <1>2, <2>1, <2>2, <2>3, <2>4, <2>5, <2>6, <2>7, <2>8, <2>9, ThreadDoes
<1>3. CASE \E u \in Threads : u # t /\ (ThreadStep(u) \/ SpuriousWakeup(u))
  <2>1. PICK u \in Threads : u # t /\ (ThreadStep(u) \/ SpuriousWakeup(u))
    BY <1>3
  <2>2. stack'[t] = stack[t]
    <3>1. CASE Take(u)
      BY <2>1, <3>1, TakesTask
    <3>2. CASE Works(u)
      BY <2>1, <3>2 DEF Works, MovesOn
    <3>3. CASE Others(u)
      BY <2>1, <3>3, OthersDo
    <3> QED BY <2>1, <3>1, <3>2, <3>3, WorksOrNot
  <2> QED BY <1>1, <2>2
<1>4. CASE MainFronts
  <2>1. CASE t = Main
    <3>1. Top(t)'.at = "start"
      BY <1>4, <2>1, FrontsDo DEF Frame
    <3> QED BY <3>1 DEF Got
  <2>2. CASE t # Main
    BY <1>1, <1>4, <2>2, FrontsDo
  <2> QED BY <2>1, <2>2
<1>5. CASE ~MainFronts /\ (MainStep \/ MainSpuriousWakeup \/ Controller \/ UNCHANGED vars)
  <2>1. stack' = stack \/ (\E u \in Threads : Stirs(u))
    BY <1>5, RunMain
  <2>2. stack'[t] = stack[t] \/ Stirs(t)
    BY <2>1 DEF Stirs, MovesOn
  <2>3. CASE Stirs(t)
    BY <1>0, <2>3, GotOf DEF Stirs, MovesOn
  <2> QED BY <1>1, <2>2, <2>3
<1> QED BY <1>2, <1>3, <1>4, <1>5, NextIs

(* An element gets done when its run finishes, and an error stays.         *)
LEMMA DoneBy ==
  ASSUME TypeInv, StackInv, Running, [Next]_vars
  PROVE  /\ engine'.ok => engine.ok
         /\ \A d \in Elements : done'[d] /\ ~done[d] =>
              \E t \in Threads : /\ stack[t] # <<>> /\ Top(t).at = "finish" /\ Top(t).e = d
                                 /\ (engine'.ok => Top(t).ok)
<1>1. CASE \E t \in Threads : ThreadStep(t) \/ SpuriousWakeup(t)
  <2>1. PICK t \in Threads : ThreadStep(t) \/ SpuriousWakeup(t)
    BY <1>1
  <2>2. CASE Take(t)
    BY <2>2 DEF Take
  <2>3. CASE Works(t)
    BY <2>3 DEF Works
  <2>4. CASE Finish(t)
    <3>1. stack[t] # <<>> /\ Top(t).at = "finish" /\ done' = [done EXCEPT ![Top(t).e] = TRUE]
          /\ engine' = [engine EXCEPT !.ok = @ /\ Top(t).ok, !.runs = @ + 1]
      BY <2>4 DEF Finish, At
    <3>2. engine'.ok = (engine.ok /\ Top(t).ok)
      BY <3>1 DEF TypeInv, EngineType
    <3>3. \A d \in Elements : d # Top(t).e => done'[d] = done[d]
      BY <3>1 DEF TypeInv, ElementType
    <3> QED BY <3>1, <3>2, <3>3
  <2>5. CASE CountDown(t) \/ StartReady(t) \/ RunAsync(t)
    BY <2>5 DEF CountDown, StartReady, RunAsync
  <2>6. CASE Leave(t)
    <3>1. engine'.ok = engine.ok /\ done' = done
      BY <2>6, LeaveDoes DEF TypeInv, EngineType
    <3> QED BY <3>1
  <2> QED BY <2>1, <2>2, <2>3, <2>4, <2>5, <2>6, WorksOrNot DEF Others
<1>2. CASE MainStep \/ MainSpuriousWakeup \/ Controller \/ UNCHANGED vars
  BY <1>2, RunMain
<1> QED BY <1>1, <1>2, NextIs

LEMMA ComesQuiet ==
  ASSUME TypeInv, RunInv, FenceInv, ~failed, Fencing, Running, NEW s, Comes(s)
  PROVE  \A d \in conf.depend[s] : d \in Elements /\ Missing(d) = {} /\ Quiet(d)
<1>1. s \in Elements /\ Missing(s) = {}
  BY RunDone, GraphIs DEF Comes
<1>2. conf.depend[s] \subseteq Elements /\ \A d \in conf.depend[s] : done[d]
  BY <1>1, GraphIs DEF Missing, Counted
<1>3. \A d \in conf.depend[s] : Missing(d) = {}
  BY <1>2 DEF RunInv
<1>4. \A d \in conf.depend[s] : Quiet(d)
  <2>1. CASE engine.ok
    BY <1>2, <2>1 DEF FenceInv
  <2>2. CASE s \in InTasks \/ \E t \in Threads : s \in InRun(t)
    BY <2>2 DEF FenceInv
  <2> QED BY <2>1, <2>2 DEF Comes
<1> QED BY <1>2, <1>3, <1>4

LEMMA FenceStep ==
  ASSUME TypeInv, StackInv, PathInv, StateInv, OnceInv, CallsInv, FenceInv, [Next]_vars
  PROVE  FenceInv'
<1> SUFFICES ASSUME ~failed', Fencing', Running'
             PROVE  /\ \A d \in Elements : engine'.ok /\ done'[d] => Quiet(d)'
                    /\ \A t \in Threads : \A s \in InRun(t)' : \A d \in conf'.depend[s] : Quiet(d)'
                    /\ \A s \in InTasks' : \A d \in conf'.depend[s] : Quiet(d)'
                    /\ \A t \in Threads : Busy(t)' => \A f \in Got(Top(t))' : ~Calling(f)'
  <2>1. Threads' = Threads
    BY DEF Threads
  <2> QED BY <2>1 DEF FenceInv
<1>1. ~failed /\ Fencing /\ conf' = conf
  BY ConfStays, WatchStays
<1>2. FencesInPlace(conf)
  BY <1>1 DEF Fencing
<1>3. CASE ~Running
  <2>1. MainBefore
    BY <1>3, RunningStep
  <2>2. stack' = stack /\ tasks' = tasks /\ done' = [e \in Elements |-> FALSE]
    BY <2>1 DEF MainBefore
  <2>3. \A t \in Threads : InRun(t)' = {} /\ InTasks = {}
    <3>1. RestInv
      BY <1>1, <1>3 DEF OnceInv
    <3> QED BY <1>1, <2>2, <3>1, RestIs, ContentsElsewhere
  <2>4. InTasks' = {}
    BY <2>2, <2>3, GraphIs DEF InTasks
  <2>5. \A t \in Threads : ~Busy(t)'
    BY <2>3 DEF InRun
  <2> QED BY <2>2, <2>3, <2>4, <2>5
<1>4. CASE Running
  <2>0. RunInv
    BY <1>1, <1>4 DEF OnceInv
  <2>1. ASSUME NEW d \in Elements, Missing(d) = {}
        PROVE  /\ Quiet(d) => Quiet(d)'
               /\ \A f \in conf.fence[d] : ~Calling(f) => ~Calling(f)'
    BY <1>1, <1>2, <1>4, <2>1, QuietStays
  <2>2. ASSUME NEW d \in Elements, engine'.ok, done'[d] PROVE Quiet(d)'
    <3>1. CASE done[d]
      <4>1. Missing(d) = {}
        BY <2>0, <3>1 DEF RunInv
      <4>2. Quiet(d)
        BY <1>1, <1>4, <2>2, <3>1, DoneBy DEF FenceInv
      <4> QED BY <2>1, <4>1, <4>2
    <3>2. CASE ~done[d]
      <4>1. PICK t \in Threads : /\ stack[t] # <<>> /\ Top(t).at = "finish" /\ Top(t).e = d
                                 /\ Top(t).ok
        BY <1>4, <2>2, <3>2, DoneBy
      <4>2. Busy(t) /\ d \in InRun(t)
        BY <4>1 DEF Busy, InRun, Leaving
      <4>3. Missing(d) = {}
        BY <2>0, <4>2, RunDone
      <4>4. Got(Top(t)) = conf.fence[d]
        BY <4>1 DEF Got
      <4>5. Quiet(d)
        BY <1>1, <1>4, <4>2, <4>4 DEF FenceInv, Quiet
      <4> QED BY <2>1, <4>3, <4>5
    <3> QED BY <3>1, <3>2
  <2>3. ASSUME NEW s, Comes(s) PROVE \A d \in conf.depend[s] : Quiet(d)'
    <3>1. \A d \in conf.depend[s] : d \in Elements /\ Missing(d) = {} /\ Quiet(d)
      BY <1>1, <1>4, <2>0, <2>3, ComesQuiet
    <3> QED BY <2>1, <3>1
  <2>4. ASSUME NEW t \in Threads, Busy(t)', NEW f \in Got(Top(t))' PROVE ~Calling(f)'
    <3>1. stack'[t] # <<>>
      BY <2>4 DEF Busy
    <3>2. \/ stack[t] # <<>> /\ f \in Got(Top(t))
          \/ /\ stack[t] # <<>> /\ Top(t).at = "run"
             /\ f \in conf.fence[Top(t).e] /\ fut[f].st # "pending"
      BY <1>1, <1>4, <2>4, <3>1, GotGrows
    <3>3. Busy(t) /\ f \in conf.fence[Top(t).e]
      BY <3>2 DEF Busy, Leaving, Got
    <3>4. Top(t).e \in Elements /\ Missing(Top(t).e) = {}
      <4>1. Top(t).e \in InRun(t)
        BY <3>3 DEF InRun
      <4> QED BY <2>0, <4>1, RunDone
    <3>5. ~Calling(f)
      <4>1. CASE f \in Got(Top(t))
        BY <1>1, <1>4, <3>3, <4>1 DEF FenceInv
      <4>2. CASE fut[f].st # "pending"
        <5>1. f \in Elements /\ conf.holds[f] = 0
          BY <1>1, <3>3, <3>4, GraphIs DEF Fencing, FencesInPlace
        <5>3. Watched(f)
          BY <1>1, <3>3, <3>4, <5>1 DEF Watched, Fenced
        <5>2. CallInv(f)
          BY <1>1, <5>1, <5>3 DEF CallsInv
        <5> QED BY <4>2, <5>2 DEF CallInv
      <4> QED BY <3>2, <4>1, <4>2
    <3> QED BY <2>1, <3>3, <3>4, <3>5
  <2> QED BY <1>1, <1>4, <2>2, <2>3, <2>4, Comers
<1> QED BY <1>3, <1>4
-----------------------------------------------------------------------------
(* How often Run was called.                                               *)
LEMMA RanStays ==
  ASSUME TypeInv, PathInv, [Next]_vars, ~MainBefore, NEW e \in Elements, ~IsAsync(e)
  PROVE  ran'[e] = ran[e] \/ \E t \in Threads : RunUser(t) /\ Top(t).e = e
<1>1. CASE \E t \in Threads : RunUser(t)
  <2>1. PICK t \in Threads : RunUser(t)
    BY <1>1
  <2>2. ran' = [ran EXCEPT ![Top(t).e] = @ + 1]
    BY <2>1 DEF RunUser
  <2>3. Top(t).e # e => ran'[e] = ran[e]
    BY <2>2 DEF TypeInv, EngineType
  <2> QED BY <2>1, <2>3
<1>2. CASE \E t \in Threads : RunAsync(t)
  <2>1. PICK t \in Threads : RunAsync(t)
    BY <1>2
  <2>2. ran' = [ran EXCEPT ![Top(t).e] = @ + 1] /\ stack[t] # <<>> /\ Top(t).at = "async"
    BY <2>1 DEF RunAsync, At
  <2>3. Top(t).e # e
    BY <2>2 DEF PathInv, Path
  <2> QED BY <2>2, <2>3 DEF TypeInv, EngineType
<1>3. CASE \E t \in Threads : \/ Take(t) \/ Start(t) \/ NextRound(t) \/ RunFence(t)
                              \/ AwaitReady(t) \/ AwaitTimeout(t) \/ CheckYield(t) \/ Doze(t)
                              \/ HoldAsync(t)
                              \/ Finish(t) \/ CountDown(t) \/ StartReady(t) \/ Leave(t)
                              \/ SpuriousWakeup(t)
  <2>1. ran' = ran
    BY <1>3 DEF Take, Start, NextRound, RunFence, AwaitReady, AwaitTimeout, CheckYield, HoldAsync, Doze, Finish,
       CountDown, StartReady, Leave, SpuriousWakeup
  <2> QED BY <2>1
<1>4. CASE MainStep \/ MainSpuriousWakeup \/ Controller \/ UNCHANGED vars
  <2>1. ran' = ran
    BY <1>4 DEF MainStep, MainSpuriousWakeup, MainInit, MainTest, MainSetup, MainExit, MainPullBegin,
       MainSetting, MainExiting, MainPull, MainFronts, MainWait, MainVerdict, MainReset, MainReturn,
       MainDestroy, MainJoin, Controller, Pull, Call, vars
  <2> QED BY <2>1
<1> QED BY <1>1, <1>2, <1>3, <1>4, NextIs DEF ThreadStep

LEMMA RoundsAre ==
  ASSUME NEW i \in Nat, NEW held \in Nat, NEW h \in Nat
  PROVE  /\ 0 * (h + 1) + 0 = 0 /\ 0 * (h + 1) = 0
         /\ i * (h + 1) + (held + 1) = i * (h + 1) + held + 1
         /\ held = h => i * (h + 1) + held + 1 = (i + 1) * (h + 1) /\ (i + 1) * (h + 1) + 0 = (i + 1) * (h + 1)
         /\ i * (h + 1) \in Nat
OBVIOUS

LEMMA PlainIs ==
  ASSUME TypeInv, NEW e \in Plainly
  PROVE  /\ e \in Elements /\ ~IsAsync(e) /\ e \notin conf.hidden /\ e \notin conf.fails
         /\ conf.loop[e] \in Nat /\ conf.holds[e] \in Nat
         /\ conf.fence[e] # {} => conf.holds[e] = 0
         /\ ~stopped /\ StateInv /\ Prepared => cur[e] = "kNormal"
<1>1. e \in Elements /\ ~IsAsync(e) /\ e \notin conf.hidden /\ e \notin conf.fails
  BY DEF Plainly, AsyncElements
<1>2. conf.loop[e] \in Nat /\ conf.holds[e] \in Nat /\ FenceSuitable(conf)
  BY <1>1, ConfIs DEF IsConfig
<1> QED BY <1>1, <1>2 DEF FenceSuitable, StateInv

LEMMA StartRounds ==
  ASSUME TypeInv, PathInv, StateInv, Running, ~stopped, NEW t \in Threads, Start(t) \/ NextRound(t),
         Top(t).e \in Plainly, RoundInv(Top(t))
  PROVE  RoundInv(Top(t))'
<1>1. PICK e \in Plainly : e = Top(t).e
  OBVIOUS
<1>2. /\ stack[t] # <<>> /\ Top(t).at \in {"start", "loop"} /\ Round(t, Top(t))
      /\ UNCHANGED <<conf, ran>>
  BY StartDoes
<1>3. /\ e \in Elements /\ ~IsAsync(e) /\ e \notin conf.hidden /\ cur[e] = "kNormal"
      /\ conf.loop[e] \in Nat /\ conf.holds[e] \in Nat
  BY PlainIs DEF Running, Prepared
<1>4. /\ MovesOn(t) /\ SameRound(t)
      /\ \/ Top(t)'.at = "finish" /\ Top(t).i >= conf.loop[e]
         \/ Top(t)'.at = "run" /\ Top(t)'.ok /\ ~(Top(t).i >= conf.loop[e])
  BY <1>1, <1>2, <1>3, RoundDoes
<1>5. Top(t).i \in Nat /\ Top(t).held \in Nat
  BY <1>2, TopIs DEF FrameSet
<1>6. PICK h \in Nat : h = conf.holds[e]
  BY <1>3
<1>7. Top(t)'.e = e /\ Top(t)'.i = Top(t).i /\ Top(t)'.held = Top(t).held
  BY <1>1, <1>4 DEF MovesOn, SameRound
<1>8. CASE Top(t).at = "start"
  <2>1. Top(t).i = 0 /\ Top(t).held = 0 /\ ran[e] = 0
    BY <1>1, <1>2, <1>8 DEF PathInv, Path, RoundInv
  <2>2. RunsOf(Top(t))' = 0
    BY <1>2, <1>6, <1>7, <2>1, RoundsAre DEF RunsOf
  <2>3. CASE Top(t)'.at = "finish" /\ 0 >= conf.loop[e]
    <3>1. conf.loop[e] * (conf.holds[e] + 1) = 0
      BY <1>3, <1>6, <2>3, RoundsAre
    <3> QED BY <1>2, <1>7, <2>1, <2>3, <3>1 DEF RoundInv
  <2>4. CASE Top(t)'.at = "run" /\ Top(t)'.ok /\ ~(0 >= conf.loop[e])
    BY <1>2, <1>3, <1>7, <2>1, <2>2, <2>4 DEF RoundInv
  <2> QED BY <1>4, <2>1, <2>3, <2>4
<1>9. CASE Top(t).at = "loop"
  <2>1. /\ ran[e] = RunsOf(Top(t)) /\ Top(t).held = 0
        /\ Top(t).i < conf.loop[e] /\ Top(t).held <= conf.holds[e]
    BY <1>1, <1>9 DEF RoundInv
  <2>2. RunsOf(Top(t))' = RunsOf(Top(t))
    BY <1>1, <1>2, <1>7 DEF RunsOf
  <2>3. Top(t)'.at = "run" /\ Top(t)'.ok
    BY <1>3, <1>4, <1>5, <2>1
  <2> QED BY <1>2, <1>7, <2>1, <2>2, <2>3 DEF RoundInv
<1> QED BY <1>2, <1>8, <1>9

LEMMA StirRounds ==
  ASSUME NEW t \in Threads, Stirs(t), RoundInv(Top(t)), conf' = conf, ran'[Top(t).e] = ran[Top(t).e]
  PROVE  RoundInv(Top(t))'
<1>1. PICK e : e = Top(t).e
  OBVIOUS
<1>2. /\ MovesOn(t) /\ Top(t)'.e = e /\ Top(t)'.i = Top(t).i /\ Top(t)'.held = Top(t).held
      /\ Top(t)'.ok = Top(t).ok
  BY <1>1 DEF Stirs, MovesOn, SameRound, SameHand
<1>3. RunsOf(Top(t))' = RunsOf(Top(t))
  BY <1>1, <1>2 DEF RunsOf
<1> QED BY <1>1, <1>2, <1>3 DEF Stirs, RoundInv

LEMMA InRounds ==
  ASSUME TypeInv, PathInv, StateInv, Running, ~stopped, NEW t \in Threads,
         ThreadStep(t) \/ SpuriousWakeup(t), ~Take(t), ~Others(t),
         Top(t).e \in Plainly, RoundInv(Top(t))
  PROVE  RoundInv(Top(t))'
<1>1. PICK e \in Plainly : e = Top(t).e
  OBVIOUS
<1>2. /\ e \in Elements /\ ~IsAsync(e) /\ e \notin conf.fails
      /\ conf.loop[e] \in Nat /\ conf.holds[e] \in Nat
      /\ conf.fence[e] # {} => conf.holds[e] = 0
  BY PlainIs
<1>3. PICK h \in Nat : h = conf.holds[e]
  BY <1>2
<1>4. CASE Start(t) \/ NextRound(t)
  BY <1>4, StartRounds
<1>5. CASE RunUser(t)
  <2>1. /\ MovesOn(t) /\ SameRound(t) /\ Top(t).at = "run" /\ conf' = conf
        /\ Top(t)'.at = "check" /\ Top(t)'.ok = Top(t).ok
        /\ ran' = [ran EXCEPT ![e] = @ + 1]
    BY <1>1, <1>2, <1>5, RunUserDoes
  <2>2. ran'[e] = ran[e] + 1
    BY <1>2, <2>1 DEF TypeInv, EngineType
  <2>3. Top(t)'.e = e /\ Top(t)'.i = Top(t).i /\ Top(t)'.held = Top(t).held
    BY <1>1, <2>1 DEF MovesOn, SameRound
  <2>4. RunsOf(Top(t))' = RunsOf(Top(t))
    BY <1>1, <2>1, <2>3 DEF RunsOf
  <2> QED BY <1>1, <2>1, <2>2, <2>3, <2>4 DEF RoundInv
<1>6. CASE RunFence(t)
  <2>1. /\ MovesOn(t) /\ SameRound(t) /\ Top(t).at = "run" /\ Top(t).todo # {} /\ stack[t] # <<>>
        /\ Top(t)'.at = "run" \/ (Top(t)'.at = "finish" /\ ~Top(t)'.ok)
        /\ UNCHANGED <<conf, ran>>
    BY <1>6, RunFenceDoes DEF MovesOn
  <2>2. Top(t)'.e = e /\ Top(t)'.i = Top(t).i /\ Top(t)'.held = Top(t).held
    BY <1>1, <2>1 DEF MovesOn, SameRound
  <2>3. RunsOf(Top(t))' = RunsOf(Top(t))
    BY <1>1, <2>1, <2>2 DEF RunsOf
  <2>4. conf.fence[e] # {}
    BY <1>1, <1>2, <2>1 DEF PathInv, Path
  <2> QED BY <1>1, <2>1, <2>2, <2>3, <2>4 DEF RoundInv
<1>7. CASE AwaitReady(t) \/ AwaitTimeout(t)
  <2>1. stack[t] # <<>> /\ Top(t).at = "await"
    BY <1>1, <1>7, AwaitDoes DEF MovesOn
  <2> QED BY <1>1, <1>2, <2>1 DEF PathInv, Path
<1>8. CASE CheckYield(t)
  <2>1. /\ MovesOn(t) /\ SameHand(t) /\ Top(t).at = "check"
        /\ \/ Top(t)'.at = "doze" /\ SameRound(t)
           \/ /\ Top(t)'.at = "run" /\ Top(t).held < conf.holds[e] /\ Top(t)'.i = Top(t).i
              /\ Top(t)'.held = Top(t).held + 1
           \/ /\ Top(t)'.at = IF Top(t).i + 1 < conf.loop[e] THEN "loop" ELSE "finish"
              /\ ~(Top(t).ok /\ Top(t).held < conf.holds[e])
              /\ Top(t)'.i = Top(t).i + 1 /\ Top(t)'.held = 0
        /\ UNCHANGED <<conf, ran>>
    BY <1>1, <1>8, CheckYieldDoes
  <2>2. Top(t)'.e = e /\ Top(t)'.ok = Top(t).ok
    BY <1>1, <2>1 DEF MovesOn, SameHand
  <2>3. Top(t).i \in Nat /\ Top(t).held \in Nat
    BY <2>1, TopIs DEF FrameSet, MovesOn
  <2>4. PICK i \in Nat, held \in Nat : i = Top(t).i /\ held = Top(t).held
    BY <2>3
  <2>5. /\ ran[e] = i * (h + 1) + held + 1
        /\ i < conf.loop[e] /\ held <= h /\ (Top(t).ok \/ conf.fence[e] # {})
    BY <1>1, <1>3, <2>1, <2>4 DEF RoundInv, RunsOf
  <2>6. CASE Top(t)'.at = "doze" /\ SameRound(t)
    <3>1. RunsOf(Top(t))' = RunsOf(Top(t))
      BY <1>1, <2>1, <2>2, <2>6 DEF RunsOf, SameRound
    <3> QED BY <1>1, <2>1, <2>2, <2>6, <3>1 DEF RoundInv, SameRound
  <2>7. CASE Top(t)'.at = "run" /\ held < h /\ Top(t)'.i = i /\ Top(t)'.held = held + 1
    <3>1. RunsOf(Top(t))' = i * (h + 1) + (held + 1)
      BY <1>3, <2>1, <2>2, <2>7 DEF RunsOf
    <3>2. RunsOf(Top(t))' = ran[e]
      BY <2>5, <3>1, RoundsAre
    <3> QED BY <1>3, <2>1, <2>2, <2>5, <2>7, <3>2 DEF RoundInv
  <2>8. CASE /\ Top(t)'.at = IF i + 1 < conf.loop[e] THEN "loop" ELSE "finish"
             /\ ~(Top(t).ok /\ held < h) /\ Top(t)'.i = i + 1 /\ Top(t)'.held = 0
    <3>1. held = h
      BY <1>2, <1>3, <2>5, <2>8
    <3>2. ran[e] = (i + 1) * (h + 1)
      BY <2>5, <3>1, RoundsAre
    <3>3. CASE i + 1 < conf.loop[e]
      <4>1. RunsOf(Top(t))' = (i + 1) * (h + 1) + 0
        BY <1>3, <2>1, <2>2, <2>8 DEF RunsOf
      <4>2. RunsOf(Top(t))' = ran[e]
        BY <3>1, <3>2, <4>1, RoundsAre
      <4> QED BY <1>3, <2>1, <2>2, <2>5, <2>8, <3>3, <4>2 DEF RoundInv
    <3>4. CASE ~(i + 1 < conf.loop[e])
      <4>1. i + 1 = conf.loop[e]
        BY <1>2, <2>5, <3>4
      <4>2. ran[e] = conf.loop[e] * (conf.holds[e] + 1)
        BY <1>3, <3>2, <4>1
      <4> QED BY <2>1, <2>2, <2>8, <3>4, <4>2 DEF RoundInv
    <3> QED BY <3>3, <3>4
  <2> QED BY <1>3, <2>1, <2>4, <2>6, <2>7, <2>8
<1>9. CASE Doze(t) \/ SpuriousWakeup(t)
  <2>1. Stirs(t) /\ UNCHANGED <<conf, ran>>
    BY <1>9, DozeDoes
  <2> QED BY <2>1, StirRounds
<1>10. CASE HoldAsync(t)
  BY <1>1, <1>2, <1>10, HoldAsyncDoes
<1> QED BY <1>4, <1>5, <1>6, <1>7, <1>8, <1>9, <1>10, ThreadDoes

LEMMA NotStarted ==
  ASSUME TypeInv, OnceInv, RanInv, ~failed, ~stopped, Running, NEW e \in Plainly,
         e \in InTasks \cup InFronts \/ \E t \in Threads : e \in InReady(t)
  PROVE  ran[e] = 0 /\ \A u \in Threads : e \notin InRun(u)
<1>1. RunInv /\ Disjoint
  BY DEF OnceInv
<1>2. ~done[e]
  BY <1>1, RunDone, GraphIs
<1>3. PICK c \in Containers : e \in Contents(c) /\ c[1] # "run"
  <2>1. CASE e \in InTasks
    BY <2>1, ContentsAre
  <2>2. CASE e \in InFronts
    BY <2>2, ContentsAre
  <2>3. CASE \E t \in Threads : e \in InReady(t)
    BY <2>3, ContentsAre
  <2> QED BY <2>1, <2>2, <2>3
<1>4. ASSUME NEW u \in Threads, e \in InRun(u) PROVE FALSE
  <2>1. <<"run", u>> \in Containers /\ e \in Contents(<<"run", u>>)
    BY <1>4, ContentsAre
  <2>2. c = <<"run", u>>
    BY <1>1, <1>3, <2>1 DEF Disjoint
  <2> QED BY <1>3, <2>2
<1> QED BY <1>2, <1>4 DEF RanInv

(* Only the thread in which an element runs calls its Run.                 *)
LEMMA RunsIn ==
  ASSUME TypeInv, NEW t \in Threads, RunUser(t)
  PROVE  /\ Top(t).e \in InRun(t) /\ Top(t).at = "run" /\ stack'[t] # stack[t]
         /\ Top(t)'.at # "run"
<1>1. MovesOn(t) /\ Top(t).at = "run" /\ Top(t)'.at \in {"check", "finish"}
  BY RunUserDoes
<1>2. stack'[t] # stack[t]
  BY <1>1 DEF Top
<1> QED BY <1>1, <1>2 DEF InRun, Busy, Leaving, MovesOn

LEMMA OneThread ==
  ASSUME OnceInv, ~failed, NEW t \in Threads, NEW u \in Threads, NEW e \in InRun(t), e \in InRun(u)
  PROVE  t = u
<1>1. <<"run", t>> \in Containers /\ e \in Contents(<<"run", t>>)
      /\ <<"run", u>> \in Containers /\ e \in Contents(<<"run", u>>)
  BY ContentsAre
<1>2. <<"run", t>> = <<"run", u>>
  BY <1>1 DEF OnceInv, Disjoint
<1> QED BY <1>2

LEMMA SameRan ==
  ASSUME conf' = conf, NEW t \in Threads, stack'[t] = stack[t], RoundInv(Top(t)),
         ran'[Top(t).e] = ran[Top(t).e]
  PROVE  RoundInv(Top(t))'
<1>1. Top(t)' = Top(t)
  BY DEF Top
<1> QED BY <1>1 DEF RoundInv, RunsOf

LEMMA StartRan ==
  ASSUME NEW t \in Threads, NEW e, Top(t)' = Frame(e, "start"), ran'[e] = 0
  PROVE  RoundInv(Top(t))'
<1>1. Top(t)'.at = "start" /\ Top(t)'.e = e
  BY DEF Frame
<1> QED BY <1>1 DEF RoundInv

LEMMA RoundStays ==
  ASSUME TypeInv, StackInv, PathInv, StateInv, OnceInv, RanInv, ~failed, ~stopped, Running,
         [Next]_vars, NEW t \in Threads, NEW e \in Plainly, e \in InRun(t)'
  PROVE  RoundInv(Top(t))'
<1>1. conf' = conf /\ e \in Elements /\ ~IsAsync(e) /\ stack'[t] # <<>> /\ e = Top(t)'.e
  BY ConfStays, PlainIs DEF InRun, Busy
<1>2. ~MainBefore
  BY DEF MainBefore, Running
<1>3. ran'[e] = ran[e] \/ \E u \in Threads : RunUser(u) /\ Top(u).e = e /\ e \in InRun(u)
  BY <1>1, <1>2, RanStays, RunsIn
<1>4. ASSUME e \in InTasks \cup InFronts \/ \E u \in Threads : e \in InReady(u)
      PROVE  ran'[e] = 0
  BY <1>3, <1>4, NotStarted
<1>5. CASE stack'[t] = stack[t]
  <2>1. Top(t)' = Top(t) /\ e \in InRun(t)
    BY <1>1, <1>5, ContentsElsewhere
  <2>2. RoundInv(Top(t)) /\ e = Top(t).e
    BY <1>1, <2>1 DEF RanInv
  <2>3. ran'[e] = ran[e]
    BY <1>3, <1>5, <2>1, OneThread, RunsIn
  <2> QED BY <1>1, <1>5, <2>2, <2>3, SameRan
<1>6. CASE Take(t)
  <2>1. PICK k \in tasks :
          \/ \E x \in Elements : k = Exec(x) /\ Top(t)' = Frame(x, "start")
          \/ Top(t)'.at = "async"
    BY <1>6, TakesTask
  <2>2. Top(t)'.at # "async"
    BY <1>1 DEF InRun, Busy
  <2>3. PICK x \in Elements : k = Exec(x) /\ Top(t)' = Frame(x, "start")
    BY <2>1, <2>2
  <2>4. x = e
    BY <1>1, <2>3 DEF Frame
  <2>5. e \in InTasks
    BY <2>1, <2>3, <2>4 DEF InTasks
  <2> QED BY <1>4, <2>3, <2>4, <2>5, StartRan
<1>7. CASE Works(t) /\ (ThreadStep(t) \/ SpuriousWakeup(t))
  <2>1. e = Top(t).e /\ e \in InRun(t)
    BY <1>7, <1>1, WorkRuns
  <2>2. RoundInv(Top(t))
    BY <2>1 DEF RanInv
  <2>3. ~Take(t) /\ ~Others(t)
    <3>1. stack[t] # <<>> /\ Top(t).at \notin {"finish", "succ", "async"}
      BY <1>7 DEF Works, MovesOn
    <3> QED BY <3>1, TakesTask, OthersDo
  <2> QED BY <1>7, <2>1, <2>2, <2>3, InRounds
<1>8. CASE Others(t)
  <2>1. \/ Top(t)'.at = "succ"
        \/ \E s \in InReady(t) : Top(t)' = Frame(s, "start")
    BY <1>1, <1>8, OthersDo
  <2>2. CASE Top(t)'.at = "succ"
    BY <2>2 DEF RoundInv
  <2>3. CASE \E s \in InReady(t) : Top(t)' = Frame(s, "start")
    <3>1. PICK s \in InReady(t) : Top(t)' = Frame(s, "start")
      BY <2>3
    <3>2. s = e
      BY <1>1, <3>1 DEF Frame
    <3> QED BY <1>4, <3>1, <3>2, StartRan
  <2> QED BY <2>1, <2>2, <2>3
<1>9. CASE \E u \in Threads : u # t /\ (ThreadStep(u) \/ SpuriousWakeup(u))
  <2>1. PICK u \in Threads : u # t /\ (ThreadStep(u) \/ SpuriousWakeup(u))
    BY <1>9
  <2>2. stack'[t] = stack[t]
    <3>1. CASE Take(u)
      BY <2>1, <3>1, TakesTask
    <3>2. CASE Works(u)
      BY <2>1, <3>2 DEF Works, MovesOn
    <3>3. CASE Others(u)
      BY <2>1, <3>3, OthersDo
    <3> QED BY <2>1, <3>1, <3>2, <3>3, WorksOrNot
  <2> QED BY <1>5, <2>2
<1>10. CASE MainFronts
  <2>1. CASE t = Main
    <3>1. PICK s \in InFronts : Top(Main)' = Frame(s, "start")
      BY <1>1, <1>10, <2>1, FrontsDo
    <3>2. s = e
      BY <1>1, <2>1, <3>1 DEF Frame
    <3> QED BY <1>4, <2>1, <3>1, <3>2, StartRan
  <2>2. CASE t # Main
    BY <1>5, <1>10, <2>2, FrontsDo
  <2> QED BY <2>1, <2>2
<1>11. CASE ~MainFronts /\ (MainStep \/ MainSpuriousWakeup \/ Controller \/ UNCHANGED vars)
  <2>1. stack' = stack \/ (\E u \in Threads : Stirs(u))
    BY <1>11, RunMain
  <2>2. stack'[t] = stack[t] \/ Stirs(t)
    BY <2>1 DEF Stirs, MovesOn
  <2>3. CASE Stirs(t)
    <3>1. e = Top(t).e /\ e \in InRun(t) /\ Top(t).at # "run"
      BY <1>1, <2>3 DEF Stirs, MovesOn, InRun, Busy, Leaving
    <3>2. RoundInv(Top(t))
      BY <3>1 DEF RanInv
    <3>3. ran'[e] = ran[e]
      BY <1>3, <3>1, OneThread, RunsIn
    <3> QED BY <1>1, <2>3, <3>1, <3>2, <3>3, StirRounds
  <2> QED BY <1>5, <2>2, <2>3
<1> QED BY <1>6, <1>7, <1>8, <1>9, <1>10, <1>11, NextIs, WorksOrNot

LEMMA ResetFrom ==
  ASSUME TypeInv, StackInv, [Next]_vars, main'.at = "reset"
  PROVE  main.at = "reset" \/ MainVerdict
<1>1. CASE \E t \in Threads : ThreadStep(t) \/ SpuriousWakeup(t)
  BY <1>1, ThreadKeeps
<1>2. CASE MainFronts
  BY <1>2, FrontsDo
<1>3. CASE MainSetup \/ MainSetting \/ MainExit \/ MainExiting
  BY <1>3 DEF MainSetup, MainSetting, MainExit, MainExiting, MainPullBegin, MainPull, TypeInv,
     MainType
<1>4. CASE \/ MainInit \/ MainTest \/ MainBefore \/ MainReturn \/ MainDestroy \/ MainJoin
           \/ MainWait \/ MainSpuriousWakeup
  BY <1>4 DEF MainInit, MainTest, MainBefore, MainReturn, MainDestroy, MainJoin, MainWait,
     MainSpuriousWakeup, TypeInv, MainType
<1>5. CASE MainReset \/ MainVerdict
  BY <1>5 DEF MainReset
<1>6. CASE Controller \/ UNCHANGED vars
  BY <1>6 DEF Controller, Pull, Call, vars
<1> QED BY <1>1, <1>2, <1>3, <1>4, <1>5, <1>6, NextIs DEF MainStep

LEMMA RanStep ==
  ASSUME TypeInv, StackInv, PathInv, StateInv, OnceInv, RanInv, [Next]_vars
  PROVE  RanInv'
<1>1. /\ conf' = conf /\ (~failed' => ~failed) /\ (~stopped' => ~stopped)
      /\ Threads' = Threads /\ Plainly' = Plainly
  <2>1. conf' = conf /\ (~failed' => ~failed) /\ (~stopped' => ~stopped)
    BY ConfStays
  <2> QED BY <2>1 DEF Threads, Plainly, AsyncElements, IsAsync
<1>2. ASSUME NEW e \in Plainly, ~MainBefore
      PROVE  ran'[e] = ran[e] \/ \E u \in Threads : e \in InRun(u) /\ Top(u).at = "run"
  <2>1. e \in Elements /\ ~IsAsync(e)
    BY PlainIs
  <2> QED BY <1>2, <2>1, RanStays, RunsIn
<1>3. ASSUME ~failed', ~stopped', Running'
      PROVE  /\ \A t \in Threads : \A e \in InRun(t)' \cap Plainly : RoundInv(Top(t))'
             /\ \A e \in Plainly : ~done'[e] /\ (\A t \in Threads : e \notin InRun(t)') => ran'[e] = 0
             /\ \A e \in Plainly : engine'.ok /\ done'[e] =>
                                     ran'[e] = conf.loop[e] * (conf.holds[e] + 1)
  <2>1. CASE ~Running
    <3>1. MainBefore
      BY <1>3, <2>1, RunningStep
    <3>2. stack' = stack /\ done' = [e \in Elements |-> FALSE] /\ ran' = [e \in Elements |-> 0]
      BY <3>1 DEF MainBefore
    <3>3. \A t \in Threads : InRun(t)' = {}
      <4>1. RestInv
        BY <1>1, <1>3, <2>1 DEF OnceInv
      <4> QED BY <1>1, <3>2, <4>1, RestIs, ContentsElsewhere
    <3>4. Plainly \subseteq Elements
      BY DEF Plainly
    <3> QED BY <3>2, <3>3, <3>4
  <2>2. CASE Running
    <3>1. RunInv /\ ~failed /\ ~stopped /\ ~MainBefore
      BY <1>1, <1>3, <2>2 DEF OnceInv, MainBefore, Running
    <3>2. \A t \in Threads : \A e \in InRun(t)' \cap Plainly : RoundInv(Top(t))'
      BY <2>2, <3>1, RoundStays
    <3>3. ASSUME NEW e \in Plainly, ~done'[e], \A t \in Threads : e \notin InRun(t)'
          PROVE  ran'[e] = 0
      <4>1. e \in Elements
        BY PlainIs
      <4>2. ~done[e]
        BY <2>2, <3>1, <3>3, <4>1, DoneStays
      <4>3. \A t \in Threads : e \notin InRun(t)
        BY <2>2, <3>1, <3>3, RunStays
      <4>4. ran[e] = 0
        BY <2>2, <3>1, <4>2, <4>3 DEF RanInv
      <4> QED BY <1>2, <3>1, <4>3, <4>4
    <3>4. ASSUME NEW e \in Plainly, engine'.ok, done'[e]
          PROVE  ran'[e] = conf.loop[e] * (conf.holds[e] + 1)
      <4>1. e \in Elements
        BY PlainIs
      <4>2. CASE done[e]
        <5>1. engine.ok
          BY <2>2, <3>4, DoneBy
        <5>2. ran[e] = conf.loop[e] * (conf.holds[e] + 1)
          BY <2>2, <3>1, <4>2, <5>1 DEF RanInv
        <5>3. ran'[e] = ran[e]
          BY <1>2, <3>1, <4>2, RunDone
        <5> QED BY <5>2, <5>3
      <4>3. CASE ~done[e]
        <5>1. PICK t \in Threads : /\ stack[t] # <<>> /\ Top(t).at = "finish" /\ Top(t).e = e
                                   /\ Top(t).ok
          BY <2>2, <3>4, <4>1, <4>3, DoneBy
        <5>2. e \in InRun(t)
          BY <5>1 DEF Busy, InRun, Leaving
        <5>3. RoundInv(Top(t))
          BY <2>2, <3>1, <5>2 DEF RanInv
        <5>4. ran[e] = conf.loop[e] * (conf.holds[e] + 1)
          BY <5>1, <5>3 DEF RoundInv
        <5>5. ran'[e] = ran[e]
          BY <1>2, <3>1, <5>1, <5>2, OneThread
        <5> QED BY <5>4, <5>5
      <4> QED BY <4>2, <4>3
    <3> QED BY <3>2, <3>3, <3>4
  <2> QED BY <2>1, <2>2
<1>4. ASSUME ~failed', ~stopped', main'.at = "reset", NEW e \in Plainly
      PROVE  ran'[e] = conf.loop[e] * (conf.holds[e] + 1)
  <2>1. CASE MainVerdict
    <3>1. main.at = "verdict" /\ Running /\ engine.ok /\ ran' = ran
      BY <1>4, <2>1 DEF MainVerdict, Running, RunStatus
    <3>2. RunInv
      BY <1>1, <1>4, <3>1 DEF OnceInv
    <3>3. done[e]
      BY <3>1, <3>2, AllDone, PlainIs
    <3> QED BY <1>1, <1>4, <3>1, <3>3 DEF RanInv
  <2>2. CASE main.at = "reset"
    <3>1. ~Running /\ ~MainBefore
      BY <2>2 DEF Running, MainBefore
    <3>2. RestInv
      BY <1>1, <1>4, <3>1 DEF OnceInv
    <3>3. ran'[e] = ran[e]
      BY <1>2, <3>1, <3>2, RestIs
    <3> QED BY <1>1, <1>4, <2>2, <3>3 DEF RanInv
  <2> QED BY <1>4, <2>1, <2>2, ResetFrom
<1>5. (~failed /\ ~stopped /\ Running =>
         /\ \A t \in Threads : \A e \in InRun(t) \cap Plainly : RoundInv(Top(t))
         /\ \A e \in Plainly : ~done[e] /\ (\A t \in Threads : e \notin InRun(t)) => ran[e] = 0
         /\ \A e \in Plainly : engine.ok /\ done[e] => ran[e] = conf.loop[e] * (conf.holds[e] + 1))'
  BY <1>1, <1>3
<1>6. (~failed /\ ~stopped /\ main.at = "reset" =>
         \A e \in Plainly : ran[e] = conf.loop[e] * (conf.holds[e] + 1))'
  BY <1>1, <1>4
<1> QED BY <1>5, <1>6 DEF RanInv

LEMMA InitResults == ASSUME Init PROVE CallsInv /\ FenceInv /\ RanInv
<1>1. main.at = "init" /\ stack = [t \in Threads |-> <<>>] /\ tasks = {}
  BY DEF Init
<1>2. FenceInv /\ RanInv
  BY <1>1 DEF FenceInv, RanInv, Running
<1>3. ASSUME NEW e \in Elements PROVE CallTasks(e) = {} /\ CallThreads(e) = {}
  BY <1>1 DEF CallTasks, CallThreads, At
<1>4. CallsInv
  BY <1>3 DEF CallsInv, CallInv, Calling
<1> QED BY <1>2, <1>4

(* Moreover, a call of Run in the pool is the one its future waits for,    *)
(* and is gone before the next run of an element the pipeline is held for; *)
(* behind a fence nothing runs that it is for; and an element has run as   *)
(* often as its loop and its holds have come.                              *)
THEOREM GraphResults == Spec => [](IInv /\ ResultInv)
<1> DEFINE Inv == IInv /\ ResultInv
<1>1. Init => Inv
  BY InitTypes, InitOnce, InitPath, InitState, InitResults DEF IInv, ResultInv
<1>2. Inv /\ [Next]_vars => Inv'
  <2> SUFFICES ASSUME IInv, ResultInv, [Next]_vars PROVE IInv' /\ ResultInv'
    OBVIOUS
  <2>1. TypeInv /\ StackInv /\ OnceInv /\ StateInv /\ PathInv /\ CallsInv /\ FenceInv /\ RanInv
    BY DEF IInv, ResultInv
  <2>2. TypeInv' /\ StackInv' /\ OnceInv'
    BY <2>1, TypeStep, StackStep, OnceStep
  <2>3. StateInv' /\ PathInv'
    BY <2>1, StateStep, PathStep
  <2>4. CallsInv' /\ FenceInv'
    BY <2>1, CallsStep, FenceStep
  <2>5. RanInv'
    BY <2>1, RanStep
  <2> QED BY <2>2, <2>3, <2>4, <2>5 DEF IInv, ResultInv
<1> HIDE DEF Inv
<1>3. Spec => []Inv
  BY <1>1, <1>2, PTL DEF Spec
<1> QED BY <1>3 DEF Inv
-----------------------------------------------------------------------------
(* The properties.                                                         *)
LEMMA RunsAsyncIs ==
  ASSUME TypeInv, StackInv, NEW e, RunsAsync(e)
  PROVE  Calling(e)
<1>1. CASE \E k \in tasks : k.kind = "async" /\ k.e = e
  BY <1>1 DEF Calling, CallTasks
<1>2. CASE \E x \in Frames : F(x).e = e /\ F(x).at = "async"
  <2>1. PICK x \in Frames : F(x).e = e /\ F(x).at = "async"
    BY <1>2
  <2>2. PICK t \in Threads : stack[t] # <<>> /\ F(x) = Top(t)
    BY <2>1, TopFrame DEF Leaving
  <2> QED BY <2>1, <2>2 DEF Calling, CallThreads, At
<1> QED BY <1>1, <1>2 DEF RunsAsync

LEMMA FirstOf == ASSUME IInv, ResultInv, FencesInPlace(conf) PROVE DependenciesFirst
<1> SUFFICES ASSUME ~failed, NEW x \in Frames, F(x).at \in Inside, NEW d \in conf.depend[F(x).e]
             PROVE  done[d] /\ (stopped \/ \A e \in conf.fence[d] : ~RunsAsync(e))
  BY DEF DependenciesFirst
<1>1. TypeInv /\ StackInv /\ OnceInv /\ FenceInv
  BY DEF IInv, ResultInv
<1>2. Running /\ d \in Elements /\ done[d]
  BY <1>1, DependsDone
<1>3. ASSUME ~stopped, NEW e \in conf.fence[d] PROVE ~RunsAsync(e)
  <2>1. PICK t \in Threads : F(x).e \in InRun(t)
    <3>1. F(x).at # "async" /\ ~Leaving(F(x))
      BY DEF Inside, Leaving
    <3> QED BY <1>1, <3>1, FrameIs
  <2>2. Quiet(d)
    BY <1>1, <1>2, <1>3, <2>1 DEF FenceInv, Fencing
  <2> QED BY <1>1, <2>2, RunsAsyncIs DEF Quiet
<1> QED BY <1>2, <1>3

LEMMA QuietOf == ASSUME IInv, ResultInv PROVE QuietAfterRun
<1>1. TypeInv /\ StackInv /\ OnceInv /\ CallsInv
  BY DEF IInv, ResultInv
<1>2. ASSUME Returned, main.verdict # "none", engine.ok, ~failed
      PROVE  /\ AfterRunCheck
             /\ \A e \in Elements : Exec(e) \notin tasks
             /\ \A e \in Elements : ExecsOf(e) = {}
  BY <1>1, <1>2, AllOver
<1>3. ASSUME main.at \in {"test", "setup", "setting", "before", "destroy", "exit"}, ~failed,
             NEW e \in Elements, conf.timeout[e] = "kHoldByPipeline", conf.holds[e] = 0
      PROVE  ~RunsAsync(e)
  <2>1. ~Launched(e)
    BY <1>3 DEF Launched, Running, Holding
  <2>2. Watched(e)
    BY <1>3 DEF Watched, Holds
  <2>3. ~Calling(e)
    BY <1>1, <1>3, <2>1, <2>2 DEF CallsInv
  <2> QED BY <1>1, <2>3, RunsAsyncIs
<1> QED BY <1>2, <1>3 DEF QuietAfterRun

LEMMA RunsOfEach == ASSUME IInv, ResultInv PROVE EveryElementRuns
BY DEF ResultInv, RanInv, EveryElementRuns, Plainly

(* Run of an element begins when all it depends on is done; and if fences  *)
(* come after what they are for and are run themselves, no result such a   *)
(* fence is for is still being computed behind it, unless somebody         *)
(* cancelled or yielded.  Without that hypothesis it is not so: a fence    *)
(* that is hidden, has no round or is before what it is for waits for      *)
(* nothing, and of an element that is held it sees only the last call.     *)
THEOREM GraphDependsFirst ==
  ASSUME \A c \in Configs : FencesInPlace(c)
  PROVE  Spec => []DependenciesFirst
<1>1. IInv => FencesInPlace(conf)
  BY DEF IInv, TypeInv
<1>2. IInv /\ ResultInv => DependenciesFirst
  BY <1>1, FirstOf
<1> QED BY <1>2, GraphResults, PTL

(* When Wait has returned without an error, every element has been run,    *)
(* none is in the pool, and no thread has anything left to do in the       *)
(* engine but to take lock_ on its way out, which may come after Destroy;  *)
(* and what the pipeline is held for, unless it is held itself, has ended  *)
(* before the next run and before Destroy.                                 *)
THEOREM GraphIsQuiet == Spec => []QuietAfterRun
<1>1. IInv /\ ResultInv => QuietAfterRun
  BY QuietOf
<1> QED BY <1>1, GraphResults, PTL

(* A run that ends well has called Run of every element as often as its    *)
(* loop and its holds ask for, whichever threads took its rounds, unless   *)
(* somebody cancelled or yielded.                                          *)
THEOREM GraphRunsAll == Spec => []EveryElementRuns
<1>1. IInv /\ ResultInv => EveryElementRuns
  BY RunsOfEach
<1> QED BY <1>1, GraphResults, PTL
=============================================================================
