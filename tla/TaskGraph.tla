----------------------------- MODULE TaskGraph -----------------------------
(* A TaskGraphPipeline with its elements, their repository and the dynamic *)
(* engine: the thread that calls Process runs the fronts of the graph, the *)
(* threads of the pool run what is committed, every finished element       *)
(* starts the successors it made ready, and a controller cancels, yields   *)
(* or resumes the pipeline meanwhile.  The pool is a set of tasks from     *)
(* which any free thread takes any: what GraphTaskThreadPool.tla shows of  *)
(* the real one.                                                           *)
EXTENDS Integers, Sequences, FiniteSets

CONSTANTS
  Elements,    \* the registered elements
  Workers,     \* the threads a pool may have
  Main,        \* the thread that calls Process
  Configs,     \* what the set-up calls before Init may have established
  Controls,    \* the states a controller may ask for
  DependModulus \* left_depend_ is a size_t: it wraps here

States == {"kCreate", "kNormal", "kCancel", "kYield", "kTimeout"}

(* What an element is set up with: the elements it depends on, how often   *)
(* it loops, how often IsHold asks for another round, its time-out         *)
(* strategy ("sync": none), for a fence the elements whose results it      *)
(* waits for, whether it is bound to a thread, visible, and may fail; the  *)
(* threads of the pool, the argument of Process, and (BOUND) how many      *)
(* calls of a controller arrive.                                           *)
Strategies == {"sync", "kAsError", "kHoldByPipeline", "kNoHold"}

(* CheckSuitable: an element with a time-out does not loop; and a fence    *)
(* waits for elements with a time-out. Its IsHold asks for nothing.        *)
Suitable(c) ==
  \A e \in Elements : c.timeout[e] # "sync" => c.loop[e] <= 1

FenceSuitable(c) ==
  \A e \in Elements : c.fence[e] # {} =>
    c.holds[e] = 0 /\ \A f \in c.fence[e] : c.timeout[f] # "sync"

(* Elements are registered in an order: what they depend on exists.        *)
Registered(c) ==
  \A S \in SUBSET Elements \ {{}} : \E e \in S : c.depend[e] \cap S = {}

(* MakeSerial leaves the pool without threads: a chain of elements that    *)
(* have no time-out.                                                       *)
Serializable(c) ==
  LET after(e) == {s \in Elements : e \in c.depend[s]} IN
  /\ \A e \in Elements :
        /\ Cardinality(c.depend[e]) <= 1 /\ Cardinality(after(e)) <= 1
        /\ c.timeout[e] = "sync"
  /\ Cardinality({e \in Elements : c.depend[e] = {}}) = 1
  /\ Cardinality({e \in Elements : after(e) = {}}) = 1

MakeSerial(c) == c.threads = {} => Serializable(c)

IsConfig(c) ==
  /\ c.depend \in [Elements -> SUBSET Elements]
  /\ c.fence \in [Elements -> SUBSET Elements]
  /\ c.loop \in [Elements -> Nat] /\ c.holds \in [Elements -> Nat]
  /\ c.timeout \in [Elements -> Strategies]
  /\ c.bound \subseteq Elements /\ c.hidden \subseteq Elements
  /\ c.fails \subseteq Elements /\ c.threads \subseteq Workers
  /\ c.runs \in Nat /\ c.calls \in Nat
  /\ Suitable(c) /\ FenceSuitable(c) /\ Registered(c) /\ MakeSerial(c)

ASSUME GraphAssumption ==
  /\ Elements # {} /\ IsFiniteSet(Elements) /\ Main \notin Workers
  /\ \A c \in Configs : IsConfig(c)
  /\ Controls \subseteq {"kCancel", "kYield", "kNormal"}
  /\ DependModulus \in Nat /\ DependModulus > Cardinality(Elements)

VARIABLES
  conf,    \* the configuration
  main,    \* the pipeline thread: at, todo, times left, status, verdict
  stack,   \* per thread, the frames of its calls, the active one first
  tasks,   \* committed to the pool and not yet taken
  cur,     \* cur_state_ of each element
  repo,    \* cur_state_ of the repository
  done, left, triggered,  \* done_, left_depend_, trigger_times_ > 0
  fut,     \* async_result_: the number of the call and how it stands
  engine,  \* alive, finished_end_size_, run_element_size_, cur_status_
  control, \* the controller: state asked for, elements to set, calls so far
  open,    \* the pool's threads take tasks
  ran,     \* history: how often Run of the element was called in this run
  failed,  \* history: an element's error has ended a run
  stopped  \* history: Cancel or Yield has been called

vars == <<conf, main, stack, tasks, cur, repo, done, left, triggered, fut,
          engine, control, open, ran, failed, stopped>>

Threads      == Workers \cup {Main}
RunBefore(e) == {s \in Elements : e \in conf.depend[s]}
Fronts       == {e \in Elements : conf.depend[e] = {}}
Ends         == {e \in Elements : RunBefore(e) = {}}
IsAsync(e)   == conf.timeout[e] # "sync"
First(S)     == CHOOSE e \in S : TRUE \* a std::set of pointers has some order
DependSizes == [e \in Elements |-> Cardinality(conf.depend[e])]
AsyncElements == {e \in Elements : IsAsync(e)}

(* A frame: the element, where it is, the round of the loop, rounds held,  *)
(* the status so far, successors to count down, successors to start.      *)
Frame(e, at) == [e |-> e, at |-> at, i |-> 0, held |-> 0, ok |-> TRUE,
                 todo |-> {}, ready |-> {}]
Exec(e)      == [kind |-> "exec", e |-> e, n |-> 0]
Async(e, n)  == [kind |-> "async", e |-> e, n |-> n]

Top(t)  == Head(stack[t])
At(t, p) == stack[t] # <<>> /\ Top(t).at = p
Goto(t, f) == stack' = [stack EXCEPT ![t] = <<f>> \o Tail(@)]
Move(t, p) == Goto(t, [Top(t) EXCEPT !.at = p])

Init ==
  /\ conf \in Configs
  /\ main = [at |-> "init", todo |-> {}, left |-> conf.runs, ok |-> TRUE,
             reset |-> TRUE, verdict |-> "none"]
  /\ stack = [t \in Threads |-> <<>>] /\ tasks = {}
  /\ cur = [e \in Elements |-> "kCreate"] /\ repo = "kCreate"
  /\ done = [e \in Elements |-> FALSE]
  /\ left = DependSizes
  /\ triggered = [e \in Elements |-> FALSE]
  /\ fut = [e \in Elements |-> [n |-> 0, st |-> "none"]]
  /\ engine = [alive |-> FALSE, finished |-> 0, runs |-> 0, ok |-> TRUE]
  /\ control = [state |-> "kCreate", todo |-> {}, calls |-> 0] /\ open = FALSE
  /\ ran = [e \in Elements |-> 0] /\ failed = FALSE /\ stopped = FALSE
-----------------------------------------------------------------------------
(* The element: FatProcessor, AsyncRun and CheckYield.                     *)

(* A free thread of the pool takes a task. *)
Take(t) ==
  /\ open /\ t \in conf.threads /\ stack[t] = <<>>
  /\ \E k \in tasks :
       /\ tasks' = tasks \ {k}
       /\ stack' = [stack EXCEPT ![t] =
            <<IF k.kind = "exec" THEN Frame(k.e, "start")
              ELSE [Frame(k.e, "async") EXCEPT !.i = k.n]>>]
  /\ UNCHANGED <<conf, main, cur, repo, done, left, triggered, fut, engine,
                 control, open, ran, failed, stopped>>

(* AsyncRun commits Run to the pool; the future of an earlier call is lost.*)
AsyncRun(t, f) ==
  LET n == fut[f.e].n + 1 IN
  /\ Goto(t, [f EXCEPT !.at = "await"])
  /\ fut' = [fut EXCEPT ![f.e] = [n |-> n, st |-> "pending"]]
  /\ tasks' = tasks \cup {Async(f.e, n)}

(* FatProcessor: the first trigger of an element prepares it; then another *)
(* round of its loop, unless its state is not normal.                      *)
Round(t, f) ==
  IF f.i >= conf.loop[f.e] \/ cur[f.e] # "kNormal" \/ f.e \in conf.hidden
  THEN Goto(t, [f EXCEPT !.at = "finish"]) /\ UNCHANGED <<tasks, fut>>
  ELSE IF IsAsync(f.e) THEN AsyncRun(t, f)
  ELSE /\ Goto(t, [f EXCEPT !.at = "run", !.ok = TRUE, !.todo = conf.fence[f.e]])
       /\ UNCHANGED <<tasks, fut>>

PrepareRun(e) ==
  /\ done' = [done EXCEPT ![e] = FALSE]
  /\ left' = [left EXCEPT ![e] = DependSizes[e]]

Start(t) ==
  /\ At(t, "start")
  /\ Round(t, Top(t))
  /\ LET e == Top(t).e IN
     IF e \in conf.hidden \/ triggered[e] THEN UNCHANGED <<done, left, triggered>>
     ELSE PrepareRun(e) /\ triggered' = [triggered EXCEPT ![e] = TRUE]
  /\ UNCHANGED <<conf, main, cur, repo, engine, control, open, ran, failed,
                 stopped>>

NextRound(t) ==
  /\ At(t, "loop") /\ Round(t, Top(t))
  /\ UNCHANGED <<conf, main, cur, repo, done, left, triggered, engine, control,
                 open, ran, failed, stopped>>

Outcomes(e) == IF e \in conf.fails THEN {"ok", "error", "crash"} ELSE {"ok"}

(* Run of the element returns, or throws: then the loop is left at once.   *)
RunUser(t) ==
  /\ At(t, "run") /\ Top(t).todo = {}
  /\ \E o \in Outcomes(Top(t).e) :
       Goto(t, [Top(t) EXCEPT !.at = IF o = "crash" THEN "finish" ELSE "check",
                              !.ok = @ /\ o = "ok"])
  /\ ran' = [ran EXCEPT ![Top(t).e] = @ + 1]
  /\ UNCHANGED <<conf, main, tasks, cur, repo, done, left, triggered, fut,
                 engine, control, open, failed, stopped>>

(* Run of a fence takes the results of other elements, and waits for those *)
(* that timed out and are still running.                                   *)
RunFence(t) ==
  /\ At(t, "run")
  /\ Top(t).todo # {}
  /\ LET e == First(Top(t).todo) IN
     /\ fut[e].st # "pending"
     /\ fut' = [fut EXCEPT ![e].st = "none"]
     /\ Goto(t, [Top(t) EXCEPT !.todo = @ \ {e},
                    !.at = IF fut[e].st = "crash" THEN "finish" ELSE @,
                    !.ok = @ /\ fut[e].st \in {"none", "ok"}])
  /\ UNCHANGED <<conf, main, tasks, cur, repo, done, left, triggered, engine,
                 control, open, ran, failed, stopped>>

(* Run on a thread of the pool, for the element that waits for it; a       *)
(* result whose future was replaced goes nowhere.                          *)
RunAsync(t) ==
  /\ At(t, "async")
  /\ LET f == Top(t) IN
     /\ \E o \in Outcomes(f.e) :
          fut' = IF fut[f.e].n = f.i /\ fut[f.e].st = "pending"
                 THEN [fut EXCEPT ![f.e].st = o] ELSE fut
     /\ ran' = [ran EXCEPT ![f.e] = @ + 1]
     /\ stack' = [stack EXCEPT ![t] = Tail(@)]
  /\ UNCHANGED <<conf, main, tasks, cur, repo, done, left, triggered, engine,
                 control, open, failed, stopped>>

(* AsyncRun waits until the result is there (an exception comes out of     *)
(* get) ...                                                                *)
AwaitReady(t) ==
  /\ At(t, "await")
  /\ LET f == Top(t) IN
     /\ fut[f.e].st \notin {"none", "pending"}
     /\ fut' = [fut EXCEPT ![f.e].st = "none"]
     /\ Goto(t, [f EXCEPT !.at = IF fut[f.e].st = "crash" THEN "finish"
                                 ELSE "check",
                          !.ok = fut[f.e].st = "ok"])
  /\ UNCHANGED <<conf, main, tasks, cur, repo, done, left, triggered, engine,
                 control, open, ran, failed, stopped>>

(* ... or until the time is over; Run goes on meanwhile. *)
AwaitTimeout(t) ==
  /\ At(t, "await")
  /\ LET f == Top(t) IN
     /\ fut[f.e].st = "pending"
     /\ Goto(t, [f EXCEPT !.at = "check",
                          !.ok = conf.timeout[f.e] # "kAsError"])
     /\ cur' = IF conf.timeout[f.e] = "kAsError" THEN cur
               ELSE [cur EXCEPT ![f.e] = "kTimeout"]
  /\ UNCHANGED <<conf, main, tasks, repo, done, left, triggered, fut, engine,
                 control, open, ran, failed, stopped>>

(* CheckYield and the end of a round (mutant: it counts what is held on).  *)
CheckYieldOnce(t) ==
  /\ At(t, "check")
  /\ LET f == Top(t) IN
     IF cur[f.e] = "kYield" THEN Move(t, "doze")
     ELSE IF f.ok /\ f.held < conf.holds[f.e]
     THEN Goto(t, [f EXCEPT !.at = "run", !.held = @ + 1, !.i = @ + 1])
     ELSE Goto(t, [f EXCEPT !.at = "loop", !.i = @ + 1])
  /\ UNCHANGED <<conf, main, tasks, cur, repo, done, left, triggered, fut,
                 engine, control, open, ran, failed, stopped>>

CheckYield(t) ==
  /\ At(t, "check")
  /\ LET f == Top(t) IN
     IF cur[f.e] = "kYield" THEN Move(t, "doze")
     ELSE IF f.ok /\ f.held < conf.holds[f.e]
     THEN ~IsAsync(f.e) /\ Goto(t, [f EXCEPT !.at = "run", !.held = @ + 1])
     ELSE Goto(t, [f EXCEPT !.at = IF f.i + 1 < conf.loop[f.e] THEN "loop"
                                   ELSE "finish",
                            !.held = 0, !.i = @ + 1])
  /\ UNCHANGED <<conf, main, tasks, cur, repo, done, left, triggered, fut,
                 engine, control, open, ran, failed, stopped>>

(* An element that is held runs once more in the same round; one with a    *)
(* time-out does not ask what has become of its call before.               *)
HoldAsync(t) ==
  /\ At(t, "check")
  /\ LET f == Top(t) IN
     /\ cur[f.e] # "kYield" /\ f.ok /\ f.held < conf.holds[f.e] /\ IsAsync(f.e)
     /\ AsyncRun(t, [f EXCEPT !.held = @ + 1])
  /\ UNCHANGED <<conf, main, cur, repo, done, left, triggered, engine, control,
                 open, ran, failed, stopped>>

(* The wait of yield_cv_ begins after its predicate was evaluated; nothing *)
(* keeps PullAllState from notifying in between.                           *)
Doze(t) ==
  /\ At(t, "doze") /\ Move(t, "asleep")
  /\ UNCHANGED <<conf, main, tasks, cur, repo, done, left, triggered, fut,
                 engine, control, open, ran, failed, stopped>>

SpuriousWakeup(t) ==
  /\ At(t, "asleep") /\ Move(t, "check")
  /\ UNCHANGED <<conf, main, tasks, cur, repo, done, left, triggered, fut,
                 engine, control, open, ran, failed, stopped>>
-----------------------------------------------------------------------------
(* The dynamic engine.                                                     *)

(* Process: an element is refused after an error, runs in the caller when  *)
(* it is the last one and not bound, and goes to the pool otherwise. g is  *)
(* the caller's stack.                                                     *)
(* Mutant: the last one runs here, and goes to the pool too when bound. *)
ProcessTwice(t, e, last, g) ==
  /\ stack' = [stack EXCEPT ![t] = IF last THEN <<Frame(e, "start")>> \o g ELSE g]
  /\ tasks' = IF last /\ e \notin conf.bound THEN tasks ELSE tasks \cup {Exec(e)}

Process(t, e, last, g) ==
  IF ~engine.ok THEN stack' = [stack EXCEPT ![t] = g] /\ UNCHANGED tasks
  ELSE IF last /\ e \notin conf.bound
  THEN /\ stack' = [stack EXCEPT ![t] = <<Frame(e, "start")>> \o g]
       /\ UNCHANGED tasks
  ELSE stack' = [stack EXCEPT ![t] = g] /\ tasks' = tasks \cup {Exec(e)}

(* The element is through: its error becomes the engine's, and             *)
(* AfterElementRun counts it.  One step: done_ and run_element_size_ are   *)
(* read after a Wait without an error only, when every element is past it; *)
(* cur_status_ is read at any time, before this step or after it ...       *)
Finish(t) ==
  /\ At(t, "finish")
  /\ engine' = [engine EXCEPT !.ok = @ /\ Top(t).ok, !.runs = @ + 1]
  /\ done' = [done EXCEPT ![Top(t).e] = TRUE]
  /\ Goto(t, [Top(t) EXCEPT !.at = "succ", !.todo = RunBefore(Top(t).e)])
  /\ UNCHANGED <<conf, main, tasks, cur, repo, left, triggered, fut, control,
                 open, ran, failed, stopped>>

(* ... counts its successors down one by one and starts those that reach   *)
(* zero.                                                                   *)
(* Mutant: started by the last predecessor but one. *)
ReadyEarly(n) == n <= 1

IsReady(n) == n = 0

CountDown(t) ==
  /\ At(t, "succ")
  /\ Top(t).todo # {}
  /\ LET s == First(Top(t).todo)
         n == (left[s] + DependModulus - 1) % DependModulus IN
     /\ left' = [left EXCEPT ![s] = n]
     /\ Goto(t, [Top(t) EXCEPT !.todo = @ \ {s},
                    !.ready = IF IsReady(n) THEN @ \cup {s} ELSE @])
  /\ UNCHANGED <<conf, main, tasks, cur, repo, done, triggered, fut, engine,
                 control, open, ran, failed, stopped>>

StartReady(t) ==
  /\ At(t, "succ") /\ Top(t).todo = {}
  /\ Top(t).ready # {}
  /\ LET s == First(Top(t).ready) IN
       Process(t, s, Top(t).ready = {s},
               <<[Top(t) EXCEPT !.ready = @ \ {s}]>> \o Tail(stack[t]))
  /\ UNCHANGED <<conf, main, cur, repo, done, left, triggered, fut, engine,
                 control, open, ran, failed, stopped>>

(* Under lock_: an end is counted; the last one, or an error, wakes Wait   *)
(* (mutant: the last one only).                                            *)
WakesWhenOver(e, n) == e \in Ends /\ n >= Cardinality(Ends)

Wakes(e, n) == (e \in Ends /\ n >= Cardinality(Ends)) \/ ~engine.ok

Leave(t) ==
  /\ At(t, "succ") /\ Top(t).todo = {} /\ Top(t).ready = {}
  /\ LET e == Top(t).e
         n == engine.finished + IF e \in Ends THEN 1 ELSE 0
     IN  /\ engine' = [engine EXCEPT !.finished = n]
         /\ main' = IF Wakes(e, n) /\ main.at = "blocked"
                    THEN [main EXCEPT !.at = "wait"] ELSE main
  /\ stack' = [stack EXCEPT ![t] = Tail(@)]
  /\ UNCHANGED <<conf, tasks, cur, repo, done, left, triggered, fut, control,
                 open, ran, failed, stopped>>
-----------------------------------------------------------------------------
(* The pipeline: Process = Init, Run while there is reason to, Destroy.    *)

(* Init sets the pool up, pulls the elements to kNormal and makes a new    *)
(* engine.                                                                 *)
PoolSetup    == open' = TRUE
PreSetup     == repo' = "kNormal" /\ cur' = [e \in Elements |-> "kNormal"]
InitEnv      == PoolSetup /\ PreSetup
InitEngine   == engine' = [alive |-> TRUE, finished |-> 0, runs |-> 0, ok |-> TRUE]
InitElements == triggered' = [e \in Elements |-> FALSE]

MainInit ==
  /\ main.at = "init" /\ main' = [main EXCEPT !.at = "test"]
  /\ InitEnv /\ InitEngine /\ InitElements
  /\ UNCHANGED <<conf, stack, tasks, done, left, fut, control, ran, failed,
                 stopped>>

RunAgain == main.left > 0 /\ main.ok /\ repo # "kCancel"

(* run_times--: what it wraps to at 0 is not read again.                   *)
RunsLeft(n) == IF n = 0 THEN 0 ELSE n - 1

MainTest ==
  /\ main.at = "test"
  /\ main' = [main EXCEPT !.at = IF RunAgain THEN "setup" ELSE "destroy",
                          !.left = RunsLeft(@)]
  /\ UNCHANGED <<conf, stack, tasks, cur, repo, done, left, triggered, fut,
                 engine, control, open, ran, failed, stopped>>

(* PullAllState: nothing to do when the repository is in that state.       *)
MainPullBegin(at, state, through, next) ==
  /\ main.at = at
  /\ IF repo = state THEN main' = [main EXCEPT !.at = next] /\ repo' = repo
     ELSE main' = [main EXCEPT !.at = through, !.todo = Elements] /\ repo' = state
  /\ UNCHANGED <<conf, stack, tasks, cur, done, left, triggered, fut, engine,
                 control, open, ran, failed, stopped>>

MainSetup == MainPullBegin("setup", "kNormal", "setting", "before")
MainExit  == MainPullBegin("exit", "kCreate", "exiting", "join")

(* Setting the state of one element and notifying one thread that sleeps   *)
(* in its yield_cv_.                                                       *)
Sleepers(e) == {t \in Threads : At(t, "asleep") /\ Top(t).e = e}

SetState(e, state) ==
  /\ cur' = [cur EXCEPT ![e] = state]
  /\ IF state = "kYield" \/ Sleepers(e) = {} THEN UNCHANGED stack
     ELSE \E t \in Sleepers(e) : Move(t, "check")

MainPull(at, state, next) ==
  /\ main.at = at
  /\ main.todo # {}
  /\ LET e == First(main.todo) IN
       /\ SetState(e, state)
       /\ main' = [main EXCEPT !.todo = @ \ {e},
                               !.at = IF main.todo = {e} THEN next ELSE @]
  /\ UNCHANGED <<conf, tasks, repo, done, left, triggered, fut, engine,
                 control, open, ran, failed, stopped>>

MainSetting == MainPull("setting", "kNormal", "before")
MainExiting == MainPull("exiting", "kCreate", "join")

(* BeforeRun of the engine and of every element. *)
MainBefore ==
  /\ main.at = "before"
  /\ main' = [main EXCEPT !.at = "fronts", !.todo = Fronts, !.verdict = "none"]
  /\ engine' = [engine EXCEPT !.finished = 0, !.runs = 0, !.ok = TRUE]
  /\ done' = [e \in Elements |-> FALSE]
  /\ left' = DependSizes
  /\ ran' = [e \in Elements |-> 0]
  /\ UNCHANGED <<conf, stack, tasks, cur, repo, triggered, fut, control, open,
                 failed, stopped>>

(* AsyncRun of the engine: the fronts, the last one in this thread. *)
MainFronts ==
  /\ main.at = "fronts" /\ stack[Main] = <<>>
  /\ main.todo # {}
  /\ LET e == First(main.todo) IN
       /\ main' = [main EXCEPT !.todo = @ \ {e}]
       /\ Process(Main, e, main.todo = {e}, <<>>)
  /\ UNCHANGED <<conf, cur, repo, done, left, triggered, fut, engine, control,
                 open, ran, failed, stopped>>

(* Wait, under lock_ (mutant: until one end is there). *)
OneIsOver == engine.finished >= 1 \/ ~engine.ok

RunIsOver == engine.finished >= Cardinality(Ends) \/ ~engine.ok

MainWait ==
  /\ \/ main.at = "fronts" /\ main.todo = {} /\ stack[Main] = <<>>
     \/ main.at = "wait"
  /\ main' = [main EXCEPT !.at = IF RunIsOver THEN "verdict" ELSE "blocked"]
  /\ UNCHANGED <<conf, stack, tasks, cur, repo, done, left, triggered, fut,
                 engine, control, open, ran, failed, stopped>>

MainSpuriousWakeup ==
  /\ main.at = "blocked" /\ main' = [main EXCEPT !.at = "wait"]
  /\ UNCHANGED <<conf, stack, tasks, cur, repo, done, left, triggered, fut,
                 engine, control, open, ran, failed, stopped>>

(* The engine's status and, when that is good, AfterRunCheck: the verdict  *)
(* on the run, which the status of Reset then replaces.                    *)
AfterRunCheck ==
  engine.runs = Cardinality(Elements) /\ \A e \in Elements : done[e]

RunStatus ==
  IF ~engine.ok THEN "error" ELSE IF AfterRunCheck THEN "ok" ELSE "check failed"

MainVerdict ==
  /\ main.at = "verdict"
  /\ main' = [main EXCEPT !.at = "reset", !.todo = AsyncElements,
                          !.verdict = RunStatus, !.reset = TRUE]
  /\ failed' = (failed \/ RunStatus = "error")
  /\ UNCHANGED <<conf, stack, tasks, cur, repo, done, left, triggered, fut,
                 engine, control, open, ran, stopped>>

(* Reset waits for the results it has to hold the pipeline for and takes   *)
(* elements out of their time-out; an exception of a held Run leaves       *)
(* Process through get.                                                    *)
Holds(e) == conf.timeout[e] = "kHoldByPipeline"

MainReset ==
  /\ main.at = "reset"
  /\ main.todo # {}
  /\ LET e == First(main.todo) IN
       /\ Holds(e) => fut[e].st # "pending"
       /\ fut' = IF Holds(e) THEN [fut EXCEPT ![e].st = "none"] ELSE fut
       /\ cur' = IF cur[e] = "kTimeout" THEN [cur EXCEPT ![e] = "kNormal"]
                 ELSE cur
       /\ main' = [main EXCEPT !.todo = @ \ {e},
            !.at = IF Holds(e) /\ fut[e].st = "crash" THEN "thrown" ELSE @,
            !.reset = @ /\ (Holds(e) => fut[e].st \in {"none", "ok"})]
  /\ UNCHANGED <<conf, stack, tasks, repo, done, left, triggered, engine,
                 control, open, ran, failed, stopped>>

MainReturn ==
  /\ main.at = "reset" /\ main.todo = {}
  /\ main' = [main EXCEPT !.at = "test", !.ok = @ /\ main.reset]
  /\ UNCHANGED <<conf, stack, tasks, cur, repo, done, left, triggered, fut,
                 engine, control, open, ran, failed, stopped>>

(* Destroy deletes the engine, then sets the elements back (MainExit) and  *)
(* ends and joins the threads of the pool.                                 *)
MainDestroy ==
  /\ main.at = "destroy" /\ main' = [main EXCEPT !.at = "exit"]
  /\ engine' = [engine EXCEPT !.alive = FALSE]
  /\ triggered' = [e \in Elements |-> FALSE]
  /\ UNCHANGED <<conf, stack, tasks, cur, repo, done, left, fut, control, open,
                 ran, failed, stopped>>

MainJoin ==
  /\ main.at = "join"
  /\ open' = FALSE
  /\ main' = IF \A t \in Workers : stack[t] = <<>>
             THEN [main EXCEPT !.at = "end"] ELSE main
  /\ UNCHANGED <<conf, stack, tasks, cur, repo, done, left, triggered, fut,
                 engine, control, ran, failed, stopped>>
-----------------------------------------------------------------------------
(* The controller: Cancel, Yield and Resume of an initialised pipeline.    *)

IsInit == main.at \notin {"init", "end"}

Call(state) ==
  /\ IsInit /\ control.todo = {} /\ control.calls < conf.calls
  /\ control' = [state |-> state, todo |-> IF repo = state THEN {} ELSE Elements,
                 calls |-> control.calls + 1]
  /\ repo' = state
  /\ stopped' = (stopped \/ state # "kNormal")
  /\ UNCHANGED <<conf, main, stack, tasks, cur, done, left, triggered, fut,
                 engine, open, ran, failed>>

Pull ==
  /\ control.todo # {}
  /\ LET e == First(control.todo) IN
       /\ SetState(e, control.state)
       /\ control' = [control EXCEPT !.todo = @ \ {e}]
  /\ UNCHANGED <<conf, main, tasks, repo, done, left, triggered, fut, engine,
                 open, ran, failed, stopped>>
-----------------------------------------------------------------------------
ThreadStep(t) ==
  \/ Take(t) \/ Start(t) \/ NextRound(t) \/ RunUser(t) \/ RunFence(t) \/ RunAsync(t)
  \/ AwaitReady(t) \/ AwaitTimeout(t) \/ CheckYield(t) \/ HoldAsync(t)
  \/ Doze(t)
  \/ Finish(t) \/ CountDown(t) \/ StartReady(t) \/ Leave(t)

MainStep ==
  \/ MainInit \/ MainTest \/ MainSetup \/ MainSetting \/ MainBefore \/ MainFronts
  \/ MainWait \/ MainVerdict \/ MainReset \/ MainReturn \/ MainDestroy
  \/ MainExit \/ MainExiting \/ MainJoin

Next ==
  \/ \E t \in Threads : ThreadStep(t) \/ SpuriousWakeup(t)
  \/ MainStep \/ MainSpuriousWakeup
  \/ \E state \in Controls : Call(state)
  \/ Pull

Spec == Init /\ [][Next]_vars

(* Nothing left to do for the frame but to take lock_ and return. *)
Leaving(f) == f.at = "succ" /\ f.todo = {} /\ f.ready = {}

(* The thread is about to take lock_ of an engine that Destroy has deleted.*)
(* That is undefined: it may get the lock (Leave), or wait for it for ever.*)
Dangling(t) == ~engine.alive /\ stack[t] # <<>> /\ Leaving(Top(t))

(* Threads run on, Run of an element returns and time-outs expire; nobody  *)
(* has to call the controller, and nothing wakes up by itself.             *)
FairSpec ==
  /\ Spec /\ WF_vars(MainStep) /\ WF_vars(Pull)
  /\ \A t \in Threads : WF_vars(ThreadStep(t) /\ ~Dangling(t))
-----------------------------------------------------------------------------
Places == {"start", "loop", "run", "async", "await", "check", "doze", "asleep",
           "finish", "succ"}

TypeOK ==
  /\ conf \in Configs
  /\ main.at \in {"init", "test", "setup", "setting", "before", "fronts", "wait",
                  "blocked", "verdict", "reset", "thrown", "destroy", "exit",
                  "exiting", "join", "end"}
  /\ main.todo \subseteq Elements /\ main.left \in 0..conf.runs
  /\ \A t \in Threads : \A i \in 1..Len(stack[t]) :
        LET f == stack[t][i] IN
        /\ f.e \in Elements /\ f.at \in Places /\ f.todo \subseteq Elements
        /\ f.ready \subseteq Elements
  /\ cur \in [Elements -> States] /\ repo \in States
  /\ left \in [Elements -> 0..(DependModulus - 1)]
  /\ done \in [Elements -> BOOLEAN] /\ triggered \in [Elements -> BOOLEAN]

Frames   == UNION {{t} \X DOMAIN stack[t] : t \in Threads}
F(x)     == stack[x[1]][x[2]]
ExecsOf(e) == {x \in Frames : F(x).e = e /\ F(x).at # "async" /\ ~Leaving(F(x))}
Inside   == {"run", "await", "check", "doze", "asleep"}

RunsAsync(e) ==
  \/ \E k \in tasks : k.kind = "async" /\ k.e = e
  \/ \E x \in Frames : F(x).e = e /\ F(x).at = "async"

(* What the code leaves to who builds the graph: a fence comes after the   *)
(* elements it is for, has no time-out of its own, is visible and has a    *)
(* round; and they are not held, for AsyncRun forgets the call before.     *)
Closed(c, S) == \A e \in S : c.depend[e] \subseteq S
FencesInPlace(c) ==
  \A d \in Elements : c.fence[d] # {} =>
    /\ d \notin c.hidden /\ c.timeout[d] = "sync" /\ c.loop[d] >= 1
    /\ \A f \in c.fence[d] : c.holds[f] = 0
    /\ \A S \in SUBSET Elements : d \in S /\ Closed(c, S) => c.fence[d] \subseteq S

(* The elements an element depends on are done when its Run begins and as  *)
(* long as it lasts, whichever thread counted it down and started it; and  *)
(* behind a fence the results the fence is for are there, however long     *)
(* their elements are over their time.  Until a run has failed and was     *)
(* left with its elements still running.                                   *)
DependenciesFirst ==
  ~failed => \A x \in Frames : F(x).at \in Inside =>
    \A d \in conf.depend[F(x).e] :
      done[d] /\ (stopped \/ \A e \in conf.fence[d] : ~RunsAsync(e))

(* However many predecessors finish at once, an element is started once:   *)
(* it is never in the pool and in a thread, or in two threads.  And every  *)
(* variable keeps its type, the counters of dependencies included.         *)
StartedOnce ==
  /\ TypeOK
  /\ ~failed => \A e \in Elements :
                 Cardinality(ExecsOf(e)) + Cardinality(tasks \cap {Exec(e)}) <= 1

Returned == main.at \in {"verdict", "reset", "test", "setup", "setting",
                         "destroy", "exit", "exiting", "join", "end"}

(* When Wait has returned without an error, every element has been run,    *)
(* the check of the run passes, no element is in the pool, and a thread    *)
(* that is still inside of the engine has nothing left to do there but to  *)
(* take lock_ once more (line 104; Destroy does not wait for it: Dangling).*)
(* When Reset is through, the elements the pipeline is to be held for have *)
(* ended, so that neither the next run nor Destroy meets them; but for one *)
(* whose IsHold asks for more, as Reset sees its last call only.           *)
QuietAfterRun ==
  /\ Returned /\ main.verdict # "none" /\ engine.ok /\ ~failed =>
       /\ AfterRunCheck
       /\ \A e \in Elements : Exec(e) \notin tasks
       /\ \A e \in Elements : ExecsOf(e) = {}
  /\ main.at \in {"test", "setup", "setting", "before", "destroy", "exit"} /\ ~failed =>
       \A e \in Elements :
         conf.timeout[e] = "kHoldByPipeline" /\ conf.holds[e] = 0 => ~RunsAsync(e)

(* Unless somebody cancelled or yielded it, a run that ends well has run   *)
(* each visible element as often as its loop and its holds ask for.        *)
EveryElementRuns ==
  main.at = "reset" /\ main.verdict = "ok" /\ ~failed /\ ~stopped =>
    \A e \in Elements \ (AsyncElements \cup conf.hidden \cup conf.fails) :
      ran[e] = conf.loop[e] * (conf.holds[e] + 1)

(* Process comes back, whatever fails, times out or is cancelled, as long  *)
(* as nobody yields: nobody waits for a notification that was given before.*)
(* Or Destroy waits in join for a thread that the deleted engine keeps.    *)
ProcessEnds ==
  [](control.state # "kYield") =>
    <>(main.at \in {"end", "thrown"}) \/ <>[](\E t \in Workers : Dangling(t))
=============================================================================
