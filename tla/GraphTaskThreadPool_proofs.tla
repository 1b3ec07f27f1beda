---------------------- MODULE GraphTaskThreadPool_proofs ----------------------
(***************************************************************************)
(* Theorems about GraphTaskThreadPool for any number of primary and        *)
(* secondary threads, any tasks and any sizes: no thread uses a primary    *)
(* thread that Exit has deleted but the task of a secondary one, and the   *)
(* pool implements TaskService.                                            *)
(***************************************************************************)
EXTENDS GraphTaskThreadPool, FiniteSetTheorems, TLAPS

(* Where a thread and the owner can be. *)
Resting   == {"none", "loop", "seek", "end"}
Calling   == {"commit", "create", "push"}
ThreadAt  == Resting \cup {"fill", "run", "finish"} \cup Calling
StageAt   == {"setup", "list", "ready", "primaries", "secondaries", "end"}
States    == [at : ThreadAt, batch : Seq(Tasks), task : SUBSET Tasks, size : Nat]

TypeInv ==
  /\ conf \in Configs /\ owner \in [at : StageAt, i : Nat]
  /\ queue \in [Queues -> Seq(Tasks)]
  /\ listed \in Nat /\ deleted \in BOOLEAN
  /\ secondary \in Seq(Slots) /\ stop \in [AllThreads -> BOOLEAN]
  /\ pc \in [Callers -> States]
  /\ done \subseteq Tasks

(* What has happened when the owner is at a stage of the pool's life.      *)
SettingUp == owner.at \in {"setup", "list"}
Exiting   == owner.at \in {"primaries", "secondaries", "end"}

OwnerInv ==
  /\ SettingUp => pc[Owner].at = "none" /\ pc[Owner].task = {}
  /\ owner.at = "ready" => pc[Owner].at \in Calling \cup {"finish"}
  /\ Exiting => pc[Owner].at = "finish"
  /\ pc[Owner].batch = <<>>
  /\ deleted <=> owner.at \in {"secondaries", "end"}

PrimaryInv ==
  /\ owner.at = "setup" => owner.i <= conf.primary
  /\ owner.at = "list" => owner.i < conf.primary
  /\ \A p \in 0..(MaxPrimary - 1) :
       \/ p >= conf.primary \/ (owner.at = "setup" /\ p >= owner.i)
       \/ (owner.at = "list" /\ p > owner.i)
       => pc[p].at = "none"
  /\ owner.at = "primaries" => \A p \in Primaries : p < owner.i => At(p, "end")
  /\ deleted => \A p \in Primaries : At(p, "end")

Joined(s) == \E j \in DOMAIN secondary : j < owner.i /\ secondary[j] = s
SecondaryInv ==
  /\ owner.at = "secondaries" => owner.i <= Len(secondary) + 1
  /\ owner.at = "secondaries" => \A s \in Slots : Joined(s) => At(s, "end")
  /\ owner.at = "end" => \A s \in Slots : pc[s].at \in {"none", "end"}
  /\ owner.at # "end" => \A s \in Slots : s \notin ToSet(secondary) => At(s, "none")

(* A thread has tasks in its hands from the moment it takes one; the one   *)
(* it commits while it runs a task is the one that task commits.           *)
CommitsOf(v) == IF conf.does[v].kind = "commit" THEN {conf.does[v].task} ELSE {}

HandsInv ==
  /\ \A t \in AllThreads :
       /\ pc[t].at \in Resting <=> pc[t].batch = <<>>
       /\ pc[t].at \in Calling => pc[t].task \subseteq CommitsOf(Head(pc[t].batch))
       /\ At(t, "fill") => t \in Primaries
  /\ pc[Owner].task \subseteq Roots

DeletedInv == misused \subseteq Slots

(* Who may hold a task, and the tasks that c holds.                        *)
Holders == {<<"queue", q>> : q \in Queues} \cup {<<"batch", t>> : t \in AllThreads}
           \cup {<<"task", t>> : t \in Callers} \cup {<<"done", 0>>}

Contents(c) ==
  IF c[1] = "queue" THEN ToSet(queue[c[2]])
  ELSE IF c[1] = "batch" THEN ToSet(pc[c[2]].batch)
  ELSE IF c[1] = "task" THEN {w \in pc[c[2]].task : pc[c[2]].at \in Calling}
  ELSE done

(* No task is held by two, nor twice in a sequence.                        *)
Disjoint == \A c, d \in Holders : \A w \in Contents(c) : w \in Contents(d) => c = d
NoneTwice ==
  /\ \A q \in Queues : IsInjective(queue[q])
  /\ \A t \in AllThreads : IsInjective(pc[t].batch)

(* What a task commits is nowhere before the task runs.                    *)
RunBy(t)   == IF Working(t) /\ pc[t].batch # <<>> THEN {Head(pc[t].batch)} ELSE {}
Running(v) == \E t \in AllThreads : v \in RunBy(t)
Begun(v)   == v \in done \/ Running(v)
NotYetInv  ==
  \A v \in Tasks : ~Begun(v) => \A c \in Holders : Contents(c) \cap CommitsOf(v) = {}

ControlInv == /\ TypeInv /\ OwnerInv /\ PrimaryInv /\ SecondaryInv /\ HandsInv /\ DeletedInv
IInv == ControlInv /\ CommittedOnce(conf) /\ Disjoint /\ NoneTwice /\ NotYetInv
-----------------------------------------------------------------------------
(* Constants, queues and sequences. *)

LEMMA ConstantFacts ==
  ASSUME conf \in Configs
  PROVE  /\ conf.primary \in Nat /\ conf.max \in Nat /\ conf.batch \in Nat
         /\ conf.steal \in Nat /\ conf.secondary \in Nat /\ conf.primary <= MaxPrimary
         /\ \A w \in Tasks : conf.index[w] \in Int /\ conf.does[w] \in Does
         /\ SizeModulus \in Nat \ {0} /\ MaxPrimary \in Nat
BY PoolAssumption DEF IsConfig

LEMMA ThreadFacts ==
  ASSUME conf \in Configs
  PROVE  /\ Primaries \subseteq 0..(MaxPrimary - 1) /\ Primaries \cap Slots = {}
         /\ AllThreads \subseteq Callers /\ Owner \in Callers /\ Owner \notin AllThreads
         /\ Slots \subseteq AllThreads /\ 0..(MaxPrimary - 1) \subseteq AllThreads
         /\ Threads \subseteq AllThreads /\ Primaries \subseteq AllThreads
         /\ (0..(MaxPrimary - 1)) \cap Slots = {}
         /\ \A t \in Callers : t = Owner \/ t \in AllThreads
         /\ \A t \in AllThreads : t \in Slots \/ t \in 0..(MaxPrimary - 1)
<1>1. Primaries \subseteq 0..(MaxPrimary - 1) BY ConstantFacts DEF Primaries
<1>2. (0..(MaxPrimary - 1)) \cap Slots = {} /\ Owner \notin Slots \cup 0..(MaxPrimary - 1)
  <2>1. 0..(MaxPrimary - 1) \subseteq Int OBVIOUS
  <2>2. QED BY <2>1, PoolAssumption
<1>3. QED BY <1>1, <1>2 DEF AllThreads, Callers, Threads

LEMMA QueueFacts ==
  ASSUME conf \in Configs
  PROVE  /\ Pool \in Queues /\ Priority \in Queues /\ Pool # Priority
         /\ \A p \in 0..(MaxPrimary - 1) : First(p) \in Queues /\ Second(p) \in Queues
         /\ \A p \in Primaries : Own(p) \subseteq Queues
<1>1. /\ \A p \in 0..(MaxPrimary - 1) : First(p) \in Queues /\ Second(p) \in Queues
      /\ Pool \in Queues /\ Priority \in Queues
  BY DEF First, Second, Queues
<1>2. Pool # Priority BY DEF Pool, Priority
<1>3. QED BY <1>1, <1>2, ThreadFacts DEF Own

LEMMA ModuloFacts ==
  ASSUME NEW n \in Nat \ {0}, NEW k \in Int
  PROVE  k % n \in 0..(n - 1)
OBVIOUS

LEMMA RoundFacts ==
  ASSUME conf \in Configs, NEW t \in Threads
  PROVE  Round(t) \subseteq Queues
<1>1. CASE t \in Primaries
  <2>1. Neighbours(t) \subseteq Primaries
    <3>1. CASE Batched \/ listed # conf.primary BY <3>1 DEF Neighbours
    <3>2. CASE ~(Batched \/ listed # conf.primary)
      <4>1. Neighbours(t) = {(t + j) % conf.primary : j \in 1..StealRange}
        BY <3>2 DEF Neighbours
      <4>2. conf.primary \in Nat \ {0} /\ t \in Int
        BY <1>1, ConstantFacts DEF Primaries
      <4>3. ASSUME NEW j \in 1..StealRange PROVE (t + j) % conf.primary \in Primaries
        <5>1. PICK k \in Int : k = t + j BY <4>2
        <5>2. k % conf.primary \in 0..(conf.primary - 1) BY <4>2, ModuloFacts
        <5>3. QED BY <5>1, <5>2 DEF Primaries
      <4>4. QED BY <4>1, <4>3
    <3>3. QED BY <3>1, <3>2
  <2>2. Stolen(t) \subseteq Queues BY <2>1, QueueFacts DEF Stolen
  <2>3. QED BY <1>1, <2>2, QueueFacts DEF Round
<1>2. CASE t \notin Primaries BY <1>2, QueueFacts DEF Round
<1>3. QED BY <1>1, <1>2

LEMMA PlaceFacts ==
  ASSUME conf \in Configs, NEW w \in Tasks
  PROVE  Places(w) \subseteq Queues
<1>1. \A j \in Primaries : {First(j), Second(j)} \subseteq Queues
  BY QueueFacts, ThreadFacts
<1>2. QED BY <1>1, QueueFacts DEF Places

LEMMA LeftSizeFacts ==
  ASSUME conf \in Configs, secondary \in Seq(Slots), NEW k \in Nat
  PROVE  LeftSize(k) \in Nat
<1> DEFINE n == conf.max + 2 * SizeModulus - conf.primary - Len(secondary)
<1>1. n \in Int BY ConstantFacts
<1>2. SizeModulus \in Nat \ {0} BY ConstantFacts
<1> HIDE DEF n
<1>3. n % SizeModulus \in Nat BY <1>1, <1>2
<1>4. LeftSize(k) = Smaller(n % SizeModulus, k) BY DEF LeftSize, n
<1>5. QED BY <1>3, <1>4 DEF Smaller

LEMMA DoesFacts ==
  ASSUME conf \in Configs, NEW v \in Tasks
  PROVE  /\ conf.does[v].kind \in {"nothing", "commit", "create"}
         /\ conf.does[v].kind = "commit" => conf.does[v].task \in Tasks
         /\ conf.does[v].kind = "create" => conf.does[v].size \in Nat
         /\ CommitsOf(v) \subseteq Tasks
<1>1. conf.does[v] \in Does BY ConstantFacts
<1>2. PICK d : d = conf.does[v] OBVIOUS
<1>3. /\ d.kind \in {"nothing", "commit", "create"}
      /\ d.kind = "commit" => d.task \in Tasks
      /\ d.kind = "create" => d.size \in Nat
  BY <1>1, <1>2 DEF Does
<1>4. QED BY <1>2, <1>3 DEF CommitsOf

LEMMA PairFacts ==
  /\ \A q, r : <<"queue", q>> = <<"queue", r>> => q = r
  /\ \A q, r : <<"batch", q>> = <<"batch", r>> => q = r
  /\ \A q, r : <<"task", q>> = <<"task", r>> => q = r
  /\ \A q, r : /\ <<"queue", q>> # <<"batch", r>> /\ <<"queue", q>> # <<"task", r>>
               /\ <<"batch", q>> # <<"task", r>> /\ <<"done", 0>> # <<"batch", r>>
               /\ <<"done", 0>> # <<"queue", r>> /\ <<"done", 0>> # <<"task", r>>
OBVIOUS

(* The tasks in a sequence that is cut, extended or joined.                *)
LEMMA CutPrefix ==
  ASSUME NEW S, NEW s \in Seq(S), NEW n \in 0..Len(s)
  PROVE  /\ SubSeq(s, 1, n) \in Seq(S) /\ SubSeq(s, n + 1, Len(s)) \in Seq(S)
         /\ Len(SubSeq(s, 1, n)) = n /\ Len(SubSeq(s, n + 1, Len(s))) = Len(s) - n
         /\ \A i \in 1..n : SubSeq(s, 1, n)[i] = s[i]
         /\ \A i \in 1..(Len(s) - n) : SubSeq(s, n + 1, Len(s))[i] = s[n + i]
OBVIOUS

LEMMA DomainFacts ==
  ASSUME NEW S, NEW s \in Seq(S)
  PROVE  Len(s) \in Nat /\ DOMAIN s = 1..Len(s) /\ (s = <<>> <=> Len(s) = 0)
         /\ ToSet(s) \subseteq S /\ \A i \in 1..Len(s) : s[i] \in S
BY DEF ToSet

Parts(s, p, r) ==
  /\ ToSet(p) \cup ToSet(r) = ToSet(s)
  /\ IsInjective(s) => /\ IsInjective(p) /\ IsInjective(r)
                       /\ ToSet(p) \cap ToSet(r) = {}

(* Two sequences that show the elements of s once each are its parts. *)
Shows(s, p, r, f, g) ==
  /\ \A i \in DOMAIN p : f[i] \in DOMAIN s /\ p[i] = s[f[i]]
  /\ \A i \in DOMAIN r : g[i] \in DOMAIN s /\ r[i] = s[g[i]]
  /\ \A i, j \in DOMAIN p : f[i] = f[j] => i = j
  /\ \A i, j \in DOMAIN r : g[i] = g[j] => i = j
  /\ \A i \in DOMAIN p, j \in DOMAIN r : f[i] # g[j]
  /\ \A k \in DOMAIN s : (\E i \in DOMAIN p : f[i] = k) \/ (\E i \in DOMAIN r : g[i] = k)

LEMMA PartsOf ==
  ASSUME NEW s, NEW p, NEW r, NEW f, NEW g, Shows(s, p, r, f, g)
  PROVE  Parts(s, p, r)
<1> USE DEF Shows
<1>1. ToSet(p) \cup ToSet(r) = ToSet(s)
  <2>1. ToSet(p) \subseteq ToSet(s) /\ ToSet(r) \subseteq ToSet(s) BY DEF ToSet
  <2>2. ASSUME NEW k \in DOMAIN s PROVE s[k] \in ToSet(p) \cup ToSet(r)
    BY DEF ToSet
  <2>3. QED BY <2>1, <2>2 DEF ToSet
<1>2. ASSUME IsInjective(s) PROVE IsInjective(p) /\ IsInjective(r)
  BY <1>2 DEF IsInjective
<1>3. ASSUME IsInjective(s) PROVE ToSet(p) \cap ToSet(r) = {}
  BY <1>3 DEF IsInjective, ToSet
<1>4. QED BY <1>1, <1>2, <1>3 DEF Parts

LEMMA CutParts ==
  ASSUME NEW S, NEW s \in Seq(S), NEW n \in 0..Len(s)
  PROVE  Parts(s, SubSeq(s, 1, n), SubSeq(s, n + 1, Len(s)))
<1> DEFINE p == SubSeq(s, 1, n) r == SubSeq(s, n + 1, Len(s))
           f == [i \in 1..n |-> i] g == [i \in 1..(Len(s) - n) |-> n + i]
<1>1. /\ p \in Seq(S) /\ r \in Seq(S) /\ Len(p) = n /\ Len(r) = Len(s) - n
      /\ \A i \in 1..n : p[i] = s[i]
      /\ \A i \in 1..(Len(s) - n) : r[i] = s[n + i]
  BY CutPrefix
<1>2. Len(s) \in Nat /\ DOMAIN s = 1..Len(s) /\ n \in Nat BY DomainFacts
<1>3. DOMAIN p = 1..n /\ DOMAIN r = 1..(Len(s) - n) BY <1>1, DomainFacts
<1> HIDE DEF p, r
<1>4. \A i \in DOMAIN p : f[i] \in DOMAIN s /\ p[i] = s[f[i]] BY <1>1, <1>2, <1>3
<1>5. \A i \in DOMAIN r : g[i] \in DOMAIN s /\ r[i] = s[g[i]] BY <1>1, <1>2, <1>3
<1>6. /\ \A i, j \in DOMAIN p : f[i] = f[j] => i = j
      /\ \A i, j \in DOMAIN r : g[i] = g[j] => i = j
      /\ \A i \in DOMAIN p, j \in DOMAIN r : f[i] # g[j]
  BY <1>2, <1>3
<1>8. ASSUME NEW k \in DOMAIN s
      PROVE  (\E i \in DOMAIN p : f[i] = k) \/ (\E i \in DOMAIN r : g[i] = k)
  <2>1. CASE k <= n BY <1>2, <1>3, <2>1
  <2>2. CASE k > n
    <3>1. k - n \in DOMAIN r /\ g[k - n] = k BY <1>2, <1>3, <2>2
    <3>2. QED BY <3>1
  <2>3. k <= n \/ k > n BY <1>2
  <2>4. QED BY <2>1, <2>2, <2>3
<1> HIDE DEF f, g
<1>9. Shows(s, p, r, f, g) BY <1>4, <1>5, <1>6, <1>8 DEF Shows
<1>10. Parts(s, p, r) BY <1>9, PartsOf
<1>11. QED BY <1>10 DEF p, r
LEMMA RemoveParts ==
  ASSUME NEW S, NEW s \in Seq(S), NEW k \in 1..Len(s)
  PROVE  /\ RemoveAt(s, k) \in Seq(S) /\ <<s[k]>> \in Seq(S)
         /\ Len(RemoveAt(s, k)) = Len(s) - 1
         /\ Parts(s, <<s[k]>>, RemoveAt(s, k))
<1> DEFINE a == SubSeq(s, 1, k - 1) b == SubSeq(s, k + 1, Len(s)) p == <<s[k]>>
           r == a \o b n == Len(s) - 1
           f == [i \in {1} |-> k] g == [i \in 1..n |-> IF i < k THEN i ELSE i + 1]
<1>1. /\ Len(s) \in Nat /\ DOMAIN s = 1..Len(s) /\ s[k] \in S
      /\ k \in Nat /\ 1 <= k /\ k <= Len(s)
  BY DomainFacts
<1>2. k - 1 \in 0..Len(s) /\ k \in 0..Len(s) BY <1>1
<1>3. /\ a \in Seq(S) /\ Len(a) = k - 1 /\ \A i \in 1..(k - 1) : a[i] = s[i]
  BY <1>2, CutPrefix
<1>4. /\ b \in Seq(S) /\ Len(b) = Len(s) - k
      /\ \A i \in 1..(Len(s) - k) : b[i] = s[k + i]
  BY <1>2, CutPrefix
<1> HIDE DEF a, b
<1>16. Len(a) = k - 1 /\ Len(b) = Len(s) - k BY <1>3, <1>4
<1>17. a \in Seq(S) /\ b \in Seq(S) BY <1>3, <1>4
<1>5. /\ r \in Seq(S) /\ Len(r) = Len(a) + Len(b)
      /\ \A i \in 1..Len(r) : r[i] = IF i <= Len(a) THEN a[i] ELSE b[i - Len(a)]
  BY <1>17
<1>6. p \in Seq(S) /\ DOMAIN p = {1} /\ p[1] = s[k] BY <1>1
<1>7. n \in Nat /\ DOMAIN r = 1..n /\ n + 1 = Len(s)
  <2>1. Len(r) = n BY <1>1, <1>16, <1>5
  <2>2. DOMAIN r = 1..Len(r) BY <1>5, DomainFacts
  <2>3. n \in Nat /\ n + 1 = Len(s) BY <1>1
  <2> HIDE DEF r, n
  <2>4. QED BY <2>1, <2>2, <2>3
<1>18. Len(r) = Len(s) - 1 BY <1>1, <1>16, <1>5
<1>8. ASSUME NEW i \in 1..n PROVE g[i] \in 1..Len(s) /\ r[i] = s[g[i]]
  <2>1. CASE i < k
    <3>1. i \in 1..(k - 1) /\ g[i] = i /\ i \in 1..Len(s) BY <1>1, <2>1
    <3>2. i <= Len(a) /\ i \in 1..Len(r) BY <1>1, <1>16, <1>18, <2>1
    <3>3. r[i] = a[i] BY <1>5, <3>2
    <3>4. QED BY <1>3, <3>1, <3>3
  <2>2. CASE ~(i < k)
    <3>1. /\ i - (k - 1) \in 1..(Len(s) - k) /\ g[i] = i + 1
          /\ k + (i - (k - 1)) = i + 1 /\ i + 1 \in 1..Len(s)
      BY <1>1, <2>2
    <3>2. ~(i <= Len(a)) /\ i \in 1..Len(r) BY <1>1, <1>16, <1>18, <2>2
    <3>3. r[i] = b[i - Len(a)] BY <1>5, <3>2
    <3>4. r[i] = b[i - (k - 1)] BY <1>16, <3>3
    <3>5. b[i - (k - 1)] = s[k + (i - (k - 1))] BY <1>4, <3>1
    <3>6. QED BY <3>1, <3>4, <3>5
  <2>3. QED BY <2>1, <2>2
<1> HIDE DEF p, r
<1>9. \A i, j \in 1..n : (g[i] = g[j] => i = j) /\ g[i] # k BY <1>1, <1>7
<1>10. ASSUME NEW j \in 1..Len(s), j # k PROVE \E i \in 1..n : g[i] = j
  <2>1. CASE j < k
    <3>1. j \in 1..n /\ g[j] = j BY <1>1, <1>7, <2>1
    <3>2. QED BY <3>1
  <2>2. CASE ~(j < k)
    <3>1. j - 1 \in 1..n /\ g[j - 1] = j BY <1>1, <1>7, <1>10, <2>2
    <3>2. QED BY <3>1
  <2>3. QED BY <2>1, <2>2
<1>11. \A i \in {1} : f[i] = k OBVIOUS
<1> HIDE DEF f, g, n
<1>12. Shows(s, p, r, f, g)
  BY <1>1, <1>6, <1>7, <1>8, <1>9, <1>10, <1>11 DEF Shows
<1>13. Parts(s, p, r) BY <1>12, PartsOf
<1>14. RemoveAt(s, k) = r BY DEF RemoveAt, a, b, r
<1>15. QED BY <1>5, <1>6, <1>13, <1>14, <1>18 DEF p

LEMMA JoinFacts ==
  ASSUME NEW S, NEW s \in Seq(S), NEW r \in Seq(S)
  PROVE  /\ s \o r \in Seq(S) /\ (s \o r = <<>> => s = <<>> /\ r = <<>>)
         /\ s # <<>> => Head(s \o r) = Head(s)
         /\ ToSet(s \o r) = ToSet(s) \cup ToSet(r)
         /\ IsInjective(s) /\ IsInjective(r) /\ ToSet(s) \cap ToSet(r) = {}
            => IsInjective(s \o r)
<1> DEFINE q == s \o r
<1>1. /\ Len(s) \in Nat /\ DOMAIN s = 1..Len(s) /\ (s = <<>> <=> Len(s) = 0)
      /\ Len(r) \in Nat /\ DOMAIN r = 1..Len(r) /\ (r = <<>> <=> Len(r) = 0)
  BY DomainFacts
<1>2. /\ q \in Seq(S) /\ Len(q) = Len(s) + Len(r)
      /\ \A i \in 1..Len(s) : q[i] = s[i]
      /\ \A i \in 1..Len(r) : q[Len(s) + i] = r[i]
  OBVIOUS
<1> HIDE DEF q
<1>3. DOMAIN q = 1..(Len(s) + Len(r)) /\ (q = <<>> => Len(q) = 0) BY <1>1, <1>2, DomainFacts
<1>4. q = <<>> => s = <<>> /\ r = <<>> BY <1>1, <1>2, <1>3
<1>5. s # <<>> => Head(q) = Head(s)
  <2>1. s # <<>> => 1 \in 1..Len(s) BY <1>1
  <2>2. s # <<>> => q[1] = s[1] BY <1>2, <2>1
  <2>3. Head(q) = q[1] /\ Head(s) = s[1] BY <1>2
  <2>4. QED BY <2>2, <2>3
<1>6. ToSet(q) = ToSet(s) \cup ToSet(r)
  <2>1. \A i \in 1..Len(s) : i \in DOMAIN q BY <1>1, <1>3
  <2>2. \A i \in 1..Len(r) : Len(s) + i \in DOMAIN q BY <1>1, <1>3
  <2>3. ToSet(s) \cup ToSet(r) \subseteq ToSet(q)
    <3>1. \A i \in DOMAIN s : s[i] \in ToSet(q) BY <1>1, <1>2, <2>1 DEF ToSet
    <3>2. ASSUME NEW i \in DOMAIN r PROVE r[i] \in ToSet(q)
      <4>1. q[Len(s) + i] = r[i] /\ Len(s) + i \in DOMAIN q BY <1>1, <1>2, <2>2
      <4>2. QED BY <4>1 DEF ToSet
    <3>3. QED BY <3>1, <3>2 DEF ToSet
  <2>4. ASSUME NEW i \in DOMAIN q PROVE q[i] \in ToSet(s) \cup ToSet(r)
    <3>1. CASE i <= Len(s)
      <4>1. i \in DOMAIN s BY <1>1, <1>3, <3>1
      <4>2. QED BY <1>1, <1>2, <4>1 DEF ToSet
    <3>2. CASE ~(i <= Len(s))
      <4>1. i - Len(s) \in DOMAIN r /\ Len(s) + (i - Len(s)) = i BY <1>1, <1>3, <3>2
      <4>2. q[i] = r[i - Len(s)] BY <1>1, <1>2, <4>1
      <4>3. QED BY <4>1, <4>2 DEF ToSet
    <3>3. QED BY <3>1, <3>2
  <2>5. QED BY <2>3, <2>4 DEF ToSet
<1>7. ASSUME IsInjective(s), IsInjective(r), ToSet(s) \cap ToSet(r) = {}
      PROVE  IsInjective(q)
  <2>1. ASSUME NEW i \in DOMAIN q
        PROVE  \/ i \in DOMAIN s /\ q[i] = s[i]
               \/ i - Len(s) \in DOMAIN r /\ q[i] = r[i - Len(s)]
    <3>1. CASE i <= Len(s)
      <4>1. i \in DOMAIN s BY <1>1, <1>3, <3>1
      <4>2. QED BY <1>1, <1>2, <4>1
    <3>2. CASE ~(i <= Len(s))
      <4>1. i - Len(s) \in DOMAIN r /\ Len(s) + (i - Len(s)) = i BY <1>1, <1>3, <3>2
      <4>2. QED BY <1>1, <1>2, <4>1
    <3>3. QED BY <3>1, <3>2
  <2>2. ASSUME NEW i \in DOMAIN q, NEW j \in DOMAIN q, q[i] = q[j]
        PROVE  i = j
    <3>1. i \in Int /\ j \in Int BY <1>1, <1>3
    <3>2. CASE i \in DOMAIN s /\ q[i] = s[i] /\ j \in DOMAIN s /\ q[j] = s[j]
      BY <1>7, <2>2, <3>2 DEF IsInjective
    <3>3. CASE /\ i - Len(s) \in DOMAIN r /\ q[i] = r[i - Len(s)]
               /\ j - Len(s) \in DOMAIN r /\ q[j] = r[j - Len(s)]
      <4>1. i - Len(s) = j - Len(s) BY <1>7, <2>2, <3>3 DEF IsInjective
      <4>2. QED BY <1>1, <3>1, <4>1
    <3>4. CASE /\ i \in DOMAIN s /\ q[i] = s[i]
               /\ j - Len(s) \in DOMAIN r /\ q[j] = r[j - Len(s)]
      BY <1>7, <2>2, <3>4 DEF ToSet
    <3>5. CASE /\ j \in DOMAIN s /\ q[j] = s[j]
               /\ i - Len(s) \in DOMAIN r /\ q[i] = r[i - Len(s)]
      BY <1>7, <2>2, <3>5 DEF ToSet
    <3>6. QED BY <2>1, <3>2, <3>3, <3>4, <3>5
  <2>3. QED BY <2>2 DEF IsInjective
<1>8. QED BY <1>2, <1>4, <1>5, <1>6, <1>7 DEF q

LEMMA AppendFacts ==
  ASSUME NEW S, NEW s \in Seq(S), NEW v \in S
  PROVE  /\ Append(s, v) \in Seq(S) /\ ToSet(Append(s, v)) = ToSet(s) \cup {v}
         /\ IsInjective(s) /\ v \notin ToSet(s) => IsInjective(Append(s, v))
<1>1. <<v>> \in Seq(S) /\ Append(s, v) = s \o <<v>> OBVIOUS
<1>2. ToSet(<<v>>) = {v} /\ IsInjective(<<v>>) BY DEF ToSet, IsInjective
<1>3. v \notin ToSet(s) => ToSet(s) \cap ToSet(<<v>>) = {} BY <1>2
<1>4. PICK r \in Seq(S) : r = <<v>> BY <1>1
<1>5. s \o r \in Seq(S) /\ ToSet(s \o r) = ToSet(s) \cup ToSet(r) BY JoinFacts
<1>6. IsInjective(s) /\ v \notin ToSet(s) => IsInjective(s \o r)
  BY <1>2, <1>3, <1>4, JoinFacts
<1>7. QED BY <1>1, <1>2, <1>4, <1>5, <1>6

LEMMA TailFacts ==
  ASSUME NEW S, NEW s \in Seq(S), s # <<>>
  PROVE  /\ Head(s) \in S /\ Tail(s) \in Seq(S) /\ Head(s) \in ToSet(s)
         /\ ToSet(Tail(s)) \cup {Head(s)} = ToSet(s)
         /\ IsInjective(s) => IsInjective(Tail(s)) /\ Head(s) \notin ToSet(Tail(s))
         /\ Tail(s) = <<>> <=> ~(Len(s) > 1)
<1>1. Len(s) \in Nat /\ Len(s) # 0 /\ 1 \in 1..Len(s) /\ DOMAIN s = 1..Len(s)
  BY DomainFacts
<1>2. RemoveAt(s, 1) = Tail(s)
  <2>1. SubSeq(s, 1, 0) = <<>> /\ SubSeq(s, 2, Len(s)) = Tail(s) BY <1>1
  <2>2. SubSeq(s, 1, 1 - 1) = SubSeq(s, 1, 0) /\ SubSeq(s, 1 + 1, Len(s)) = SubSeq(s, 2, Len(s))
    OBVIOUS
  <2>3. Tail(s) \in Seq(S) BY <1>1
  <2>4. QED BY <2>1, <2>2, <2>3 DEF RemoveAt
<1>3. Parts(s, <<s[1]>>, Tail(s)) /\ Tail(s) \in Seq(S) BY <1>1, <1>2, RemoveParts
<1>4. Head(s) = s[1] /\ ToSet(<<s[1]>>) = {s[1]} BY DEF ToSet
<1>5. Tail(s) = <<>> <=> ~(Len(s) > 1)
  <2>1. Len(Tail(s)) = Len(s) - 1 BY <1>1, <1>2, RemoveParts
  <2>2. Tail(s) = <<>> <=> Len(Tail(s)) = 0 BY <1>3, DomainFacts
  <2>3. QED BY <1>1, <2>1, <2>2
<1>6. s[1] \in S BY <1>1
<1>7. QED BY <1>3, <1>4, <1>5, <1>6 DEF Parts
LEMMA SetSequence ==
  ASSUME NEW S, IsFiniteSet(S)
  PROVE  SetToSeq(S) \in Seq(S) /\ ToSet(SetToSeq(S)) = S
<1> DEFINE n == Cardinality(S) f == SetToSeq(S)
<1>1. n \in Nat /\ ExistsBijection(1..n, S) BY FS_CardinalityType
<1>2. \E g \in [1..n -> S] : IsInjective(g)
  BY <1>1 DEF ExistsBijection, Bijection, Injection
<1>3. f \in [1..n -> S] /\ IsInjective(f) BY <1>2 DEF SetToSeq
<1> HIDE DEF n, f
<1>4. f \in Injection(1..n, S) BY <1>3 DEF Injection
<1>5. IsFiniteSet(1..n) /\ Cardinality(1..n) = n
  <2>1. 1 \in Int /\ n \in Int BY <1>1
  <2>2. /\ IsFiniteSet(1..n)
        /\ Cardinality(1..n) = IF 1 > n THEN 0 ELSE n - 1 + 1
    BY <2>1, FS_Interval
  <2>3. QED BY <1>1, <2>2
<1>6. Cardinality(1..n) = Cardinality(S) BY <1>5 DEF n
<1>7. f \in Surjection(1..n, S) BY <1>4, <1>6, FS_Injection
<1>8. ToSet(f) = S BY <1>3, <1>7 DEF Surjection, ToSet
<1>9. f \in Seq(S) BY <1>1, <1>3
<1>10. QED BY <1>8, <1>9 DEF f

(* What a thread takes from a queue and what it leaves are parts of it.    *)
LEMMA CutFront ==
  ASSUME NEW s \in Seq(Tasks), s # <<>>, NEW n \in 1..Len(s)
  PROVE  LET x == FromFront(s, n) IN
         /\ x[1] \in Seq(Tasks) /\ x[2] \in Seq(Tasks) /\ x[1] # <<>>
         /\ Parts(s, x[1], x[2])
<1> DEFINE a == SubSeq(s, 1, n) b == SubSeq(s, n + 1, Len(s))
<1>1. Len(s) \in Nat /\ n \in 0..Len(s) /\ n # 0 BY DomainFacts
<1>2. a \in Seq(Tasks) /\ b \in Seq(Tasks) /\ Len(a) = n BY <1>1, CutPrefix
<1>3. Parts(s, a, b) BY <1>1, CutParts
<1> HIDE DEF a, b
<1>4. a # <<>> BY <1>1, <1>2, DomainFacts
<1>5. FromFront(s, n) = <<a, b>> BY DEF FromFront, a, b
<1>6. QED BY <1>2, <1>3, <1>4, <1>5

LEMMA CutTop ==
  ASSUME NEW s \in Seq(Tasks), NEW k \in 1..Len(s)
  PROVE  LET x == FromTop(s, k) IN
         /\ x[1] \in Seq(Tasks) /\ x[2] \in Seq(Tasks) /\ x[1] # <<>>
         /\ Parts(s, x[1], x[2])
<1> DEFINE a == <<s[k]>> b == RemoveAt(s, k)
<1>1. a \in Seq(Tasks) /\ b \in Seq(Tasks) /\ Parts(s, a, b) BY RemoveParts
<1>2. a # <<>> OBVIOUS
<1> HIDE DEF a, b
<1>3. FromTop(s, k) = <<a, b>> BY DEF FromTop, a, b
<1>4. QED BY <1>1, <1>2, <1>3

LEMMA CutBack ==
  ASSUME NEW s \in Seq(Tasks), s # <<>>
  PROVE  LET x == FromBack(s) IN
         /\ x[1] \in Seq(Tasks) /\ x[2] \in Seq(Tasks) /\ x[1] # <<>>
         /\ Parts(s, x[1], x[2])
<1>1. Len(s) \in Nat /\ Len(s) \in 1..Len(s) BY DomainFacts
<1>2. SubSeq(s, 1, Len(s) - 1) \in Seq(Tasks) BY <1>1, CutPrefix
<1>3. SubSeq(s, Len(s) + 1, Len(s)) = <<>> BY <1>1
<1>4. RemoveAt(s, Len(s)) = SubSeq(s, 1, Len(s) - 1) BY <1>2, <1>3 DEF RemoveAt
<1>5. FromTop(s, Len(s)) = FromBack(s) BY <1>4 DEF FromTop, FromBack, Last, Front
<1>6. QED BY <1>1, <1>5, CutTop

LEMMA TakenFacts ==
  ASSUME TypeInv, NEW t \in AllThreads, NEW q \in Queues, queue[q] # <<>>,
         Room(t) >= 1, NEW x \in Taken(t, q)
  PROVE  /\ x[1] \in Seq(Tasks) /\ x[2] \in Seq(Tasks) /\ x[1] # <<>>
         /\ Parts(queue[q], x[1], x[2])
<1> DEFINE n == Smaller(Room(t), Len(queue[q]))
<1>1. PICK s \in Seq(Tasks) : s = queue[q] BY DEF TypeInv
<1>2. s # <<>> /\ Len(s) \in Nat \ {0} /\ DOMAIN s = 1..Len(s) BY <1>1, DomainFacts
<1>3. Room(t) \in Int
  <2>1. t \in Callers /\ conf.batch \in Nat BY ThreadFacts, ConstantFacts DEF TypeInv
  <2>2. pc[t].batch \in Seq(Tasks) BY <2>1 DEF TypeInv, States
  <2>3. Len(pc[t].batch) \in Nat BY <2>2, DomainFacts
  <2>4. QED BY <2>1, <2>3 DEF Room
<1>4. n \in 1..Len(s) /\ 1 \in 1..Len(s) BY <1>1, <1>2, <1>3 DEF Smaller
<1> HIDE DEF n
<1>5. \/ \E i \in 1..Len(s) : x = FromTop(s, i)
      \/ x = FromBack(s) \/ x = FromFront(s, n) \/ x = FromFront(s, 1)
  BY <1>1 DEF Taken, Tops, n
<1>6. QED BY <1>1, <1>2, <1>4, <1>5, CutTop, CutBack, CutFront
-----------------------------------------------------------------------------
(* What each action does to the state of its thread.                       *)
Sets(t, r) == pc' = [pc EXCEPT ![t] = r]

Becomes(t, a, b, k) ==
  \E r \in States : Sets(t, r) /\ r.at = a /\ r.batch = b /\ r.task = k

LEMMA SetsFacts ==
  ASSUME pc \in [Callers -> States], NEW t \in Callers, NEW r \in States, Sets(t, r)
  PROVE  /\ pc' \in [Callers -> States] /\ pc'[t] = r
         /\ \A u \in Callers : u # t => pc'[u] = pc[u]
BY DEF Sets

LEMMA BecomesFacts ==
  ASSUME pc \in [Callers -> States], NEW t \in Callers, NEW a, NEW b, NEW k,
         Becomes(t, a, b, k)
  PROVE  /\ pc' \in [Callers -> States]
         /\ pc'[t].at = a /\ pc'[t].batch = b /\ pc'[t].task = k
         /\ \A u \in Callers : u # t => pc'[u] = pc[u]
BY SetsFacts DEF Becomes

LEMMA StateFacts ==
  ASSUME pc \in [Callers -> States], NEW t \in Callers
  PROVE  /\ pc[t].at \in ThreadAt /\ pc[t].batch \in Seq(Tasks)
         /\ pc[t].task \in SUBSET Tasks /\ pc[t].size \in Nat
BY DEF States

LEMMA AtMade ==
  ASSUME pc \in [Callers -> States], NEW t \in Callers,
         NEW a \in ThreadAt,
         pc' = [pc EXCEPT ![t].at = a]
  PROVE  Becomes(t, a, pc[t].batch, pc[t].task)
<1> DEFINE r == [pc[t] EXCEPT !.at = a]
<1>1. pc[t] \in States OBVIOUS
<1>2. r \in States /\ r.at = a /\ r.batch = pc[t].batch /\ r.task = pc[t].task BY <1>1 DEF States
<1>3. pc' = [pc EXCEPT ![t] = r] OBVIOUS
<1> HIDE DEF r
<1>4. QED BY <1>2, <1>3 DEF Sets, Becomes

LEMMA BatchMade ==
  ASSUME pc \in [Callers -> States], NEW t \in Callers,
         NEW a \in ThreadAt, NEW b \in Seq(Tasks),
         pc' = [pc EXCEPT ![t].batch = b, ![t].at = a]
  PROVE  Becomes(t, a, b, pc[t].task)
<1> DEFINE r == [pc[t] EXCEPT !.batch = b, !.at = a]
<1>1. pc[t] \in States OBVIOUS
<1>2. r \in States /\ r.at = a /\ r.batch = b /\ r.task = pc[t].task BY <1>1 DEF States
<1>3. pc' = [pc EXCEPT ![t] = r] OBVIOUS
<1> HIDE DEF r
<1>4. QED BY <1>2, <1>3 DEF Sets, Becomes

LEMMA SizeMade ==
  ASSUME pc \in [Callers -> States], NEW t \in Callers,
         NEW a \in ThreadAt, NEW z \in Nat,
         pc' = [pc EXCEPT ![t].at = a, ![t].size = z]
  PROVE  Becomes(t, a, pc[t].batch, pc[t].task)
<1> DEFINE r == [pc[t] EXCEPT !.at = a, !.size = z]
<1>1. pc[t] \in States OBVIOUS
<1>2. r \in States /\ r.at = a /\ r.batch = pc[t].batch /\ r.task = pc[t].task BY <1>1 DEF States
<1>3. pc' = [pc EXCEPT ![t] = r] OBVIOUS
<1> HIDE DEF r
<1>4. QED BY <1>2, <1>3 DEF Sets, Becomes

LEMMA TaskMade ==
  ASSUME pc \in [Callers -> States], NEW t \in Callers,
         NEW a \in ThreadAt, NEW k \in SUBSET Tasks,
         pc' = [pc EXCEPT ![t].at = a, ![t].task = k]
  PROVE  Becomes(t, a, pc[t].batch, k)
<1> DEFINE r == [pc[t] EXCEPT !.at = a, !.task = k]
<1>1. pc[t] \in States OBVIOUS
<1>2. r \in States /\ r.at = a /\ r.batch = pc[t].batch /\ r.task = k BY <1>1 DEF States
<1>3. pc' = [pc EXCEPT ![t] = r] OBVIOUS
<1> HIDE DEF r
<1>4. QED BY <1>2, <1>3 DEF Sets, Becomes

LEMMA CallMade ==
  ASSUME pc \in [Callers -> States], NEW t \in Callers,
         NEW a \in ThreadAt, NEW k \in SUBSET Tasks, NEW z \in Nat,
         pc' = [pc EXCEPT ![t].at = a, ![t].task = k, ![t].size = z]
  PROVE  Becomes(t, a, pc[t].batch, k)
<1> DEFINE r == [pc[t] EXCEPT !.at = a, !.task = k, !.size = z]
<1>1. pc[t] \in States OBVIOUS
<1>2. r \in States /\ r.at = a /\ r.batch = pc[t].batch /\ r.task = k BY <1>1 DEF States
<1>3. pc' = [pc EXCEPT ![t] = r] OBVIOUS
<1> HIDE DEF r
<1>4. QED BY <1>2, <1>3 DEF Sets, Becomes

LEMMA GotoBecomes ==
  ASSUME TypeInv, NEW t \in Callers, NEW a \in ThreadAt, Goto(t, a)
  PROVE  Becomes(t, a, pc[t].batch, pc[t].task)
BY AtMade DEF Goto, TypeInv

LEMMA LoopBecomes ==
  ASSUME TypeInv, NEW t \in AllThreads, Loop(t)
  PROVE  \E a \in {"end", "seek"} : Becomes(t, a, pc[t].batch, pc[t].task)
<1>1. t \in Callers BY ThreadFacts DEF TypeInv
<1>2. \/ Goto(t, "end") \/ Goto(t, "seek") BY DEF Loop
<1>3. {"end", "seek"} \subseteq ThreadAt BY DEF ThreadAt, Resting
<1>4. QED BY <1>1, <1>2, <1>3, GotoBecomes

(* A take of a thread: from which queue, and what.                         *)
TakesFrom(t, q, p, r, a) ==
  /\ q \in Queues /\ p \in Seq(Tasks) /\ r \in Seq(Tasks) /\ p # <<>>
  /\ Parts(queue[q], p, r) /\ queue' = [queue EXCEPT ![q] = r]
  /\ Becomes(t, a, pc[t].batch \o p, pc[t].task)

LEMMA TakesBecomes ==
  ASSUME TypeInv, NEW t \in AllThreads, NEW q \in Queues, NEW a \in ThreadAt,
         Room(t) >= 1, Takes(t, q, a)
  PROVE  \E p, r : TakesFrom(t, q, p, r, a)
<1>1. PICK x \in Taken(t, q) :
        /\ queue' = [queue EXCEPT ![q] = x[2]]
        /\ pc' = [pc EXCEPT ![t].batch = @ \o x[1], ![t].at = a]
  BY DEF Takes
<1>2. queue[q] # <<>> BY DEF Takes
<1>3. /\ x[1] \in Seq(Tasks) /\ x[2] \in Seq(Tasks) /\ x[1] # <<>>
      /\ Parts(queue[q], x[1], x[2])
  BY <1>2, TakenFacts
<1>4. PICK p : p = x[1] OBVIOUS
<1>5. t \in Callers /\ pc \in [Callers -> States] BY ThreadFacts DEF TypeInv
<1>6. pc[t].batch \in Seq(Tasks) BY <1>5, StateFacts
<1>7. pc[t].batch \o p \in Seq(Tasks) BY <1>3, <1>4, <1>6, JoinFacts
<1>8. PICK b \in Seq(Tasks) : b = pc[t].batch \o p BY <1>7
<1>9. pc' = [pc EXCEPT ![t].batch = b, ![t].at = a] BY <1>1, <1>4, <1>8
<1>10. Becomes(t, a, b, pc[t].task) BY <1>5, <1>9, BatchMade
<1>11. QED BY <1>1, <1>3, <1>4, <1>8, <1>10 DEF TakesFrom

LEMMA TakeBecomes ==
  ASSUME TypeInv, HandsInv, NEW t \in Threads, Take(t)
  PROVE  \E q, p, r : \E a \in {"run", "fill"} :
           TakesFrom(t, q, p, r, a) /\ (a = "fill" => t \in Primaries)
<1>1. PICK q \in Round(t) : (t \in Primaries /\ Takes(t, q, "fill")) \/ Takes(t, q, "run")
  BY DEF Take
<1>2. conf \in Configs /\ t \in AllThreads /\ t \in Callers BY ThreadFacts DEF TypeInv
<1>3. q \in Queues BY <1>1, <1>2, RoundFacts
<1>4. {"fill", "run"} \subseteq ThreadAt BY DEF ThreadAt
<1>5. Room(t) >= 1
  <2>1. pc[t].batch = <<>> BY <1>2 DEF Take, At, HandsInv, Resting
  <2>2. Len(pc[t].batch) = 0 BY <2>1
  <2>3. conf.batch \in Nat BY <1>2, ConstantFacts
  <2>4. QED BY <2>2, <2>3 DEF Room, Batched
<1>6. QED BY <1>1, <1>2, <1>3, <1>4, <1>5, TakesBecomes

LEMMA FillBecomes ==
  ASSUME TypeInv, NEW t \in Threads, Fill(t), t \in Primaries
  PROVE  \/ \E q, p, r : TakesFrom(t, q, p, r, "run")
         \/ UNCHANGED queue /\ Becomes(t, "run", pc[t].batch, pc[t].task)
<1>1. conf \in Configs /\ t \in AllThreads /\ t \in Callers BY ThreadFacts DEF TypeInv
<1>2. Second(t) \in Queues BY <1>1, QueueFacts DEF Own
<1>3. "run" \in ThreadAt BY DEF ThreadAt
<1>4. CASE Room(t) > 0 /\ Takes(t, Second(t), "run")
  <2>1. Room(t) \in Int
    <3>1. pc[t].batch \in Seq(Tasks) BY <1>1, StateFacts DEF TypeInv
    <3>2. PICK n \in Nat : n = Len(pc[t].batch) BY <3>1, DomainFacts
    <3>3. Room(t) = conf.batch - n \/ Room(t) = 1 - n BY <3>2 DEF Room
    <3>4. QED BY <1>1, <3>3, ConstantFacts
  <2>2. Room(t) >= 1 BY <1>4, <2>1
  <2>3. QED BY <1>1, <1>2, <1>3, <1>4, <2>2, TakesBecomes
<1>5. CASE Goto(t, "run") /\ UNCHANGED queue BY <1>1, <1>3, <1>5, GotoBecomes
<1>6. QED BY <1>4, <1>5 DEF Fill

LEMMA BeginBecomes ==
  ASSUME TypeInv, HandsInv, NEW t \in AllThreads, Begin(t)
  PROVE  /\ pc[t].batch # <<>>
         /\ \E a \in {"finish", "commit", "create"} :
              Becomes(t, a, pc[t].batch, CommitsOf(Head(pc[t].batch)))
<1> DEFINE v == Head(pc[t].batch)
<1>1. t \in Callers /\ conf \in Configs /\ pc \in [Callers -> States]
  BY ThreadFacts DEF TypeInv
<1>2. pc[t].batch # <<>> BY DEF Begin, At, HandsInv, Resting
<1>3. v \in Tasks BY <1>1, <1>2, StateFacts, TailFacts
<1> HIDE DEF v
<1>4. PICK d : d = conf.does[v] OBVIOUS
<1>5. d.kind \in {"nothing", "commit", "create"} /\ (d.kind = "create" => d.size \in Nat)
  BY <1>1, <1>3, <1>4, DoesFacts
<1>6. CommitsOf(v) = (IF d.kind = "commit" THEN {d.task} ELSE {}) /\ CommitsOf(v) \subseteq Tasks
  BY <1>1, <1>3, <1>4, DoesFacts DEF CommitsOf
<1>7. PICK a : a = CASE d.kind = "nothing" -> "finish"
                     [] d.kind = "commit"  -> "commit"
                     [] d.kind = "create"  -> "create"
  OBVIOUS
<1>8. a \in {"finish", "commit", "create"} BY <1>5, <1>7
<1>9. a \in ThreadAt BY <1>8 DEF ThreadAt, Calling
<1>10. PICK z : z = IF d.kind = "create" THEN LeftSize(d.size) ELSE 0 OBVIOUS
<1>11. z \in Nat BY <1>1, <1>5, <1>10, LeftSizeFacts DEF TypeInv
<1>12. pc' = [pc EXCEPT ![t].at = a, ![t].task = CommitsOf(v), ![t].size = z]
  BY <1>4, <1>6, <1>7, <1>10 DEF Begin, v
<1>13. PICK k \in SUBSET Tasks : k = CommitsOf(v) BY <1>6
<1>14. pc' = [pc EXCEPT ![t].at = a, ![t].task = k, ![t].size = z] BY <1>12, <1>13
<1>15. Becomes(t, a, pc[t].batch, k) BY <1>1, <1>9, <1>11, <1>14, CallMade
<1>16. QED BY <1>2, <1>8, <1>13, <1>15 DEF v

LEMMA FinishBecomes ==
  ASSUME TypeInv, HandsInv, NEW t \in AllThreads, Finish(t)
  PROVE  /\ pc[t].batch # <<>>
         /\ \E a \in {"run", "loop"} :
              /\ Becomes(t, a, Tail(pc[t].batch), pc[t].task)
              /\ a = "loop" <=> Tail(pc[t].batch) = <<>>
<1>1. t \in Callers /\ pc \in [Callers -> States] BY ThreadFacts DEF TypeInv
<1>2. pc[t].batch # <<>> BY DEF Finish, At, HandsInv, Resting
<1>3. PICK a : a = IF Len(pc[t].batch) > 1 THEN "run" ELSE "loop" OBVIOUS
<1>4. a \in ThreadAt BY <1>3 DEF ThreadAt, Resting
<1>5. /\ Tail(pc[t].batch) \in Seq(Tasks)
      /\ Tail(pc[t].batch) = <<>> <=> ~(Len(pc[t].batch) > 1)
  BY <1>1, <1>2, StateFacts, TailFacts
<1>6. PICK b \in Seq(Tasks) : b = Tail(pc[t].batch) BY <1>5
<1>7. pc' = [pc EXCEPT ![t].batch = b, ![t].at = a] BY <1>3, <1>6 DEF Finish
<1>8. Becomes(t, a, b, pc[t].task) BY <1>1, <1>4, <1>7, BatchMade
<1>9. QED BY <1>2, <1>3, <1>5, <1>6, <1>8

(* A push of task w into queue q.                                          *)
PushesTo(t, w, q) ==
  /\ w \in pc[t].task /\ w \in Tasks /\ q \in Queues
  /\ queue' = [queue EXCEPT ![q] = Append(queue[q], w)]
  /\ misused' = misused \cup (IF deleted /\ q \notin {Pool, Priority} THEN {t} ELSE {})
  /\ Becomes(t, "finish", pc[t].batch, pc[t].task)

LEMMA PushBecomes ==
  ASSUME TypeInv, NEW t \in Callers, Push(t)
  PROVE  \E w, q : PushesTo(t, w, q)
<1> DEFINE Pushes(w, q) ==
             /\ queue' = [queue EXCEPT ![q] = Append(@, w)]
             /\ misused' = misused \cup (IF deleted /\ q \notin {Pool, Priority} THEN {t} ELSE {})
             /\ Goto(t, "finish")
<1>0. PICK w \in pc[t].task : \E q \in Places(w) : Pushes(w, q) BY DEF Push
<1>1. PICK q \in Places(w) : Pushes(w, q) BY <1>0
<1>2. conf \in Configs /\ pc \in [Callers -> States] BY DEF TypeInv
<1>3. w \in Tasks BY <1>2, StateFacts
<1>4. q \in Queues BY <1>2, <1>3, PlaceFacts
<1>5. "finish" \in ThreadAt BY DEF ThreadAt
<1>6. Becomes(t, "finish", pc[t].batch, pc[t].task) BY <1>1, <1>5, GotoBecomes
<1>7. QED BY <1>1, <1>3, <1>4, <1>6 DEF PushesTo

LEMMA CommitBecomes ==
  ASSUME TypeInv, NEW t \in Callers, Commit(t)
  PROVE  \/ UNCHANGED <<queue, misused>> /\ Becomes(t, "create", pc[t].batch, pc[t].task)
         \/ \E w, q : PushesTo(t, w, q)
<1>1. CASE /\ pc' = [pc EXCEPT ![t].at = "create", ![t].size = LeftSize(1)]
           /\ UNCHANGED <<queue, misused>>
  <2>1. conf \in Configs /\ secondary \in Seq(Slots) /\ pc \in [Callers -> States]
    BY DEF TypeInv
  <2>2. LeftSize(1) \in Nat BY <2>1, LeftSizeFacts
  <2>3. PICK z \in Nat : z = LeftSize(1) BY <2>2
  <2>4. pc' = [pc EXCEPT ![t].at = "create", ![t].size = z] BY <1>1, <2>3
  <2>5. "create" \in ThreadAt BY DEF ThreadAt, Calling
  <2>6. Becomes(t, "create", pc[t].batch, pc[t].task) BY <2>1, <2>4, <2>5, SizeMade
  <2>7. QED BY <1>1, <2>6
<1>2. CASE Push(t) BY <1>2, PushBecomes
<1>3. QED BY <1>1, <1>2 DEF Commit
-----------------------------------------------------------------------------
(* Control: every thread is where the stage of the pool's life allows.     *)

LEMMA EndRests ==
  ASSUME ControlInv, NEW t \in Callers, pc[t].at \notin {"none", "end", "finish"}
         \/ (t # Owner /\ pc[t].at \notin {"none", "end"})
  PROVE  owner.at # "end"
<1> SUFFICES ASSUME owner.at = "end" PROVE FALSE OBVIOUS
<1> USE DEF ControlInv
<1>1. conf \in Configs /\ conf.primary \in Nat BY ConstantFacts DEF TypeInv
<1>2. deleted /\ Exiting BY DEF OwnerInv, Exiting
<1>3. CASE t = Owner BY <1>2, <1>3 DEF OwnerInv
<1>4. CASE t \in Slots BY <1>1, <1>4, ThreadFacts DEF SecondaryInv
<1>5. CASE t \in 0..(MaxPrimary - 1)
  <2>1. t # Owner BY <1>1, <1>5, ThreadFacts
  <2>2. pc[t].at \notin {"none", "end"} BY <2>1
  <2>3. t < conf.primary BY <1>1, <1>5, <2>2 DEF PrimaryInv
  <2>4. t \in Primaries BY <1>1, <1>5, <2>3 DEF Primaries
  <2>5. QED BY <1>2, <2>2, <2>4 DEF PrimaryInv, At
<1>6. QED BY <1>1, <1>3, <1>4, <1>5, ThreadFacts

LEMMA HandsSame ==
  ASSUME HandsInv, UNCHANGED <<conf, pc>>
  PROVE  HandsInv'
<1>1. /\ Roots' = Roots /\ Primaries' = Primaries
      /\ \A v : CommitsOf(v)' = CommitsOf(v) /\ \A t, a : At(t, a)' = At(t, a)
  BY DEF Roots, Primaries, CommitsOf, At
<1>2. QED BY <1>1 DEF HandsInv

(* A step of thread t that leaves the owner and the threads as they are.   *)
Allowed(t, a, b, k) ==
  /\ pc[t].at \notin {"none", "end"} /\ a # "none" /\ Becomes(t, a, b, k)
  /\ t \in AllThreads =>
       /\ a \in Resting <=> b = <<>>
       /\ a \in Calling => k \subseteq CommitsOf(Head(b))
       /\ a = "fill" => t \in Primaries
  /\ t = Owner => /\ owner.at = "ready" /\ a \in Calling \cup {"finish"}
                  /\ b = <<>> /\ k \subseteq Roots

LEMMA ControlMove ==
  ASSUME ControlInv, NEW t \in Callers, NEW a, NEW b, NEW k, Allowed(t, a, b, k),
         UNCHANGED <<conf, owner, listed, deleted, secondary, stop>>,
         queue' \in [Queues -> Seq(Tasks)], done' \subseteq Tasks, misused' \subseteq Slots
  PROVE  ControlInv'
<1> USE DEF ControlInv
<1>1. conf \in Configs /\ pc \in [Callers -> States] BY DEF TypeInv
<1>2. Becomes(t, a, b, k) BY DEF Allowed
<1>3. /\ pc' \in [Callers -> States]
      /\ pc'[t].at = a /\ pc'[t].batch = b /\ pc'[t].task = k
      /\ \A u \in Callers : u # t => pc'[u] = pc[u]
  BY <1>1, <1>2, BecomesFacts
<1>4. pc[t].at \notin {"none", "end"} /\ a # "none" BY DEF Allowed
<1>5. /\ Roots' = Roots /\ Primaries' = Primaries /\ SettingUp' = SettingUp
      /\ Exiting' = Exiting /\ \A v : CommitsOf(v)' = CommitsOf(v)
  BY DEF Roots, Primaries, CommitsOf, SettingUp, Exiting
<1>6. TypeInv' BY <1>3 DEF TypeInv
<1>7. \A u \in Callers : pc[u].at = "none" => pc'[u].at = "none"
  BY <1>3, <1>4
<1>8. \A u \in Callers : pc[u].at = "end" => pc'[u].at = "end"
  BY <1>3, <1>4
<1>9. OwnerInv'
  <2>1. Owner \in Callers BY <1>1, ThreadFacts
  <2>2. CASE t = Owner
    <3>1. owner.at = "ready" /\ a \in Calling \cup {"finish"} /\ b = <<>> BY <2>2 DEF Allowed
    <3>2. ~SettingUp /\ ~Exiting BY <3>1 DEF SettingUp, Exiting
    <3>3. QED BY <1>3, <1>5, <2>2, <3>1, <3>2 DEF OwnerInv
  <2>3. CASE t # Owner
    <3>1. pc'[Owner] = pc[Owner] BY <1>3, <2>1, <2>3
    <3>2. QED BY <1>5, <3>1 DEF OwnerInv
  <2>4. QED BY <2>2, <2>3
<1>10. PrimaryInv'
  <2>1. Primaries \subseteq Callers /\ 0..(MaxPrimary - 1) \subseteq Callers
    BY <1>1, ThreadFacts
  <2>2. QED BY <1>5, <1>7, <1>8, <2>1 DEF PrimaryInv, At
<1>11. SecondaryInv'
  <2>1. Slots \subseteq Callers BY <1>1, ThreadFacts
  <2>2. \A s : Joined(s)' = Joined(s) BY DEF Joined
  <2>3. QED BY <1>7, <1>8, <2>1, <2>2 DEF SecondaryInv, At
<1>12. HandsInv'
  <2>1. ASSUME NEW u \in AllThreads
        PROVE  /\ pc'[u].at \in Resting <=> pc'[u].batch = <<>>
               /\ pc'[u].at \in Calling => pc'[u].task \subseteq CommitsOf(Head(pc'[u].batch))
               /\ pc'[u].at = "fill" => u \in Primaries
    <3>1. u \in Callers BY <1>1, ThreadFacts
    <3>2. CASE u = t BY <1>3, <3>2 DEF Allowed
    <3>3. CASE u # t BY <1>3, <3>1, <3>3 DEF HandsInv, At
    <3>4. QED BY <3>2, <3>3
  <2>2. pc'[Owner].task \subseteq Roots
    <3>1. Owner \in Callers BY <1>1, ThreadFacts
    <3>2. CASE t = Owner BY <1>3, <3>2 DEF Allowed
    <3>3. CASE t # Owner BY <1>3, <3>1, <3>3 DEF HandsInv
    <3>4. QED BY <3>2, <3>3
  <2>3. QED BY <1>5, <2>1, <2>2 DEF HandsInv, At
<1>13. DeletedInv' BY DEF DeletedInv
<1>14. QED BY <1>6, <1>9, <1>10, <1>11, <1>12, <1>13

(* Secondary threads that CreateSecondaryThread adds.                      *)
Creates(t, new) ==
  /\ new \subseteq Slots /\ t \notin new /\ \A s \in new : At(s, "none")
  /\ secondary' \in Seq(Slots) /\ ToSet(secondary') = ToSet(secondary) \cup new
  /\ Len(secondary) <= Len(secondary')
  /\ \A j \in DOMAIN secondary' : \/ j \in DOMAIN secondary /\ secondary'[j] = secondary[j]
                                  \/ j > Len(secondary) /\ secondary'[j] \in new
  /\ pc' \in [Callers -> States]
  /\ pc'[t].at \in {"push", "finish"}
  /\ pc'[t].batch = pc[t].batch /\ pc'[t].task = pc[t].task
  /\ \A s \in new : pc'[s].at = "loop" /\ pc'[s].batch = <<>>
  /\ \A u \in Callers : u # t /\ u \notin new => pc'[u] = pc[u]

LEMMA CreateCreates ==
  ASSUME ControlInv, NEW t \in Callers, Create(t)
  PROVE  /\ \E new : Creates(t, new)
         /\ UNCHANGED <<conf, owner, queue, listed, deleted, stop, done, misused>>
<1> USE DEF ControlInv
<1>1. conf \in Configs /\ pc \in [Callers -> States] /\ secondary \in Seq(Slots)
  BY DEF TypeInv
<1>2. PICK new \in SUBSET (Slots \ ToSet(secondary)) :
        /\ secondary' = secondary \o SetToSeq(new)
        /\ pc' = [s \in DOMAIN pc |->
             IF s \in new THEN [Idle EXCEPT !.at = "loop"]
             ELSE IF s = t
             THEN [pc[s] EXCEPT !.at = IF pc[t].task # {} THEN "push" ELSE "finish"]
             ELSE pc[s]]
  BY DEF Create
<1>3. pc[t].at = "create" BY DEF Create, At
<1>4. owner.at # "end" BY <1>3, EndRests
<1>5. \A s \in new : At(s, "none") BY <1>4 DEF SecondaryInv
<1>6. t \notin new BY <1>3, <1>5 DEF At
<1>7. IsFiniteSet(new)
  <2>1. new \in SUBSET Slots OBVIOUS
  <2>2. QED BY <2>1, PoolAssumption, FS_Subset
<1>8. SetToSeq(new) \in Seq(new) /\ ToSet(SetToSeq(new)) = new BY <1>7, SetSequence
<1>9. PICK x : x = SetToSeq(new) OBVIOUS
<1>10. x \in Seq(new) /\ x \in Seq(Slots) /\ ToSet(x) = new BY <1>8, <1>9
<1>11. /\ secondary' = secondary \o x /\ secondary' \in Seq(Slots)
       /\ ToSet(secondary') = ToSet(secondary) \cup new
  BY <1>1, <1>2, <1>9, <1>10, JoinFacts
<1>12. ASSUME NEW j \in DOMAIN secondary'
       PROVE  \/ j \in DOMAIN secondary /\ secondary'[j] = secondary[j]
              \/ j > Len(secondary) /\ secondary'[j] \in new
  <2>1. /\ Len(secondary) \in Nat /\ Len(x) \in Nat /\ DOMAIN x = 1..Len(x)
        /\ DOMAIN secondary = 1..Len(secondary)
    BY <1>1, <1>10, DomainFacts
  <2>2. DOMAIN secondary' = 1..(Len(secondary) + Len(x))
    BY <1>1, <1>10, <1>11
  <2>3. CASE j <= Len(secondary)
    <3>1. j \in 1..Len(secondary) BY <2>1, <2>2, <2>3
    <3>2. secondary'[j] = secondary[j] BY <1>1, <1>10, <1>11, <3>1
    <3>3. QED BY <2>1, <3>1, <3>2
  <2>4. CASE ~(j <= Len(secondary))
    <3>1. /\ j - Len(secondary) \in 1..Len(x) /\ j > Len(secondary)
          /\ j \in 1..(Len(secondary) + Len(x))
      BY <2>1, <2>2, <2>4
    <3>2. secondary'[j] = x[j - Len(secondary)] BY <1>1, <1>10, <1>11, <2>4, <3>1
    <3>3. QED BY <1>10, <3>1, <3>2
  <2>5. QED BY <2>3, <2>4
<1>13. ASSUME NEW s \in new
       PROVE  /\ pc'[s].at = "loop" /\ pc'[s].batch = <<>> /\ pc'[s] \in States
  <2>1. s \in Callers BY <1>1, ThreadFacts
  <2>2. pc'[s] = [Idle EXCEPT !.at = "loop"] BY <1>1, <1>2, <2>1
  <2>3. "loop" \in ThreadAt /\ <<>> \in Seq(Tasks) BY DEF ThreadAt, Resting
  <2>4. pc'[s] = [at |-> "loop", batch |-> <<>>, task |-> {}, size |-> 0]
    BY <2>2 DEF Idle
  <2>5. {} \in SUBSET Tasks /\ 0 \in Nat OBVIOUS
  <2>6. pc'[s] \in States BY <2>3, <2>4, <2>5 DEF States
  <2>7. QED BY <2>4, <2>6
<1>14. /\ pc'[t].at \in {"push", "finish"} /\ pc'[t] \in States
       /\ pc'[t].batch = pc[t].batch /\ pc'[t].task = pc[t].task
  <2>1. PICK a : a = IF pc[t].task # {} THEN "push" ELSE "finish" OBVIOUS
  <2>2. pc'[t] = [pc[t] EXCEPT !.at = a] BY <1>1, <1>2, <1>6, <2>1
  <2>3. a \in ThreadAt /\ a \in {"push", "finish"} BY <2>1 DEF ThreadAt, Calling
  <2>4. pc[t] \in States BY <1>1
  <2>5. QED BY <2>2, <2>3, <2>4 DEF States
<1>15. \A u \in Callers : u # t /\ u \notin new => pc'[u] = pc[u] BY <1>1, <1>2
<1>16. pc' \in [Callers -> States]
  <2>1. DOMAIN pc' = Callers /\ pc' = [s \in Callers |-> pc'[s]] BY <1>1, <1>2
  <2>2. \A u \in Callers : pc'[u] \in States BY <1>1, <1>13, <1>14, <1>15
  <2>3. QED BY <2>1, <2>2
<1>17. new \subseteq Slots /\ Len(secondary) <= Len(secondary')
  <2>1. Len(secondary) \in Nat /\ Len(x) \in Nat BY <1>1, <1>10, DomainFacts
  <2>2. Len(secondary') = Len(secondary) + Len(x) BY <1>1, <1>10, <1>11
  <2>3. QED BY <2>1, <2>2
<1>18. Creates(t, new)
  BY <1>5, <1>6, <1>11, <1>12, <1>13, <1>14, <1>15, <1>16, <1>17 DEF Creates
<1>19. QED BY <1>18 DEF Create
LEMMA CreateControl ==
  ASSUME ControlInv, NEW t \in Callers, Create(t), NEW new, Creates(t, new)
  PROVE  ControlInv'
<1> USE DEF ControlInv
<1>1. /\ conf \in Configs /\ pc \in [Callers -> States]
      /\ UNCHANGED <<conf, owner, queue, listed, deleted, stop, done, misused>>
  BY CreateCreates DEF TypeInv
<1>2. /\ new \subseteq Slots /\ t \notin new /\ \A s \in new : At(s, "none")
      /\ secondary' \in Seq(Slots) /\ ToSet(secondary') = ToSet(secondary) \cup new
      /\ pc' \in [Callers -> States]
      /\ pc'[t].at \in {"push", "finish"}
      /\ pc'[t].batch = pc[t].batch /\ pc'[t].task = pc[t].task
      /\ \A s \in new : pc'[s].at = "loop" /\ pc'[s].batch = <<>>
      /\ \A u \in Callers : u # t /\ u \notin new => pc'[u] = pc[u]
  BY DEF Creates
<1>3. pc[t].at = "create" BY DEF Create, At
<1>4. owner.at # "end" BY <1>3, EndRests
<1>5. /\ Roots' = Roots /\ Primaries' = Primaries /\ SettingUp' = SettingUp
      /\ Exiting' = Exiting /\ \A v : CommitsOf(v)' = CommitsOf(v)
  BY <1>1 DEF Roots, Primaries, CommitsOf, SettingUp, Exiting
<1>6. TypeInv' BY <1>1, <1>2 DEF TypeInv
<1>7. OwnerInv'
  <2>1. Owner \in Callers /\ Owner \notin new BY <1>1, <1>2, ThreadFacts
  <2>2. pc'[Owner].batch = pc[Owner].batch /\ pc'[Owner].task = pc[Owner].task
    BY <1>2, <2>1
  <2>3. pc'[Owner].at = pc[Owner].at \/ (t = Owner /\ pc'[Owner].at \in {"push", "finish"})
    BY <1>2, <2>1
  <2>4. CASE pc'[Owner].at = pc[Owner].at BY <1>1, <1>5, <2>2, <2>4 DEF OwnerInv
  <2>5. CASE t = Owner /\ pc'[Owner].at \in {"push", "finish"}
    <3>1. ~SettingUp /\ ~Exiting BY <1>3, <2>5 DEF OwnerInv
    <3>2. QED BY <1>1, <1>5, <2>2, <2>5, <3>1 DEF OwnerInv, Calling
  <2>6. QED BY <2>3, <2>4, <2>5
<1>8. ASSUME NEW u \in Callers, u \notin new, pc[u].at \in {"none", "end"}
      PROVE  pc'[u] = pc[u]
  BY <1>2, <1>3, <1>8
<1>9. PrimaryInv'
  <2>1. ASSUME NEW p \in 0..(MaxPrimary - 1) PROVE p \in Callers /\ p \notin new
    BY <1>1, <1>2, ThreadFacts
  <2>2. Primaries \subseteq 0..(MaxPrimary - 1) BY <1>1, ThreadFacts
  <2>3. \A p \in 0..(MaxPrimary - 1) : pc[p].at \in {"none", "end"} => pc'[p] = pc[p]
    BY <1>8, <2>1
  <2>4. \A p \in 0..(MaxPrimary - 1) : pc[p].at = "none" => pc'[p].at = "none"
    BY <2>3
  <2>5. \A p \in Primaries : pc[p].at = "end" => pc'[p].at = "end"
    BY <2>2, <2>3
  <2>6. QED BY <1>1, <1>5, <2>4, <2>5 DEF PrimaryInv, At
<1>10. SecondaryInv'
  <2>1. \A s \in Slots : s \in Callers BY <1>1, ThreadFacts
  <2>2. ASSUME owner.at = "secondaries", NEW s \in Slots, Joined(s)'
        PROVE  At(s, "end")'
    <3>1. PICK j \in DOMAIN secondary' : j < owner.i /\ secondary'[j] = s
      BY <1>1, <2>2 DEF Joined
    <3>2. CASE j \in DOMAIN secondary /\ secondary'[j] = secondary[j]
      <4>1. Joined(s) BY <3>1, <3>2 DEF Joined
      <4>2. At(s, "end") BY <2>2, <4>1 DEF SecondaryInv
      <4>3. s \notin new BY <1>2, <4>2 DEF At
      <4>4. QED BY <1>8, <2>1, <4>2, <4>3 DEF At
    <3>3. CASE j > Len(secondary) /\ secondary'[j] \in new
      <4>1. owner.i <= Len(secondary) + 1 BY <2>2 DEF SecondaryInv
      <4>2. Len(secondary) \in Nat /\ owner.i \in Nat /\ j \in Nat
        <5>1. Len(secondary) \in Nat BY DomainFacts DEF TypeInv
        <5>2. j \in 1..Len(secondary') BY <1>2, DomainFacts
        <5>3. QED BY <5>1, <5>2 DEF TypeInv
      <4>3. QED BY <3>1, <3>3, <4>1, <4>2
    <3>4. QED BY <3>2, <3>3 DEF Creates
  <2>3. ASSUME NEW s \in Slots, s \notin ToSet(secondary')
        PROVE  At(s, "none")'
    <3>1. s \notin ToSet(secondary) /\ s \notin new BY <1>2, <2>3
    <3>2. At(s, "none") BY <1>4, <3>1 DEF SecondaryInv
    <3>3. QED BY <1>8, <2>1, <3>1, <3>2 DEF At
  <2>4. owner.at = "secondaries" => owner.i <= Len(secondary') + 1
    <3>1. Len(secondary') \in Nat /\ Len(secondary) \in Nat /\ owner.i \in Nat
      BY <1>2, DomainFacts DEF TypeInv
    <3>2. Len(secondary) <= Len(secondary') BY DEF Creates
    <3>3. QED BY <3>1, <3>2 DEF SecondaryInv
  <2>5. QED BY <1>1, <1>4, <2>2, <2>3, <2>4 DEF SecondaryInv
<1>11. HandsInv'
  <2>1. ASSUME NEW u \in AllThreads
        PROVE  /\ pc'[u].at \in Resting <=> pc'[u].batch = <<>>
               /\ pc'[u].at \in Calling => pc'[u].task \subseteq CommitsOf(Head(pc'[u].batch))
               /\ pc'[u].at = "fill" => u \in Primaries
    <3>1. u \in Callers BY <1>1, ThreadFacts
    <3>2. CASE u = t
      <4>1. pc[u].at \in Calling /\ pc[u].at \notin Resting
        BY <1>3, <3>2 DEF Calling, Resting
      <4>2. pc[u].batch # <<>> /\ pc[u].task \subseteq CommitsOf(Head(pc[u].batch))
        BY <4>1 DEF HandsInv
      <4>3. pc'[u].batch = pc[u].batch /\ pc'[u].task = pc[u].task BY <1>2, <3>2
      <4>4. pc'[u].at \notin Resting /\ pc'[u].at # "fill" BY <1>2, <3>2 DEF Resting
      <4>5. QED BY <4>2, <4>3, <4>4
    <3>3. CASE u \in new
      <4>1. pc'[u].at = "loop" /\ pc'[u].batch = <<>> BY <1>2, <3>3
      <4>2. QED BY <4>1 DEF Resting, Calling
    <3>4. CASE u # t /\ u \notin new BY <1>2, <3>1, <3>4 DEF HandsInv, At
    <3>5. QED BY <3>2, <3>3, <3>4
  <2>2. pc'[Owner].task \subseteq Roots
    <3>1. Owner \in Callers /\ Owner \notin new BY <1>1, <1>2, ThreadFacts
    <3>2. pc'[Owner].task = pc[Owner].task BY <1>2, <3>1
    <3>3. QED BY <3>2 DEF HandsInv
  <2>3. QED BY <1>5, <2>1, <2>2 DEF HandsInv, At
<1>12. DeletedInv' BY <1>1 DEF DeletedInv
<1>13. QED BY <1>6, <1>7, <1>9, <1>10, <1>11, <1>12

(* A call of a thread or of the owner.                                     *)
LEMMA CallHolds ==
  ASSUME ControlInv, NEW t \in Callers, pc[t].at \in Calling
  PROVE  /\ pc[t].at \notin {"none", "end"} /\ pc[t].at \notin Resting
         /\ t \in AllThreads => /\ pc[t].batch # <<>>
                                /\ pc[t].task \subseteq CommitsOf(Head(pc[t].batch))
         /\ t = Owner => /\ owner.at = "ready" /\ pc[t].batch = <<>>
                         /\ pc[t].task \subseteq Roots
<1>1. pc[t].at \notin {"none", "end", "finish"} /\ pc[t].at \notin Resting
  BY DEF Calling, Resting
<1>2. owner.at \in StageAt BY DEF ControlInv, TypeInv
<1>3. t = Owner => owner.at = "ready"
  BY <1>1, <1>2 DEF ControlInv, OwnerInv, SettingUp, Exiting, StageAt
<1>4. QED BY <1>1, <1>3 DEF ControlInv, HandsInv, OwnerInv

LEMMA PushControl ==
  ASSUME ControlInv, NEW t \in Callers, pc[t].at \in Calling,
         NEW w, NEW q, PushesTo(t, w, q),
         UNCHANGED <<conf, owner, listed, deleted, secondary, stop, done>>
  PROVE  ControlInv'
<1>1. /\ pc \in [Callers -> States] /\ conf \in Configs /\ queue \in [Queues -> Seq(Tasks)]
      /\ done \subseteq Tasks
  BY DEF ControlInv, TypeInv
<1>2. Becomes(t, "finish", pc[t].batch, pc[t].task) BY DEF PushesTo
<1>3. Allowed(t, "finish", pc[t].batch, pc[t].task)
  BY <1>2, CallHolds DEF Allowed, Resting, Calling
<1>4. queue' \in [Queues -> Seq(Tasks)]
  <2>1. queue[q] \in Seq(Tasks) /\ w \in Tasks /\ q \in Queues BY <1>1 DEF PushesTo
  <2>2. Append(queue[q], w) \in Seq(Tasks) BY <2>1, AppendFacts
  <2>3. QED BY <1>1, <2>2 DEF PushesTo
<1>5. deleted => t \in Slots
  <2> SUFFICES ASSUME deleted PROVE t \in Slots OBVIOUS
  <2>1. owner.at # "ready" /\ \A p \in Primaries : At(p, "end")
    BY DEF ControlInv, OwnerInv, PrimaryInv
  <2>2. t # Owner BY <2>1, CallHolds
  <2>3. pc[t].at # "none" /\ pc[t].at # "end" BY CallHolds
  <2>4. t \notin 0..(MaxPrimary - 1)
    <3> SUFFICES ASSUME t \in 0..(MaxPrimary - 1) PROVE FALSE OBVIOUS
    <3>1. conf.primary \in Nat BY <1>1, ConstantFacts
    <3>2. t < conf.primary BY <2>3, <3>1 DEF ControlInv, PrimaryInv
    <3>3. t \in Primaries BY <3>1, <3>2 DEF Primaries
    <3>4. QED BY <2>1, <2>3, <3>3 DEF At
  <2>5. QED BY <1>1, <2>2, <2>4, ThreadFacts
<1>6. misused' \subseteq Slots BY <1>5 DEF PushesTo, ControlInv, DeletedInv
<1>7. QED BY <1>1, <1>3, <1>4, <1>6, ControlMove
LEMMA ThreadControl ==
  ASSUME ControlInv, NEW t \in Threads,
         Loop(t) \/ Take(t) \/ Fill(t) \/ Pass(t) \/ Begin(t) \/ Finish(t)
  PROVE  ControlInv'
<1>1. /\ pc \in [Callers -> States] /\ conf \in Configs /\ queue \in [Queues -> Seq(Tasks)]
      /\ done \subseteq Tasks /\ misused \subseteq Slots /\ TypeInv /\ HandsInv
  BY DEF ControlInv, TypeInv, DeletedInv
<1>2. t \in Callers /\ t \in AllThreads /\ t # Owner BY <1>1, ThreadFacts
<1> DEFINE b == pc[t].batch k == pc[t].task
<1>3. b \in Seq(Tasks) /\ (pc[t].at \in Resting <=> b = <<>>) /\ UNCHANGED <<conf, owner, listed>>
      /\ UNCHANGED <<deleted, secondary, stop>>
  BY <1>1, <1>2, StateFacts DEF HandsInv, Loop, Take, Fill, Pass, Begin, Finish
<1>4. pc[t].at \notin {"none", "end"}
  BY DEF Loop, Take, Fill, Pass, Begin, Finish, At
<1>5. ASSUME NEW q, NEW p, NEW r, NEW a \in {"run", "fill"}, TakesFrom(t, q, p, r, a),
             a = "fill" => t \in Primaries, UNCHANGED <<done, misused>>
      PROVE  ControlInv'
  <2>1. b \o p # <<>> BY <1>3, <1>5, JoinFacts DEF TakesFrom
  <2>2. Allowed(t, a, b \o p, k)
    BY <1>2, <1>4, <1>5, <2>1 DEF Allowed, TakesFrom, Resting, Calling
  <2>3. queue' \in [Queues -> Seq(Tasks)] BY <1>1, <1>5 DEF TakesFrom
  <2>4. QED BY <1>1, <1>2, <1>3, <1>5, <2>2, <2>3, ControlMove
<1>6. CASE Loop(t)
  <2>1. PICK a \in {"end", "seek"} : Becomes(t, a, b, k) BY <1>1, <1>2, <1>6, LoopBecomes
  <2>2. pc[t].at \in Resting BY <1>6 DEF Loop, At, Resting
  <2>3. Allowed(t, a, b, k) BY <1>2, <1>3, <1>4, <2>1, <2>2 DEF Allowed, Resting, Calling
  <2>4. QED BY <1>1, <1>2, <1>3, <1>6, <2>3, ControlMove DEF Loop
<1>7. CASE Take(t)
  <2>1. UNCHANGED <<done, misused>> BY <1>7 DEF Take
  <2>2. QED BY <1>1, <1>5, <1>7, <2>1, TakeBecomes
<1>8. CASE Fill(t)
  <2>1. UNCHANGED <<done, misused>> /\ t \in Primaries
    BY <1>1, <1>2, <1>8 DEF Fill, HandsInv
  <2>2. CASE UNCHANGED queue /\ Becomes(t, "run", b, k)
    <3>1. b # <<>> BY <1>3, <1>8 DEF Fill, At, Resting
    <3>2. Allowed(t, "run", b, k)
      BY <1>2, <1>4, <2>2, <3>1 DEF Allowed, Resting, Calling
    <3>3. QED BY <1>1, <1>2, <1>3, <2>1, <2>2, <3>2, ControlMove
  <2>3. QED BY <1>1, <1>5, <1>8, <2>1, <2>2, FillBecomes
<1>9. CASE Pass(t)
  <2>1. Goto(t, "loop") /\ "loop" \in ThreadAt BY <1>9 DEF Pass, ThreadAt, Resting
  <2>2. Becomes(t, "loop", b, k) BY <1>1, <1>2, <2>1, GotoBecomes
  <2>3. pc[t].at \in Resting BY <1>9 DEF Pass, At, Resting
  <2>4. Allowed(t, "loop", b, k) BY <1>2, <1>3, <1>4, <2>2, <2>3 DEF Allowed, Resting, Calling
  <2>5. QED BY <1>1, <1>2, <1>3, <1>9, <2>4, ControlMove DEF Pass
<1>10. CASE Begin(t)
  <2>1. PICK a \in {"finish", "commit", "create"} : Becomes(t, a, b, CommitsOf(Head(b)))
    BY <1>1, <1>2, <1>10, BeginBecomes
  <2>2. b # <<>> BY <1>1, <1>2, <1>10, BeginBecomes
  <2>3. Allowed(t, a, b, CommitsOf(Head(b)))
    BY <1>2, <1>4, <2>1, <2>2 DEF Allowed, Resting, Calling
  <2>4. QED BY <1>1, <1>2, <1>3, <1>10, <2>3, ControlMove DEF Begin
<1>11. CASE Finish(t)
  <2>1. b # <<>> BY <1>1, <1>2, <1>11, FinishBecomes
  <2>2. PICK a \in {"run", "loop"} :
          Becomes(t, a, Tail(b), k) /\ (a = "loop" <=> Tail(b) = <<>>)
    BY <1>1, <1>2, <1>11, FinishBecomes
  <2>3. Allowed(t, a, Tail(b), k) BY <1>2, <1>4, <2>2 DEF Allowed, Resting, Calling
  <2>4. done' = done \cup {Head(b)} /\ UNCHANGED <<queue, misused>> BY <1>11 DEF Finish
  <2>5. Head(b) \in Tasks BY <1>3, <2>1, TailFacts
  <2>6. done' \subseteq Tasks BY <1>1, <2>4, <2>5
  <2>7. QED BY <1>1, <1>2, <1>3, <2>3, <2>4, <2>6, ControlMove
<1>12. QED BY <1>6, <1>7, <1>8, <1>9, <1>10, <1>11

LEMMA CallControl ==
  ASSUME ControlInv, NEW t \in Callers, CallStep(t)
  PROVE  ControlInv'
<1>1. /\ pc \in [Callers -> States] /\ queue \in [Queues -> Seq(Tasks)] /\ TypeInv
      /\ done \subseteq Tasks /\ misused \subseteq Slots
  BY DEF ControlInv, TypeInv, DeletedInv
<1>2. CASE Commit(t)
  <2>1. pc[t].at \in Calling /\ UNCHANGED <<conf, owner, listed, deleted, secondary, stop, done>>
    BY <1>2 DEF Commit, At, Calling
  <2>2. CASE UNCHANGED <<queue, misused>> /\ Becomes(t, "create", pc[t].batch, pc[t].task)
    <3>1. Allowed(t, "create", pc[t].batch, pc[t].task)
      BY <2>1, <2>2, CallHolds DEF Allowed, Resting, Calling
    <3>2. QED BY <1>1, <2>1, <2>2, <3>1, ControlMove
  <2>3. QED BY <1>1, <1>2, <2>1, <2>2, CommitBecomes, PushControl
<1>3. CASE Create(t) BY <1>3, CreateCreates, CreateControl
<1>4. CASE PushPriority(t)
  <2>1. pc[t].at \in Calling /\ UNCHANGED <<conf, owner, listed, deleted, secondary, stop, done>>
    BY <1>4 DEF PushPriority, At, Calling
  <2>2. Push(t) BY <1>4 DEF PushPriority
  <2>3. QED BY <1>1, <2>1, <2>2, PushBecomes, PushControl
<1>5. QED BY <1>2, <1>3, <1>4 DEF CallStep

LEMMA OwnerCommitControl == ControlInv /\ OwnerCommit => ControlInv'
<1> SUFFICES ASSUME ControlInv, OwnerCommit PROVE ControlInv' OBVIOUS
<1>1. /\ pc \in [Callers -> States] /\ conf \in Configs /\ queue \in [Queues -> Seq(Tasks)]
      /\ done \subseteq Tasks /\ misused \subseteq Slots
  BY DEF ControlInv, TypeInv, DeletedInv
<1>2. PICK w \in Roots : pc' = [pc EXCEPT ![Owner].at = "commit", ![Owner].task = {w}]
  BY DEF OwnerCommit
<1>3. Owner \in Callers /\ Owner \notin AllThreads BY <1>1, ThreadFacts
<1>4. {w} \in SUBSET Tasks /\ "commit" \in ThreadAt BY DEF Roots, ThreadAt, Calling
<1>5. PICK k \in SUBSET Tasks : k = {w} BY <1>4
<1>6. Becomes(Owner, "commit", pc[Owner].batch, k)
  BY <1>1, <1>2, <1>3, <1>4, <1>5, TaskMade
<1>7. Allowed(Owner, "commit", pc[Owner].batch, k)
  BY <1>3, <1>5, <1>6 DEF OwnerCommit, Ready, Allowed, Calling, ControlInv, OwnerInv
<1>8. UNCHANGED <<conf, owner, queue, listed, deleted, secondary, stop, done, misused>>
  BY DEF OwnerCommit
<1>9. QED BY <1>1, <1>3, <1>7, <1>8, ControlMove

LEMMA OwnerStartControl == ControlInv /\ OwnerStart => ControlInv'
<1> SUFFICES ASSUME ControlInv, OwnerStart PROVE ControlInv' OBVIOUS
<1> DEFINE p == owner.i
<1>1. /\ pc \in [Callers -> States] /\ conf \in Configs /\ TypeInv /\ conf.primary \in Nat
      /\ p \in Nat /\ p < conf.primary /\ owner.at = "setup"
      /\ owner' = [owner EXCEPT !.at = "list"] /\ pc' = [pc EXCEPT ![p].at = "loop"]
      /\ UNCHANGED <<conf, queue, listed, deleted, secondary, stop, done, misused>>
  BY ConstantFacts DEF ControlInv, TypeInv, OwnerStart
<1>2. p \in Primaries /\ p \in 0..(MaxPrimary - 1) /\ p \in AllThreads /\ p \in Callers
      /\ p \notin Slots /\ p # Owner
  <2>1. p \in Primaries BY <1>1 DEF Primaries
  <2>2. QED BY <1>1, <2>1, ThreadFacts
<1>3. "loop" \in ThreadAt BY DEF ThreadAt, Resting
<1>4. owner'.at = "list" /\ owner'.i = p /\ owner' \in [at : StageAt, i : Nat]
  <2>1. owner \in [at : StageAt, i : Nat] BY <1>1 DEF TypeInv
  <2>2. "list" \in StageAt BY DEF StageAt
  <2>3. QED BY <1>1, <2>1, <2>2
<1> HIDE DEF p
<1>5. Becomes(p, "loop", pc[p].batch, pc[p].task) BY <1>1, <1>2, <1>3, AtMade
<1>6. /\ pc' \in [Callers -> States] /\ pc'[p].at = "loop"
      /\ pc'[p].batch = pc[p].batch /\ pc'[p].task = pc[p].task
      /\ \A u \in Callers : u # p => pc'[u] = pc[u]
  BY <1>1, <1>2, <1>5, BecomesFacts
<1>7. TypeInv' BY <1>1, <1>4, <1>6 DEF TypeInv
<1>8. OwnerInv'
  <2>1. Owner \in Callers BY <1>1, ThreadFacts
  <2>2. pc'[Owner] = pc[Owner] BY <1>2, <1>6, <2>1
  <2>3. SettingUp /\ ~deleted BY <1>1 DEF SettingUp, ControlInv, OwnerInv
  <2>4. ~Exiting' BY <1>4 DEF Exiting
  <2>5. QED BY <1>1, <1>4, <2>2, <2>3, <2>4 DEF OwnerInv, ControlInv
<1>9. PrimaryInv'
  <2>1. Primaries' = Primaries /\ ~deleted BY <1>1 DEF Primaries, ControlInv, OwnerInv
  <2>2. ASSUME NEW u \in 0..(MaxPrimary - 1), u >= conf.primary \/ u > p
        PROVE  pc'[u].at = "none"
    <3>1. u # p /\ u \in Callers BY <1>1, <2>2, ThreadFacts
    <3>2. u >= conf.primary \/ u >= p BY <1>1, <2>2
    <3>3. pc[u].at = "none" BY <1>1, <3>2 DEF ControlInv, PrimaryInv, p
    <3>4. QED BY <1>6, <3>1, <3>3
  <2>3. QED BY <1>1, <1>4, <2>1, <2>2 DEF PrimaryInv
<1>10. SecondaryInv'
  <2>1. \A s \in Slots : s \in Callers /\ s # p BY <1>1, <1>2, ThreadFacts
  <2>2. \A s \in Slots : pc'[s] = pc[s] BY <1>6, <2>1
  <2>3. QED BY <1>1, <1>4, <2>2 DEF SecondaryInv, ControlInv, At
<1>11. HandsInv'
  <2>1. /\ Roots' = Roots /\ Primaries' = Primaries /\ \A v : CommitsOf(v)' = CommitsOf(v)
    BY <1>1 DEF Roots, Primaries, CommitsOf
  <2>2. pc[p].at = "none" BY <1>1, <1>2 DEF ControlInv, PrimaryInv, p
  <2>3. pc[p].batch = <<>> BY <1>2, <2>2 DEF ControlInv, HandsInv, Resting
  <2>4. ASSUME NEW u \in AllThreads
        PROVE  /\ pc'[u].at \in Resting <=> pc'[u].batch = <<>>
               /\ pc'[u].at \in Calling => pc'[u].task \subseteq CommitsOf(Head(pc'[u].batch))
               /\ pc'[u].at = "fill" => u \in Primaries
    <3>1. u \in Callers BY <1>1, ThreadFacts
    <3>2. CASE u = p BY <1>6, <2>3, <3>2 DEF Resting, Calling
    <3>3. CASE u # p BY <1>6, <3>1, <3>3 DEF ControlInv, HandsInv, At
    <3>4. QED BY <3>2, <3>3
  <2>5. Owner \in Callers BY <1>1, ThreadFacts
  <2>6. pc'[Owner].task \subseteq Roots BY <1>2, <1>6, <2>5 DEF ControlInv, HandsInv
  <2>7. QED BY <2>1, <2>4, <2>6 DEF HandsInv, At
<1>12. DeletedInv' BY <1>1 DEF DeletedInv, ControlInv
<1>13. QED BY <1>7, <1>8, <1>9, <1>10, <1>11, <1>12 DEF ControlInv
LEMMA OwnerCreateControl == ControlInv /\ OwnerCreate => ControlInv'
<1> SUFFICES ASSUME ControlInv, OwnerCreate PROVE ControlInv' OBVIOUS
<1>1. /\ pc \in [Callers -> States] /\ conf \in Configs /\ TypeInv
      /\ owner.at = "setup" /\ owner.i = conf.primary
      /\ owner' = [owner EXCEPT !.at = "ready"]
      /\ UNCHANGED <<conf, queue, listed, deleted, secondary, stop, done, misused>>
  BY DEF ControlInv, TypeInv, OwnerCreate
<1>2. Owner \in Callers /\ Owner \notin AllThreads BY <1>1, ThreadFacts
<1>3. owner'.at = "ready" /\ owner' \in [at : StageAt, i : Nat]
  <2>1. owner \in [at : StageAt, i : Nat] /\ "ready" \in StageAt BY <1>1 DEF TypeInv, StageAt
  <2>2. QED BY <1>1, <2>1
<1>4. Becomes(Owner, "create", pc[Owner].batch, pc[Owner].task)
  <2>1. LeftSize(conf.secondary) \in Nat BY <1>1, ConstantFacts, LeftSizeFacts DEF TypeInv
  <2>2. PICK z \in Nat : z = LeftSize(conf.secondary) BY <2>1
  <2>3. pc' = [pc EXCEPT ![Owner].at = "create", ![Owner].size = z] BY <2>2 DEF OwnerCreate
  <2>4. "create" \in ThreadAt BY DEF ThreadAt, Calling
  <2>5. QED BY <1>1, <1>2, <2>3, <2>4, SizeMade
<1>5. /\ pc' \in [Callers -> States] /\ pc'[Owner].at = "create"
      /\ pc'[Owner].batch = pc[Owner].batch /\ pc'[Owner].task = pc[Owner].task
      /\ \A u \in AllThreads : pc'[u] = pc[u]
  BY <1>1, <1>2, <1>4, BecomesFacts, ThreadFacts
<1>6. TypeInv' BY <1>1, <1>3, <1>5 DEF TypeInv
<1>7. ~deleted BY <1>1 DEF ControlInv, OwnerInv
<1>8. OwnerInv'
  BY <1>1, <1>3, <1>5, <1>7 DEF ControlInv, OwnerInv, SettingUp, Exiting, Calling
<1>9. PrimaryInv'
  <2>1. Primaries' = Primaries /\ 0..(MaxPrimary - 1) \subseteq AllThreads
    BY <1>1, ThreadFacts DEF Primaries
  <2>2. QED BY <1>1, <1>3, <1>5, <1>7, <2>1 DEF ControlInv, PrimaryInv, At
<1>10. SecondaryInv'
  <2>1. Slots \subseteq AllThreads BY <1>1, ThreadFacts
  <2>2. QED BY <1>1, <1>3, <1>5, <2>1 DEF ControlInv, SecondaryInv, At
<1>11. HandsInv'
  <2>1. /\ Roots' = Roots /\ Primaries' = Primaries /\ \A v : CommitsOf(v)' = CommitsOf(v)
    BY <1>1 DEF Roots, Primaries, CommitsOf
  <2>2. QED BY <1>5, <2>1 DEF ControlInv, HandsInv, At
<1>12. DeletedInv' BY <1>1 DEF DeletedInv, ControlInv
<1>13. QED BY <1>6, <1>8, <1>9, <1>10, <1>11, <1>12 DEF ControlInv

(* Steps of the owner that no thread sees.                                 *)
OwnerQuiet == \/ OwnerList \/ OwnerRelease \/ OwnerExit \/ OwnerStopPrimary \/ OwnerDelete
              \/ OwnerStopSecondary \/ OwnerEnd

LEMMA RecordFacts ==
  ASSUME owner \in [at : StageAt, i : Nat]
  PROVE  /\ owner.at \in StageAt /\ owner.i \in Nat
         /\ \A a \in StageAt, n \in Nat :
              LET o == [at |-> a, i |-> n] IN
              o.at = a /\ o.i = n /\ o \in [at : StageAt, i : Nat]
         /\ LET o == [owner EXCEPT !.i = @ + 1] IN
            o.at = owner.at /\ o.i = owner.i + 1 /\ o \in [at : StageAt, i : Nat]
         /\ \A a \in StageAt :
              LET o == [owner EXCEPT !.at = a] IN
              o.at = a /\ o.i = owner.i /\ o \in [at : StageAt, i : Nat]
OBVIOUS

(* What is left to show when only the owner has moved.                     *)
LEMMA OwnerMoves ==
  ASSUME ControlInv, UNCHANGED <<conf, queue, pc, done, misused>>,
         owner' \in [at : StageAt, i : Nat], listed' \in Nat, deleted' \in BOOLEAN,
         secondary' \in Seq(Slots), stop' \in [AllThreads -> BOOLEAN],
         OwnerInv', PrimaryInv', SecondaryInv'
  PROVE  ControlInv'
<1>1. HandsInv' /\ DeletedInv' BY HandsSame DEF ControlInv, DeletedInv
<1>2. TypeInv' BY DEF ControlInv, TypeInv
<1>3. QED BY <1>1, <1>2 DEF ControlInv

LEMMA OwnerListControl == ControlInv /\ OwnerList => ControlInv'
<1> SUFFICES ASSUME ControlInv, OwnerList PROVE ControlInv' OBVIOUS
<1>1. /\ TypeInv /\ conf \in Configs /\ conf.primary \in Nat
      /\ owner.at = "list" /\ owner' = [at |-> "setup", i |-> owner.i + 1]
      /\ listed' = listed + 1 /\ UNCHANGED <<conf, queue, deleted, secondary, stop, pc>>
      /\ UNCHANGED <<done, misused>>
  BY ConstantFacts DEF ControlInv, TypeInv, OwnerList
<1>2. owner'.at = "setup" /\ owner'.i = owner.i + 1 /\ owner' \in [at : StageAt, i : Nat]
      /\ owner.i \in Nat
  <2>1. owner.i \in Nat /\ "setup" \in StageAt /\ owner.i + 1 \in Nat
    BY <1>1, RecordFacts DEF TypeInv, StageAt
  <2>2. QED BY <1>1, <2>1
<1>3. OwnerInv' BY <1>1, <1>2 DEF ControlInv, OwnerInv, SettingUp, Exiting
<1>4. PrimaryInv'
  <2>1. owner.i < conf.primary /\ ~deleted BY <1>1 DEF ControlInv, PrimaryInv, OwnerInv
  <2>2. owner'.i <= conf.primary BY <1>1, <1>2, <2>1
  <2>3. ASSUME NEW p \in 0..(MaxPrimary - 1), p >= conf.primary \/ p >= owner'.i
        PROVE  pc[p].at = "none"
    <3>1. p >= conf.primary \/ p > owner.i BY <1>2, <2>3
    <3>2. QED BY <1>1, <3>1 DEF ControlInv, PrimaryInv
  <2>4. QED BY <1>1, <1>2, <2>1, <2>2, <2>3 DEF PrimaryInv
<1>5. SecondaryInv' BY <1>1, <1>2 DEF ControlInv, SecondaryInv, At
<1>6. QED BY <1>1, <1>2, <1>3, <1>4, <1>5, OwnerMoves DEF TypeInv

LEMMA OwnerReleaseControl == ControlInv /\ OwnerRelease => ControlInv'
<1> SUFFICES ASSUME ControlInv, OwnerRelease PROVE ControlInv' OBVIOUS
<1>1. /\ stop' = [s \in AllThreads |-> stop[s] \/ \E j \in 1..conf.release : secondary[j] = s]
      /\ UNCHANGED <<conf, owner, queue, listed, deleted, secondary, pc, done, misused>>
  BY DEF OwnerRelease
<1>2. stop' \in [AllThreads -> BOOLEAN] BY <1>1 DEF ControlInv, TypeInv
<1>3. OwnerInv' BY <1>1 DEF ControlInv, OwnerInv, SettingUp, Exiting
<1>4. PrimaryInv' BY <1>1 DEF ControlInv, PrimaryInv, Primaries, At
<1>5. SecondaryInv' BY <1>1 DEF ControlInv, SecondaryInv, At, Joined
<1>6. QED BY <1>1, <1>2, <1>3, <1>4, <1>5, OwnerMoves DEF ControlInv, TypeInv

LEMMA OwnerExitControl == ControlInv /\ OwnerExit => ControlInv'
<1> SUFFICES ASSUME ControlInv, OwnerExit PROVE ControlInv' OBVIOUS
<1>1. /\ owner.at = "ready" /\ pc[Owner].at = "finish"
      /\ owner' = [at |-> "primaries", i |-> 0]
      /\ UNCHANGED <<conf, queue, listed, deleted, secondary, stop, pc, done, misused>>
  BY DEF OwnerExit, Ready
<1>2. owner'.at = "primaries" /\ owner'.i = 0 /\ owner' \in [at : StageAt, i : Nat]
  BY <1>1 DEF StageAt
<1>3. ~deleted BY <1>1 DEF ControlInv, OwnerInv
<1>4. OwnerInv' BY <1>1, <1>2, <1>3 DEF ControlInv, OwnerInv, SettingUp, Exiting
<1>5. PrimaryInv'
  <2>1. \A p \in Primaries : ~(p < 0) BY DEF Primaries
  <2>2. Primaries' = Primaries BY <1>1 DEF Primaries
  <2>3. QED BY <1>1, <1>2, <1>3, <2>1, <2>2 DEF ControlInv, PrimaryInv, At
<1>6. SecondaryInv' BY <1>1, <1>2 DEF ControlInv, SecondaryInv, At
<1>7. QED BY <1>1, <1>2, <1>4, <1>5, <1>6, OwnerMoves DEF ControlInv, TypeInv

(* Stopping a thread, and joining one.                                     *)
LEMMA StopControl ==
  ASSUME ControlInv, NEW a, NEW t, OwnerStop(a, t)
  PROVE  ControlInv'
<1>1. /\ stop' = [stop EXCEPT ![t] = TRUE]
      /\ UNCHANGED <<conf, owner, queue, listed, deleted, secondary, pc, done, misused>>
  BY DEF OwnerStop
<1>2. stop' \in [AllThreads -> BOOLEAN] BY <1>1 DEF ControlInv, TypeInv
<1>3. OwnerInv' BY <1>1 DEF ControlInv, OwnerInv, SettingUp, Exiting
<1>4. PrimaryInv' BY <1>1 DEF ControlInv, PrimaryInv, Primaries, At
<1>5. SecondaryInv' BY <1>1 DEF ControlInv, SecondaryInv, At, Joined
<1>6. QED BY <1>1, <1>2, <1>3, <1>4, <1>5, OwnerMoves DEF ControlInv, TypeInv

LEMMA JoinPrimaryControl ==
  ASSUME ControlInv, owner.i < conf.primary, OwnerJoin("primaries", owner.i)
  PROVE  ControlInv'
<1>1. /\ owner.at = "primaries" /\ pc[owner.i].at = "end"
      /\ owner' = [owner EXCEPT !.i = @ + 1]
      /\ UNCHANGED <<conf, queue, listed, deleted, secondary, stop, pc, done, misused>>
  BY DEF OwnerJoin, At
<1>2. owner'.at = "primaries" /\ owner'.i = owner.i + 1 /\ owner' \in [at : StageAt, i : Nat]
      /\ owner.i \in Nat
  BY <1>1, RecordFacts DEF ControlInv, TypeInv
<1>3. ~deleted BY <1>1 DEF ControlInv, OwnerInv
<1>4. OwnerInv' BY <1>1, <1>2, <1>3 DEF ControlInv, OwnerInv, SettingUp, Exiting
<1>5. PrimaryInv'
  <2>1. ASSUME NEW p \in Primaries, p < owner'.i PROVE pc[p].at = "end"
    <3>1. p < owner.i \/ p = owner.i BY <1>2, <2>1 DEF Primaries
    <3>2. QED BY <1>1, <2>1, <3>1 DEF ControlInv, PrimaryInv, At
  <2>2. Primaries' = Primaries BY <1>1 DEF Primaries
  <2>3. QED BY <1>1, <1>2, <1>3, <2>1, <2>2 DEF ControlInv, PrimaryInv, At
<1>6. SecondaryInv' BY <1>1, <1>2 DEF ControlInv, SecondaryInv, At
<1>7. QED BY <1>1, <1>2, <1>4, <1>5, <1>6, OwnerMoves DEF ControlInv, TypeInv

LEMMA JoinSecondaryControl ==
  ASSUME ControlInv, owner.i \in 1..Len(secondary),
         OwnerJoin("secondaries", secondary[owner.i])
  PROVE  ControlInv'
<1>1. /\ owner.at = "secondaries" /\ At(secondary[owner.i], "end")
      /\ owner' = [owner EXCEPT !.i = @ + 1]
      /\ UNCHANGED <<conf, queue, listed, deleted, secondary, stop, pc, done, misused>>
  BY DEF OwnerJoin
<1>2. owner'.at = "secondaries" /\ owner'.i = owner.i + 1 /\ owner' \in [at : StageAt, i : Nat]
      /\ owner.i \in Nat
  BY <1>1, RecordFacts DEF ControlInv, TypeInv
<1>3. OwnerInv' BY <1>1, <1>2 DEF ControlInv, OwnerInv, SettingUp, Exiting
<1>4. PrimaryInv' BY <1>1, <1>2 DEF ControlInv, PrimaryInv, Primaries, At
<1>5. SecondaryInv'
  <2>1. Len(secondary) \in Nat /\ DOMAIN secondary = 1..Len(secondary)
    BY DomainFacts DEF ControlInv, TypeInv
  <2>2. owner'.i <= Len(secondary) + 1 BY <1>2, <2>1
  <2>3. ASSUME NEW s \in Slots, NEW j \in DOMAIN secondary, j < owner'.i, secondary[j] = s
        PROVE  At(s, "end")
    <3>1. j < owner.i \/ j = owner.i BY <1>2, <2>1, <2>3
    <3>2. CASE j = owner.i BY <1>1, <2>3, <3>2
    <3>3. CASE j < owner.i BY <1>1, <2>3, <3>3 DEF ControlInv, SecondaryInv, Joined
    <3>4. QED BY <3>1, <3>2, <3>3
  <2>4. QED BY <1>1, <1>2, <2>2, <2>3 DEF ControlInv, SecondaryInv, At, Joined
<1>6. QED BY <1>1, <1>2, <1>3, <1>4, <1>5, OwnerMoves DEF ControlInv, TypeInv

LEMMA OwnerDeleteControl == ControlInv /\ OwnerDelete => ControlInv'
<1> SUFFICES ASSUME ControlInv, OwnerDelete PROVE ControlInv' OBVIOUS
<1>1. /\ owner.at = "primaries" /\ owner.i = conf.primary
      /\ owner' = [at |-> "secondaries", i |-> 1]
      /\ deleted' = TRUE /\ listed' = 0
      /\ UNCHANGED <<conf, queue, secondary, stop, pc, done, misused>>
  BY DEF OwnerDelete
<1>2. owner'.at = "secondaries" /\ owner'.i = 1 /\ owner' \in [at : StageAt, i : Nat]
  BY <1>1 DEF StageAt
<1>3. OwnerInv' BY <1>1, <1>2 DEF ControlInv, OwnerInv, SettingUp, Exiting
<1>4. PrimaryInv'
  <2>1. conf.primary \in Nat BY ConstantFacts DEF ControlInv, TypeInv
  <2>2. \A p \in Primaries : p < conf.primary BY <2>1 DEF Primaries
  <2>3. \A p \in Primaries : At(p, "end")
    BY <1>1, <2>2 DEF ControlInv, PrimaryInv
  <2>4. Primaries' = Primaries BY <1>1 DEF Primaries
  <2>5. QED BY <1>1, <1>2, <2>3, <2>4 DEF ControlInv, PrimaryInv, At
<1>5. SecondaryInv'
  <2>1. Len(secondary) \in Nat /\ DOMAIN secondary = 1..Len(secondary)
    BY DomainFacts DEF ControlInv, TypeInv
  <2>2. \A j \in DOMAIN secondary : ~(j < 1) BY <2>1
  <2>3. QED BY <1>1, <1>2, <2>1, <2>2 DEF ControlInv, SecondaryInv, At, Joined
<1>6. QED BY <1>1, <1>2, <1>3, <1>4, <1>5, OwnerMoves DEF ControlInv, TypeInv

LEMMA OwnerEndControl == ControlInv /\ OwnerEnd => ControlInv'
<1> SUFFICES ASSUME ControlInv, OwnerEnd PROVE ControlInv' OBVIOUS
<1>1. /\ owner.at = "secondaries" /\ owner.i > Len(secondary)
      /\ owner' = [owner EXCEPT !.at = "end"] /\ secondary' = <<>>
      /\ UNCHANGED <<conf, queue, listed, deleted, stop, pc, done, misused>>
  BY DEF OwnerEnd
<1>2. owner'.at = "end" /\ owner'.i = owner.i /\ owner' \in [at : StageAt, i : Nat]
  <2>1. "end" \in StageAt BY DEF StageAt
  <2>2. QED BY <1>1, <2>1, RecordFacts DEF ControlInv, TypeInv
<1>3. OwnerInv' BY <1>1, <1>2 DEF ControlInv, OwnerInv, SettingUp, Exiting
<1>4. PrimaryInv' BY <1>1, <1>2 DEF ControlInv, PrimaryInv, Primaries, At
<1>5. ASSUME NEW s \in Slots PROVE pc[s].at \in {"none", "end"}
  <2>1. CASE s \in ToSet(secondary)
    <3>1. PICK j \in DOMAIN secondary : secondary[j] = s BY <2>1 DEF ToSet
    <3>2. DOMAIN secondary = 1..Len(secondary) /\ Len(secondary) \in Nat /\ owner.i \in Nat
      BY DomainFacts DEF ControlInv, TypeInv
    <3>3. j < owner.i BY <1>1, <3>2
    <3>4. QED BY <1>1, <3>1, <3>3 DEF ControlInv, SecondaryInv, Joined, At
  <2>2. CASE s \notin ToSet(secondary) BY <1>1, <2>2 DEF ControlInv, SecondaryInv, At
  <2>3. QED BY <2>1, <2>2
<1>6. SecondaryInv' BY <1>1, <1>2, <1>5 DEF SecondaryInv
<1>7. <<>> \in Seq(Slots) OBVIOUS
<1>8. QED BY <1>1, <1>2, <1>3, <1>4, <1>6, <1>7, OwnerMoves DEF ControlInv, TypeInv

LEMMA NextControl == ControlInv /\ [Next]_vars => ControlInv'
<1> SUFFICES ASSUME ControlInv, [Next]_vars PROVE ControlInv' OBVIOUS
<1>1. ASSUME NEW t \in Threads, ThreadStep(t) PROVE ControlInv'
  <2>1. t \in Callers BY ThreadFacts DEF ControlInv, TypeInv
  <2>2. QED BY <1>1, <2>1, ThreadControl, CallControl DEF ThreadStep
<1>2. CASE OwnerStep
  <2>1. Owner \in Callers BY DEF Callers
  <2>2. CASE OwnerStopPrimary BY <2>2, StopControl, JoinPrimaryControl DEF OwnerStopPrimary
  <2>3. CASE OwnerStopSecondary
    BY <2>3, StopControl, JoinSecondaryControl DEF OwnerStopSecondary
  <2>4. QED BY <1>2, <2>1, <2>2, <2>3, OwnerStartControl, OwnerListControl,
            OwnerCreateControl, OwnerDeleteControl, OwnerEndControl, CallControl DEF OwnerStep
<1>3. CASE OwnerCommit \/ OwnerRelease \/ OwnerExit
  BY <1>3, OwnerCommitControl, OwnerReleaseControl, OwnerExitControl
<1>4. CASE UNCHANGED vars
  <2>1. OwnerInv' BY <1>4 DEF vars, ControlInv, OwnerInv, SettingUp, Exiting
  <2>2. PrimaryInv' BY <1>4 DEF vars, ControlInv, PrimaryInv, Primaries, At
  <2>3. SecondaryInv' BY <1>4 DEF vars, ControlInv, SecondaryInv, At, Joined
  <2>4. QED BY <1>4, <2>1, <2>2, <2>3, OwnerMoves DEF vars, ControlInv, TypeInv
<1>5. QED BY <1>1, <1>2, <1>3, <1>4 DEF Next
-----------------------------------------------------------------------------
(* Who holds a task, and what a step does to it.                           *)

LEMMA ContentFacts ==
  /\ \A q : Contents(<<"queue", q>>) = ToSet(queue[q])
  /\ \A t : Contents(<<"batch", t>>) = ToSet(pc[t].batch)
  /\ \A t : Contents(<<"task", t>>) = {w \in pc[t].task : pc[t].at \in Calling}
  /\ Contents(<<"done", 0>>) = done
BY DEF Contents

LEMMA HolderCases ==
  ASSUME NEW c \in Holders
  PROVE  \/ \E q \in Queues : c = <<"queue", q>>
         \/ \E t \in AllThreads : c = <<"batch", t>>
         \/ \E t \in Callers : c = <<"task", t>>
         \/ c = <<"done", 0>>
BY DEF Holders

LEMMA HolderFacts ==
  /\ \A q \in Queues : <<"queue", q>> \in Holders
  /\ \A t \in AllThreads : <<"batch", t>> \in Holders
  /\ \A t \in Callers : <<"task", t>> \in Holders
  /\ <<"done", 0>> \in Holders
BY DEF Holders

(* The parts of the state that only the step of thread t can change.       *)
LEMMA OthersKeep ==
  ASSUME pc \in [Callers -> States], AllThreads \subseteq Callers, NEW t \in Callers,
         NEW a, NEW b, NEW k, Becomes(t, a, b, k)
  PROVE  /\ \A u \in AllThreads : u # t =>
              Contents(<<"batch", u>>)' = Contents(<<"batch", u>>) /\ RunBy(u)' = RunBy(u)
         /\ \A u \in Callers : u # t => Contents(<<"task", u>>)' = Contents(<<"task", u>>)
         /\ Contents(<<"batch", t>>)' = ToSet(b)
         /\ Contents(<<"task", t>>)' = {w \in k : a \in Calling}
         /\ RunBy(t)' = IF a \in Calling \cup {"finish"} /\ b # <<>> THEN {Head(b)} ELSE {}
<1>1. /\ pc'[t].at = a /\ pc'[t].batch = b /\ pc'[t].task = k
      /\ \A u \in Callers : u # t => pc'[u] = pc[u]
  BY BecomesFacts
<1>2. ASSUME NEW u \in Callers, u # t
      PROVE  /\ Contents(<<"batch", u>>)' = Contents(<<"batch", u>>)
             /\ Contents(<<"task", u>>)' = Contents(<<"task", u>>) /\ RunBy(u)' = RunBy(u)
  BY <1>1, <1>2 DEF Contents, RunBy, Working
<1>3. Contents(<<"batch", t>>)' = ToSet(b) BY <1>1 DEF Contents
<1>4. Contents(<<"task", t>>)' = {w \in k : a \in Calling} BY <1>1 DEF Contents
<1>5. RunBy(t)' = IF a \in Calling \cup {"finish"} /\ b # <<>> THEN {Head(b)} ELSE {}
  BY <1>1 DEF RunBy, Working, Calling
<1>6. QED BY <1>2, <1>3, <1>4, <1>5

(* No task changes hands.                                                  *)
Still ==
  /\ \A c \in Holders : Contents(c)' = Contents(c)
  /\ \A u \in AllThreads : RunBy(u)' = RunBy(u)

(* The tasks X go from one holder to another.                              *)
Passes(a, b, X) ==
  /\ a \in Holders /\ b \in Holders /\ a # b /\ X \subseteq Contents(a)
  /\ Contents(a)' \subseteq Contents(a) \ X /\ Contents(b)' = Contents(b) \cup X
  /\ \A c \in Holders : c \notin {a, b} => Contents(c)' = Contents(c)

(* The tasks X, which nobody holds, are given to a caller without any.     *)
Given(t, X) ==
  /\ t \in Callers /\ \A c \in Holders : Contents(c) \cap X = {}
  /\ Contents(<<"task", t>>) = {} /\ Contents(<<"task", t>>)' = X
  /\ \A c \in Holders : c # <<"task", t>> => Contents(c)' = Contents(c)

LEMMA PassesDisjoint ==
  ASSUME Disjoint, NEW a, NEW b, NEW X, Passes(a, b, X)
  PROVE  Disjoint'
<1>1. /\ a \in Holders /\ b \in Holders /\ a # b /\ X \subseteq Contents(a)
      /\ Contents(a)' \subseteq Contents(a) \ X /\ Contents(b)' = Contents(b) \cup X
      /\ \A c \in Holders : c \notin {a, b} => Contents(c)' = Contents(c)
  BY DEF Passes
<1>2. Holders' = Holders BY DEF Holders, AllThreads, Callers, Queues, Pool, Priority
<1>3. ASSUME NEW c \in Holders, NEW w, w \in Contents(c)'
      PROVE  IF w \in X THEN c = b ELSE w \in Contents(c)
  <2>1. CASE c = a BY <1>1, <1>3, <2>1
  <2>2. CASE c = b BY <1>1, <1>3, <2>2
  <2>3. CASE c \notin {a, b}
    <3>1. w \in Contents(c) BY <1>1, <1>3, <2>3
    <3>2. w \in X => w \in Contents(a) BY <1>1
    <3>3. w \notin X BY <1>1, <2>3, <3>1, <3>2 DEF Disjoint
    <3>4. QED BY <3>1, <3>3
  <2>4. QED BY <2>1, <2>2, <2>3
<1>4. ASSUME NEW c \in Holders, NEW d \in Holders, NEW w, w \in Contents(c)', w \in Contents(d)'
      PROVE  c = d
  <2>1. CASE w \in X BY <1>3, <1>4, <2>1
  <2>2. CASE w \notin X
    <3>1. w \in Contents(c) /\ w \in Contents(d) BY <1>3, <1>4, <2>2
    <3>2. QED BY <3>1 DEF Disjoint
  <2>3. QED BY <2>1, <2>2
<1>5. QED BY <1>2, <1>4 DEF Disjoint

LEMMA GivenDisjoint ==
  ASSUME Disjoint, NEW t, NEW X, Given(t, X)
  PROVE  Disjoint'
<1>1. /\ t \in Callers /\ \A c \in Holders : Contents(c) \cap X = {}
      /\ Contents(<<"task", t>>)' = X
      /\ \A c \in Holders : c # <<"task", t>> => Contents(c)' = Contents(c)
  BY DEF Given
<1>2. Holders' = Holders BY DEF Holders, AllThreads, Callers, Queues, Pool, Priority
<1>3. PICK a : a = <<"task", t>> OBVIOUS
<1>4. ASSUME NEW c \in Holders, NEW d \in Holders, NEW w, w \in Contents(c)', w \in Contents(d)'
      PROVE  c = d
  <2>1. CASE c = a /\ d = a BY <2>1
  <2>2. CASE c = a /\ d # a
    <3>1. w \in X /\ w \in Contents(d) BY <1>1, <1>3, <1>4, <2>2
    <3>2. QED BY <1>1, <3>1
  <2>3. CASE c # a /\ d = a
    <3>1. w \in X /\ w \in Contents(c) BY <1>1, <1>3, <1>4, <2>3
    <3>2. QED BY <1>1, <3>1
  <2>4. CASE c # a /\ d # a
    <3>1. w \in Contents(c) /\ w \in Contents(d) BY <1>1, <1>3, <1>4, <2>4
    <3>2. QED BY <3>1 DEF Disjoint
  <2>5. QED BY <2>1, <2>2, <2>3, <2>4
<1>5. QED BY <1>2, <1>4 DEF Disjoint

LEMMA StillDisjoint == Disjoint /\ Still => Disjoint'
<1>1. Holders' = Holders BY DEF Holders, AllThreads, Callers, Queues, Pool, Priority
<1>2. QED BY <1>1 DEF Disjoint, Still

SameRuns == \A u \in AllThreads : RunBy(u)' = RunBy(u)
Runs(t, X, Y) ==
  /\ t \in AllThreads /\ RunBy(t) = X /\ RunBy(t)' = Y
  /\ \A u \in AllThreads : u # t => RunBy(u)' = RunBy(u)

(* What a step does to the tasks.                                          *)
Moved == \E q \in Queues, t \in AllThreads : \E X :
  /\ Passes(<<"queue", q>>, <<"batch", t>>, X) /\ SameRuns
  /\ Contents(<<"queue", q>>)' = Contents(<<"queue", q>>) \ X
Started(t, v) ==
  /\ v \in Tasks /\ v \in Contents(<<"batch", t>>) /\ Runs(t, {}, {v})
  /\ \E X \in SUBSET CommitsOf(v) : Given(t, X)
Ended(t, v) ==
  /\ v \in Tasks /\ Passes(<<"batch", t>>, <<"done", 0>>, {v}) /\ Runs(t, {v}, {})
  /\ Contents(<<"batch", t>>)' = Contents(<<"batch", t>>) \ {v}
Pushed(t, w) ==
  /\ w \in Tasks /\ t \in Callers /\ pc[t].at \in Calling /\ SameRuns
  /\ \E q \in Queues : Passes(<<"task", t>>, <<"queue", q>>, {w})
Committed(w) == w \in Roots /\ SameRuns /\ Given(Owner, {w})

LEMMA StillState ==
  ASSUME ControlInv, NEW t \in Callers, NEW a, NEW k, Becomes(t, a, pc[t].batch, k),
         {w \in k : a \in Calling} = {w \in pc[t].task : pc[t].at \in Calling},
         a \in Calling \cup {"finish"} <=> pc[t].at \in Calling \cup {"finish"},
         UNCHANGED <<queue, done>>
  PROVE  Still
<1>1. pc \in [Callers -> States] /\ AllThreads \subseteq Callers
  BY ThreadFacts DEF ControlInv, TypeInv
<1>2. /\ \A u \in AllThreads : u # t =>
           Contents(<<"batch", u>>)' = Contents(<<"batch", u>>) /\ RunBy(u)' = RunBy(u)
      /\ \A u \in Callers : u # t => Contents(<<"task", u>>)' = Contents(<<"task", u>>)
      /\ Contents(<<"batch", t>>)' = ToSet(pc[t].batch)
      /\ Contents(<<"task", t>>)' = {w \in k : a \in Calling}
      /\ RunBy(t)' = IF a \in Calling \cup {"finish"} /\ pc[t].batch # <<>>
                     THEN {Head(pc[t].batch)} ELSE {}
  BY <1>1, OthersKeep
<1>3. Contents(<<"batch", t>>)' = Contents(<<"batch", t>>) BY <1>2, ContentFacts
<1>4. Contents(<<"task", t>>)' = Contents(<<"task", t>>) BY <1>2, ContentFacts
<1>5. RunBy(t)' = RunBy(t) BY <1>2 DEF RunBy, Working, Calling
<1>6. Contents(<<"done", 0>>)' = Contents(<<"done", 0>>) BY DEF Contents
<1>7. \A q : Contents(<<"queue", q>>)' = Contents(<<"queue", q>>) BY DEF Contents
<1>8. \A c \in Holders : Contents(c)' = Contents(c)
  BY <1>2, <1>3, <1>4, <1>6, <1>7, HolderCases
<1>9. QED BY <1>2, <1>5, <1>8 DEF Still

LEMMA SameBatches ==
  ASSUME NoneTwice, UNCHANGED queue, \A u \in AllThreads : pc'[u].batch = pc[u].batch
  PROVE  NoneTwice'
<1>1. Queues' = Queues /\ AllThreads' = AllThreads
  BY DEF Queues, AllThreads, Pool, Priority
<1>2. QED BY <1>1 DEF NoneTwice

LEMMA TakesMoves ==
  ASSUME ControlInv, NoneTwice, Disjoint, NEW t \in AllThreads, NEW q, NEW p, NEW r,
         NEW a \in {"run", "fill"}, TakesFrom(t, q, p, r, a), UNCHANGED done,
         pc[t].at \in {"seek", "fill"}
  PROVE  Moved /\ NoneTwice'
<1>1. pc \in [Callers -> States] /\ AllThreads \subseteq Callers /\ t \in Callers
      /\ queue \in [Queues -> Seq(Tasks)]
  BY ThreadFacts DEF ControlInv, TypeInv
<1>2. /\ q \in Queues /\ p \in Seq(Tasks) /\ r \in Seq(Tasks)
      /\ Parts(queue[q], p, r) /\ queue' = [queue EXCEPT ![q] = r]
      /\ Becomes(t, a, pc[t].batch \o p, pc[t].task)
  BY DEF TakesFrom
<1>3. pc[t].batch \in Seq(Tasks) BY <1>1, StateFacts
<1>4. PICK b : b = pc[t].batch \o p OBVIOUS
<1>5. Becomes(t, a, b, pc[t].task) BY <1>2, <1>4
<1>6. /\ \A u \in AllThreads : u # t =>
           Contents(<<"batch", u>>)' = Contents(<<"batch", u>>) /\ RunBy(u)' = RunBy(u)
      /\ \A u \in Callers : u # t => Contents(<<"task", u>>)' = Contents(<<"task", u>>)
      /\ Contents(<<"batch", t>>)' = ToSet(b)
      /\ Contents(<<"task", t>>)' = {w \in pc[t].task : a \in Calling}
      /\ RunBy(t)' = IF a \in Calling \cup {"finish"} /\ b # <<>> THEN {Head(b)} ELSE {}
  BY <1>1, <1>5, OthersKeep
<1>7. IsInjective(queue[q]) /\ IsInjective(pc[t].batch) BY <1>2 DEF NoneTwice
<1>8. /\ ToSet(p) \cup ToSet(r) = ToSet(queue[q]) /\ ToSet(p) \cap ToSet(r) = {}
      /\ IsInjective(p) /\ IsInjective(r)
  BY <1>2, <1>7 DEF Parts
<1>9. ToSet(pc[t].batch) \cap ToSet(p) = {}
  <2>1. <<"queue", q>> \in Holders /\ <<"batch", t>> \in Holders BY <1>2, HolderFacts
  <2>2. \A w \in Contents(<<"queue", q>>) : w \notin Contents(<<"batch", t>>)
    BY <2>1, PairFacts DEF Disjoint
  <2>3. QED BY <1>8, <2>2, ContentFacts
<1>10. ToSet(b) = ToSet(pc[t].batch) \cup ToSet(p) /\ IsInjective(b)
  BY <1>2, <1>3, <1>4, <1>7, <1>8, <1>9, JoinFacts
<1>11. SameRuns
  <2>1. RunBy(t) = {} BY DEF RunBy, Working
  <2>2. RunBy(t)' = {} BY <1>6 DEF Calling
  <2>3. QED BY <1>6, <2>1, <2>2 DEF SameRuns
<1>12. queue'[q] = r /\ \A x \in Queues : x # q => queue'[x] = queue[x] BY <1>1, <1>2
<1>13. Contents(<<"queue", q>>)' = Contents(<<"queue", q>>) \ ToSet(p)
  <2>1. Contents(<<"queue", q>>)' = ToSet(r) BY <1>12 DEF Contents
  <2>2. QED BY <1>8, <2>1, ContentFacts
<1>14. Contents(<<"batch", t>>)' = Contents(<<"batch", t>>) \cup ToSet(p)
  BY <1>6, <1>10, ContentFacts
<1>15. ToSet(p) \subseteq Contents(<<"queue", q>>) BY <1>8, ContentFacts
<1>16. ASSUME NEW c \in Holders, c \notin {<<"queue", q>>, <<"batch", t>>}
       PROVE  Contents(c)' = Contents(c)
  <2>1. ASSUME NEW x \in Queues, c = <<"queue", x>> PROVE Contents(c)' = Contents(c)
    <3>1. x # q BY <1>16, <2>1
    <3>2. QED BY <1>12, <2>1, <3>1 DEF Contents
  <2>2. ASSUME NEW u \in AllThreads, c = <<"batch", u>> PROVE Contents(c)' = Contents(c)
    BY <1>6, <1>16, <2>2
  <2>3. ASSUME NEW u \in Callers, c = <<"task", u>> PROVE Contents(c)' = Contents(c)
    <3>1. CASE u # t BY <1>6, <2>3, <3>1
    <3>2. CASE u = t
      <4>1. Contents(<<"task", t>>)' = {} /\ Contents(<<"task", t>>) = {}
        BY <1>6, ContentFacts DEF Calling
      <4>2. QED BY <2>3, <3>2, <4>1
    <3>3. QED BY <3>1, <3>2
  <2>4. CASE c = <<"done", 0>> BY <2>4 DEF Contents
  <2>5. QED BY <2>1, <2>2, <2>3, <2>4, HolderCases
<1>17. <<"queue", q>> \in Holders /\ <<"batch", t>> \in Holders /\ <<"queue", q>> # <<"batch", t>>
  BY <1>2, HolderFacts, PairFacts
<1>18. Passes(<<"queue", q>>, <<"batch", t>>, ToSet(p))
  BY <1>13, <1>14, <1>15, <1>16, <1>17 DEF Passes
<1>19. Moved BY <1>2, <1>11, <1>13, <1>18 DEF Moved
<1>20. NoneTwice'
  <2>1. /\ pc'[t].batch = b /\ \A u \in Callers : u # t => pc'[u] = pc[u]
    BY <1>1, <1>5, BecomesFacts
  <2>2. \A u \in AllThreads : IsInjective(pc'[u].batch)
    BY <1>1, <1>10, <2>1 DEF NoneTwice
  <2>3. \A x \in Queues : IsInjective(queue'[x]) BY <1>8, <1>12 DEF NoneTwice
  <2>4. Queues' = Queues /\ AllThreads' = AllThreads
    BY DEF Queues, AllThreads, Pool, Priority
  <2>5. QED BY <2>2, <2>3, <2>4 DEF NoneTwice
<1>21. QED BY <1>19, <1>20

LEMMA BeginStarts ==
  ASSUME ControlInv, NotYetInv, Disjoint, NoneTwice, NEW t \in Threads, Begin(t)
  PROVE  (\E v : Started(t, v)) /\ NoneTwice'
<1>1. /\ pc \in [Callers -> States] /\ AllThreads \subseteq Callers /\ conf \in Configs
      /\ t \in AllThreads /\ t \in Callers /\ TypeInv /\ HandsInv /\ UNCHANGED <<queue, done>>
  BY ThreadFacts DEF ControlInv, TypeInv, Begin
<1>2. pc[t].at = "run" BY DEF Begin, At
<1>3. PICK b : b = pc[t].batch OBVIOUS
<1>4. b \in Seq(Tasks) /\ b # <<>> BY <1>1, <1>3, StateFacts, BeginBecomes
<1>5. PICK v : v = Head(b) OBVIOUS
<1>6. v \in Tasks /\ v \in ToSet(b) BY <1>4, <1>5, TailFacts
<1>7. PICK k : k = CommitsOf(v) OBVIOUS
<1>8. PICK a \in {"finish", "commit", "create"} : Becomes(t, a, b, k)
  BY <1>1, <1>3, <1>5, <1>7, BeginBecomes
<1>9. /\ \A u \in AllThreads : u # t =>
           Contents(<<"batch", u>>)' = Contents(<<"batch", u>>) /\ RunBy(u)' = RunBy(u)
      /\ \A u \in Callers : u # t => Contents(<<"task", u>>)' = Contents(<<"task", u>>)
      /\ Contents(<<"batch", t>>)' = ToSet(b)
      /\ Contents(<<"task", t>>)' = {w \in k : a \in Calling}
      /\ RunBy(t)' = IF a \in Calling \cup {"finish"} /\ b # <<>> THEN {Head(b)} ELSE {}
  BY <1>1, <1>8, OthersKeep
<1>10. v \in Contents(<<"batch", t>>) BY <1>3, <1>6, ContentFacts
<1>11. RunBy(t) = {} BY <1>2 DEF RunBy, Working
<1>12. RunBy(t)' = {v}
  <2>1. a \in Calling \cup {"finish"} BY DEF Calling
  <2>2. QED BY <1>4, <1>5, <1>9, <2>1
<1>13. Runs(t, {}, {v}) BY <1>1, <1>9, <1>11, <1>12 DEF Runs
<1>14. ~Begun(v)
  <2>1. <<"batch", t>> \in Holders /\ <<"done", 0>> \in Holders BY <1>1, HolderFacts
  <2>2. v \notin done
    <3>1. v \notin Contents(<<"done", 0>>) BY <1>10, <2>1, PairFacts DEF Disjoint
    <3>2. QED BY <3>1, ContentFacts
  <2>3. ASSUME NEW u \in AllThreads, v \in RunBy(u) PROVE FALSE
    <3>1. u # t BY <1>11, <2>3
    <3>2. pc[u].batch # <<>> /\ v = Head(pc[u].batch) BY <2>3 DEF RunBy
    <3>3. u \in Callers BY <1>1
    <3>4. v \in ToSet(pc[u].batch) BY <1>1, <3>2, <3>3, StateFacts, TailFacts
    <3>5. v \in Contents(<<"batch", u>>) /\ <<"batch", u>> \in Holders
      BY <3>4, ContentFacts, HolderFacts
    <3>6. <<"batch", u>> = <<"batch", t>> BY <1>10, <2>1, <3>5 DEF Disjoint
    <3>7. QED BY <3>1, <3>6
  <2>4. QED BY <2>2, <2>3 DEF Begun, Running
<1>15. \A c \in Holders : Contents(c) \cap CommitsOf(v) = {}
  BY <1>6, <1>14 DEF NotYetInv
<1>16. PICK X : X = {w \in k : a \in Calling} OBVIOUS
<1>17. X \in SUBSET CommitsOf(v) BY <1>7, <1>16
<1>18. Contents(<<"task", t>>) = {} BY <1>2, ContentFacts DEF Calling
<1>19. ASSUME NEW c \in Holders, c # <<"task", t>> PROVE Contents(c)' = Contents(c)
  <2>1. ASSUME NEW x \in Queues, c = <<"queue", x>> PROVE Contents(c)' = Contents(c)
    BY <1>1, <2>1 DEF Contents
  <2>2. ASSUME NEW u \in AllThreads, c = <<"batch", u>> PROVE Contents(c)' = Contents(c)
    <3>1. CASE u = t BY <1>3, <1>9, <2>2, <3>1, ContentFacts
    <3>2. CASE u # t BY <1>9, <2>2, <3>2
    <3>3. QED BY <3>1, <3>2
  <2>3. ASSUME NEW u \in Callers, c = <<"task", u>> PROVE Contents(c)' = Contents(c)
    BY <1>9, <1>19, <2>3
  <2>4. CASE c = <<"done", 0>> BY <1>1, <2>4 DEF Contents
  <2>5. QED BY <2>1, <2>2, <2>3, <2>4, HolderCases
<1>20. Given(t, X) BY <1>1, <1>9, <1>15, <1>16, <1>17, <1>18, <1>19 DEF Given
<1>21. Started(t, v) BY <1>6, <1>10, <1>13, <1>17, <1>20 DEF Started
<1>22. NoneTwice'
  <2>1. /\ pc'[t].batch = b /\ \A u \in Callers : u # t => pc'[u] = pc[u]
    BY <1>1, <1>8, BecomesFacts
  <2>2. \A u \in AllThreads : pc'[u].batch = pc[u].batch BY <1>1, <1>3, <2>1
  <2>3. QED BY <1>1, <2>2, SameBatches
<1>23. QED BY <1>21, <1>22

LEMMA FinishEnds ==
  ASSUME ControlInv, NoneTwice, Disjoint, NEW t \in Threads, Finish(t)
  PROVE  (\E v : Ended(t, v)) /\ NoneTwice'
<1>1. /\ pc \in [Callers -> States] /\ AllThreads \subseteq Callers /\ conf \in Configs
      /\ t \in AllThreads /\ t \in Callers /\ TypeInv /\ HandsInv /\ UNCHANGED queue
  BY ThreadFacts DEF ControlInv, TypeInv, Finish
<1>2. pc[t].at = "finish" BY DEF Finish, At
<1>3. PICK b : b = pc[t].batch OBVIOUS
<1>4. b \in Seq(Tasks) /\ b # <<>> BY <1>1, <1>3, StateFacts, FinishBecomes
<1>5. PICK v : v = Head(b) OBVIOUS
<1>6. IsInjective(b) BY <1>1, <1>3 DEF NoneTwice
<1>7. /\ v \in Tasks /\ v \in ToSet(b) /\ ToSet(Tail(b)) \cup {v} = ToSet(b)
      /\ IsInjective(Tail(b)) /\ v \notin ToSet(Tail(b))
  BY <1>4, <1>5, <1>6, TailFacts
<1>8. PICK r : r = Tail(b) OBVIOUS
<1>9. PICK a \in {"run", "loop"} : Becomes(t, a, r, pc[t].task)
  BY <1>1, <1>3, <1>8, FinishBecomes
<1>10. /\ \A u \in AllThreads : u # t =>
            Contents(<<"batch", u>>)' = Contents(<<"batch", u>>) /\ RunBy(u)' = RunBy(u)
       /\ \A u \in Callers : u # t => Contents(<<"task", u>>)' = Contents(<<"task", u>>)
       /\ Contents(<<"batch", t>>)' = ToSet(r)
       /\ Contents(<<"task", t>>)' = {w \in pc[t].task : a \in Calling}
       /\ RunBy(t)' = IF a \in Calling \cup {"finish"} /\ r # <<>> THEN {Head(r)} ELSE {}
  BY <1>1, <1>9, OthersKeep
<1>11. RunBy(t) = {v} BY <1>2, <1>3, <1>4, <1>5 DEF RunBy, Working
<1>12. RunBy(t)' = {} BY <1>10 DEF Calling
<1>13. Runs(t, {v}, {}) BY <1>1, <1>10, <1>11, <1>12 DEF Runs
<1>14. Contents(<<"batch", t>>)' = Contents(<<"batch", t>>) \ {v}
  <2>1. Contents(<<"batch", t>>) = ToSet(b) BY <1>3, ContentFacts
  <2>2. QED BY <1>7, <1>8, <1>10, <2>1
<1>15. Contents(<<"done", 0>>)' = Contents(<<"done", 0>>) \cup {v}
  <2>1. done' = done \cup {v} BY <1>3, <1>5 DEF Finish
  <2>2. QED BY <2>1 DEF Contents
<1>16. ASSUME NEW c \in Holders, c \notin {<<"batch", t>>, <<"done", 0>>}
       PROVE  Contents(c)' = Contents(c)
  <2>1. ASSUME NEW x \in Queues, c = <<"queue", x>> PROVE Contents(c)' = Contents(c)
    BY <1>1, <2>1 DEF Contents
  <2>2. ASSUME NEW u \in AllThreads, c = <<"batch", u>> PROVE Contents(c)' = Contents(c)
    BY <1>10, <1>16, <2>2
  <2>3. ASSUME NEW u \in Callers, c = <<"task", u>> PROVE Contents(c)' = Contents(c)
    <3>1. CASE u # t BY <1>10, <2>3, <3>1
    <3>2. CASE u = t
      <4>1. Contents(<<"task", t>>)' = {} /\ Contents(<<"task", t>>) = {}
        BY <1>2, <1>10, ContentFacts DEF Calling
      <4>2. QED BY <2>3, <3>2, <4>1
    <3>3. QED BY <3>1, <3>2
  <2>4. QED BY <1>16, <2>1, <2>2, <2>3, HolderCases
<1>17. /\ <<"batch", t>> \in Holders /\ <<"done", 0>> \in Holders
       /\ <<"batch", t>> # <<"done", 0>>
  BY <1>1, HolderFacts, PairFacts
<1>18. {v} \subseteq Contents(<<"batch", t>>) BY <1>3, <1>7, ContentFacts
<1>19. Passes(<<"batch", t>>, <<"done", 0>>, {v})
  BY <1>14, <1>15, <1>16, <1>17, <1>18 DEF Passes
<1>20. Ended(t, v) BY <1>7, <1>13, <1>14, <1>19 DEF Ended
<1>21. NoneTwice'
  <2>1. /\ pc'[t].batch = r /\ \A u \in Callers : u # t => pc'[u] = pc[u]
    BY <1>1, <1>9, BecomesFacts
  <2>2. \A u \in AllThreads : IsInjective(pc'[u].batch)
    BY <1>1, <1>7, <1>8, <2>1 DEF NoneTwice
  <2>3. Queues' = Queues /\ AllThreads' = AllThreads
    BY DEF Queues, AllThreads, Pool, Priority
  <2>4. QED BY <1>1, <2>2, <2>3 DEF NoneTwice
<1>22. QED BY <1>20, <1>21

LEMMA PushPushes ==
  ASSUME ControlInv, NoneTwice, Disjoint, NEW t \in Callers, pc[t].at \in Calling,
         NEW w, NEW q, PushesTo(t, w, q), UNCHANGED done
  PROVE  Pushed(t, w) /\ NoneTwice'
<1>1. /\ pc \in [Callers -> States] /\ AllThreads \subseteq Callers /\ Owner \notin AllThreads
      /\ queue \in [Queues -> Seq(Tasks)]
  BY ThreadFacts DEF ControlInv, TypeInv
<1>2. /\ w \in pc[t].task /\ w \in Tasks /\ q \in Queues
      /\ queue' = [queue EXCEPT ![q] = Append(queue[q], w)]
      /\ Becomes(t, "finish", pc[t].batch, pc[t].task)
  BY DEF PushesTo
<1>3. /\ \A u \in AllThreads : u # t =>
           Contents(<<"batch", u>>)' = Contents(<<"batch", u>>) /\ RunBy(u)' = RunBy(u)
      /\ \A u \in Callers : u # t => Contents(<<"task", u>>)' = Contents(<<"task", u>>)
      /\ Contents(<<"batch", t>>)' = ToSet(pc[t].batch)
      /\ Contents(<<"task", t>>)' = {x \in pc[t].task : "finish" \in Calling}
      /\ RunBy(t)' = IF /\ "finish" \in Calling \cup {"finish"}
                        /\ pc[t].batch # <<>> THEN {Head(pc[t].batch)} ELSE {}
  BY <1>1, <1>2, OthersKeep
<1>4. Contents(<<"task", t>>)' = {} BY <1>3 DEF Calling
<1>5. SameRuns
  <2>1. RunBy(t)' = RunBy(t) BY <1>3 DEF RunBy, Working, Calling
  <2>2. QED BY <1>3, <2>1 DEF SameRuns
<1>6. w \in Contents(<<"task", t>>) BY <1>2, ContentFacts
<1>7. queue[q] \in Seq(Tasks) /\ IsInjective(queue[q]) BY <1>1, <1>2 DEF NoneTwice
<1>8. w \notin ToSet(queue[q])
  <2>1. <<"task", t>> \in Holders /\ <<"queue", q>> \in Holders BY <1>2, HolderFacts
  <2>2. w \notin Contents(<<"queue", q>>) BY <1>6, <2>1, PairFacts DEF Disjoint
  <2>3. QED BY <2>2, ContentFacts
<1>9. /\ ToSet(Append(queue[q], w)) = ToSet(queue[q]) \cup {w}
      /\ IsInjective(Append(queue[q], w))
  BY <1>2, <1>7, <1>8, AppendFacts
<1>10. /\ queue'[q] = Append(queue[q], w)
       /\ \A x \in Queues : x # q => queue'[x] = queue[x]
  BY <1>1, <1>2
<1>11. Contents(<<"queue", q>>)' = Contents(<<"queue", q>>) \cup {w}
  BY <1>9, <1>10 DEF Contents
<1>12. ASSUME NEW c \in Holders, c \notin {<<"task", t>>, <<"queue", q>>}
       PROVE  Contents(c)' = Contents(c)
  <2>1. ASSUME NEW x \in Queues, c = <<"queue", x>> PROVE Contents(c)' = Contents(c)
    <3>1. x # q BY <1>12, <2>1
    <3>2. QED BY <1>10, <2>1, <3>1 DEF Contents
  <2>2. ASSUME NEW u \in AllThreads, c = <<"batch", u>> PROVE Contents(c)' = Contents(c)
    BY <1>3, <2>2, ContentFacts
  <2>3. ASSUME NEW u \in Callers, c = <<"task", u>> PROVE Contents(c)' = Contents(c)
    BY <1>3, <1>12, <2>3
  <2>4. CASE c = <<"done", 0>> BY <2>4 DEF Contents
  <2>5. QED BY <2>1, <2>2, <2>3, <2>4, HolderCases
<1>13. Passes(<<"task", t>>, <<"queue", q>>, {w})
  BY <1>2, <1>4, <1>6, <1>11, <1>12, HolderFacts, PairFacts DEF Passes
<1>14. Pushed(t, w) BY <1>2, <1>5, <1>13 DEF Pushed
<1>15. NoneTwice'
  <2>1. /\ pc'[t].batch = pc[t].batch /\ \A u \in Callers : u # t => pc'[u] = pc[u]
    BY <1>1, <1>2, BecomesFacts
  <2>2. \A u \in AllThreads : IsInjective(pc'[u].batch) BY <1>1, <2>1 DEF NoneTwice
  <2>3. \A x \in Queues : IsInjective(queue'[x]) BY <1>9, <1>10 DEF NoneTwice
  <2>4. Queues' = Queues /\ AllThreads' = AllThreads
    BY DEF Queues, AllThreads, Pool, Priority
  <2>5. QED BY <2>2, <2>3, <2>4 DEF NoneTwice
<1>16. QED BY <1>14, <1>15

LEMMA CreateStill ==
  ASSUME ControlInv, NoneTwice, NEW t \in Callers, Create(t)
  PROVE  Still /\ NoneTwice'
<1>1. /\ pc \in [Callers -> States] /\ AllThreads \subseteq Callers /\ conf \in Configs
      /\ Slots \subseteq AllThreads
  BY ThreadFacts DEF ControlInv, TypeInv
<1>2. PICK new : Creates(t, new) BY CreateCreates
<1>3. UNCHANGED <<conf, owner, queue, listed, deleted, stop, done, misused>> BY CreateCreates
<1>4. /\ new \subseteq Slots /\ t \notin new /\ \A s \in new : At(s, "none")
      /\ pc'[t].at \in {"push", "finish"}
      /\ pc'[t].batch = pc[t].batch /\ pc'[t].task = pc[t].task
      /\ \A s \in new : pc'[s].at = "loop" /\ pc'[s].batch = <<>>
      /\ \A u \in Callers : u # t /\ u \notin new => pc'[u] = pc[u]
  BY <1>2 DEF Creates
<1>5. pc[t].at = "create" BY DEF Create, At
<1>6. pc[t].task # {} => pc'[t].at = "push"
  <2> SUFFICES ASSUME pc[t].task # {} PROVE pc'[t].at = "push" OBVIOUS
  <2>1. PICK x \in SUBSET (Slots \ ToSet(secondary)) :
          pc' = [s \in DOMAIN pc |->
             IF s \in x THEN [Idle EXCEPT !.at = "loop"]
             ELSE IF s = t
             THEN [pc[s] EXCEPT !.at = IF pc[t].task # {} THEN "push" ELSE "finish"]
             ELSE pc[s]]
    BY DEF Create
  <2>2. t \notin x
    <3>1. owner.at # "end" BY <1>5, EndRests
    <3>2. \A s \in x : pc[s].at = "none" BY <3>1 DEF ControlInv, SecondaryInv, At
    <3>3. QED BY <1>5, <3>2
  <2>3. pc'[t] = [pc[t] EXCEPT !.at = "push"] BY <1>1, <2>1, <2>2
  <2>4. QED BY <1>1, <2>3 DEF States
<1>7. ASSUME NEW u \in Callers
      PROVE  /\ pc'[u].batch = pc[u].batch
             /\ {w \in pc'[u].task : pc'[u].at \in Calling}
                = {w \in pc[u].task : pc[u].at \in Calling}
             /\ u \in AllThreads => RunBy(u)' = RunBy(u)
  <2>1. CASE u = t
    <3>1. pc'[u].batch = pc[u].batch /\ pc'[u].task = pc[u].task BY <1>4, <2>1
    <3>2. CASE pc[u].task = {} BY <1>4, <1>5, <2>1, <3>1, <3>2 DEF RunBy, Working
    <3>3. CASE pc[u].task # {}
      <4>1. pc'[u].at = "push" /\ pc[u].at = "create" BY <1>5, <1>6, <2>1, <3>3
      <4>2. QED BY <3>1, <4>1 DEF RunBy, Working, Calling
    <3>4. QED BY <3>2, <3>3
  <2>2. CASE u \in new
    <3>1. pc[u].at = "none" /\ u \in AllThreads BY <1>1, <1>4, <2>2 DEF At
    <3>2. pc[u].batch = <<>> BY <3>1 DEF ControlInv, HandsInv, Resting
    <3>3. pc'[u].at = "loop" /\ pc'[u].batch = <<>> BY <1>4, <2>2
    <3>4. QED BY <3>1, <3>2, <3>3 DEF RunBy, Working, Calling
  <2>3. CASE u # t /\ u \notin new
    <3>1. pc'[u] = pc[u] BY <1>4, <2>3
    <3>2. QED BY <3>1 DEF RunBy, Working
  <2>4. QED BY <2>1, <2>2, <2>3
<1>8. ASSUME NEW c \in Holders PROVE Contents(c)' = Contents(c)
  <2>1. ASSUME NEW x \in Queues, c = <<"queue", x>> PROVE Contents(c)' = Contents(c)
    BY <1>3, <2>1 DEF Contents
  <2>2. ASSUME NEW u \in AllThreads, c = <<"batch", u>> PROVE Contents(c)' = Contents(c)
    BY <1>1, <1>7, <2>2 DEF Contents
  <2>3. ASSUME NEW u \in Callers, c = <<"task", u>> PROVE Contents(c)' = Contents(c)
    <3>1. Contents(c)' = {w \in pc'[u].task : pc'[u].at \in Calling} BY <2>3 DEF Contents
    <3>2. Contents(c) = {w \in pc[u].task : pc[u].at \in Calling} BY <2>3 DEF Contents
    <3>3. QED BY <1>7, <3>1, <3>2
  <2>4. CASE c = <<"done", 0>> BY <1>3, <2>4 DEF Contents
  <2>5. QED BY <2>1, <2>2, <2>3, <2>4, HolderCases
<1>9. Still BY <1>1, <1>7, <1>8 DEF Still
<1>10. NoneTwice' BY <1>1, <1>3, <1>7, SameBatches
<1>11. QED BY <1>9, <1>10

(* A root that nobody has seen is nowhere.                                 *)
LEMMA OwnerCommits ==
  ASSUME ControlInv, NoneTwice, OwnerCommit
  PROVE  (\E w : Committed(w)) /\ NoneTwice'
<1>1. /\ pc \in [Callers -> States] /\ AllThreads \subseteq Callers /\ conf \in Configs
      /\ Owner \in Callers /\ Owner \notin AllThreads
      /\ UNCHANGED <<queue, done>>
  BY ThreadFacts DEF ControlInv, TypeInv, OwnerCommit
<1>2. PICK w \in Roots : ~Seen(w) /\ pc' = [pc EXCEPT ![Owner].at = "commit", ![Owner].task = {w}]
  BY DEF OwnerCommit
<1>3. {w} \in SUBSET Tasks /\ "commit" \in ThreadAt BY DEF Roots, ThreadAt, Calling
<1>4. PICK k \in SUBSET Tasks : k = {w} BY <1>3
<1>5. Becomes(Owner, "commit", pc[Owner].batch, k) BY <1>1, <1>2, <1>3, <1>4, TaskMade
<1>6. /\ \A u \in AllThreads : u # Owner =>
           Contents(<<"batch", u>>)' = Contents(<<"batch", u>>) /\ RunBy(u)' = RunBy(u)
      /\ \A u \in Callers : u # Owner => Contents(<<"task", u>>)' = Contents(<<"task", u>>)
      /\ Contents(<<"task", Owner>>)' = {x \in k : "commit" \in Calling}
  BY <1>1, <1>5, OthersKeep
<1>7. Contents(<<"task", Owner>>)' = {w} BY <1>4, <1>6 DEF Calling
<1>8. Contents(<<"task", Owner>>) = {}
  <2>1. pc[Owner].at = "finish" BY DEF OwnerCommit, Ready
  <2>2. QED BY <2>1, ContentFacts DEF Calling
<1>9. ASSUME NEW c \in Holders PROVE w \notin Contents(c)
  <2>1. ASSUME NEW x \in Queues, c = <<"queue", x>> PROVE w \notin Contents(c)
    BY <1>2, <2>1, ContentFacts DEF Seen
  <2>2. ASSUME NEW u \in AllThreads, c = <<"batch", u>> PROVE w \notin Contents(c)
    BY <1>2, <2>2, ContentFacts DEF Seen
  <2>3. ASSUME NEW u \in Callers, c = <<"task", u>> PROVE w \notin Contents(c)
    <3>1. CASE u = Owner BY <1>8, <2>3, <3>1
    <3>2. CASE u # Owner
      <4> SUFFICES ASSUME w \in Contents(c) PROVE FALSE OBVIOUS
      <4>1. u \in AllThreads BY <1>1, <3>2, ThreadFacts
      <4>2. pc[u].at \in Calling /\ w \in pc[u].task BY <2>3, ContentFacts
      <4>3. /\ pc[u].batch # <<>> /\ w \in CommitsOf(Head(pc[u].batch))
        BY <1>1, <4>1, <4>2, CallHolds
      <4>4. Head(pc[u].batch) \in Tasks BY <1>1, <4>1, <4>3, StateFacts, TailFacts
      <4>5. PICK v \in Tasks : v = Head(pc[u].batch) BY <4>4
      <4>6. conf.does[v].kind = "commit" /\ conf.does[v].task = w
        BY <4>3, <4>5 DEF CommitsOf
      <4>7. QED BY <4>6 DEF Roots
    <3>3. QED BY <3>1, <3>2
  <2>4. CASE c = <<"done", 0>> BY <1>2, <2>4, ContentFacts DEF Seen
  <2>5. QED BY <2>1, <2>2, <2>3, <2>4, HolderCases
<1>10. ASSUME NEW c \in Holders, c # <<"task", Owner>> PROVE Contents(c)' = Contents(c)
  <2>1. ASSUME NEW x \in Queues, c = <<"queue", x>> PROVE Contents(c)' = Contents(c)
    BY <1>1, <2>1 DEF Contents
  <2>2. ASSUME NEW u \in AllThreads, c = <<"batch", u>> PROVE Contents(c)' = Contents(c)
    BY <1>1, <1>6, <2>2
  <2>3. ASSUME NEW u \in Callers, c = <<"task", u>> PROVE Contents(c)' = Contents(c)
    BY <1>6, <1>10, <2>3
  <2>4. CASE c = <<"done", 0>> BY <1>1, <2>4 DEF Contents
  <2>5. QED BY <2>1, <2>2, <2>3, <2>4, HolderCases
<1>11. Given(Owner, {w}) BY <1>1, <1>7, <1>8, <1>9, <1>10 DEF Given
<1>12. SameRuns BY <1>1, <1>6 DEF SameRuns
<1>13. Committed(w) BY <1>2, <1>11, <1>12 DEF Committed
<1>14. NoneTwice'
  <2>1. \A u \in Callers : u # Owner => pc'[u] = pc[u] BY <1>1, <1>5, BecomesFacts
  <2>2. \A u \in AllThreads : pc'[u].batch = pc[u].batch BY <1>1, <2>1
  <2>3. QED BY <1>1, <2>2, SameBatches
<1>15. QED BY <1>13, <1>14

LEMMA SameStill ==
  ASSUME NoneTwice, UNCHANGED <<queue, pc, done>>
  PROVE  Still /\ NoneTwice'
<1>1. Still BY DEF Still, Contents, RunBy, Working
<1>2. NoneTwice' BY SameBatches
<1>3. QED BY <1>1, <1>2

LEMMA OwnerStartStill ==
  ASSUME ControlInv, NoneTwice, OwnerStart
  PROVE  Still /\ NoneTwice'
<1>1. PICK p : p = owner.i OBVIOUS
<1>2. /\ pc \in [Callers -> States] /\ conf \in Configs /\ conf.primary \in Nat
      /\ p \in Nat /\ p < conf.primary /\ owner.at = "setup"
      /\ pc' = [pc EXCEPT ![p].at = "loop"] /\ UNCHANGED <<queue, done>>
  BY <1>1, ConstantFacts DEF ControlInv, TypeInv, OwnerStart
<1>3. p \in 0..(MaxPrimary - 1) /\ p \in AllThreads /\ p \in Callers
  <2>1. p \in Primaries BY <1>2 DEF Primaries
  <2>2. QED BY <1>2, <2>1, ThreadFacts
<1>4. "loop" \in ThreadAt BY DEF ThreadAt, Resting
<1>5. Becomes(p, "loop", pc[p].batch, pc[p].task) BY <1>2, <1>3, <1>4, AtMade
<1>6. pc[p].at = "none" BY <1>1, <1>2, <1>3 DEF ControlInv, PrimaryInv
<1>7. Still
  <2>1. {w \in pc[p].task : "loop" \in Calling} = {w \in pc[p].task : pc[p].at \in Calling}
    BY <1>6 DEF Calling
  <2>2. "loop" \in Calling \cup {"finish"} <=> pc[p].at \in Calling \cup {"finish"}
    BY <1>6 DEF Calling
  <2>3. QED BY <1>2, <1>3, <1>5, <2>1, <2>2, StillState
<1>8. NoneTwice'
  <2>1. /\ pc'[p].batch = pc[p].batch /\ \A u \in Callers : u # p => pc'[u] = pc[u]
    BY <1>2, <1>3, <1>5, BecomesFacts
  <2>2. \A u \in AllThreads : pc'[u].batch = pc[u].batch BY <1>2, <2>1, ThreadFacts
  <2>3. QED BY <1>2, <2>2, SameBatches
<1>9. QED BY <1>7, <1>8

LEMMA OwnerCreateStill ==
  ASSUME ControlInv, NoneTwice, OwnerCreate
  PROVE  Still /\ NoneTwice'
<1>1. /\ pc \in [Callers -> States] /\ conf \in Configs /\ owner.at = "setup"
      /\ TypeInv /\ UNCHANGED <<queue, done>> /\ Owner \in Callers /\ Owner \notin AllThreads
      /\ AllThreads \subseteq Callers
  BY ThreadFacts DEF ControlInv, TypeInv, OwnerCreate
<1>2. Becomes(Owner, "create", pc[Owner].batch, pc[Owner].task)
  <2>1. LeftSize(conf.secondary) \in Nat BY <1>1, ConstantFacts, LeftSizeFacts DEF TypeInv
  <2>2. PICK z \in Nat : z = LeftSize(conf.secondary) BY <2>1
  <2>3. pc' = [pc EXCEPT ![Owner].at = "create", ![Owner].size = z] BY <2>2 DEF OwnerCreate
  <2>4. "create" \in ThreadAt BY DEF ThreadAt, Calling
  <2>5. QED BY <1>1, <2>3, <2>4, SizeMade
<1>3. pc[Owner].task = {} BY <1>1 DEF ControlInv, OwnerInv, SettingUp
<1>4. /\ \A u \in AllThreads : u # Owner =>
           Contents(<<"batch", u>>)' = Contents(<<"batch", u>>) /\ RunBy(u)' = RunBy(u)
      /\ \A u \in Callers : u # Owner => Contents(<<"task", u>>)' = Contents(<<"task", u>>)
      /\ Contents(<<"task", Owner>>)' = {w \in pc[Owner].task : "create" \in Calling}
  BY <1>1, <1>2, OthersKeep
<1>5. Contents(<<"task", Owner>>)' = Contents(<<"task", Owner>>)
  BY <1>3, <1>4, ContentFacts
<1>6. ASSUME NEW c \in Holders PROVE Contents(c)' = Contents(c)
  <2>1. ASSUME NEW x \in Queues, c = <<"queue", x>> PROVE Contents(c)' = Contents(c)
    BY <1>1, <2>1 DEF Contents
  <2>2. ASSUME NEW u \in AllThreads, c = <<"batch", u>> PROVE Contents(c)' = Contents(c)
    BY <1>1, <1>4, <2>2
  <2>3. ASSUME NEW u \in Callers, c = <<"task", u>> PROVE Contents(c)' = Contents(c)
    BY <1>4, <1>5, <2>3
  <2>4. CASE c = <<"done", 0>> BY <1>1, <2>4 DEF Contents
  <2>5. QED BY <2>1, <2>2, <2>3, <2>4, HolderCases
<1>7. Still BY <1>1, <1>4, <1>6 DEF Still
<1>8. NoneTwice'
  <2>1. \A u \in Callers : u # Owner => pc'[u] = pc[u] BY <1>1, <1>2, BecomesFacts
  <2>2. \A u \in AllThreads : pc'[u].batch = pc[u].batch BY <1>1, <2>1
  <2>3. QED BY <1>1, <2>2, SameBatches
<1>9. QED BY <1>7, <1>8

(* A step of thread t that keeps what t has in its hands.                  *)
LEMMA KeepsStill ==
  ASSUME ControlInv, NoneTwice, NEW t \in Callers, NEW a,
         Becomes(t, a, pc[t].batch, pc[t].task), UNCHANGED <<queue, done>>,
         a \in Calling <=> pc[t].at \in Calling, a = "finish" <=> pc[t].at = "finish"
  PROVE  Still /\ NoneTwice'
<1>1. /\ pc \in [Callers -> States] /\ AllThreads \subseteq Callers
  BY ThreadFacts DEF ControlInv, TypeInv
<1>2. {w \in pc[t].task : a \in Calling} = {w \in pc[t].task : pc[t].at \in Calling}
  OBVIOUS
<1>3. Still BY <1>2, StillState
<1>4. /\ pc'[t].batch = pc[t].batch /\ \A u \in Callers : u # t => pc'[u] = pc[u]
  BY <1>1, BecomesFacts
<1>5. \A u \in AllThreads : pc'[u].batch = pc[u].batch BY <1>1, <1>4
<1>6. NoneTwice' BY <1>5, SameBatches
<1>7. QED BY <1>3, <1>6

Changes == \/ Moved \/ \E t, v : Started(t, v) \/ Ended(t, v) \/ Pushed(t, v)
           \/ \E w : Committed(w)

LEMMA CallEffects ==
  ASSUME IInv, NEW t \in Callers, CallStep(t)
  PROVE  (Still \/ Changes) /\ NoneTwice' /\ owner.at # "end" /\ UNCHANGED <<conf, owner>>
<1>1. ControlInv /\ Disjoint /\ NoneTwice /\ TypeInv BY DEF IInv, ControlInv
<1>2. pc[t].at \in Calling BY DEF CallStep, Commit, Create, PushPriority, At, Calling
<1>3. owner.at # "end" BY <1>1, <1>2, EndRests DEF Calling
<1>4. ASSUME NEW w, NEW q, PushesTo(t, w, q), UNCHANGED done
      PROVE  (Still \/ Changes) /\ NoneTwice'
  BY <1>1, <1>2, <1>4, PushPushes DEF Changes
<1>5. CASE Commit(t)
  <2>1. UNCHANGED <<conf, owner, done>> BY <1>5 DEF Commit
  <2>2. CASE UNCHANGED <<queue, misused>> /\ Becomes(t, "create", pc[t].batch, pc[t].task)
    <3>1. "create" \in Calling /\ "create" # "finish" /\ pc[t].at # "finish"
      BY <1>2 DEF Calling
    <3>2. QED BY <1>1, <1>2, <1>3, <2>1, <2>2, <3>1, KeepsStill
  <2>3. QED BY <1>1, <1>3, <1>4, <1>5, <2>1, <2>2, CommitBecomes
<1>6. CASE Create(t) BY <1>1, <1>3, <1>6, CreateStill, CreateCreates
<1>7. CASE PushPriority(t)
  <2>1. Push(t) /\ UNCHANGED <<conf, owner, done>> BY <1>7 DEF PushPriority
  <2>2. QED BY <1>1, <1>3, <1>4, <2>1, PushBecomes
<1>8. QED BY <1>5, <1>6, <1>7 DEF CallStep

LEMMA ThreadEffects ==
  ASSUME IInv, NEW t \in Threads, ThreadStep(t)
  PROVE  (Still \/ Changes) /\ NoneTwice' /\ owner.at # "end" /\ UNCHANGED <<conf, owner>>
<1>1. ControlInv /\ Disjoint /\ NoneTwice /\ NotYetInv /\ TypeInv /\ HandsInv
  BY DEF IInv, ControlInv
<1>2. t \in Callers /\ t \in AllThreads /\ t # Owner /\ conf \in Configs
  BY <1>1, ThreadFacts DEF TypeInv
<1>3. CASE CallStep(t) BY <1>2, <1>3, CallEffects
<1>4. CASE Loop(t) \/ Take(t) \/ Fill(t) \/ Pass(t) \/ Begin(t) \/ Finish(t)
  <2>1. pc[t].at \notin {"none", "end"} /\ UNCHANGED <<conf, owner>>
    BY <1>4 DEF Loop, Take, Fill, Pass, Begin, Finish, At
  <2>2. owner.at # "end" BY <1>1, <1>2, <2>1, EndRests
  <2>3. CASE Loop(t)
    <3>1. PICK a \in {"end", "seek"} : Becomes(t, a, pc[t].batch, pc[t].task)
      BY <1>1, <1>2, <2>3, LoopBecomes
    <3>2. /\ a \notin Calling /\ pc[t].at \notin Calling /\ a # "finish" /\ pc[t].at # "finish"
          /\ UNCHANGED <<queue, done>>
      BY <2>3 DEF Loop, At, Calling
    <3>3. QED BY <1>1, <1>2, <2>1, <2>2, <3>1, <3>2, KeepsStill
  <2>4. CASE Take(t)
    <3>1. PICK q, p, r : \E a \in {"run", "fill"} : TakesFrom(t, q, p, r, a)
      BY <1>1, <2>4, TakeBecomes
    <3>2. UNCHANGED done /\ pc[t].at \in {"seek", "fill"} BY <2>4 DEF Take, At
    <3>3. QED BY <1>1, <1>2, <2>1, <2>2, <3>1, <3>2, TakesMoves DEF Changes
  <2>5. CASE Fill(t)
    <3>1. pc[t].at = "fill" /\ UNCHANGED done BY <2>5 DEF Fill, At
    <3>2. t \in Primaries BY <1>1, <1>2, <3>1 DEF HandsInv, At
    <3>3. CASE UNCHANGED queue /\ Becomes(t, "run", pc[t].batch, pc[t].task)
      <4>1. "run" \notin Calling /\ pc[t].at \notin Calling BY <3>1 DEF Calling
      <4>2. QED BY <1>1, <1>2, <2>1, <2>2, <3>1, <3>3, <4>1, KeepsStill
    <3>4. CASE \E q, p, r : TakesFrom(t, q, p, r, "run")
      BY <1>1, <1>2, <2>1, <2>2, <3>1, <3>4, TakesMoves DEF Changes
    <3>5. QED BY <1>1, <2>5, <3>2, <3>3, <3>4, FillBecomes
  <2>6. CASE Pass(t)
    <3>1. Goto(t, "loop") /\ "loop" \in ThreadAt /\ UNCHANGED <<queue, done>>
      BY <2>6 DEF Pass, ThreadAt, Resting
    <3>2. Becomes(t, "loop", pc[t].batch, pc[t].task) BY <1>1, <1>2, <3>1, GotoBecomes
    <3>3. "loop" \notin Calling /\ pc[t].at \notin Calling /\ pc[t].at # "finish"
      BY <2>6 DEF Pass, At, Calling
    <3>4. QED BY <1>1, <1>2, <2>1, <2>2, <3>1, <3>2, <3>3, KeepsStill
  <2>7. CASE Begin(t) BY <1>1, <2>1, <2>2, <2>7, BeginStarts DEF Changes
  <2>8. CASE Finish(t) BY <1>1, <2>1, <2>2, <2>8, FinishEnds DEF Changes
  <2>9. QED BY <1>4, <2>3, <2>4, <2>5, <2>6, <2>7, <2>8
<1>5. QED BY <1>3, <1>4 DEF ThreadStep

(* The owner opens the pool once and closes it once.                       *)
LEMMA Effects ==
  ASSUME IInv, [Next]_vars
  PROVE  /\ NoneTwice' /\ UNCHANGED conf
         /\ \/ Still /\ (owner.at = "end" => owner'.at = "end")
               /\ (owner'.at = "end" => owner.at = "end" \/ OwnerEnd)
            \/ Changes /\ owner.at # "end" /\ UNCHANGED owner
<1>1. ControlInv /\ NoneTwice BY DEF IInv
<1>2. owner \in [at : StageAt, i : Nat] BY <1>1 DEF ControlInv, TypeInv
<1>3. ASSUME NEW t \in Threads, ThreadStep(t)
      PROVE  (Still \/ Changes) /\ NoneTwice' /\ owner.at # "end" /\ UNCHANGED <<conf, owner>>
  BY <1>3, ThreadEffects
<1>4. CASE CallStep(Owner)
  <2>1. Owner \in Callers BY DEF Callers
  <2>2. QED BY <1>4, <2>1, CallEffects
<1>5. CASE OwnerCommit
  <2>1. owner.at = "ready" /\ UNCHANGED <<conf, owner>> BY <1>5 DEF OwnerCommit, Ready
  <2>2. QED BY <1>1, <1>5, <2>1, OwnerCommits DEF Changes
<1>6. CASE OwnerStart \/ OwnerCreate
  <2>1. owner.at = "setup" /\ owner'.at # "end" /\ UNCHANGED conf
    BY <1>2, <1>6 DEF OwnerStart, OwnerCreate
  <2>2. QED BY <1>1, <1>6, <2>1, OwnerStartStill, OwnerCreateStill
<1>7. CASE OwnerList \/ OwnerRelease \/ OwnerExit \/ OwnerDelete
  <2>1. UNCHANGED <<conf, queue, pc, done>>
    BY <1>7 DEF OwnerList, OwnerRelease, OwnerExit, OwnerDelete
  <2>2. owner.at # "end" /\ owner'.at # "end"
    BY <1>7 DEF OwnerList, OwnerRelease, OwnerExit, OwnerDelete, Ready
  <2>3. QED BY <1>1, <2>1, <2>2, SameStill
<1>8. ASSUME NEW a, NEW t, OwnerStop(a, t) \/ OwnerJoin(a, t), a # "end"
      PROVE  Still /\ NoneTwice' /\ UNCHANGED conf /\ owner.at # "end" /\ owner'.at # "end"
  <2>1. UNCHANGED <<conf, queue, pc, done>> /\ owner.at = a
    BY <1>8 DEF OwnerStop, OwnerJoin
  <2>2. owner'.at = owner.at BY <1>2, <1>8 DEF OwnerStop, OwnerJoin
  <2>3. QED BY <1>1, <1>8, <2>1, <2>2, SameStill
<1>9. CASE OwnerStopPrimary
  BY <1>8, <1>9 DEF OwnerStopPrimary
<1>10. CASE OwnerStopSecondary BY <1>8, <1>10 DEF OwnerStopSecondary
<1>11. CASE OwnerEnd
  <2>1. UNCHANGED <<conf, queue, pc, done>> /\ owner.at # "end" BY <1>11 DEF OwnerEnd
  <2>2. QED BY <1>1, <1>11, <2>1, SameStill
<1>12. CASE UNCHANGED vars
  <2>1. UNCHANGED <<conf, queue, pc, done, owner>> BY <1>12 DEF vars
  <2>2. QED BY <1>1, <2>1, SameStill
<1>13. CASE \E t \in Threads : ThreadStep(t) BY <1>3, <1>13
<1>14. QED BY <1>4, <1>5, <1>6, <1>7, <1>9, <1>10, <1>11, <1>12, <1>13 DEF Next, OwnerStep

LEMMA NextDisjoint == Disjoint /\ (Still \/ Changes) => Disjoint'
BY StillDisjoint, PassesDisjoint, GivenDisjoint
   DEF Changes, Moved, Started, Ended, Pushed, Committed

(* Nobody holds a task that was held by nobody but the one given.          *)
LEMMA HeldBefore ==
  ASSUME Still \/ Changes, NEW c \in Holders, NEW w \in Contents(c)'
  PROVE  \/ \E d \in Holders : w \in Contents(d)
         \/ \E t, v : Started(t, v) /\ w \in CommitsOf(v)
         \/ Committed(w)
<1>1. ASSUME NEW a, NEW b, NEW X, Passes(a, b, X)
      PROVE  \E d \in Holders : w \in Contents(d)
  <2>1. CASE c = a BY <1>1, <2>1 DEF Passes
  <2>2. CASE c = b BY <1>1, <2>2 DEF Passes
  <2>3. CASE c \notin {a, b} BY <1>1, <2>3 DEF Passes
  <2>4. QED BY <2>1, <2>2, <2>3
<1>2. ASSUME NEW t, NEW X, Given(t, X)
      PROVE  w \in X \/ \E d \in Holders : w \in Contents(d)
  <2>1. CASE c = <<"task", t>> BY <1>2, <2>1 DEF Given
  <2>2. CASE c # <<"task", t>> BY <1>2, <2>2 DEF Given
  <2>3. QED BY <2>1, <2>2
<1>3. CASE Still BY <1>3 DEF Still
<1>4. CASE Moved BY <1>1, <1>4 DEF Moved
<1>5. ASSUME NEW t, NEW v, Started(t, v)
      PROVE  w \in CommitsOf(v) \/ \E d \in Holders : w \in Contents(d)
  <2>1. PICK X \in SUBSET CommitsOf(v) : Given(t, X) BY <1>5 DEF Started
  <2>2. QED BY <1>2, <2>1
<1>6. ASSUME NEW t, NEW v, Ended(t, v) \/ Pushed(t, v)
      PROVE  \E d \in Holders : w \in Contents(d)
  BY <1>1, <1>6 DEF Ended, Pushed
<1>7. ASSUME NEW v, Committed(v)
      PROVE  w = v \/ \E d \in Holders : w \in Contents(d)
  BY <1>2, <1>7 DEF Committed
<1>8. QED BY <1>3, <1>4, <1>5, <1>6, <1>7 DEF Changes

(* What has begun to run stays begun.                                      *)
LEMMA BegunStays ==
  ASSUME Still \/ Changes, NEW w
  PROVE  /\ Begun(w) => Begun(w)'
         /\ \A t : Started(t, w) => Begun(w)'
<1>1. AllThreads' = AllThreads BY DEF AllThreads
<1>2. done = Contents(<<"done", 0>>) /\ done' = Contents(<<"done", 0>>)'
  BY DEF Contents
<1>3. <<"done", 0>> \in Holders BY HolderFacts
<1>4. ASSUME NEW a, NEW b, NEW X, Passes(a, b, X), a # <<"done", 0>>
      PROVE  done \subseteq done'
  BY <1>2, <1>3, <1>4 DEF Passes
<1>5. ASSUME NEW t, NEW X, Given(t, X) PROVE done' = done
  BY <1>2, <1>3, <1>5, PairFacts DEF Given
<1>6. ASSUME SameRuns \/ Still, Running(w) PROVE Running(w)'
  BY <1>1, <1>6 DEF Running, SameRuns, Still
<1>7. CASE Still
  <2>1. done' = done BY <1>2, <1>3, <1>7 DEF Still
  <2>2. \A t : ~Started(t, w)
    <3> SUFFICES ASSUME NEW t, Started(t, w) PROVE FALSE OBVIOUS
    <3>1. t \in AllThreads /\ RunBy(t) = {} /\ RunBy(t)' = {w} BY DEF Started, Runs
    <3>2. QED BY <1>7, <3>1 DEF Still
  <2>3. QED BY <1>6, <1>7, <2>1, <2>2 DEF Begun
<1>8. ASSUME NEW t, NEW v, Started(t, v)
      PROVE  /\ Begun(v)' /\ done' = done /\ (Running(w) => Running(w)')
  <2>1. /\ t \in AllThreads /\ RunBy(t) = {} /\ RunBy(t)' = {v}
        /\ \A u \in AllThreads : u # t => RunBy(u)' = RunBy(u)
    BY <1>8 DEF Started, Runs
  <2>2. Begun(v)' BY <1>1, <2>1 DEF Begun, Running
  <2>3. done' = done BY <1>5, <1>8 DEF Started
  <2>4. Running(w) => Running(w)' BY <1>1, <2>1 DEF Running
  <2>5. QED BY <2>2, <2>3, <2>4
<1>9. CASE Moved
  <2>1. done \subseteq done' /\ SameRuns BY <1>4, <1>9, PairFacts DEF Moved
  <2>2. Begun(w) => Begun(w)' BY <1>6, <2>1 DEF Begun
  <2>3. QED BY <1>8, <2>2
<1>10. ASSUME NEW t, NEW v, Ended(t, v) PROVE Begun(w) => Begun(w)'
  <2>1. /\ t \in AllThreads /\ RunBy(t) = {v}
        /\ \A u \in AllThreads : u # t => RunBy(u)' = RunBy(u)
    BY <1>10 DEF Ended, Runs
  <2>2. done' = done \cup {v} BY <1>2, <1>3, <1>10 DEF Ended, Passes
  <2>3. Running(w) => w = v \/ Running(w)' BY <1>1, <2>1 DEF Running
  <2>4. QED BY <2>2, <2>3 DEF Begun
<1>11. ASSUME NEW t, NEW v, Pushed(t, v) PROVE Begun(w) => Begun(w)'
  <2>1. done \subseteq done' /\ SameRuns BY <1>4, <1>11, PairFacts DEF Pushed
  <2>2. QED BY <1>6, <2>1 DEF Begun
<1>12. ASSUME NEW v, Committed(v) PROVE Begun(w) => Begun(w)'
  <2>1. done' = done /\ SameRuns BY <1>5, <1>12 DEF Committed
  <2>2. QED BY <1>6, <2>1 DEF Begun
<1>13. ASSUME NEW t, NEW v, Started(t, v) PROVE Begun(w) => Begun(w)'
  BY <1>8, <1>13 DEF Begun
<1>14. QED BY <1>7, <1>8, <1>9, <1>10, <1>11, <1>12, <1>13 DEF Changes

LEMMA NextNotYet ==
  ASSUME NotYetInv, CommittedOnce(conf), conf \in Configs, UNCHANGED conf, Still \/ Changes
  PROVE  NotYetInv'
<1>1. Holders' = Holders /\ \A v : CommitsOf(v)' = CommitsOf(v)
  BY DEF Holders, AllThreads, Callers, Queues, Pool, Priority, CommitsOf
<1>2. ASSUME NEW v \in Tasks, ~Begun(v)', NEW c \in Holders, NEW w \in Contents(c)',
             w \in CommitsOf(v)
      PROVE  FALSE
  <2>1. ~Begun(v) /\ \A t : ~Started(t, v) BY <1>2, BegunStays
  <2>2. ~ \E d \in Holders : w \in Contents(d) BY <1>2, <2>1 DEF NotYetInv
  <2>3. conf.does[v].kind = "commit" /\ conf.does[v].task = w BY <1>2 DEF CommitsOf
  <2>4. ASSUME NEW t, NEW u, Started(t, u), w \in CommitsOf(u) PROVE FALSE
    <3>1. u \in Tasks /\ u # v BY <2>1, <2>4 DEF Started
    <3>2. conf.does[u].kind = "commit" /\ conf.does[u].task = w BY <2>4 DEF CommitsOf
    <3>3. QED BY <2>3, <3>1, <3>2 DEF CommittedOnce
  <2>5. CASE Committed(w) BY <1>2, <2>3, <2>5 DEF Committed, Roots
  <2>6. QED BY <1>2, <2>2, <2>4, <2>5, HeldBefore
<1>3. QED BY <1>1, <1>2 DEF NotYetInv

LEMMA InitControl ==
  ASSUME Init
  PROVE  ControlInv
<1>1. /\ conf \in Configs /\ owner = [at |-> "setup", i |-> 0]
      /\ queue = [q \in Queues |-> <<>>] /\ listed = 0 /\ deleted = FALSE
      /\ secondary = <<>> /\ stop = [t \in AllThreads |-> FALSE]
      /\ pc = [t \in Callers |-> Idle] /\ done = {} /\ misused = {}
  BY DEF Init
<1>2. Idle \in States /\ Idle.at = "none" /\ Idle.batch = <<>> /\ Idle.task = {}
  <2>1. {} \in SUBSET Tasks /\ <<>> \in Seq(Tasks) /\ 0 \in Nat /\ "none" \in ThreadAt
    BY DEF ThreadAt, Resting
  <2>2. QED BY <2>1 DEF Idle, States
<1>3. \A t \in Callers : pc[t].at = "none" /\ pc[t].batch = <<>> /\ pc[t].task = {}
  BY <1>1, <1>2
<1>4. TypeInv
  <2>1. owner \in [at : StageAt, i : Nat] BY <1>1 DEF StageAt
  <2>2. pc \in [Callers -> States] BY <1>1, <1>2
  <2>3. queue \in [Queues -> Seq(Tasks)] /\ secondary \in Seq(Slots) BY <1>1
  <2>4. QED BY <1>1, <2>1, <2>2, <2>3 DEF TypeInv
<1>5. AllThreads \subseteq Callers /\ Owner \in Callers /\ Slots \subseteq AllThreads
      /\ 0..(MaxPrimary - 1) \subseteq AllThreads /\ conf.primary \in Nat
  BY <1>1, ThreadFacts, ConstantFacts
<1>6. OwnerInv BY <1>1, <1>3, <1>5 DEF OwnerInv, SettingUp, Exiting
<1>7. PrimaryInv BY <1>1, <1>3, <1>5 DEF PrimaryInv
<1>8. SecondaryInv BY <1>1, <1>3, <1>5 DEF SecondaryInv, At
<1>9. HandsInv BY <1>3, <1>5 DEF HandsInv, Resting, Calling, At
<1>10. DeletedInv BY <1>1 DEF DeletedInv
<1>11. QED BY <1>4, <1>6, <1>7, <1>8, <1>9, <1>10 DEF ControlInv

LEMMA InitInv ==
  ASSUME Init, CommittedOnce(conf)
  PROVE  IInv
<1>1. /\ conf \in Configs /\ queue = [q \in Queues |-> <<>>]
      /\ pc = [t \in Callers |-> Idle] /\ done = {}
  BY DEF Init
<1>2. \A t \in Callers : pc[t].at = "none" /\ pc[t].batch = <<>> /\ pc[t].task = {}
  BY <1>1 DEF Idle
<1>3. AllThreads \subseteq Callers BY <1>1, ThreadFacts
<1>4. ASSUME NEW c \in Holders PROVE Contents(c) = {}
  <2>1. ToSet(<<>>) = {} BY DEF ToSet
  <2>2. ASSUME NEW x \in Queues, c = <<"queue", x>> PROVE Contents(c) = {}
    BY <1>1, <2>1, <2>2 DEF Contents
  <2>3. ASSUME NEW u \in AllThreads, c = <<"batch", u>> PROVE Contents(c) = {}
    BY <1>2, <1>3, <2>1, <2>3 DEF Contents
  <2>4. ASSUME NEW u \in Callers, c = <<"task", u>> PROVE Contents(c) = {}
    BY <1>2, <2>4 DEF Contents
  <2>5. CASE c = <<"done", 0>> BY <1>1, <2>5 DEF Contents
  <2>6. QED BY <2>2, <2>3, <2>4, <2>5, HolderCases
<1>5. Disjoint BY <1>4 DEF Disjoint
<1>6. NotYetInv BY <1>4 DEF NotYetInv
<1>7. NoneTwice
  <2>1. IsInjective(<<>>) BY DEF IsInjective
  <2>2. \A q \in Queues : queue[q] = <<>> BY <1>1
  <2>3. \A t \in AllThreads : pc[t].batch = <<>> BY <1>2, <1>3
  <2>4. QED BY <2>1, <2>2, <2>3 DEF NoneTwice
<1>8. QED BY <1>5, <1>6, <1>7, InitControl DEF IInv

LEMMA NextInv == IInv /\ [Next]_vars => IInv'
<1> SUFFICES ASSUME IInv, [Next]_vars PROVE IInv' OBVIOUS
<1>1. ControlInv' BY NextControl DEF IInv
<1>2. NoneTwice' /\ UNCHANGED conf /\ (Still \/ Changes) BY Effects
<1>3. Disjoint' BY <1>2, NextDisjoint DEF IInv
<1>4. conf \in Configs BY DEF IInv, ControlInv, TypeInv
<1>5. NotYetInv' BY <1>2, <1>4, NextNotYet DEF IInv
<1>6. CommittedOnce(conf)' BY <1>2 DEF IInv, CommittedOnce
<1>7. QED BY <1>1, <1>2, <1>3, <1>5, <1>6 DEF IInv

(* The control of the pool keeps its types, the stages of the owner and of *)
(* the threads fit together, and a thread that has been joined stays where *)
(* it is, whatever the tasks commit.                                       *)
THEOREM PoolControl == Spec => []ControlInv
<1>1. Init => ControlInv
  <2> SUFFICES ASSUME Init PROVE ControlInv OBVIOUS
  <2>1. QED BY InitControl
<1>2. QED BY <1>1, NextControl, PTL DEF Spec

(* Every variable keeps its type, and every task is in one place: in a     *)
(* queue, in the hands of a thread, on its way to a queue, or done; when   *)
(* each task is committed by at most one.                                  *)
THEOREM GraphPoolInvariant ==
  ASSUME \A c \in Configs : CommittedOnce(c)
  PROVE  Spec => []IInv
<1>1. Init => IInv
  <2> SUFFICES ASSUME Init PROVE IInv OBVIOUS
  <2>1. conf \in Configs BY DEF Init
  <2>2. QED BY <2>1, InitInv
<1>2. QED BY <1>1, NextInv, PTL DEF Spec

(* Exit deletes the primary threads when none runs any more, and only the  *)
(* task of a secondary thread can still commit a task to a deleted one.    *)
THEOREM DeletedThreadsRest == Spec => []NobodyUsesDeletedThread
<1>1. ControlInv => NobodyUsesDeletedThread
  BY DEF ControlInv, PrimaryInv, DeletedInv, NobodyUsesDeletedThread
<1>2. QED BY <1>1, PoolControl, PTL
-----------------------------------------------------------------------------
(* The pool implements TaskService.                                        *)

(* Whoever holds a task but a task that is about to commit it.             *)
Public == {c \in Holders : c[1] # "task"}

LEMMA PublicFacts ==
  /\ Public' = Public /\ Public \subseteq Holders
  /\ \A q \in Queues : <<"queue", q>> \in Public
  /\ \A t \in AllThreads : <<"batch", t>> \in Public
  /\ <<"done", 0>> \in Public
  /\ \A t : <<"task", t>> \notin Public
BY HolderFacts DEF Public, Holders, AllThreads, Callers, Queues, Pool, Priority

LEMMA SeenFacts ==
  ASSUME NEW w
  PROVE  /\ Seen(w) <=> \E c \in Public : w \in Contents(c)
         /\ Seen(w)' <=> \E c \in Public : w \in Contents(c)'
<1>1. ASSUME NEW c \in Public
      PROVE  \/ \E q \in Queues : c = <<"queue", q>>
             \/ \E t \in AllThreads : c = <<"batch", t>>
             \/ c = <<"done", 0>>
  BY PublicFacts, HolderCases
<1>2. Queues' = Queues /\ AllThreads' = AllThreads
  BY DEF Queues, AllThreads, Pool, Priority
<1>3. /\ \A q : Contents(<<"queue", q>>)' = ToSet(queue'[q])
      /\ \A t : Contents(<<"batch", t>>)' = ToSet(pc'[t].batch)
      /\ Contents(<<"done", 0>>)' = done'
  BY DEF Contents
<1>4. Seen(w) <=> \E c \in Public : w \in Contents(c)
  <2>1. ASSUME Seen(w) PROVE \E c \in Public : w \in Contents(c)
    BY <2>1, PublicFacts, ContentFacts DEF Seen
  <2>2. ASSUME NEW c \in Public, w \in Contents(c) PROVE Seen(w)
    BY <1>1, <2>2, ContentFacts DEF Seen
  <2>3. QED BY <2>1, <2>2
<1>5. Seen(w)' <=> \E c \in Public : w \in Contents(c)'
  <2>1. Seen(w)' <=> \/ w \in done' \/ \E q \in Queues : w \in ToSet(queue'[q])
                     \/ \E t \in AllThreads : w \in ToSet(pc'[t].batch)
    BY <1>2 DEF Seen
  <2>2. ASSUME Seen(w)' PROVE \E c \in Public : w \in Contents(c)'
    BY <1>3, <2>1, <2>2, PublicFacts
  <2>3. ASSUME NEW c \in Public, w \in Contents(c)' PROVE Seen(w)'
    BY <1>1, <1>3, <2>1, <2>3
  <2>4. QED BY <2>2, <2>3
<1>6. QED BY <1>4, <1>5

StageOf(run, over, seen) ==
  IF run THEN "running" ELSE IF over THEN "done" ELSE IF seen THEN "committed" ELSE "new"

LEMMA StageFacts ==
  ASSUME NEW w
  PROVE  /\ Stage(w) = StageOf(Running(w), w \in done, Seen(w))
         /\ Stage(w)' = StageOf(Running(w)', w \in done', Seen(w)')
<1>1. Running(w) <=>
        \E t \in AllThreads : Working(t) /\ pc[t].batch # <<>> /\ Head(pc[t].batch) = w
  BY DEF Running, RunBy
<1>2. Running(w)' <=>
        \E t \in AllThreads : Working(t)' /\ pc'[t].batch # <<>> /\ Head(pc'[t].batch) = w
  BY DEF Running, RunBy, AllThreads
<1>3. Stage(w) = StageOf(Running(w), w \in done, Seen(w)) BY <1>1 DEF Stage, StageOf
<1>4. Stage(w)' = StageOf(Running(w)', w \in done', Seen(w)')
  BY <1>2 DEF Stage, StageOf, AllThreads
<1>5. QED BY <1>3, <1>4

(* A task that runs is in the hands of the thread that runs it.            *)
LEMMA RunsHeld ==
  ASSUME ControlInv, NEW t \in AllThreads, NEW v \in RunBy(t)
  PROVE  v \in Contents(<<"batch", t>>)
<1>1. pc \in [Callers -> States] /\ t \in Callers
  BY ThreadFacts DEF ControlInv, TypeInv
<1>2. pc[t].batch # <<>> /\ v = Head(pc[t].batch) BY DEF RunBy
<1>3. v \in ToSet(pc[t].batch) BY <1>1, <1>2, StateFacts, TailFacts
<1>4. QED BY <1>3, ContentFacts

LEMMA RunsOnce ==
  ASSUME IInv, NEW t \in AllThreads, NEW v \in Contents(<<"batch", t>>)
  PROVE  Seen(v) /\ v \notin done /\ \A u \in AllThreads : u # t => v \notin RunBy(u)
<1>1. ControlInv /\ Disjoint BY DEF IInv
<1>2. <<"batch", t>> \in Holders /\ <<"done", 0>> \in Holders BY HolderFacts
<1>3. v \notin Contents(<<"done", 0>>) BY <1>1, <1>2, PairFacts DEF Disjoint
<1>4. ASSUME NEW u \in AllThreads, u # t, v \in RunBy(u) PROVE FALSE
  <2>1. v \in Contents(<<"batch", u>>) /\ <<"batch", u>> \in Holders
    BY <1>1, <1>4, RunsHeld, HolderFacts
  <2>2. <<"batch", u>> = <<"batch", t>> BY <1>1, <1>2, <2>1 DEF Disjoint
  <2>3. QED BY <1>4, <2>2, PairFacts
<1>5. Seen(v) BY SeenFacts, PublicFacts
<1>6. QED BY <1>3, <1>4, <1>5, ContentFacts

(* How the stage of a task changes.                                        *)
Goes(v, from, to) ==
  /\ Stage(v) = from /\ Stage(v)' = to
  /\ \A w \in Tasks : w # v => Stage(w)' = Stage(w)

LEMMA SameStage ==
  ASSUME NEW w, (Running(w)' <=> Running(w)), w \in done' <=> w \in done, (Seen(w)' <=> Seen(w))
  PROVE  Stage(w)' = Stage(w)
<1>1. /\ Stage(w) = StageOf(Running(w), w \in done, Seen(w))
      /\ Stage(w)' = StageOf(Running(w)', w \in done', Seen(w)')
  BY StageFacts
<1>2. QED BY <1>1 DEF StageOf

LEMMA DoneContents == done = Contents(<<"done", 0>>) /\ done' = Contents(<<"done", 0>>)'
BY DEF Contents

(* The holders that others can see keep their tasks.                       *)
LEMMA PublicSame ==
  ASSUME \A c \in Public : Contents(c)' = Contents(c)
  PROVE  done' = done /\ \A w : (Seen(w)' <=> Seen(w))
<1>1. done' = done BY PublicFacts, DoneContents
<1>2. \A w : (Seen(w)' <=> Seen(w)) BY SeenFacts
<1>3. QED BY <1>1, <1>2

LEMMA RunsSame ==
  ASSUME SameRuns
  PROVE  \A w : (Running(w)' <=> Running(w))
<1>1. AllThreads' = AllThreads BY DEF AllThreads
<1>2. QED BY <1>1 DEF Running, SameRuns

LEMMA StillStages == Still => \A w \in Tasks : Stage(w)' = Stage(w)
<1> SUFFICES ASSUME Still, NEW w \in Tasks PROVE Stage(w)' = Stage(w) OBVIOUS
<1>1. done' = done /\ (Seen(w)' <=> Seen(w)) BY PublicFacts, PublicSame DEF Still
<1>2. Running(w)' <=> Running(w) BY RunsSame DEF Still, SameRuns
<1>3. QED BY <1>1, <1>2, SameStage

LEMMA MovedStages == Moved => \A w \in Tasks : Stage(w)' = Stage(w)
<1> SUFFICES ASSUME Moved, NEW w \in Tasks PROVE Stage(w)' = Stage(w) OBVIOUS
<1>1. PICK q \in Queues, t \in AllThreads : \E X :
        /\ Passes(<<"queue", q>>, <<"batch", t>>, X) /\ SameRuns
        /\ Contents(<<"queue", q>>)' = Contents(<<"queue", q>>) \ X
  BY DEF Moved
<1>2. PICK X :
        /\ Passes(<<"queue", q>>, <<"batch", t>>, X) /\ SameRuns
        /\ Contents(<<"queue", q>>)' = Contents(<<"queue", q>>) \ X
  BY <1>1
<1>3. PICK a, b : a = <<"queue", q>> /\ b = <<"batch", t>> OBVIOUS
<1>4. /\ a \in Public /\ b \in Public /\ a # b /\ X \subseteq Contents(a)
      /\ Contents(a)' = Contents(a) \ X /\ Contents(b)' = Contents(b) \cup X
      /\ \A c \in Public : c \notin {a, b} => Contents(c)' = Contents(c)
  BY <1>2, <1>3, PublicFacts DEF Passes
<1>5. Seen(w)' <=> Seen(w)
  <2>1. ASSUME NEW c \in Public, w \in Contents(c) PROVE \E d \in Public : w \in Contents(d)'
    <3>1. CASE c \notin {a, b} BY <1>4, <2>1, <3>1
    <3>2. CASE c = a /\ w \in X BY <1>4, <3>2
    <3>3. CASE c = a /\ w \notin X BY <1>4, <2>1, <3>3
    <3>4. CASE c = b BY <1>4, <2>1, <3>4
    <3>5. QED BY <3>1, <3>2, <3>3, <3>4
  <2>2. ASSUME NEW c \in Public, w \in Contents(c)' PROVE \E d \in Public : w \in Contents(d)
    <3>1. CASE c \notin {a, b} BY <1>4, <2>2, <3>1
    <3>2. CASE c = a BY <1>4, <2>2, <3>2
    <3>3. CASE c = b BY <1>4, <2>2, <3>3
    <3>4. QED BY <3>1, <3>2, <3>3
  <2>3. QED BY <2>1, <2>2, SeenFacts
<1>6. done' = done
  <2>1. <<"done", 0>> \in Public /\ <<"done", 0>> \notin {a, b}
    BY <1>3, PublicFacts, PairFacts
  <2>2. QED BY <1>4, <2>1, DoneContents
<1>7. QED BY <1>2, <1>5, <1>6, RunsSame, SameStage

LEMMA GivenSame ==
  ASSUME NEW t, NEW X, Given(t, X)
  PROVE  done' = done /\ \A w : (Seen(w)' <=> Seen(w))
<1>1. \A c \in Public : Contents(c)' = Contents(c) BY PublicFacts DEF Given
<1>2. QED BY <1>1, PublicSame

LEMMA CommittedStages ==
  ASSUME NEW v, Committed(v)
  PROVE  \A w \in Tasks : Stage(w)' = Stage(w)
<1>1. SameRuns /\ Given(Owner, {v}) BY DEF Committed
<1>2. QED BY <1>1, GivenSame, RunsSame, SameStage

LEMMA StartedStages ==
  ASSUME IInv, NEW t, NEW v, Started(t, v)
  PROVE  Goes(v, "committed", "running")
<1>1. /\ t \in AllThreads /\ v \in Contents(<<"batch", t>>) /\ v \in Tasks
      /\ RunBy(t) = {} /\ RunBy(t)' = {v}
      /\ \A u \in AllThreads : u # t => RunBy(u)' = RunBy(u)
  BY DEF Started, Runs
<1>2. done' = done /\ \A w : (Seen(w)' <=> Seen(w)) BY GivenSame DEF Started
<1>3. Seen(v) /\ v \notin done /\ \A u \in AllThreads : u # t => v \notin RunBy(u)
  BY <1>1, RunsOnce
<1>4. AllThreads' = AllThreads BY DEF AllThreads
<1>5. ~Running(v) BY <1>1, <1>3 DEF Running
<1>6. Running(v)' BY <1>1, <1>4 DEF Running
<1>7. ASSUME NEW w \in Tasks, w # v PROVE Running(w)' <=> Running(w)
  BY <1>1, <1>4, <1>7 DEF Running
<1>8. Stage(v) = "committed" BY <1>3, <1>5, StageFacts DEF StageOf
<1>9. Stage(v)' = "running" BY <1>6, StageFacts DEF StageOf
<1>10. QED BY <1>2, <1>7, <1>8, <1>9, SameStage DEF Goes

LEMMA EndedStages ==
  ASSUME IInv, NEW t, NEW v, Ended(t, v)
  PROVE  Goes(v, "running", "done")
<1>1. PICK a, b : a = <<"batch", t>> /\ b = <<"done", 0>> OBVIOUS
<1>2. /\ t \in AllThreads /\ v \in Tasks /\ RunBy(t) = {v} /\ RunBy(t)' = {}
      /\ \A u \in AllThreads : u # t => RunBy(u)' = RunBy(u)
      /\ v \in Contents(a) /\ Contents(a)' = Contents(a) \ {v}
      /\ Contents(b)' = Contents(b) \cup {v}
      /\ \A c \in Holders : c \notin {a, b} => Contents(c)' = Contents(c)
  BY <1>1 DEF Ended, Runs, Passes
<1>3. \A u \in AllThreads : u # t => v \notin RunBy(u) BY <1>1, <1>2, RunsOnce
<1>4. AllThreads' = AllThreads BY DEF AllThreads
<1>5. Running(v) BY <1>2 DEF Running
<1>6. ~Running(v)' BY <1>2, <1>3, <1>4 DEF Running
<1>7. done' = done \cup {v} BY <1>1, <1>2, DoneContents
<1>8. ASSUME NEW w \in Tasks, w # v
      PROVE  (Running(w)' <=> Running(w)) /\ (w \in done' <=> w \in done) /\ (Seen(w)' <=> Seen(w))
  <2>1. Running(w)' <=> Running(w) BY <1>2, <1>4, <1>8 DEF Running
  <2>2. \A c \in Public : w \in Contents(c)' <=> w \in Contents(c)
    BY <1>2, <1>8, PublicFacts
  <2>3. QED BY <1>7, <1>8, <2>1, <2>2, SeenFacts
<1>9. Stage(v) = "running" BY <1>5, StageFacts DEF StageOf
<1>10. Stage(v)' = "done" BY <1>6, <1>7, StageFacts DEF StageOf
<1>11. QED BY <1>8, <1>9, <1>10, SameStage DEF Goes

LEMMA PushedStages ==
  ASSUME IInv, NEW t, NEW v, Pushed(t, v)
  PROVE  Goes(v, "new", "committed")
<1>1. PICK q \in Queues : Passes(<<"task", t>>, <<"queue", q>>, {v}) /\ SameRuns
  BY DEF Pushed
<1>2. PICK a, b : a = <<"task", t>> /\ b = <<"queue", q>> OBVIOUS
<1>3. /\ a \in Holders /\ a \notin Public /\ b \in Public
      /\ v \in Contents(a) /\ Contents(b)' = Contents(b) \cup {v}
      /\ \A c \in Public : c # b => Contents(c)' = Contents(c)
  BY <1>1, <1>2, PublicFacts DEF Passes
<1>4. Disjoint /\ ControlInv BY DEF IInv
<1>5. \A c \in Public : v \notin Contents(c) BY <1>3, <1>4, PublicFacts DEF Disjoint
<1>6. ~Seen(v) /\ v \notin done BY <1>5, SeenFacts, PublicFacts, ContentFacts
<1>7. ~Running(v)
  <2>1. ASSUME NEW u \in AllThreads, v \in RunBy(u) PROVE FALSE
    BY <1>4, <1>5, <2>1, RunsHeld, PublicFacts
  <2>2. QED BY <2>1 DEF Running
<1>8. Seen(v)' BY <1>3, SeenFacts
<1>9. done' = done
  <2>1. <<"done", 0>> \in Public /\ <<"done", 0>> # b BY <1>2, PublicFacts, PairFacts
  <2>2. QED BY <1>3, <2>1, DoneContents
<1>10. \A w : (Running(w)' <=> Running(w)) BY <1>1, RunsSame
<1>11. ASSUME NEW w \in Tasks, w # v PROVE Seen(w)' <=> Seen(w)
  <2>1. \A c \in Public : w \in Contents(c)' <=> w \in Contents(c) BY <1>3, <1>11
  <2>2. QED BY <2>1, SeenFacts
<1>12. Stage(v) = "new" BY <1>6, <1>7, StageFacts DEF StageOf
<1>13. Stage(v)' = "committed" BY <1>6, <1>7, <1>8, <1>9, <1>10, StageFacts DEF StageOf
<1>14. QED BY <1>9, <1>10, <1>11, <1>12, <1>13, SameStage DEF Goes

LEMMA GoesStep ==
  ASSUME NEW v \in Tasks, NEW from, NEW to, Goes(v, from, to)
  PROVE  Service!Step(v, from, to)
<1>1. [w \in Tasks |-> Stage(w)]' = [w \in Tasks |-> Stage(w)'] OBVIOUS
<1>2. [w \in Tasks |-> Stage(w)'] = [[w \in Tasks |-> Stage(w)] EXCEPT ![v] = to]
  BY DEF Goes
<1>3. [w \in Tasks |-> Stage(w)][v] = from BY DEF Goes
<1>4. QED BY <1>1, <1>2, <1>3 DEF Service!Step

LEMMA SameStages ==
  ASSUME \A w \in Tasks : Stage(w)' = Stage(w)
  PROVE  UNCHANGED [w \in Tasks |-> Stage(w)]
OBVIOUS

(* When Exit ends, no thread runs a task.                                  *)
LEMMA EndCloses ==
  ASSUME ControlInv, ControlInv', OwnerEnd
  PROVE  \A w \in Tasks : Stage(w) # "running"
<1>1. /\ owner.at = "secondaries" /\ pc' = pc /\ conf \in Configs
      /\ owner \in [at : StageAt, i : Nat] /\ owner' = [owner EXCEPT !.at = "end"]
  BY DEF OwnerEnd, ControlInv, TypeInv
<1>2. owner'.at = "end" BY <1>1
<1>3. ASSUME NEW t \in AllThreads PROVE pc[t].at \in {"none", "end"}
  <2>1. CASE t \in Slots BY <1>1, <1>2, <2>1 DEF ControlInv, SecondaryInv
  <2>2. CASE t \in 0..(MaxPrimary - 1)
    <3>1. conf.primary \in Nat /\ deleted BY <1>1, ConstantFacts DEF ControlInv, OwnerInv
    <3>2. CASE t >= conf.primary BY <2>2, <3>2 DEF ControlInv, PrimaryInv
    <3>3. CASE ~(t >= conf.primary)
      <4>1. t \in Primaries BY <2>2, <3>1, <3>3 DEF Primaries
      <4>2. QED BY <3>1, <4>1 DEF ControlInv, PrimaryInv, At
    <3>4. QED BY <3>2, <3>3
  <2>3. QED BY <1>1, <2>1, <2>2, ThreadFacts
<1>4. \A w : ~Running(w) BY <1>3 DEF Running, RunBy, Working
<1>5. QED BY <1>4, StageFacts DEF StageOf

LEMMA InitService == IInv /\ Init => Service!Init
<1> SUFFICES ASSUME IInv, Init PROVE Service!Init OBVIOUS
<1>1. /\ conf \in Configs /\ queue = [q \in Queues |-> <<>>]
      /\ pc = [t \in Callers |-> Idle] /\ done = {} /\ owner.at = "setup"
  BY DEF Init
<1>2. AllThreads \subseteq Callers BY <1>1, ThreadFacts
<1>3. \A t \in AllThreads : pc[t].at = "none" /\ pc[t].batch = <<>>
  BY <1>1, <1>2 DEF Idle
<1>4. \A w : ~Seen(w)
  <2>1. ToSet(<<>>) = {} BY DEF ToSet
  <2>2. QED BY <1>1, <1>3, <2>1 DEF Seen
<1>5. \A w : ~Running(w) BY <1>3 DEF Running, RunBy, Working
<1>6. \A w \in Tasks : Stage(w) = "new" BY <1>1, <1>4, <1>5, StageFacts DEF StageOf
<1>7. QED BY <1>1, <1>6 DEF Service!Init

LEMMA NextService ==
  ASSUME IInv, [Next]_vars
  PROVE  [Service!Next]_<<[w \in Tasks |-> Stage(w)], owner.at # "end">>
<1> DEFINE stages == [w \in Tasks |-> Stage(w)]
           open == owner.at # "end"
<1>1. ControlInv /\ ControlInv' BY NextControl DEF IInv
<1>2. \/ Still /\ (owner.at = "end" => owner'.at = "end")
         /\ (owner'.at = "end" => owner.at = "end" \/ OwnerEnd)
      \/ Changes /\ owner.at # "end" /\ UNCHANGED owner
  BY Effects
<1>3. CASE Still /\ (owner.at = "end" <=> owner'.at = "end")
  <2>1. UNCHANGED stages BY <1>3, StillStages, SameStages
  <2>2. UNCHANGED open BY <1>3
  <2>3. QED BY <2>1, <2>2
<1>4. CASE Still /\ owner.at # "end" /\ owner'.at = "end" /\ OwnerEnd
  <2>1. UNCHANGED stages BY <1>4, StillStages, SameStages
  <2>2. open = TRUE /\ open' = FALSE BY <1>4
  <2>3. \A w \in Tasks : stages[w] # "running" BY <1>1, <1>4, EndCloses
  <2> HIDE DEF stages, open
  <2>4. Service!Close BY <2>1, <2>2, <2>3 DEF Service!Close, stages, open
  <2>5. QED BY <2>4 DEF Service!Next
<1>5. CASE Changes /\ owner.at # "end" /\ UNCHANGED owner
  <2>1. open /\ UNCHANGED open BY <1>5
  <2>2. CASE Moved \/ \E w : Committed(w)
    <3>1. UNCHANGED stages BY <2>2, MovedStages, CommittedStages, SameStages
    <3>2. QED BY <2>1, <3>1
  <2>3. ASSUME NEW t, NEW v, Started(t, v) PROVE Service!Next
    <3>1. v \in Tasks BY <2>3 DEF Started
    <3>2. Service!Step(v, "committed", "running") BY <2>3, <3>1, StartedStages, GoesStep
    <3>3. Service!Begin(v) BY <2>1, <3>2 DEF Service!Begin
    <3>4. QED BY <3>1, <3>3 DEF Service!Next
  <2>4. ASSUME NEW t, NEW v, Ended(t, v) PROVE Service!Next
    <3>1. v \in Tasks BY <2>4 DEF Ended
    <3>2. Service!Step(v, "running", "done") BY <2>4, <3>1, EndedStages, GoesStep
    <3>3. Service!End(v) BY <2>1, <3>2 DEF Service!End
    <3>4. QED BY <3>1, <3>3 DEF Service!Next
  <2>5. ASSUME NEW t, NEW v, Pushed(t, v) PROVE Service!Next
    <3>1. v \in Tasks BY <2>5 DEF Pushed
    <3>2. Service!Step(v, "new", "committed") BY <2>5, <3>1, PushedStages, GoesStep
    <3>3. Service!Commit(v) BY <2>1, <3>2 DEF Service!Commit
    <3>4. QED BY <3>1, <3>3 DEF Service!Next
  <2>6. QED BY <1>5, <2>2, <2>3, <2>4, <2>5 DEF Changes
<1>6. QED BY <1>2, <1>3, <1>4, <1>5

(* The pool implements TaskService: however tasks move between the queues  *)
(* and the hands of threads, each is run at most once, none is lost, and   *)
(* none runs when Exit has returned; when each task is committed by at     *)
(* most one.                                                               *)
THEOREM GraphPoolImplements ==
  ASSUME \A c \in Configs : CommittedOnce(c)
  PROVE  Spec => ImplementsTaskService
<1>1. Init => Service!Init
  <2> SUFFICES ASSUME Init PROVE Service!Init OBVIOUS
  <2>1. conf \in Configs BY DEF Init
  <2>2. QED BY <2>1, InitInv, InitService
<1>2. IInv /\ [Next]_vars =>
        [Service!Next]_<<[w \in Tasks |-> Stage(w)], owner.at # "end">>
  BY NextService
<1>3. Spec => []IInv BY GraphPoolInvariant
<1>4. QED BY <1>1, <1>2, <1>3, PTL DEF Spec, ImplementsTaskService, Service!Spec
=============================================================================
