---------------------- MODULE EngineAndQueue_proofs -----------------------
(***************************************************************************)
(* Theorems about two specifications that have nothing in common but the   *)
(* data of their proofs, sequences of distinct things: the static engine   *)
(* for any task graph, any bindings and any number of runs, and after it   *)
(* ThreadSafeQueue for any sets of threads, any values and any number of   *)
(* nodes. Neither part cites the other.                                    *)
(***************************************************************************)
EXTENDS TaskGraphStaticEngine, ThreadSafeQueue, Integers,
        WellFoundedInduction, FiniteSetTheorems, SequenceTheorems, TLAPS

(* The values of sched: levels of clusters of elements.                    *)
Schedules == Seq(Seq(Seq(Elements)))

(* The places of a schedule, by their parts.                               *)
LEMMA SlotParts ==
  ASSUME NEW s, NEW p \in Slots(s)
  PROVE  /\ p = <<p[1], p[2], p[3]>>
         /\ p[1] \in DOMAIN s /\ p[2] \in DOMAIN s[p[1]] /\ p[3] \in DOMAIN s[p[1]][p[2]]
<1>1. PICK l \in DOMAIN s : p \in UNION {{<<l, c, k>> : k \in DOMAIN s[l][c]} : c \in DOMAIN s[l]}
  BY DEF Slots
<1>2. PICK c \in DOMAIN s[l] : p \in {<<l, c, k>> : k \in DOMAIN s[l][c]}
  BY <1>1
<1>3. PICK k \in DOMAIN s[l][c] : p = <<l, c, k>>
  BY <1>2
<1> QED
  BY <1>3

(* A place of a cluster of a level is one of the schedule.                 *)
LEMMA SlotIn ==
  ASSUME NEW s, NEW l \in DOMAIN s, NEW c \in DOMAIN s[l], NEW k \in DOMAIN s[l][c]
  PROVE  <<l, c, k>> \in Slots(s) /\ In(s, <<l, c, k>>) = s[l][c][k]
  BY DEF Slots, In

(* The same in numbers.                                                    *)
LEMMA SlotType ==
  ASSUME NEW s \in Schedules, NEW p \in Slots(s)
  PROVE  /\ p[1] \in 1..Len(s) /\ p[2] \in 1..Len(s[p[1]]) /\ p[3] \in 1..Len(s[p[1]][p[2]])
         /\ s[p[1]] \in Seq(Seq(Elements)) /\ s[p[1]][p[2]] \in Seq(Elements)
         /\ In(s, p) = s[p[1]][p[2]][p[3]] /\ In(s, p) \in Elements
<1>1. p[1] \in DOMAIN s /\ p[2] \in DOMAIN s[p[1]] /\ p[3] \in DOMAIN s[p[1]][p[2]]
  BY SlotParts
<1>2. s[p[1]] \in Seq(Seq(Elements)) /\ p[1] \in 1..Len(s)
  BY <1>1 DEF Schedules
<1>3. s[p[1]][p[2]] \in Seq(Elements) /\ p[2] \in 1..Len(s[p[1]])
  BY <1>1, <1>2
<1>4. p[3] \in 1..Len(s[p[1]][p[2]]) /\ s[p[1]][p[2]][p[3]] \in Elements
  BY <1>1, <1>3
<1> QED
  BY <1>2, <1>3, <1>4 DEF In

(* And back: numbers within the lengths are a place.                       *)
LEMMA SlotNumbers ==
  ASSUME NEW s \in Schedules, NEW l \in 1..Len(s), NEW c \in 1..Len(s[l]),
         NEW k \in 1..Len(s[l][c])
  PROVE  <<l, c, k>> \in Slots(s) /\ In(s, <<l, c, k>>) = s[l][c][k]
<1>1. l \in DOMAIN s /\ s[l] \in Seq(Seq(Elements))
  BY DEF Schedules
<1>2. c \in DOMAIN s[l] /\ s[l][c] \in Seq(Elements)
  BY <1>1
<1>3. k \in DOMAIN s[l][c]
  BY <1>2
<1> QED
  BY <1>1, <1>2, <1>3, SlotIn

(* A schedule that has one place more, or the same ones.                   *)
IsGrown(s, t, n, e) ==
  /\ Slots(t) = Slots(s) \cup {n} /\ n \notin Slots(s) /\ In(t, n) = e
  /\ \A p \in Slots(s) : In(t, p) = In(s, p)

IsSame(s, t) == Slots(t) = Slots(s) /\ \A p \in Slots(s) : In(t, p) = In(s, p)

(* What SetupLink makes of the schedule: one place more.                   *)
Linked(s, l, c, e) == [s EXCEPT ![l][c] = Append(@, e)]

IsLinked(s, t, l, c, e) ==
  /\ t \in Schedules /\ Len(t) = Len(s)
  /\ \A i \in 1..Len(s) : Len(t[i]) = Len(s[i]) /\ (i # l => t[i] = s[i])
  /\ \A j \in 1..Len(s[l]) : j # c => t[l][j] = s[l][j]
  /\ t[l][c] = Append(s[l][c], e) /\ s[l][c] \in Seq(Elements)
  /\ IsGrown(s, t, <<l, c, Len(s[l][c]) + 1>>, e)

LEMMA LinkGrows ==
  ASSUME NEW s \in Schedules, NEW l \in 1..Len(s), NEW c \in 1..Len(s[l]), NEW e \in Elements,
         NEW t, t = Linked(s, l, c, e)
  PROVE  IsLinked(s, t, l, c, e)
<1> DEFINE n == <<l, c, Len(s[l][c]) + 1>>
           u == [s[l] EXCEPT ![c] = Append(s[l][c], e)]
<1>1. s[l] \in Seq(Seq(Elements)) /\ s[l][c] \in Seq(Elements)
  BY DEF Schedules
<1>2. Append(s[l][c], e) \in Seq(Elements) /\ Len(Append(s[l][c], e)) = Len(s[l][c]) + 1
  BY <1>1
<1>3. u \in Seq(Seq(Elements)) /\ Len(u) = Len(s[l])
  BY <1>1, <1>2
<1>4. t = [s EXCEPT ![l] = u]
  BY <1>1 DEF Linked
<1>4a. u[c] = Append(s[l][c], e) /\ \A j \in 1..Len(s[l]) : j # c => u[j] = s[l][j]
  BY <1>1
<1> HIDE DEF u
<1>5. t \in Schedules /\ Len(t) = Len(s) /\ t[l] = u /\ \A i \in 1..Len(s) : i # l => t[i] = s[i]
  BY <1>3, <1>4 DEF Schedules
<1>6. ASSUME NEW p \in Slots(s) PROVE p \in Slots(t) /\ In(t, p) = In(s, p)
  <2>1. /\ p[1] \in 1..Len(s) /\ p[2] \in 1..Len(s[p[1]]) /\ p[3] \in 1..Len(s[p[1]][p[2]])
        /\ In(s, p) = s[p[1]][p[2]][p[3]] /\ p = <<p[1], p[2], p[3]>>
    BY SlotType, SlotParts
  <2>2. p[1] \in 1..Len(t) /\ p[2] \in 1..Len(t[p[1]])
    BY <2>1, <1>5, <1>3
  <2>3. p[3] \in 1..Len(t[p[1]][p[2]]) /\ t[p[1]][p[2]][p[3]] = s[p[1]][p[2]][p[3]]
    <3>1. CASE p[1] = l /\ p[2] = c
      BY <3>1, <2>1, <1>1, <1>2, <1>5, <1>4a
    <3>2. CASE p[1] # l \/ p[2] # c
      BY <3>2, <2>1, <1>5, <1>4a
    <3> QED
      BY <3>1, <3>2
  <2>4. /\ <<p[1], p[2], p[3]>> \in Slots(t)
        /\ In(t, <<p[1], p[2], p[3]>>) = t[p[1]][p[2]][p[3]]
    BY ONLY <2>2, <2>3, <1>5, SlotNumbers
  <2> QED
    BY <2>1, <2>3, <2>4
<1>7. n \in Slots(t) /\ In(t, n) = e
  <2>1. l \in 1..Len(t) /\ c \in 1..Len(t[l]) /\ Len(s[l][c]) + 1 \in 1..Len(t[l][c])
    BY <1>1, <1>2, <1>3, <1>5, <1>4a
  <2>2. t[l][c][Len(s[l][c]) + 1] = e
    BY <1>1, <1>5, <1>4a
  <2> DEFINE k == Len(s[l][c]) + 1
  <2> HIDE DEF k
  <2>3. k \in 1..Len(t[l][c]) /\ t[l][c][k] = e
    BY <2>1, <2>2 DEF k
  <2>4. <<l, c, k>> \in Slots(t) /\ In(t, <<l, c, k>>) = t[l][c][k]
    BY ONLY <2>1, <2>3, <1>5, SlotNumbers
  <2> QED
    BY <2>3, <2>4 DEF k
<1>8. ASSUME NEW p \in Slots(t), p # n PROVE p \in Slots(s)
  <2>1. /\ p[1] \in 1..Len(t) /\ p[2] \in 1..Len(t[p[1]]) /\ p[3] \in 1..Len(t[p[1]][p[2]])
        /\ p = <<p[1], p[2], p[3]>>
    BY SlotType, SlotParts, <1>5
  <2>2. p[1] \in 1..Len(s) /\ p[2] \in 1..Len(s[p[1]])
    BY <2>1, <1>5, <1>3
  <2>3. p[3] \in 1..Len(s[p[1]][p[2]])
    <3>1. CASE p[1] = l /\ p[2] = c
      <4>1. p[3] # Len(s[l][c]) + 1
        BY <3>1, <2>1, <1>8
      <4>2. t[l][c] = Append(s[l][c], e)
        BY <1>4a, <1>5
      <4>3. Len(t[l][c]) = Len(s[l][c]) + 1 /\ Len(s[l][c]) \in Nat
        BY <4>2, <1>1, <1>2
      <4>4. p[3] \in 1..Len(t[l][c])
        BY <2>1, <3>1
      <4>5. p[3] \in 1..Len(s[l][c])
        BY ONLY <4>1, <4>3, <4>4
      <4> QED
        BY <3>1, <4>5
    <3>2. CASE p[1] # l \/ p[2] # c
      BY <3>2, <2>1, <2>2, <1>5, <1>4a
    <3> QED
      BY <3>1, <3>2
  <2> QED
    BY <2>1, <2>2, <2>3, SlotNumbers
<1>9. n \notin Slots(s)
  <2>1. ASSUME n \in Slots(s) PROVE Len(s[l][c]) + 1 \in 1..Len(s[l][c])
    BY <2>1, SlotType
  <2> QED
    BY <2>1, <1>1
<1> QED
  <2>1. IsGrown(s, t, n, e)
    BY <1>6, <1>7, <1>8, <1>9 DEF IsGrown
  <2> QED
    BY <2>1, <1>1, <1>3, <1>4a, <1>5 DEF IsLinked

(* What SetupHead makes of it: a cluster of one element more.              *)
Headed(s, l, e) == [s EXCEPT ![l] = Append(@, <<e>>)]

LEMMA HeadGrows ==
  ASSUME NEW s \in Schedules, NEW l \in 1..Len(s), NEW e \in Elements,
         NEW t, t = Headed(s, l, e)
  PROVE  /\ t \in Schedules /\ Len(t) = Len(s)
         /\ \A i \in 1..Len(s) : i # l => t[i] = s[i]
         /\ t[l] = Append(s[l], <<e>>) /\ s[l] \in Seq(Seq(Elements))
         /\ IsGrown(s, t, <<l, Len(s[l]) + 1, 1>>, e)
<1> DEFINE n == <<l, Len(s[l]) + 1, 1>>
           u == Append(s[l], <<e>>)
           m == Len(s[l]) + 1
<1>1. s[l] \in Seq(Seq(Elements)) /\ <<e>> \in Seq(Elements)
  BY DEF Schedules
<1>2. /\ u \in Seq(Seq(Elements)) /\ Len(u) = m /\ m \in Nat
      /\ \A j \in 1..Len(s[l]) : u[j] = s[l][j]
      /\ u[m] = <<e>>
  BY <1>1
<1>3. t = [s EXCEPT ![l] = u]
  BY DEF Headed
<1> HIDE DEF u
<1>5. t \in Schedules /\ Len(t) = Len(s) /\ t[l] = u /\ \A i \in 1..Len(s) : i # l => t[i] = s[i]
  BY <1>2, <1>3 DEF Schedules
<1>6. ASSUME NEW p \in Slots(s) PROVE p \in Slots(t) /\ In(t, p) = In(s, p)
  <2>1. /\ p[1] \in 1..Len(s) /\ p[2] \in 1..Len(s[p[1]]) /\ p[3] \in 1..Len(s[p[1]][p[2]])
        /\ In(s, p) = s[p[1]][p[2]][p[3]] /\ p = <<p[1], p[2], p[3]>>
    BY SlotType, SlotParts
  <2>2. p[1] \in 1..Len(t) /\ p[2] \in 1..Len(t[p[1]]) /\ t[p[1]][p[2]] = s[p[1]][p[2]]
    <3>1. CASE p[1] = l
      BY <3>1, <2>1, <1>1, <1>2, <1>5
    <3>2. CASE p[1] # l
      BY <3>2, <2>1, <1>5
    <3> QED
      BY <3>1, <3>2
  <2>3. p[3] \in 1..Len(t[p[1]][p[2]]) /\ t[p[1]][p[2]][p[3]] = s[p[1]][p[2]][p[3]]
    BY <2>1, <2>2
  <2>4. /\ <<p[1], p[2], p[3]>> \in Slots(t)
        /\ In(t, <<p[1], p[2], p[3]>>) = t[p[1]][p[2]][p[3]]
    BY ONLY <2>2, <2>3, <1>5, SlotNumbers
  <2> QED
    BY <2>1, <2>3, <2>4
<1>7. n \in Slots(t) /\ In(t, n) = e
  <2>0. t[l][m] = <<e>>
    BY <1>2, <1>5
  <2>1. l \in 1..Len(t) /\ m \in 1..Len(t[l]) /\ 1 \in 1..Len(t[l][m]) /\ t[l][m][1] = e
    <3>1. l \in 1..Len(t) /\ m \in 1..Len(t[l])
      BY <1>1, <1>2, <1>5
    <3> QED
      BY <2>0, <3>1
  <2>4. <<l, m, 1>> \in Slots(t) /\ In(t, <<l, m, 1>>) = t[l][m][1]
    BY ONLY <2>1, <1>5, SlotNumbers
  <2> QED
    BY <2>1, <2>4
<1>8. ASSUME NEW p \in Slots(t), p # n PROVE p \in Slots(s)
  <2>1. /\ p[1] \in 1..Len(t) /\ p[2] \in 1..Len(t[p[1]]) /\ p[3] \in 1..Len(t[p[1]][p[2]])
        /\ p = <<p[1], p[2], p[3]>>
    BY SlotType, SlotParts, <1>5
  <2>2. p[1] \in 1..Len(s) /\ p[2] \in 1..Len(s[p[1]]) /\ p[3] \in 1..Len(s[p[1]][p[2]])
    <3>1. CASE p[1] = l /\ p[2] = m
      <4>0. t[p[1]][p[2]] = <<e>>
        BY <3>1, <1>2, <1>5
      <4>1. p[3] = 1
        BY <4>0, <2>1
      <4> QED
        BY <4>1, <3>1, <2>1, <1>8
    <3>2. CASE p[1] = l /\ p[2] # m
      <4>1. p[2] \in 1..Len(t[l]) /\ p[3] \in 1..Len(t[l][p[2]]) /\ p[2] # m
        BY <3>2, <2>1
      <4>2. p[2] \in 1..Len(s[l])
        <5>1. Len(t[l]) = Len(s[l]) + 1
          BY <1>2, <1>5
        <5>2. Len(s[l]) \in Nat
          BY <1>1
        <5>3. p[2] \in 1..Len(t[l]) /\ p[2] # Len(s[l]) + 1
          BY <4>1
        <5> QED
          BY ONLY <5>1, <5>2, <5>3
      <4>3. t[l][p[2]] = s[l][p[2]]
        BY <4>2, <1>2, <1>5
      <4> QED
        BY <3>2, <4>1, <4>2, <4>3, <2>1
    <3>3. CASE p[1] # l
      BY <3>3, <2>1, <1>5
    <3> QED
      BY <3>1, <3>2, <3>3
  <2> QED
    BY <2>1, <2>2, SlotNumbers
<1>9. n \notin Slots(s)
  <2>1. ASSUME n \in Slots(s) PROVE m \in 1..Len(s[l])
    BY <2>1, SlotType
  <2> QED
    BY <2>1, <1>1
<1> QED
  <2>1. IsGrown(s, t, n, e)
    BY <1>6, <1>7, <1>8, <1>9 DEF IsGrown
  <2> QED
    BY <2>1, <1>1, <1>5 DEF u

(* An empty level adds and takes nothing.                                  *)
LEMMA SameByLevels ==
  ASSUME NEW s \in Schedules, NEW t \in Schedules, Len(s) <= Len(t),
         \A i \in 1..Len(s) : t[i] = s[i],
         \A i \in 1..Len(t) : i > Len(s) => t[i] = <<>>
  PROVE  IsSame(s, t) /\ IsSame(t, s)
<1>1. ASSUME NEW p \in Slots(s) PROVE p \in Slots(t) /\ In(t, p) = In(s, p)
  <2>1. /\ p[1] \in 1..Len(s) /\ p[2] \in 1..Len(s[p[1]]) /\ p[3] \in 1..Len(s[p[1]][p[2]])
        /\ In(s, p) = s[p[1]][p[2]][p[3]] /\ p = <<p[1], p[2], p[3]>>
    BY SlotType, SlotParts
  <2>2. Len(s) \in Nat /\ Len(t) \in Nat
    BY DEF Schedules
  <2>3. p[1] \in 1..Len(t) /\ t[p[1]] = s[p[1]]
    BY <2>1, <2>2
  <2>4. /\ <<p[1], p[2], p[3]>> \in Slots(t)
        /\ In(t, <<p[1], p[2], p[3]>>) = t[p[1]][p[2]][p[3]]
    BY <2>1, <2>3, SlotNumbers
  <2> QED
    BY <2>1, <2>3, <2>4
<1>2. ASSUME NEW p \in Slots(t) PROVE p \in Slots(s)
  <2>1. /\ p[1] \in 1..Len(t) /\ p[2] \in 1..Len(t[p[1]]) /\ p[3] \in 1..Len(t[p[1]][p[2]])
        /\ p = <<p[1], p[2], p[3]>>
    BY SlotType, SlotParts
  <2>2. Len(s) \in Nat /\ Len(t) \in Nat
    BY DEF Schedules
  <2>3. t[p[1]] # <<>>
    BY <2>1
  <2>4. p[1] \in 1..Len(s) /\ t[p[1]] = s[p[1]]
    BY <2>1, <2>2, <2>3
  <2> QED
    BY <2>1, <2>4, SlotNumbers
<1> QED
  BY <1>1, <1>2 DEF IsSame

(* An empty level on top, as the last cluster of a mock run adds it.       *)
LEMMA TopSame ==
  ASSUME NEW s \in Schedules
  PROVE  /\ Append(s, <<>>) \in Schedules /\ Len(Append(s, <<>>)) = Len(s) + 1
         /\ Append(s, <<>>)[Len(s) + 1] = <<>>
         /\ \A i \in 1..Len(s) : Append(s, <<>>)[i] = s[i]
         /\ IsSame(s, Append(s, <<>>))
<1> DEFINE t == Append(s, <<>>)
<1>1. <<>> \in Seq(Seq(Elements))
  OBVIOUS
<1>2. /\ t \in Schedules /\ Len(t) = Len(s) + 1 /\ Len(s) \in Nat
      /\ t[Len(s) + 1] = <<>> /\ \A i \in 1..Len(s) : t[i] = s[i]
  BY <1>1 DEF Schedules
<1> HIDE DEF t
<1>3. \A i \in 1..Len(t) : i > Len(s) => t[i] = <<>>
  BY <1>2
<1>4. IsSame(s, t)
  BY <1>2, <1>3, SameByLevels
<1> QED
  BY <1>2, <1>4 DEF t

(* The empty level taken away, as the end of Setup does.                   *)
LEMMA FrontSame ==
  ASSUME NEW s \in Schedules, s # <<>>, s[Len(s)] = <<>>
  PROVE  /\ Front(s) \in Schedules /\ Len(Front(s)) = Len(s) - 1
         /\ \A i \in 1..(Len(s) - 1) : Front(s)[i] = s[i]
         /\ IsSame(s, Front(s))
<1> DEFINE t == Front(s)
<1>1. Len(s) \in Nat \ {0}
  BY DEF Schedules
<1>2. t = [i \in 1..(Len(s) - 1) |-> s[i]]
  BY <1>1 DEF Front, Schedules
<1>3. /\ t \in Schedules /\ Len(t) = Len(s) - 1
      /\ \A i \in 1..(Len(s) - 1) : t[i] = s[i]
  BY <1>1, <1>2 DEF Schedules
<1> HIDE DEF t
<1>4. \A i \in 1..Len(s) : i > Len(t) => s[i] = <<>>
  BY <1>1, <1>3
<1>5. \A i \in 1..Len(t) : s[i] = t[i]
  BY <1>3
<1>6. Len(t) <= Len(s)
  BY <1>1, <1>3
<1>7. IsSame(s, t)
  BY <1>3, <1>4, <1>5, <1>6, SameByLevels
<1> QED
  BY <1>3, <1>7 DEF t

(* What an invariant says of the schedule: every element once, clusters    *)
(* that are chains, and clusters that begin where the code began them.     *)
Once(s) == \A p, q \in Slots(s) : In(s, p) = In(s, q) => p = q

Chained(s) ==
  \A p \in Slots(s) : p[3] > 1 => conf.depend[In(s, p)] = {In(s, <<p[1], p[2], p[3] - 1>>)}

Begins(s, n, e) ==
  /\ ~IsLinkable(e)
  /\ conf.depend[e] \subseteq Levels(s, 1..(n - 1))
  /\ n > 1 => conf.depend[e] \cap Levels(s, {n - 1}) # {}

Begun(s) == \A p \in Slots(s) : p[3] = 1 => Begins(s, p[1], In(s, p))

(* A place that is not the first of its cluster has one before it.         *)
LEMMA SlotBefore ==
  ASSUME NEW s \in Schedules, NEW p \in Slots(s), p[3] > 1
  PROVE  <<p[1], p[2], p[3] - 1>> \in Slots(s)
<1>1. /\ p[1] \in 1..Len(s) /\ p[2] \in 1..Len(s[p[1]]) /\ p[3] \in 1..Len(s[p[1]][p[2]])
      /\ s[p[1]][p[2]] \in Seq(Elements)
  BY SlotType
<1>2. p[3] - 1 \in 1..Len(s[p[1]][p[2]])
  BY <1>1
<1> QED
  BY ONLY <1>1, <1>2, s \in Schedules, SlotNumbers

(* The elements of some levels, when the schedule stays or grows.          *)
LEMMA LevelsType ==
  ASSUME NEW s \in Schedules, NEW n
  PROVE  Levels(s, n) \subseteq Elements
  BY SlotType DEF Levels

LEMMA SameLevels ==
  ASSUME NEW s, NEW t, IsSame(s, t), NEW n
  PROVE  Levels(t, n) = Levels(s, n)
  BY DEF IsSame, Levels

LEMMA GrownLevels ==
  ASSUME NEW s, NEW t, NEW q, NEW e, IsGrown(s, t, q, e), NEW n
  PROVE  /\ Levels(s, n) \subseteq Levels(t, n)
         /\ q[1] \in n => Levels(t, n) = Levels(s, n) \cup {e}
         /\ q[1] \notin n => Levels(t, n) = Levels(s, n)
<1>1. ASSUME NEW x \in Levels(s, n) PROVE x \in Levels(t, n)
  BY DEF IsGrown, Levels
<1>2. ASSUME NEW x \in Levels(t, n) PROVE x \in Levels(s, n) \/ (q[1] \in n /\ x = e)
  BY DEF IsGrown, Levels
<1>3. q[1] \in n => e \in Levels(t, n)
  BY DEF IsGrown, Levels
<1> QED
  BY <1>1, <1>2, <1>3

(* A schedule with the same places has the same properties.                *)
LEMMA SameKeeps ==
  ASSUME NEW s \in Schedules, NEW t, IsSame(s, t), Once(s), Chained(s), Begun(s)
  PROVE  Once(t) /\ Chained(t) /\ Begun(t)
<1>1. Once(t)
  BY DEF IsSame, Once
<1>2. Chained(t)
  <2>1. ASSUME NEW p \in Slots(t), p[3] > 1
        PROVE  conf.depend[In(t, p)] = {In(t, <<p[1], p[2], p[3] - 1>>)}
    <3>1. p \in Slots(s) /\ <<p[1], p[2], p[3] - 1>> \in Slots(s)
      BY <2>1, SlotBefore DEF IsSame
    <3> QED
      BY <3>1, <2>1 DEF IsSame, Chained
  <2> QED
    BY <2>1 DEF Chained
<1>3. Begun(t)
  <2>1. ASSUME NEW p \in Slots(t), p[3] = 1 PROVE Begins(t, p[1], In(t, p))
    <3>1. p \in Slots(s) /\ In(t, p) = In(s, p)
      BY DEF IsSame
    <3>2. Begins(s, p[1], In(s, p))
      BY <3>1, <2>1 DEF Begun
    <3> QED
      BY <3>1, <3>2, SameLevels DEF Begins
  <2> QED
    BY <2>1 DEF Begun
<1> QED
  BY <1>1, <1>2, <1>3

(* A place more keeps them too if a new element is put there, as the link  *)
(* of a chain or as a head.                                                *)
LEMMA GrownKeeps ==
  ASSUME NEW s \in Schedules, NEW t, NEW q, NEW e, IsGrown(s, t, q, e),
         q[1] \in Nat, Once(s), Chained(s), Begun(s),
         \A p \in Slots(s) : In(s, p) # e,
         q[3] > 1 => /\ <<q[1], q[2], q[3] - 1>> \in Slots(s)
                     /\ conf.depend[e] = {In(s, <<q[1], q[2], q[3] - 1>>)},
         q[3] = 1 => Begins(s, q[1], e)
  PROVE  Once(t) /\ Chained(t) /\ Begun(t)
<1>1. Once(t)
  BY DEF IsGrown, Once
<1>2. Chained(t)
  <2>1. ASSUME NEW p \in Slots(t), p[3] > 1
        PROVE  conf.depend[In(t, p)] = {In(t, <<p[1], p[2], p[3] - 1>>)}
    <3>1. CASE p = q
      BY <3>1, <2>1 DEF IsGrown
    <3>2. CASE p # q
      <4>1. p \in Slots(s)
        BY <3>2 DEF IsGrown
      <4>2. <<p[1], p[2], p[3] - 1>> \in Slots(s)
        BY <4>1, <2>1, SlotBefore
      <4> QED
        BY <4>1, <4>2, <2>1 DEF IsGrown, Chained
    <3> QED
      BY <3>1, <3>2
  <2> QED
    BY <2>1 DEF Chained
<1>3. Begun(t)
  <2>1. ASSUME NEW n, NEW x, Begins(s, n, x) PROVE Begins(t, n, x)
    <3>1. Levels(s, 1..(n - 1)) \subseteq Levels(t, 1..(n - 1))
      BY GrownLevels
    <3>2. Levels(s, {n - 1}) \subseteq Levels(t, {n - 1})
      BY GrownLevels
    <3> QED
      BY <2>1, <3>1, <3>2 DEF Begins
  <2>2. ASSUME NEW p \in Slots(t), p[3] = 1 PROVE Begins(t, p[1], In(t, p))
    <3>1. CASE p = q
      BY <3>1, <2>1, <2>2 DEF IsGrown
    <3>2. CASE p # q
      <4>1. p \in Slots(s) /\ In(t, p) = In(s, p)
        BY <3>2 DEF IsGrown
      <4> QED
        BY <4>1, <2>1, <2>2 DEF Begun
    <3> QED
      BY <3>1, <3>2
  <2> QED
    BY <2>2 DEF Begun
<1> QED
  BY <1>1, <1>2, <1>3

Setting == {"first", "next", "mock"}

(* The type of what no other part of the invariant names.                  *)
Base ==
  /\ conf \in Configs /\ inits \in Int /\ inits <= conf.inits /\ failed \in BOOLEAN
  /\ at \in Setting \cup {"init", "test", "commit", "get", "join", "end"}

(* Only the level that is being made may be empty; before Init and after   *)
(* Destroy there is no schedule.                                           *)
Shape ==
  /\ sched \in Schedules
  /\ \A l \in 1..Len(sched) : \A c \in 1..Len(sched[l]) : sched[l][c] # <<>>
  /\ \A l \in 1..Len(sched) : sched[l] = <<>> => l = Len(sched) /\ at \in {"first", "next"}
  /\ at \in Setting => Len(sched) > 0
  /\ at = "first" => Len(sched) = 1
  /\ at = "next" => Len(sched) > 1
  /\ at \in {"init", "join", "end"} => sched = <<>>

(* A cluster goes on as long as it can.                                    *)
Ended ==
  \A l \in 1..Len(sched) : \A c \in 1..Len(sched[l]) :
    \/ at \in {"first", "next"} /\ l = Len(sched) /\ c = Len(sched[l])
    \/ Behind(Last(sched[l][c])) = {}

(* What needs only the levels up to n is in them or in the next one.       *)
Closed(s, n) ==
  \A e \in Elements : conf.depend[e] \subseteq Levels(s, 1..n) => e \in Levels(s, 1..(n + 1))

(* How far the schedule is closed while it is made, and that it is at      *)
(* last.                                                                   *)
Complete == First =>
  /\ at = "mock" => Closed(sched, Len(sched) - 1)
  /\ at = "next" => Closed(sched, Len(sched) - 2)
  /\ at \in {"test", "commit", "get"} => Closed(sched, Len(sched))

ScheduleInv == Shape /\ Once(sched) /\ Chained(sched) /\ Begun(sched) /\ Ended /\ Complete

(* The elements whose cluster has been mocked.                             *)
Mocked ==
  IF at = "next" THEN Levels(sched, 1..(Len(sched) - 1))
  ELSE IF at = "mock" THEN {In(sched, p) : p \in
         {q \in Slots(sched) : q[1] < Len(sched) \/ q[2] < place}}
  ELSE {}

(* In Setup done_ says who has been mocked, and left_depend_ counts who is *)
(* missing: the reason why IsRunnable finds the right heads.               *)
Counters ==
  /\ done \in [Elements -> BOOLEAN] /\ left \in [Elements -> Nat]
  /\ First /\ at \in Setting \cup {"init"} =>
       \A e \in Elements : /\ done[e] <=> e \in Mocked
                           /\ e \notin Mocked => left[e] = Cardinality(conf.depend[e] \ Mocked)

(* The count of Setup is one of clusters, each with an element of its own: *)
(* it never ends Setup early.                                              *)
SetupCount ==
  /\ at \in {"first", "next"} => counted \in Nat /\ counted <= Cardinality(Mocked)
  /\ at = "mock" => /\ place \in 1..Len(sched[Len(sched)])
                    /\ counted \in Nat /\ counted + place - 1 <= Cardinality(Mocked)

(* A later Init, of a graph without a cycle, finds nothing to do.          *)
Later == ~First => at \notin {"next", "mock"} /\ Slots(sched) = {}

SetupInv == Counters /\ SetupCount /\ Later

(* A cluster of e is running, or was left because of an error.             *)
Unsettled(e) ==
  \E x \in DOMAIN jobs : jobs[x].at \in {"run", "error"} /\ e \in ToSet(jobs[x].els)

(* done_ of an element is reset by a cluster that runs, and only by that.  *)
AllDone ==
  Acyclic(conf.depend) /\ (~First \/ at \in {"test", "commit", "get", "join", "end"}) =>
    \A e \in Elements : done[e] \/ Unsettled(e)

(* The places of the level whose clusters are committed and not returned.  *)
Places ==
  IF at = "commit" /\ level <= Len(sched) THEN 1..(place - 1)
  ELSE IF at = "get" THEN place..Len(sched[level]) ELSE {}

(* How far the job of a cluster can be.                                    *)
JobOK(j, els) ==
  /\ j \in [els : {els}, pos : 0..Len(els), at : {"queued", "run", "ok", "error"}]
  /\ j.at \in {"run", "error"} => j.pos >= 1
  /\ j.at = "queued" => j.pos = 0
  /\ j.at = "ok" => j.pos = Len(els)

(* The jobs are the committed clusters of the level, no others.            *)
Jobs ==
  /\ run \in Nat
  /\ at \in {"commit", "get"} => level \in 1..(Len(sched) + 1)
  /\ at = "commit" /\ level <= Len(sched) => place \in 1..Len(sched[level])
  /\ at = "get" => level <= Len(sched) /\ place \in 1..Len(sched[level])
  /\ DOMAIN jobs = {Id(i) : i \in Places}
  /\ \A i \in Places : JobOK(jobs[Id(i)], sched[level][i])

(* The places of the schedule a run has behind it.                         *)
HasRun(p) ==
  \/ p[1] < level
  \/ p[1] = level /\ IF p[2] \in Places
                     THEN p[3] < jobs[Id(p[2])].pos \/ jobs[Id(p[2])].at = "ok"
                     ELSE at = "get"

(* An element at such a place has run once, the others have not.           *)
Rans ==
  /\ ran \in [Elements -> Nat]
  /\ at \in {"commit", "get"} =>
       \A p \in Slots(sched) : ran[In(sched, p)] = IF HasRun(p) THEN 1 ELSE 0

(* run_element_size_ counts the elements of the committed clusters.        *)
Committed ==
  {In(sched, p) : p \in {q \in Slots(sched) :
     q[1] < level \/ (q[1] = level /\ (at = "get" \/ q[2] < place))}}

RunCount == at \in {"commit", "get"} => counted = Cardinality(Committed)

(* What the check at the end of a run may answer.                          *)
Verdict ==
  /\ at \in {"commit", "get"} => verdict = "none"
  /\ at \notin {"commit", "get"} /\ verdict = "ok" => \A e \in Elements : ran[e] = 1
  /\ First /\ Acyclic(conf.depend) /\ verdict # "none" => verdict = "ok"

RunInv == AllDone /\ Jobs /\ Rans /\ RunCount /\ Verdict

(* The inductive invariant.                                                *)
EngineInv == Base /\ (IsSound => ScheduleInv /\ SetupInv /\ RunInv)
-----------------------------------------------------------------------------
(* What the assumption says of the configuration.                          *)
LEMMA ConfFacts ==
  ASSUME conf \in Configs
  PROVE  /\ conf.depend \in [Elements -> SUBSET Elements]
         /\ \A e \in Elements : e \notin conf.depend[e]
         /\ conf.inits \in Nat \ {0}
  BY EngineAssumption

(* The elements and their subsets can be counted.                          *)
LEMMA ElementsFinite ==
  /\ IsFiniteSet(Elements) /\ Cardinality(Elements) = Size /\ Size \in Nat \ {0}
  /\ \A S \in SUBSET Elements : /\ IsFiniteSet(S) /\ Cardinality(S) \in Nat
                                /\ Cardinality(S) <= Size
                                /\ Cardinality(S) = Size => S = Elements
<1>1. Size \in Nat \ {0}
  BY EngineAssumption
<1>2. IsFiniteSet(Elements) /\ Cardinality(Elements) = Size
  BY <1>1, FS_Interval DEF Elements
<1>3. ASSUME NEW S \in SUBSET Elements
      PROVE  /\ IsFiniteSet(S) /\ Cardinality(S) \in Nat /\ Cardinality(S) <= Size
             /\ Cardinality(S) = Size => S = Elements
  <2>1. /\ IsFiniteSet(S) /\ Cardinality(S) <= Cardinality(Elements)
        /\ (Cardinality(S) = Cardinality(Elements) => S = Elements)
    BY <1>2, FS_Subset
  <2> QED
    BY <2>1, <1>2, FS_CardinalityType
<1> QED
  BY <1>1, <1>2, <1>3

(* run_before_, what is linked behind an element, and what is linkable.    *)
LEMMA RunBeforeIs ==
  ASSUME conf \in Configs, NEW d
  PROVE  RunBefore(d) = {e \in Elements : d \in conf.depend[e]}
<1>1. DOMAIN conf.depend = Elements
  BY ConfFacts
<1> QED
  BY <1>1 DEF RunBefore, Successors

LEMMA BehindIs ==
  ASSUME conf \in Configs, NEW x, NEW y \in Behind(x)
  PROVE  /\ y \in Elements /\ IsLinkable(y) /\ conf.depend[y] = {x} /\ RunBefore(x) = {y}
<1>1. y \in RunBefore(x) /\ RunBefore(x) = {y} /\ IsLinkable(y)
  BY DEF Behind
<1>2. y \in Elements /\ x \in conf.depend[y]
  BY <1>1, RunBeforeIs
<1>3. conf.depend[y] = {x}
  BY <1>1, <1>2 DEF IsLinkable
<1> QED
  BY <1>1, <1>2, <1>3

(* A linkable element is linked behind the only one it depends on.         *)
LEMMA LinkableIs ==
  ASSUME conf \in Configs, NEW e \in Elements, IsLinkable(e)
  PROVE  \E d \in Elements : conf.depend[e] = {d} /\ RunBefore(d) = {e} /\ e \in Behind(d)
<1>1. PICK d \in conf.depend[e] : conf.depend[e] = {d} /\ RunBefore(d) = {e}
  BY DEF IsLinkable
<1>2. d \in Elements /\ e \in Behind(d)
  BY <1>1, ConfFacts DEF Behind
<1> QED
  BY <1>1, <1>2

(* The cardinality of what is still missing when els has been settled.     *)
LEMMA SettledCount ==
  ASSUME NEW D \in SUBSET Elements, NEW M, NEW E, E \cap M = {}
  PROVE  (Cardinality(D \ M) + DependModulus - Cardinality(E \cap D)) % DependModulus
           = Cardinality(D \ (M \cup E))
<1> DEFINE A == D \ M
           B == E \cap D
           C == D \ (M \cup E)
<1>1. /\ A \in SUBSET Elements /\ B \in SUBSET A /\ B \in SUBSET Elements
      /\ C \in SUBSET Elements /\ C = A \ B
  OBVIOUS
<1> HIDE DEF A, B, C
<1>2. Cardinality(C) = Cardinality(A) - Cardinality(A \cap B)
  BY <1>1, ElementsFinite, FS_Difference
<1>2a. A \cap B = B
  BY <1>1
<1>3. /\ Cardinality(A) \in Nat /\ Cardinality(B) \in Nat /\ Cardinality(C) \in Nat
      /\ Cardinality(A) <= Size
  BY <1>1, ElementsFinite
<1>4. DependModulus \in Nat /\ DependModulus > Size /\ Size \in Nat
  BY EngineAssumption
<1>5. ASSUME NEW a \in Nat, NEW b \in Nat, NEW c \in Nat, NEW m \in Nat, a < m, c = a - b
      PROVE  (a + m - b) % m = c
  <2>1. c \in 0..(m - 1) /\ m \in Nat \ {0} /\ a + m - b = m * 1 + c
    BY <1>5
  <2>2. (m * 1 + c) % m = c
    BY ONLY <2>1
  <2> QED
    BY <2>1, <2>2
<1>6. (Cardinality(A) + DependModulus - Cardinality(B)) % DependModulus = Cardinality(C)
  <2>1. Cardinality(C) = Cardinality(A) - Cardinality(B)
    BY <1>2, <1>2a
  <2>2. Cardinality(A) < DependModulus
    BY <1>3, <1>4
  <2> QED
    BY ONLY <2>1, <2>2, <1>3, <1>4, <1>5
<1> QED
  BY <1>6 DEF A, B, C

(* The invariant in a state that IsSound.                                  *)
Good == Base /\ IsSound /\ ScheduleInv /\ SetupInv /\ RunInv

(* The configuration stays, and what is not sound does not become so.      *)
LEMMA BaseStep ==
  ASSUME Base, [EngineNext]_engineVars
  PROVE  /\ Base' /\ conf' = conf
         /\ First' => First
         /\ IsSound' => IsSound
<1>1. CASE UNCHANGED engineVars
  BY <1>1 DEF engineVars, runVars, Base, IsSound, First
<1>2. CASE SetupStep
  <2>1. /\ conf' = conf /\ inits' = inits /\ failed' = failed
        /\ at' \in Setting \cup {"init", "test", "commit", "get", "join", "end"}
    <3>1. CASE SetupHead
      BY <3>1 DEF SetupHead, runVars, Base
    <3>2. CASE SetupLink
      BY <3>2 DEF SetupLink, runVars, Base
    <3>3. CASE SetupBuilt
      BY <3>3 DEF SetupBuilt, Setting
    <3>4. CASE SetupMock
      BY <3>4 DEF SetupMock, Setting
    <3> QED
      BY <1>2, <3>1, <3>2, <3>3, <3>4 DEF SetupStep
  <2> QED
    BY <2>1 DEF Base, IsSound, First
<1>3. CASE MainInit \/ MainRun \/ MainCheck \/ MainDestroy \/ MainGetError
  BY <1>3 DEF MainInit, MainRun, MainCheck, MainDestroy, MainGetError, runVars, Base, Setting,
              IsSound, First
<1>4. CASE MainCommit \/ MainGet
  BY <1>4 DEF MainCommit, MainGet, Advance, runVars, Base, Setting, IsSound, First
<1>5. CASE MainJoin
  <2>1. /\ conf' = conf /\ inits' = inits - 1 /\ failed' = failed /\ at' \in {"init", "end"}
    BY <1>5 DEF MainJoin
  <2>2. conf.inits \in Nat
    BY ConfFacts DEF Base
  <2>3. ~First'
    BY <2>1, <2>2 DEF Base, First
  <2> QED
    BY <2>1, <2>2, <2>3 DEF Base, IsSound
<1>6. CASE JobStep
  <2>1. PICK x \in DOMAIN jobs : JobBegin(x) \/ JobElement(x) \/ JobError(x)
    BY <1>6 DEF JobStep
  <2>2. /\ conf' = conf /\ inits' = inits /\ failed' = failed /\ at' = at
    BY <2>1 DEF JobBegin, JobElement, JobError, runVars
  <2> QED
    BY <2>2 DEF Base, IsSound, First
<1> QED
  BY <1>1, <1>2, <1>3, <1>4, <1>5, <1>6 DEF EngineNext, MainStep

(* What an unchanged configuration leaves as it was.                       *)
LEMMA GraphKept ==
  ASSUME conf' = conf
  PROVE  /\ \A e : RunBefore(e)' = RunBefore(e) /\ (IsLinkable(e)' <=> IsLinkable(e))
                   /\ Behind(e)' = Behind(e)
         /\ \A s : (Once(s)' <=> Once(s)) /\ (Chained(s)' <=> Chained(s))
         /\ \A s, n, e : Begins(s, n, e)' <=> Begins(s, n, e)
         /\ \A s : Begun(s)' <=> Begun(s)
         /\ \A s, n : Closed(s, n)' <=> Closed(s, n)
<1>1. \A e : RunBefore(e)' = RunBefore(e)
  BY DEF RunBefore
<1>2. \A e : IsLinkable(e)' <=> IsLinkable(e)
  BY <1>1 DEF IsLinkable
<1>3. \A e : Behind(e)' = Behind(e)
  BY <1>1, <1>2 DEF Behind
<1>4. \A s : (Once(s)' <=> Once(s)) /\ (Chained(s)' <=> Chained(s))
  BY DEF Once, Chained
<1>5. \A s, n, e : Begins(s, n, e)' <=> Begins(s, n, e)
  BY <1>2 DEF Begins
<1>6. \A s : Begun(s)' <=> Begun(s)
  BY <1>5 DEF Begun
<1>7. \A s, n : Closed(s, n)' <=> Closed(s, n)
  BY DEF Closed
<1> QED
  BY <1>1, <1>2, <1>3, <1>4, <1>5, <1>6, <1>7

Running3 == {"test", "commit", "get"}

(* Steps that leave the schedule alone.                                    *)
LEMMA ScheduleFrame ==
  ASSUME ScheduleInv, conf' = conf, sched' = sched, First' => First,
         at' = at \/ (at \in Running3 /\ at' \in Running3)
  PROVE  ScheduleInv'
<1>1. Shape'
  BY DEF ScheduleInv, Shape, Running3, Setting
<1>2. Once(sched)' /\ Chained(sched)' /\ Begun(sched)'
  BY GraphKept DEF ScheduleInv
<1>3. Ended'
  BY GraphKept DEF ScheduleInv, Ended, Running3
<1>4. Complete'
  <2>1. Complete
    BY DEF ScheduleInv
  <2>2. \A n : Closed(sched, n)' <=> Closed(sched, n)
    BY GraphKept
  <2> QED
    BY <2>1, <2>2 DEF Complete, Running3
<1> QED
  BY <1>1, <1>2, <1>3, <1>4 DEF ScheduleInv

(* Steps outside of Setup.                                                 *)
LEMMA SetupFrame ==
  ASSUME SetupInv, conf' = conf, sched' = sched, inits' = inits,
         at' \in {"test", "commit", "get", "join", "end"},
         done' \in [Elements -> BOOLEAN], left' \in [Elements -> Nat]
  PROVE  SetupInv'
<1>1. Counters'
  BY DEF Counters, Setting
<1>2. SetupCount'
  BY DEF SetupCount
<1>3. Later'
  BY DEF SetupInv, Later, First
<1> QED
  BY <1>1, <1>2, <1>3 DEF SetupInv

(* In Setup there is no job, and no run to account for.                    *)
LEMMA RunFrame ==
  ASSUME Good, at \in Setting \cup {"init"}, at' \in Setting \cup {"test"},
         conf' = conf, jobs' = jobs, ran' = ran, verdict' = verdict, run' = run, inits' = inits
  PROVE  Jobs' /\ Rans' /\ RunCount' /\ Verdict' /\ DOMAIN jobs = {}
<1>1. Places = {} /\ Places' = {}
  BY DEF Places, Setting
<1>2. DOMAIN jobs = {}
  BY <1>1 DEF Good, RunInv, Jobs
<1>3. Jobs'
  BY <1>1, <1>2 DEF Good, RunInv, Jobs, Setting
<1>4. Rans'
  BY DEF Good, RunInv, Rans, Setting
<1>5. RunCount'
  BY DEF RunCount, Setting
<1>6. Verdict'
  BY DEF Good, RunInv, Verdict, Setting, First
<1> QED
  BY <1>2, <1>3, <1>4, <1>5, <1>6

(* The elements of some levels by their places.                            *)
LEMMA LevelsIn ==
  ASSUME NEW s, NEW n, NEW e
  PROVE  e \in Levels(s, n) <=> \E p \in Slots(s) : p[1] \in n /\ In(s, p) = e
  BY DEF Levels

(* The element behind the last one of a cluster is new to the schedule.    *)
LEMMA LinkNew ==
  ASSUME conf \in Configs, NEW s \in Schedules, Once(s), Chained(s), Begun(s),
         NEW l \in 1..Len(s), NEW c \in 1..Len(s[l]), s[l][c] # <<>>,
         NEW y \in Behind(Last(s[l][c]))
  PROVE  /\ \A p \in Slots(s) : In(s, p) # y
         /\ <<l, c, Len(s[l][c])>> \in Slots(s)
         /\ conf.depend[y] = {In(s, <<l, c, Len(s[l][c])>>)} /\ y \in Elements
         /\ Len(s[l][c]) \in Nat \ {0}
<1> DEFINE k == Len(s[l][c])
<1>1. s[l] \in Seq(Seq(Elements)) /\ s[l][c] \in Seq(Elements)
  BY DEF Schedules
<1>2. k \in Nat \ {0} /\ k \in 1..Len(s[l][c])
  BY <1>1
<1>3. <<l, c, k>> \in Slots(s) /\ In(s, <<l, c, k>>) = s[l][c][k]
  BY <1>2, SlotNumbers
<1>4. Last(s[l][c]) = In(s, <<l, c, k>>)
  BY <1>3 DEF Last
<1>5. /\ y \in Elements /\ IsLinkable(y) /\ conf.depend[y] = {In(s, <<l, c, k>>)}
  BY <1>4, BehindIs
<1>6. ASSUME NEW p \in Slots(s), In(s, p) = y PROVE FALSE
  <2>1. /\ p[1] \in 1..Len(s) /\ p[2] \in 1..Len(s[p[1]]) /\ p[3] \in 1..Len(s[p[1]][p[2]])
        /\ p = <<p[1], p[2], p[3]>>
    BY SlotType, SlotParts
  <2>2. p[3] # 1
    BY <1>5, <1>6 DEF Begun, Begins
  <2>3. p[3] > 1
    BY <2>1, <2>2
  <2>4. /\ <<p[1], p[2], p[3] - 1>> \in Slots(s)
        /\ conf.depend[y] = {In(s, <<p[1], p[2], p[3] - 1>>)}
    BY <1>6, <2>3, SlotBefore DEF Chained
  <2>5. <<p[1], p[2], p[3] - 1>> = <<l, c, k>>
    BY <2>4, <1>5, <1>3 DEF Once
  <2>6. p[1] = l /\ p[2] = c /\ p[3] - 1 = k
    BY <2>5
  <2> QED
    BY <2>1, <2>6, <1>2
<1> QED
  BY <1>2, <1>3, <1>5, <1>6

(* An element linked to one of a level before is in that level behind it.  *)
LEMMA LinkedBehind ==
  ASSUME Good, NEW q \in Slots(sched), q[1] # Len(sched), NEW e \in Elements,
         IsLinkable(e), In(sched, q) \in conf.depend[e]
  PROVE  \E r \in Slots(sched) : r[1] = q[1] /\ In(sched, r) = e
<1>1. /\ Shape /\ Chained(sched) /\ Ended /\ conf \in Configs /\ sched \in Schedules
  BY DEF Good, Base, ScheduleInv, Shape
<1>2. PICK d : d = In(sched, q)
  OBVIOUS
<1>3. conf.depend[e] = {d} /\ RunBefore(d) = {e} /\ e \in Behind(d)
  BY <1>1, <1>2, LinkableIs
<1>4. /\ q[1] \in 1..Len(sched) /\ q[2] \in 1..Len(sched[q[1]]) /\ q[3] \in 1..Len(sched[q[1]][q[2]])
      /\ In(sched, q) = sched[q[1]][q[2]][q[3]] /\ sched[q[1]][q[2]] \in Seq(Elements)
  BY <1>1, SlotType
<1>5. Behind(Last(sched[q[1]][q[2]])) = {}
  BY <1>4, <1>1 DEF Ended
<1>6. q[3] # Len(sched[q[1]][q[2]])
  BY <1>2, <1>3, <1>4, <1>5 DEF Last
<1>7. q[3] + 1 \in 1..Len(sched[q[1]][q[2]])
  BY <1>4, <1>6
<1> DEFINE r == <<q[1], q[2], q[3] + 1>>
<1>8. r \in Slots(sched) /\ In(sched, r) \in Elements
  <2>1. <<q[1], q[2], q[3] + 1>> \in Slots(sched)
    BY <1>4, <1>7, <1>1, SlotNumbers
  <2> QED
    BY <2>1, <1>1, SlotType
<1>9. r[3] > 1 /\ r[3] - 1 = q[3]
  BY <1>4
<1>10. conf.depend[In(sched, r)] = {In(sched, <<q[1], q[2], q[3]>>)}
  BY <1>8, <1>9, <1>1 DEF Chained
<1>11. <<q[1], q[2], q[3]>> = q
  BY SlotParts
<1>12. In(sched, r) \in RunBefore(d)
  BY <1>2, <1>8, <1>10, <1>11, <1>1, RunBeforeIs
<1> QED
  BY <1>3, <1>8, <1>12

(* While a level is made, the elements of those below it are mocked.       *)
LEMMA MockedIs ==
  ASSUME Good, at \in {"first", "next"}
  PROVE  Mocked = Levels(sched, 1..(Len(sched) - 1))
<1>1. CASE at = "next"
  BY <1>1 DEF Mocked
<1>2. CASE at = "first"
  <2>1. Len(sched) = 1
    BY <1>2 DEF Good, ScheduleInv, Shape
  <2>2. ~\E p \in Slots(sched) : p[1] \in 1..(Len(sched) - 1)
    BY <2>1
  <2>3. Levels(sched, 1..(Len(sched) - 1)) = {}
    BY <2>2 DEF Levels
  <2> QED
    BY <1>2, <2>3 DEF Mocked
<1> QED
  BY <1>1, <1>2

(* A head is new to the schedule, and all it depends on is in the levels   *)
(* before, something of it in the last of them.                            *)
LEMMA HeadNew ==
  ASSUME Good, at \in {"first", "next"}, NEW h \in Heads
  PROVE  /\ h[3] \in Elements /\ First
         /\ \A p \in Slots(sched) : In(sched, p) # h[3]
         /\ Begins(sched, Len(sched), h[3])
<1> DEFINE e == h[3]
           n == Len(sched)
<1>1. /\ Shape /\ Once(sched) /\ Chained(sched) /\ Begun(sched) /\ Ended /\ Complete
      /\ conf \in Configs /\ sched \in Schedules /\ n \in Nat \ {0} /\ n \in 1..Len(sched)
  BY DEF Good, Base, ScheduleInv, Shape, Schedules, Setting
<1>2. h \in Reached /\ left[e] = 0 /\ ~done[e] /\ \A c \in ToSet(sched[n]) : e \notin ToSet(c)
  BY DEF Heads, IsRunnable, Clusters, Top
<1>3. e \in Elements
  <2>1. CASE at = "first"
    BY <2>1, <1>2 DEF Reached
  <2>2. CASE at = "next"
    <3>1. h \in UNION {UNION {{<<c, k, x>> : x \in RunBefore(sched[n - 1][c][k])}
                       : k \in DOMAIN sched[n - 1][c]} : c \in DOMAIN sched[n - 1]}
      BY <2>2, <1>2 DEF Reached, Top
    <3>2. PICK c \in DOMAIN sched[n - 1] :
            h \in UNION {{<<c, k, x>> : x \in RunBefore(sched[n - 1][c][k])}
                       : k \in DOMAIN sched[n - 1][c]}
      BY <3>1
    <3>3. PICK k \in DOMAIN sched[n - 1][c] : h \in {<<c, k, x>> : x \in RunBefore(sched[n - 1][c][k])}
      BY <3>2
    <3>4. h[3] \in RunBefore(sched[n - 1][c][k])
      BY <3>3
    <3> QED
      BY <3>4, <1>1, RunBeforeIs
  <2> QED
    BY <2>1, <2>2
<1>4. First
  <2>1. SUFFICES ASSUME ~First PROVE FALSE
    OBVIOUS
  <2>2. Acyclic(conf.depend)
    BY <2>1 DEF Good, IsSound
  <2>3. done[e] \/ Unsettled(e)
    BY <2>1, <2>2, <1>3 DEF Good, RunInv, AllDone
  <2>4. DOMAIN jobs = {}
    BY DEF Good, RunInv, Jobs, Places
  <2> QED
    BY <2>3, <2>4, <1>2 DEF Unsettled
<1>5. e \notin Mocked /\ conf.depend[e] \subseteq Mocked
  <2>1. e \notin Mocked /\ Cardinality(conf.depend[e] \ Mocked) = 0
    BY <1>2, <1>3, <1>4 DEF Good, SetupInv, Counters, Setting
  <2>2. conf.depend[e] \ Mocked \in SUBSET Elements
    BY <1>1, <1>3, ConfFacts
  <2>3. conf.depend[e] \ Mocked = {}
    BY <2>1, <2>2, ElementsFinite, FS_EmptySet
  <2> QED
    BY <2>1, <2>3
<1>6. Mocked = Levels(sched, 1..(n - 1))
  BY MockedIs
<1>7. ASSUME NEW p \in Slots(sched), In(sched, p) = e PROVE FALSE
  <2>1. /\ p[1] \in 1..n /\ p[2] \in 1..Len(sched[p[1]]) /\ p[3] \in 1..Len(sched[p[1]][p[2]])
        /\ In(sched, p) = sched[p[1]][p[2]][p[3]]
        /\ sched[p[1]] \in Seq(Seq(Elements)) /\ sched[p[1]][p[2]] \in Seq(Elements)
    BY <1>1, SlotType
  <2>2. p[1] \notin 1..(n - 1)
    BY <1>5, <1>6, <1>7, LevelsIn
  <2>3. p[1] = n
    BY <2>1, <2>2, <1>1
  <2>4. sched[n][p[2]] \in ToSet(sched[n]) /\ e \in ToSet(sched[n][p[2]])
    BY <2>1, <2>3, <1>7 DEF ToSet
  <2> QED
    BY <2>4, <1>2
<1>8. ~IsLinkable(e)
  <2>1. CASE at = "first"
    BY <2>1, <1>2 DEF Reached
  <2>2. CASE at = "next"
    <3>1. SUFFICES ASSUME IsLinkable(e) PROVE FALSE
      OBVIOUS
    <3>2. PICK d \in Elements : conf.depend[e] = {d} /\ RunBefore(d) = {e} /\ e \in Behind(d)
      BY <3>1, <1>1, <1>3, LinkableIs
    <3>3. PICK q \in Slots(sched) : q[1] \in 1..(n - 1) /\ In(sched, q) = d
      BY <3>2, <1>5, <1>6, LevelsIn
    <3>4. q[1] # Len(sched) /\ In(sched, q) \in conf.depend[e]
      BY <3>2, <3>3, <1>1
    <3>5. \E r \in Slots(sched) : In(sched, r) = e
      BY <3>1, <3>4, <1>3, LinkedBehind
    <3> QED
      BY <3>5, <1>7
  <2> QED
    BY <2>1, <2>2
<1>9. n > 1 => conf.depend[e] \cap Levels(sched, {n - 1}) # {}
  <2>1. SUFFICES ASSUME n > 1 PROVE conf.depend[e] \cap Levels(sched, {n - 1}) # {}
    OBVIOUS
  <2>2. at = "next"
    BY <2>1, <1>1 DEF Shape
  <2>3. h \in UNION {UNION {{<<c, k, x>> : x \in RunBefore(sched[n - 1][c][k])}
                     : k \in DOMAIN sched[n - 1][c]} : c \in DOMAIN sched[n - 1]}
    BY <2>2, <1>2 DEF Reached, Top
  <2>4. PICK c \in DOMAIN sched[n - 1] :
          h \in UNION {{<<c, k, x>> : x \in RunBefore(sched[n - 1][c][k])}
                     : k \in DOMAIN sched[n - 1][c]}
    BY <2>3
  <2>5. PICK k \in DOMAIN sched[n - 1][c] : h \in {<<c, k, x>> : x \in RunBefore(sched[n - 1][c][k])}
    BY <2>4
  <2>6. e \in RunBefore(sched[n - 1][c][k])
    BY <2>5
  <2>7. n - 1 \in DOMAIN sched
    BY <2>1, <1>1 DEF Schedules
  <2>8. <<n - 1, c, k>> \in Slots(sched) /\ In(sched, <<n - 1, c, k>>) = sched[n - 1][c][k]
    BY <2>7, SlotIn
  <2>9. sched[n - 1][c][k] \in Levels(sched, {n - 1})
    BY <2>8, LevelsIn
  <2>10. sched[n - 1][c][k] \in conf.depend[e]
    BY <2>6, <1>1, RunBeforeIs
  <2> QED
    BY <2>9, <2>10
<1> QED
  BY <1>3, <1>4, <1>5, <1>6, <1>7, <1>8, <1>9 DEF Begins

(* A step that puts one element into the level that is being made.         *)
LEMMA GrowStep ==
  ASSUME Good, at \in {"first", "next"}, First, NEW q, NEW e,
         IsGrown(sched, sched', q, e), q[1] = Len(sched), Len(sched') = Len(sched),
         UNCHANGED <<conf, at, runVars, para, counted, done, left, jobs, ran, failed>>
  PROVE  Complete' /\ SetupInv' /\ RunInv'
<1>1. /\ conf' = conf /\ at' = at /\ counted' = counted /\ done' = done /\ left' = left
      /\ inits' = inits /\ First'
  BY DEF runVars, First
<1>2. Len(sched) \in Nat
  BY DEF Good, ScheduleInv, Shape, Schedules
<1>3. \A m : Len(sched) \notin m => Levels(sched', m) = Levels(sched, m)
  BY GrownLevels
<1>4. Mocked' = Mocked
  <2>1. CASE at = "first"
    BY <2>1, <1>1 DEF Mocked
  <2>2. CASE at = "next"
    <3>1. Len(sched) \notin 1..(Len(sched) - 1)
      BY <1>2
    <3>2. Levels(sched', 1..(Len(sched) - 1)) = Levels(sched, 1..(Len(sched) - 1))
      BY <3>1, <1>3
    <3> QED
      BY <2>2, <3>2, <1>1 DEF Mocked
  <2> QED
    BY <2>1, <2>2
<1>5. Complete'
  <2>1. CASE at = "first"
    BY <2>1, <1>1 DEF Complete
  <2>2. CASE at = "next"
    <3>1. /\ Len(sched) \notin 1..(Len(sched) - 2)
          /\ Len(sched) \notin 1..((Len(sched) - 2) + 1)
      BY <1>2
    <3>2. /\ Levels(sched', 1..(Len(sched) - 2)) = Levels(sched, 1..(Len(sched) - 2))
          /\ Levels(sched', 1..((Len(sched) - 2) + 1)) = Levels(sched, 1..((Len(sched) - 2) + 1))
      BY <3>1, <1>3
    <3>3. Closed(sched, Len(sched) - 2)
      BY <2>2 DEF Good, ScheduleInv, Complete
    <3>4. Closed(sched, Len(sched) - 2)'
      BY <3>2, <3>3, <1>1 DEF Closed
    <3> QED
      BY <2>2, <3>4, <1>1 DEF Complete
  <2> QED
    BY <2>1, <2>2
<1>6. SetupInv'
  <2>1. Counters'
    <3>1. Counters
      BY DEF Good, SetupInv
    <3> QED
      BY <3>1, <1>1, <1>4 DEF Counters
  <2>2. SetupCount'
    <3>1. SetupCount
      BY DEF Good, SetupInv
    <3> QED
      BY <3>1, <1>1, <1>4 DEF SetupCount
  <2>3. Later'
    BY <1>1 DEF Later
  <2> QED
    BY <2>1, <2>2, <2>3 DEF SetupInv
<1>7. RunInv'
  <2>1. Jobs' /\ Rans' /\ RunCount' /\ Verdict'
    BY <1>1, RunFrame DEF runVars, Setting
  <2>2. AllDone'
    BY <1>1 DEF AllDone, Setting
  <2> QED
    BY <2>1, <2>2 DEF RunInv
<1> QED
  BY <1>5, <1>6, <1>7

(* SetupLink keeps the invariant: the element is new and goes on with a    *)
(* chain.                                                                  *)
LEMMA LinkStep ==
  ASSUME Good, SetupLink
  PROVE  ScheduleInv' /\ SetupInv' /\ RunInv'
<1> DEFINE n == Len(sched)
           c == Len(sched[n])
           k == Len(sched[n][c])
<1>1. /\ Shape /\ Once(sched) /\ Chained(sched) /\ Begun(sched) /\ Ended
      /\ conf \in Configs /\ sched \in Schedules /\ n \in Nat \ {0} /\ n \in 1..Len(sched)
      /\ at \in {"first", "next"}
  BY DEF Good, Base, ScheduleInv, Shape, Schedules, Setting, SetupLink
<1>2. PICK y \in Links : sched' = [sched EXCEPT ![Top][Len(Clusters)] = Append(@, y)]
  BY DEF SetupLink
<1>3. sched[n] # <<>> /\ y \in Behind(Last(sched[n][c])) /\ sched[n] \in Seq(Seq(Elements))
  BY <1>1, <1>2 DEF Links, Clusters, Top, Last, Schedules
<1>4. c \in 1..Len(sched[n]) /\ c \in Nat \ {0}
  BY <1>3
<1>5. sched[n][c] # <<>>
  BY <1>1, <1>4 DEF Shape
<1>6. /\ \A p \in Slots(sched) : In(sched, p) # y
      /\ <<n, c, k>> \in Slots(sched)
      /\ conf.depend[y] = {In(sched, <<n, c, k>>)} /\ y \in Elements /\ k \in Nat \ {0}
  BY <1>1, <1>3, <1>4, <1>5, LinkNew
<1>7. sched' = [sched EXCEPT ![n][c] = Append(@, y)]
  BY <1>2 DEF Top, Clusters
<1> DEFINE q == <<n, c, k + 1>>
<1>8. /\ sched' \in Schedules /\ Len(sched') = Len(sched)
      /\ \A i \in 1..Len(sched) : Len(sched'[i]) = Len(sched[i]) /\ (i # n => sched'[i] = sched[i])
      /\ \A j \in 1..Len(sched[n]) : j # c => sched'[n][j] = sched[n][j]
      /\ sched'[n][c] = Append(sched[n][c], y) /\ sched[n][c] \in Seq(Elements)
      /\ IsGrown(sched, sched', q, y)
  <2>1. PICK m, d, t : m = n /\ d = c /\ t = sched'
    OBVIOUS
  <2>2. PICK s : s = sched
    OBVIOUS
  <2>2a. s \in Schedules /\ m \in 1..Len(s) /\ d \in 1..Len(s[m]) /\ y \in Elements
    BY <2>1, <2>2, <1>1, <1>4, <1>6
  <2>2b. t = Linked(s, m, d, y)
    BY <2>1, <2>2, <1>7 DEF Linked
  <2>2c. IsLinked(s, t, m, d, y)
    BY ONLY <2>2a, <2>2b, LinkGrows
  <2>3. /\ t \in Schedules /\ Len(t) = Len(s)
        /\ \A i \in 1..Len(s) : Len(t[i]) = Len(s[i]) /\ (i # m => t[i] = s[i])
        /\ \A j \in 1..Len(s[m]) : j # d => t[m][j] = s[m][j]
        /\ t[m][d] = Append(s[m][d], y) /\ s[m][d] \in Seq(Elements)
        /\ IsGrown(s, t, <<m, d, Len(s[m][d]) + 1>>, y)
    BY ONLY <2>2c DEF IsLinked
  <2>4. sched' \in Schedules /\ Len(sched') = Len(sched)
    BY <2>1, <2>2, <2>3
  <2>5. \A i \in 1..Len(sched) : Len(sched'[i]) = Len(sched[i]) /\ (i # n => sched'[i] = sched[i])
    <3>1. \A i \in 1..Len(s) : Len(t[i]) = Len(s[i]) /\ (i # m => t[i] = s[i])
      BY <2>3
    <3> QED
      BY ONLY <3>1, <2>1, <2>2
  <2>6. \A j \in 1..Len(sched[n]) : j # c => sched'[n][j] = sched[n][j]
    <3>1. \A j \in 1..Len(s[m]) : j # d => t[m][j] = s[m][j]
      BY <2>3
    <3> QED
      BY ONLY <3>1, <2>1, <2>2
  <2>7. /\ sched'[n][c] = Append(sched[n][c], y) /\ sched[n][c] \in Seq(Elements)
        /\ IsGrown(sched, sched', q, y)
    BY <2>1, <2>2, <2>3
  <2> QED
    BY <2>4, <2>5, <2>6, <2>7
<1>9. First
  <2>1. Slots(sched) # {}
    BY <1>6
  <2> QED
    BY <2>1 DEF Good, SetupInv, Later
<1>10. /\ conf' = conf /\ at' = at
       /\ UNCHANGED <<conf, at, runVars, para, counted, done, left, jobs, ran, failed>>
  BY DEF SetupLink
<1>11. Complete' /\ SetupInv' /\ RunInv'
  BY <1>1, <1>8, <1>9, <1>10, GrowStep
<1>12. Once(sched') /\ Chained(sched') /\ Begun(sched')
  <2>1. q[1] = n /\ q[2] = c /\ q[3] = k + 1 /\ q[3] > 1 /\ q[3] - 1 = k /\ q[3] # 1
    BY <1>6
  <2>2. <<q[1], q[2], q[3] - 1>> = <<n, c, k>>
    BY <2>1
  <2> HIDE DEF q
  <2> QED
    BY <2>1, <2>2, <1>1, <1>6, <1>8, GrownKeeps
<1>13. Once(sched)' /\ Chained(sched)' /\ Begun(sched)'
  BY <1>10, <1>12 DEF Once, Chained, Begun, Begins, IsLinkable, RunBefore
<1>14. Shape'
  <2>1. /\ sched' \in Schedules /\ Len(sched') = n /\ at' = at
        /\ n = 0 => sched = <<>>
    BY <1>8, <1>10, <1>1
  <2>2. ASSUME NEW l \in 1..Len(sched'), NEW d \in 1..Len(sched'[l]) PROVE sched'[l][d] # <<>>
    <3>1. l \in 1..Len(sched) /\ d \in 1..Len(sched[l])
      BY <1>8
    <3>2. sched[l][d] # <<>>
      BY <3>1, <1>1 DEF Shape
    <3>3. CASE l = n /\ d = c
      BY <3>3, <1>8
    <3>4. CASE l # n \/ d # c
      BY <3>1, <3>2, <3>4, <1>8
    <3> QED
      BY <3>3, <3>4
  <2>3. ASSUME NEW l \in 1..Len(sched'), sched'[l] = <<>> PROVE l = Len(sched')
    <3>1. Len(sched[l]) = 0 /\ l \in 1..Len(sched)
      BY <1>8, <2>3
    <3>2. sched[l] \in Seq(Seq(Elements))
      BY <3>1, <1>1 DEF Schedules
    <3>3. sched[l] = <<>>
      BY <3>1, <3>2
    <3> QED
      BY <3>1, <3>3, <1>1, <1>8 DEF Shape
  <2> QED
    BY <2>1, <2>2, <2>3, <1>1 DEF Shape, Setting
<1>15. Ended'
  <2>1. ASSUME NEW l \in 1..Len(sched'), NEW d \in 1..Len(sched'[l]), ~(l = n /\ d = c)
        PROVE  Behind(Last(sched'[l][d])) = {}
    <3>1. /\ l \in 1..Len(sched) /\ d \in 1..Len(sched[l]) /\ sched'[l][d] = sched[l][d]
      BY <1>8, <2>1
    <3>2. ~(l = Len(sched) /\ d = Len(sched[l]))
      BY <2>1
    <3> QED
      BY <3>1, <3>2, <1>1 DEF Ended
  <2>2. \A x : Behind(x)' = Behind(x)
    BY <1>10, GraphKept
  <2> QED
    BY <2>1, <2>2, <1>8, <1>10, <1>1 DEF Ended
<1> QED
  BY <1>11, <1>13, <1>14, <1>15 DEF ScheduleInv

(* SetupHead keeps it: the element is new and its level the earliest.      *)
LEMMA HeadStep ==
  ASSUME Good, SetupHead
  PROVE  ScheduleInv' /\ SetupInv' /\ RunInv'
<1> DEFINE n == Len(sched)
           c == Len(sched[n])
<1>1. /\ Shape /\ Once(sched) /\ Chained(sched) /\ Begun(sched) /\ Ended
      /\ conf \in Configs /\ sched \in Schedules /\ n \in Nat \ {0} /\ n \in 1..Len(sched)
      /\ at \in {"first", "next"} /\ Links = {}
  BY DEF Good, Base, ScheduleInv, Shape, Schedules, Setting, SetupHead
<1>2. PICK h \in Heads : sched' = [sched EXCEPT ![Top] = Append(@, <<h[3]>>)]
  BY DEF SetupHead
<1>3. PICK y : y = h[3]
  OBVIOUS
<1>4. /\ y \in Elements /\ First /\ \A p \in Slots(sched) : In(sched, p) # y
      /\ Begins(sched, n, y)
  BY <1>1, <1>3, HeadNew
<1>5. sched[n] \in Seq(Seq(Elements)) /\ c \in Nat
  BY <1>1 DEF Schedules
<1>6. /\ sched' \in Schedules /\ Len(sched') = n
      /\ \A i \in 1..n : i # n => sched'[i] = sched[i]
      /\ sched'[n] = Append(sched[n], <<y>>)
      /\ IsGrown(sched, sched', <<n, c + 1, 1>>, y)
  <2>1. PICK m, t : m = n /\ t = sched'
    OBVIOUS
  <2>2. /\ sched \in Schedules /\ m \in 1..Len(sched) /\ y \in Elements
        /\ t = Headed(sched, m, y)
    BY <2>1, <1>1, <1>2, <1>3, <1>4 DEF Headed, Top
  <2>3. /\ t \in Schedules /\ Len(t) = Len(sched)
        /\ \A i \in 1..Len(sched) : i # m => t[i] = sched[i]
        /\ t[m] = Append(sched[m], <<y>>)
        /\ IsGrown(sched, t, <<m, Len(sched[m]) + 1, 1>>, y)
    BY ONLY <2>2, HeadGrows
  <2> QED
    BY <2>1, <2>3
<1>7. /\ Len(sched'[n]) = c + 1 /\ sched'[n][c + 1] = <<y>>
      /\ \A d \in 1..c : sched'[n][d] = sched[n][d]
  BY <1>5, <1>6
<1>8. /\ conf' = conf /\ at' = at
      /\ UNCHANGED <<conf, at, runVars, para, counted, done, left, jobs, ran, failed>>
  BY DEF SetupHead
<1> DEFINE q == <<n, c + 1, 1>>
<1>9. q[1] = n /\ q[3] = 1
  OBVIOUS
<1> HIDE DEF q
<1>10. IsGrown(sched, sched', q, y)
  BY <1>6 DEF q
<1>11. Complete' /\ SetupInv' /\ RunInv'
  BY <1>1, <1>4, <1>6, <1>8, <1>9, <1>10, GrowStep
<1>12. Once(sched') /\ Chained(sched') /\ Begun(sched')
  <2>1. /\ sched \in Schedules /\ IsGrown(sched, sched', q, y) /\ q[1] \in Nat
        /\ Once(sched) /\ Chained(sched) /\ Begun(sched)
        /\ \A p \in Slots(sched) : In(sched, p) # y
        /\ ~(q[3] > 1) /\ Begins(sched, q[1], y)
    BY <1>1, <1>4, <1>9, <1>10
  <2> QED
    BY ONLY <2>1, GrownKeeps
<1>13. Once(sched)' /\ Chained(sched)' /\ Begun(sched)'
  BY <1>8, <1>12 DEF Once, Chained, Begun, Begins, IsLinkable, RunBefore
<1>14. Shape'
  <2>1. ASSUME NEW l \in 1..Len(sched'), NEW d \in 1..Len(sched'[l]) PROVE sched'[l][d] # <<>>
    <3>1. CASE l # n
      BY <3>1, <1>6, <1>1 DEF Shape
    <3>2. CASE l = n /\ d = c + 1
      BY <3>2, <1>7
    <3>3. CASE l = n /\ d # c + 1
      <4>1. d \in 1..c
        BY <3>3, <1>7, <1>5
      <4> QED
        BY <4>1, <3>3, <1>7, <1>1 DEF Shape
    <3> QED
      BY <3>1, <3>2, <3>3
  <2>2. ASSUME NEW l \in 1..Len(sched'), sched'[l] = <<>> PROVE l = Len(sched')
    BY <2>2, <1>6, <1>1 DEF Shape
  <2> QED
    BY <2>1, <2>2, <1>1, <1>6, <1>8 DEF Shape, Setting
<1>15. Ended'
  <2>1. c # 0 => Behind(Last(sched[n][c])) = {}
    <3>1. SUFFICES ASSUME c # 0 PROVE Behind(Last(sched[n][c])) = {}
      OBVIOUS
    <3>2. sched[n] # <<>> /\ Last(sched[n]) = sched[n][c]
      BY <3>1, <1>5 DEF Last
    <3> QED
      BY <3>2, <1>1 DEF Links, Clusters, Top
  <2>2. ASSUME NEW l \in 1..Len(sched'), NEW d \in 1..Len(sched'[l]), ~(l = n /\ d = c + 1)
        PROVE  Behind(Last(sched'[l][d])) = {}
    <3>1. CASE l # n
      BY <3>1, <1>6, <1>1 DEF Ended
    <3>2. CASE l = n
      <4>1. d \in 1..c /\ sched'[l][d] = sched[n][d]
        BY <3>2, <2>2, <1>7, <1>5
      <4>2. CASE d = c
        BY <4>1, <4>2, <2>1, <1>5
      <4>3. CASE d # c
        BY <4>1, <4>3, <1>1, <1>5 DEF Ended
      <4> QED
        BY <4>2, <4>3
    <3> QED
      BY <3>1, <3>2
  <2>3. \A x : Behind(x)' = Behind(x)
    BY <1>8, GraphKept
  <2> QED
    BY <2>2, <2>3, <1>6, <1>7, <1>8, <1>1 DEF Ended
<1> QED
  BY <1>11, <1>13, <1>14, <1>15 DEF ScheduleInv

(* When nothing can begin a cluster any more, what needs only the levels   *)
(* before is in one of them or in this one.                                *)
LEMMA LevelClosed ==
  ASSUME Good, First, at \in {"first", "next"}, Heads = {}
  PROVE  Closed(sched, Len(sched) - 1)
<1> DEFINE n == Len(sched)
<1>1. /\ Shape /\ Complete /\ conf \in Configs /\ sched \in Schedules /\ n \in Nat \ {0}
      /\ n \in 1..Len(sched)
  BY DEF Good, Base, ScheduleInv, Shape, Schedules, Setting
<1>2. Mocked = Levels(sched, 1..(n - 1))
  BY MockedIs
<1>3. Levels(sched, 1..(n - 1)) \subseteq Levels(sched, 1..n)
  <2>1. 1..(n - 1) \subseteq 1..n
    BY <1>1
  <2> QED
    BY <2>1 DEF Levels
<1>4. ASSUME NEW e \in Elements, conf.depend[e] \subseteq Levels(sched, 1..(n - 1)),
             e \notin Levels(sched, 1..n)
      PROVE  FALSE
  <2>1. e \notin Mocked /\ conf.depend[e] \ Mocked = {}
    BY <1>2, <1>3, <1>4
  <2>2. left[e] = 0 /\ ~done[e]
    <3>1. Cardinality(conf.depend[e] \ Mocked) = 0
      BY <2>1, FS_EmptySet
    <3>2. (done[e] <=> e \in Mocked) /\ (e \notin Mocked => left[e] = Cardinality(conf.depend[e] \ Mocked))
      BY DEF Good, SetupInv, Counters, Setting
    <3> QED
      BY <3>1, <3>2, <2>1
  <2>3. \A p \in Slots(sched) : p[1] \in 1..n => In(sched, p) # e
    BY <1>4, LevelsIn
  <2>4. \A c \in ToSet(Clusters) : e \notin ToSet(c)
    <3>1. SUFFICES ASSUME NEW c \in ToSet(sched[n]), e \in ToSet(c) PROVE FALSE
      BY DEF Clusters, Top
    <3>2. PICK i \in DOMAIN sched[n] : c = sched[n][i]
      BY DEF ToSet
    <3>3. PICK k \in DOMAIN sched[n][i] : e = sched[n][i][k]
      BY <3>1, <3>2 DEF ToSet
    <3>4. n \in DOMAIN sched
      BY <1>1 DEF Schedules
    <3>5. <<n, i, k>> \in Slots(sched) /\ In(sched, <<n, i, k>>) = sched[n][i][k]
      BY <3>4, SlotIn
    <3> QED
      BY <3>3, <3>5, <2>3, <1>1
  <2>5. \A h : h \in Reached => h[3] # e
    BY <2>2, <2>4 DEF Heads, IsRunnable
  <2>6. ~IsLinkable(e)
    <3>1. SUFFICES ASSUME IsLinkable(e) PROVE FALSE
      OBVIOUS
    <3>2. PICK d \in Elements : conf.depend[e] = {d}
      BY <3>1, <1>1, LinkableIs
    <3>3. PICK q \in Slots(sched) : q[1] \in 1..(n - 1) /\ In(sched, q) = d
      BY <3>2, <1>4, LevelsIn
    <3>4. q[1] # Len(sched) /\ In(sched, q) \in conf.depend[e]
      BY <3>2, <3>3, <1>1
    <3>5. PICK r \in Slots(sched) : r[1] = q[1] /\ In(sched, r) = e
      BY <3>1, <3>4, <1>4, LinkedBehind
    <3> QED
      BY <3>3, <3>5, <2>3, <1>1
  <2>7. CASE at = "first"
    <3>1. <<0, 0, e>> \in Reached
      BY <2>6, <2>7 DEF Reached
    <3> QED
      BY <3>1, <2>5
  <2>8. CASE at = "next"
    <3>1. n > 1 /\ Closed(sched, n - 2)
      BY <2>8, <1>1 DEF Complete, Shape
    <3>2. ~(conf.depend[e] \subseteq Levels(sched, 1..(n - 2)))
      <4>1. (n - 2) + 1 = n - 1
        BY <1>1
      <4>2. e \notin Levels(sched, 1..((n - 2) + 1))
        BY <4>1, <1>3, <1>4
      <4> QED
        BY <3>1, <4>2 DEF Closed
    <3>3. PICK d \in conf.depend[e] : d \notin Levels(sched, 1..(n - 2))
      BY <3>2
    <3>4. PICK q \in Slots(sched) : q[1] \in 1..(n - 1) /\ In(sched, q) = d
      BY <3>3, <1>4, LevelsIn
    <3>5. q[1] \notin 1..(n - 2)
      BY <3>3, <3>4, LevelsIn
    <3>6. q[1] = n - 1
      BY <3>4, <3>5, <1>1
    <3>7. /\ q[2] \in DOMAIN sched[n - 1] /\ q[3] \in DOMAIN sched[n - 1][q[2]]
          /\ d = sched[n - 1][q[2]][q[3]]
      BY <3>4, <3>6, SlotParts DEF In
    <3>8. e \in RunBefore(sched[n - 1][q[2]][q[3]])
      BY <3>3, <3>7, <1>1, RunBeforeIs
    <3>9. <<q[2], q[3], e>> \in UNION {{<<q[2], k, x>> : x \in RunBefore(sched[n - 1][q[2]][k])}
                       : k \in DOMAIN sched[n - 1][q[2]]}
      BY <3>7, <3>8
    <3>10. <<q[2], q[3], e>> \in Reached
      BY <2>8, <3>7, <3>9 DEF Reached, Top
    <3> QED
      BY <3>10, <2>5
  <2> QED
    BY <2>7, <2>8
<1>5. (n - 1) + 1 = n
  BY <1>1
<1> QED
  BY <1>4, <1>5 DEF Closed

(* What a closed schedule lacks needs something of a cycle.                *)
LEMMA ClosedHasAll ==
  ASSUME conf \in Configs, NEW s, NEW n, NEW m,
         Closed(s, n), Levels(s, m) = Levels(s, 1..(n + 1)), Levels(s, m) = Levels(s, 1..n)
  PROVE  Elements \ Levels(s, m) \subseteq Stuck(conf.depend)
<1> DEFINE U == Elements \ Levels(s, 1..n)
<1>1. DOMAIN conf.depend = Elements
  BY ConfFacts
<1>2. \A e \in U : conf.depend[e] \cap U # {}
  <2>1. SUFFICES ASSUME NEW e \in U, conf.depend[e] \cap U = {} PROVE FALSE
    OBVIOUS
  <2>2. conf.depend[e] \subseteq Elements
    BY ConfFacts
  <2>3. conf.depend[e] \subseteq Levels(s, 1..n)
    BY <2>1, <2>2
  <2> QED
    BY <2>3 DEF Closed
<1>3. U \subseteq Stuck(conf.depend)
  BY <1>1, <1>2 DEF Stuck
<1> QED
  BY <1>3

(* SetupBuilt at the end: a level that got no cluster closes the schedule. *)
LEMMA BuiltEnd ==
  ASSUME Good, SetupBuilt, Clusters = <<>>
  PROVE  ScheduleInv' /\ SetupInv' /\ RunInv'
<1> DEFINE n == Len(sched)
<1>1. /\ Shape /\ Once(sched) /\ Chained(sched) /\ Begun(sched) /\ Ended
      /\ conf \in Configs /\ sched \in Schedules /\ n \in Nat \ {0} /\ n \in 1..Len(sched)
      /\ at \in {"first", "next"} /\ Links = {} /\ Heads = {} /\ sched[n] = <<>> /\ sched # <<>>
  BY DEF Good, Base, ScheduleInv, Shape, Schedules, Setting, SetupBuilt, Clusters, Top
<1>2. /\ at' = "test" /\ sched' = Front(sched)
      /\ UNCHANGED <<conf, place, level, run, runs, inits, verdict, para, counted, done, left, jobs,
                     ran, failed>>
  BY DEF SetupBuilt
<1>3. /\ sched' \in Schedules /\ Len(sched') = n - 1
      /\ \A i \in 1..(n - 1) : sched'[i] = sched[i]
      /\ IsSame(sched, sched')
  BY <1>1, <1>2, FrontSame
<1>4. First' <=> First
  BY <1>2 DEF First
<1>5. Once(sched)' /\ Chained(sched)' /\ Begun(sched)'
  <2>1. Once(sched') /\ Chained(sched') /\ Begun(sched')
    BY <1>1, <1>3, SameKeeps
  <2> QED
    BY <1>2, <2>1 DEF Once, Chained, Begun, Begins, IsLinkable, RunBefore
<1>6. \A m : Levels(sched', m) = Levels(sched, m)
  BY <1>3, SameLevels
<1>7. Levels(sched, 1..n) = Levels(sched, 1..(n - 1))
  <2>1. ASSUME NEW p \in Slots(sched), p[1] \in 1..n PROVE p[1] \in 1..(n - 1)
    <3>1. p[2] \in 1..Len(sched[p[1]])
      BY <1>1, SlotType
    <3>2. p[1] # n
      BY <3>1, <1>1
    <3> QED
      BY <3>2, <2>1, <1>1
  <2>2. 1..(n - 1) \subseteq 1..n
    BY <1>1
  <2> QED
    BY <2>1, <2>2 DEF Levels
<1>8. First => Closed(sched, n - 1)
  BY <1>1, LevelClosed
<1>9. Shape'
  <2>1. ASSUME NEW l \in 1..Len(sched') PROVE sched'[l] = sched[l] /\ l \in 1..Len(sched) /\ l # Len(sched)
    BY <1>1, <1>3
  <2>2. \A l \in 1..Len(sched') : sched'[l] # <<>> /\ \A d \in 1..Len(sched'[l]) : sched'[l][d] # <<>>
    BY <2>1, <1>1 DEF Shape
  <2> QED
    BY <2>2, <1>2, <1>3 DEF Shape, Setting
<1>10. Ended'
  <2>1. ASSUME NEW l \in 1..Len(sched'), NEW d \in 1..Len(sched'[l])
        PROVE  Behind(Last(sched'[l][d])) = {}
    <3>1. sched'[l] = sched[l] /\ l \in 1..Len(sched) /\ l # Len(sched)
      BY <1>1, <1>3
    <3> QED
      BY <3>1, <1>1 DEF Ended
  <2>2. \A x : Behind(x)' = Behind(x)
    BY <1>2, GraphKept
  <2> QED
    BY <2>1, <2>2 DEF Ended
<1>11. Complete'
  <2>1. SUFFICES ASSUME First' PROVE Closed(sched, Len(sched))'
    BY <1>2 DEF Complete, Setting
  <2>2. Closed(sched, n - 1)
    BY <2>1, <1>4, <1>8
  <2> QED
    BY <2>2, <1>2, <1>3, <1>6 DEF Closed
<1>12. SetupInv'
  <2>1. Counters' /\ SetupCount'
    BY <1>2 DEF Good, SetupInv, Counters, SetupCount, Setting
  <2>2. Later'
    <3>1. Slots(sched) = {} => Slots(sched') = {}
      BY <1>3 DEF IsSame
    <3> QED
      BY <3>1, <1>2, <1>4 DEF Good, SetupInv, Later
  <2> QED
    BY <2>1, <2>2 DEF SetupInv
<1>13. AllDone'
  <2>1. SUFFICES ASSUME Acyclic(conf.depend) PROVE \A e \in Elements : done[e] \/ Unsettled(e)
    BY <1>2 DEF AllDone, Unsettled
  <2>2. CASE ~First
    BY <2>1, <2>2 DEF Good, RunInv, AllDone
  <2>3. CASE First
    <3>1. Closed(sched, n - 1) /\ (n - 1) + 1 = n
      BY <2>3, <1>1, <1>8
    <3>2. Elements \subseteq Levels(sched, 1..(n - 1))
      BY <3>1, <2>1, <1>1, <1>7, ClosedHasAll DEF Acyclic
    <3>3. \A e \in Elements : done[e] <=> e \in Mocked
      BY <2>3, <1>1 DEF Good, SetupInv, Counters, Setting
    <3> QED
      BY <3>2, <3>3, <1>1, MockedIs
  <2> QED
    BY <2>2, <2>3
<1>14. Jobs' /\ Rans' /\ RunCount' /\ Verdict'
  BY <1>1, <1>2, RunFrame DEF Setting
<1> QED
  BY <1>5, <1>9, <1>10, <1>11, <1>12, <1>13, <1>14 DEF ScheduleInv, RunInv

(* SetupBuilt of a level: it is mocked next, the count is small enough.    *)
LEMMA BuiltMock ==
  ASSUME Good, SetupBuilt, Clusters # <<>>
  PROVE  ScheduleInv' /\ SetupInv' /\ RunInv'
<1> DEFINE n == Len(sched)
<1>1. /\ Shape /\ Once(sched) /\ Chained(sched) /\ Begun(sched) /\ Ended
      /\ conf \in Configs /\ sched \in Schedules /\ n \in Nat \ {0} /\ n \in 1..Len(sched)
      /\ at \in {"first", "next"} /\ Links = {} /\ Heads = {} /\ sched[n] # <<>>
      /\ sched[n] \in Seq(Seq(Elements))
  BY DEF Good, Base, ScheduleInv, Shape, Schedules, Setting, SetupBuilt, Clusters, Top
<1>1a. counted <= Size
  <2>1. Mocked \in SUBSET Elements
    BY <1>1, MockedIs, LevelsType
  <2>2. counted \in Nat /\ counted <= Cardinality(Mocked)
    BY <1>1 DEF Good, SetupInv, SetupCount
  <2>3. Cardinality(Mocked) \in Nat /\ Cardinality(Mocked) <= Size /\ Size \in Nat
    BY <2>1, ElementsFinite
  <2> QED
    BY ONLY <2>2, <2>3
<1>2. /\ at' = "mock" /\ sched' = sched /\ place' = 1
      /\ UNCHANGED <<conf, level, run, runs, inits, verdict, para, counted, done, left, jobs,
                     ran, failed>>
  BY <1>1a DEF SetupBuilt
<1>3. 1 \in 1..Len(sched[n]) /\ Len(sched[n]) \in 1..Len(sched[n])
  BY <1>1
<1>4. First /\ First'
  <2>1. sched[n][1] # <<>> /\ sched[n][1] \in Seq(Elements)
    BY <1>1, <1>3 DEF Shape
  <2>2. 1 \in 1..Len(sched[n][1])
    BY <2>1
  <2>3. <<n, 1, 1>> \in Slots(sched)
    BY <1>1, <1>3, <2>2, SlotNumbers
  <2> QED
    BY <2>3, <1>2 DEF Good, SetupInv, Later, First
<1>5. Closed(sched, n - 1)
  BY <1>1, <1>4, LevelClosed
<1>6. Once(sched)' /\ Chained(sched)' /\ Begun(sched)'
  BY <1>1, <1>2, GraphKept
<1>7. Shape'
  BY <1>1, <1>2 DEF Shape, Setting
<1>8. Ended'
  <2>1. Behind(Last(sched[n][Len(sched[n])])) = {}
    <3>1. Last(sched[n]) = sched[n][Len(sched[n])]
      BY DEF Last
    <3> QED
      BY <3>1, <1>1 DEF Links, Clusters, Top
  <2>2. \A x : Behind(x)' = Behind(x)
    BY <1>2, GraphKept
  <2> QED
    BY <2>1, <2>2, <1>1, <1>2 DEF Ended
<1>9. Complete'
  BY <1>2, <1>5 DEF Complete, Closed
<1>10. Mocked' = Mocked
  <2>1. ASSUME NEW p \in Slots(sched) PROVE (p[1] < n \/ p[2] < 1) <=> p[1] \in 1..(n - 1)
    <3>1. p[1] \in 1..n /\ p[2] \in 1..Len(sched[p[1]]) /\ sched[p[1]] \in Seq(Seq(Elements))
      BY <1>1, SlotType
    <3> QED
      BY <3>1, <1>1
  <2>2. Mocked' = {In(sched, p) : p \in {x \in Slots(sched) : x[1] < n \/ x[2] < 1}}
    BY <1>2 DEF Mocked
  <2>3. {x \in Slots(sched) : x[1] < n \/ x[2] < 1} = {x \in Slots(sched) : x[1] \in 1..(n - 1)}
    BY <2>1
  <2>4. Levels(sched, 1..(n - 1)) = {In(sched, p) : p \in {x \in Slots(sched) : x[1] \in 1..(n - 1)}}
    BY DEF Levels
  <2> QED
    BY <2>2, <2>3, <2>4, <1>1, MockedIs
<1>11. SetupInv'
  <2>1. Counters'
    <3>1. Counters
      BY DEF Good, SetupInv
    <3> QED
      BY <3>1, <1>1, <1>2, <1>4, <1>10 DEF Counters, Setting
  <2>2. SetupCount'
    <3>1. counted \in Nat /\ counted <= Cardinality(Mocked)
      BY <1>1 DEF Good, SetupInv, SetupCount
    <3>2. place' \in 1..Len(sched[n])' /\ counted' + place' - 1 = counted
      BY <3>1, <1>2, <1>3
    <3> QED
      BY <3>1, <3>2, <1>2, <1>10 DEF SetupCount
  <2>3. Later'
    BY <1>4 DEF Later
  <2> QED
    BY <2>1, <2>2, <2>3 DEF SetupInv
<1>12. AllDone'
  BY <1>2, <1>4 DEF AllDone
<1>13. Jobs' /\ Rans' /\ RunCount' /\ Verdict'
  BY <1>1, <1>2, RunFrame DEF Setting
<1> QED
  BY <1>6, <1>7, <1>8, <1>9, <1>11, <1>12, <1>13 DEF ScheduleInv, RunInv

(* The elements of the cluster that is mocked.                             *)
MockNow == ToSet(sched[Len(sched)][place])

(* The mocked elements when the cluster i of the level is next.            *)
MockedTo(i) ==
  {In(sched, p) : p \in {q \in Slots(sched) : q[1] < Len(sched) \/ q[2] < i}}

(* The cluster that is mocked next holds an element, and none that has     *)
(* been mocked.                                                            *)
LEMMA MockFacts ==
  ASSUME Good, at = "mock"
  PROVE  /\ First /\ Mocked = MockedTo(place)
         /\ Len(sched) \in Nat \ {0} /\ sched[Len(sched)] \in Seq(Seq(Elements))
         /\ place \in 1..Len(sched[Len(sched)])
         /\ MockNow \in SUBSET Elements /\ MockNow # {} /\ MockNow \cap Mocked = {}
         /\ Mocked \in SUBSET Elements
         /\ MockedTo(place + 1) = Mocked \cup MockNow
         /\ Cardinality(Mocked \cup MockNow) >= Cardinality(Mocked) + 1
<1> DEFINE n == Len(sched)
<1>1. /\ Shape /\ Once(sched) /\ conf \in Configs /\ sched \in Schedules /\ n \in Nat \ {0}
      /\ n \in 1..Len(sched) /\ sched[n] \in Seq(Seq(Elements)) /\ place \in 1..Len(sched[n])
      /\ sched[n][place] \in Seq(Elements)
  BY DEF Good, Base, ScheduleInv, Shape, Schedules, Setting, SetupInv, SetupCount
<1>2. First
  BY DEF Good, SetupInv, Later
<1>3. Mocked = MockedTo(place)
  BY DEF Mocked, MockedTo
<1>4. MockNow \in SUBSET Elements /\ MockNow # {}
  <2>1. sched[n][place] # <<>>
    BY <1>1 DEF Shape
  <2>2. 1 \in DOMAIN sched[n][place] /\ \A k \in DOMAIN sched[n][place] : sched[n][place][k] \in Elements
    BY <2>1, <1>1
  <2> QED
    BY <2>2 DEF MockNow, ToSet
<1>5. ASSUME NEW e \in MockNow, NEW p \in Slots(sched), In(sched, p) = e
      PROVE  p[1] = n /\ p[2] = place
  <2>1. PICK k \in DOMAIN sched[n][place] : e = sched[n][place][k]
    BY DEF MockNow, ToSet
  <2>2. k \in 1..Len(sched[n][place])
    BY <2>1, <1>1
  <2>3. <<n, place, k>> \in Slots(sched) /\ In(sched, <<n, place, k>>) = e
    BY <2>1, <2>2, <1>1, SlotNumbers
  <2>4. p = <<n, place, k>>
    BY <2>3, <1>5, <1>1 DEF Once
  <2> QED
    BY <2>4
<1>6. MockNow \cap Mocked = {}
  <2>1. SUFFICES ASSUME NEW e \in MockNow, e \in Mocked PROVE FALSE
    OBVIOUS
  <2>2. PICK p \in Slots(sched) : (p[1] < n \/ p[2] < place) /\ In(sched, p) = e
    BY <2>1, <1>3 DEF MockedTo
  <2>3. p[1] = n /\ p[2] = place
    BY <2>2, <1>5
  <2> QED
    BY <2>2, <2>3, <1>1
<1>7. Mocked \in SUBSET Elements
  <2>1. \A p \in Slots(sched) : In(sched, p) \in Elements
    BY <1>1, SlotType
  <2> QED
    BY <2>1, <1>3 DEF MockedTo
<1>8. ASSUME NEW e \in MockedTo(place + 1) PROVE e \in Mocked \cup MockNow
  <2>1. PICK p \in Slots(sched) : (p[1] < n \/ p[2] < place + 1) /\ In(sched, p) = e
    BY DEF MockedTo
  <2>2. /\ p[1] \in 1..n /\ p[2] \in 1..Len(sched[p[1]]) /\ p[3] \in 1..Len(sched[p[1]][p[2]])
        /\ sched[p[1]] \in Seq(Seq(Elements)) /\ sched[p[1]][p[2]] \in Seq(Elements)
        /\ In(sched, p) = sched[p[1]][p[2]][p[3]]
    BY <1>1, SlotType
  <2>3. CASE p[1] < n \/ p[2] < place
    BY <2>3, <2>1, <1>3 DEF MockedTo
  <2>4. CASE ~(p[1] < n \/ p[2] < place)
    <3>1. p[1] = n /\ p[2] = place
      <4>1. p[1] \in Int /\ p[2] \in Int /\ place \in Int
        BY <2>2, <1>1
      <4> QED
        BY <4>1, <2>1, <2>2, <2>4, <1>1
    <3>2. e = sched[n][place][p[3]] /\ p[3] \in DOMAIN sched[n][place]
      BY <3>1, <2>1, <2>2
    <3> QED
      BY <3>2 DEF MockNow, ToSet
  <2> QED
    BY <2>3, <2>4
<1>9. ASSUME NEW e \in Mocked \cup MockNow PROVE e \in MockedTo(place + 1)
  <2>1. CASE e \in Mocked
    <3>1. PICK p \in Slots(sched) : (p[1] < n \/ p[2] < place) /\ In(sched, p) = e
      BY <2>1, <1>3 DEF MockedTo
    <3>2. p[2] \in Int /\ place \in Int
      BY <1>1, SlotType
    <3>3. p[1] < n \/ p[2] < place + 1
      BY <3>1, <3>2
    <3> QED
      BY <3>1, <3>3 DEF MockedTo
  <2>2. CASE e \in MockNow
    <3>1. PICK k \in DOMAIN sched[n][place] : e = sched[n][place][k]
      BY <2>2 DEF MockNow, ToSet
    <3>2. k \in 1..Len(sched[n][place])
      BY <3>1, <1>1
    <3>3. <<n, place, k>> \in Slots(sched) /\ In(sched, <<n, place, k>>) = e
      BY <3>1, <3>2, <1>1, SlotNumbers
    <3>4. <<n, place, k>>[2] < place + 1
      BY <1>1
    <3> QED
      BY <3>3, <3>4 DEF MockedTo
  <2> QED
    BY <2>1, <2>2
<1>10. Cardinality(Mocked \cup MockNow) >= Cardinality(Mocked) + 1
  <2>1. IsFiniteSet(Mocked) /\ IsFiniteSet(MockNow) /\ Cardinality(Mocked) \in Nat /\ Cardinality(MockNow) \in Nat
    BY <1>4, <1>7, ElementsFinite
  <2>2. Cardinality(Mocked \cup MockNow)
          = Cardinality(Mocked) + Cardinality(MockNow) - Cardinality(Mocked \cap MockNow)
    BY <2>1, FS_Union
  <2>3. Cardinality(Mocked \cap MockNow) = 0
    BY <1>6, FS_EmptySet
  <2>4. Cardinality(MockNow) # 0
    BY <2>1, <1>4, FS_EmptySet
  <2> QED
    BY <2>1, <2>2, <2>3, <2>4
<1> QED
  BY <1>1, <1>2, <1>3, <1>4, <1>6, <1>7, <1>8, <1>9, <1>10

(* SetupMock keeps the invariant: done_ and left_depend_ follow the        *)
(* elements it mocks.                                                      *)
LEMMA MockStep ==
  ASSUME Good, SetupMock
  PROVE  ScheduleInv' /\ SetupInv' /\ RunInv'
<1> DEFINE n == Len(sched)
<1>1. /\ Shape /\ Once(sched) /\ Chained(sched) /\ Begun(sched) /\ Ended
      /\ conf \in Configs /\ sched \in Schedules /\ n \in 1..Len(sched) /\ at = "mock"
  BY DEF Good, Base, ScheduleInv, Shape, Schedules, Setting, SetupMock
<1>2. /\ First /\ Mocked = MockedTo(place)
      /\ Len(sched) \in Nat \ {0} /\ sched[n] \in Seq(Seq(Elements))
      /\ place \in 1..Len(sched[n])
      /\ MockNow \in SUBSET Elements /\ MockNow \cap Mocked = {}
      /\ Mocked \in SUBSET Elements
      /\ MockedTo(place + 1) = Mocked \cup MockNow
      /\ Cardinality(Mocked \cup MockNow) >= Cardinality(Mocked) + 1
  BY <1>1, MockFacts
<1>3. /\ done' = SettleDone(MockNow) /\ left' = Settle(ResetLeft(MockNow), MockNow)
      /\ UNCHANGED <<conf, level, run, runs, inits, verdict, para, jobs, ran, failed>>
  BY DEF SetupMock, MockNow, Clusters, Top
<1>4. First'
  BY <1>2, <1>3 DEF First
<1>5. /\ counted \in Nat /\ counted + place - 1 <= Cardinality(Mocked)
      /\ Cardinality(Mocked) \in Nat /\ Cardinality(Mocked \cup MockNow) \in Nat
      /\ Cardinality(Mocked \cup MockNow) <= Size
  <2>1. Mocked \cup MockNow \in SUBSET Elements
    BY <1>2
  <2> QED
    BY <2>1, <1>1, <1>2, ElementsFinite DEF Good, SetupInv, SetupCount
<1>6. Mocked' = Mocked \cup MockNow => Counters'
  <2>1. SUFFICES ASSUME Mocked' = Mocked \cup MockNow PROVE Counters'
    OBVIOUS
  <2>2. /\ done \in [Elements -> BOOLEAN] /\ left \in [Elements -> Nat]
        /\ \A e \in Elements : /\ done[e] <=> e \in Mocked
                               /\ e \notin Mocked => left[e] = Cardinality(conf.depend[e] \ Mocked)
    BY <1>1, <1>2 DEF Good, SetupInv, Counters, Setting
  <2>3. done' \in [Elements -> BOOLEAN] /\ \A e \in Elements : done'[e] <=> e \in Mocked'
    BY <2>1, <2>2, <1>3 DEF SettleDone
  <2>4. ASSUME NEW e \in Elements
        PROVE  left'[e] \in Nat /\ (e \notin Mocked' => left'[e] = Cardinality(conf.depend[e] \ Mocked'))
    <3>1. conf.depend[e] \in SUBSET Elements /\ conf.depend[e] \cap MockNow \in SUBSET Elements
      BY <1>1, ConfFacts
    <3>2. PICK a : a = ResetLeft(MockNow)[e]
      OBVIOUS
    <3>3. /\ a \in Nat
          /\ e \notin MockNow => a = left[e]
      <4>1. Cardinality(conf.depend[e]) \in Nat
        BY <3>1, ElementsFinite
      <4> QED
        BY <4>1, <3>2, <2>2 DEF ResetLeft
    <3>4. PICK b : b = Cardinality(MockNow \cap conf.depend[e])
      OBVIOUS
    <3>5. b \in Nat
      <4>1. MockNow \cap conf.depend[e] \in SUBSET Elements
        BY <3>1
      <4> QED
        BY <3>4, <4>1, ElementsFinite
    <3>6. left'[e] = (a + DependModulus - b) % DependModulus
      BY <1>3, <3>2, <3>4 DEF Settle
    <3>7. left'[e] \in Nat
      <4>1. DependModulus \in Nat /\ DependModulus > 0
        BY EngineAssumption
      <4> QED
        BY <4>1, <3>3, <3>5, <3>6
    <3>8. ASSUME e \notin Mocked' PROVE left'[e] = Cardinality(conf.depend[e] \ Mocked')
      <4>1. a = Cardinality(conf.depend[e] \ Mocked)
        BY <2>1, <2>2, <3>3, <3>8
      <4>2. (Cardinality(conf.depend[e] \ Mocked) + DependModulus
               - Cardinality(MockNow \cap conf.depend[e])) % DependModulus
               = Cardinality(conf.depend[e] \ (Mocked \cup MockNow))
        <5>1. PICK D, M, E : D = conf.depend[e] /\ M = Mocked /\ E = MockNow
          OBVIOUS
        <5>2. D \in SUBSET Elements /\ E \cap M = {}
          BY <5>1, <3>1, <1>2
        <5>3. (Cardinality(D \ M) + DependModulus - Cardinality(E \cap D)) % DependModulus
                = Cardinality(D \ (M \cup E))
          BY ONLY <5>2, SettledCount
        <5> QED
          BY <5>1, <5>3
      <4> QED
        BY <4>1, <4>2, <3>4, <3>6, <2>1
    <3> QED
      BY <3>7, <3>8
  <2>5. left' \in [Elements -> Nat]
    <3>1. left' = [e \in Elements |-> left'[e]]
      BY <1>3 DEF Settle
    <3> QED
      BY <3>1, <2>4
  <2> QED
    BY <2>3, <2>4, <2>5, <1>3 DEF Counters
<1>7. CASE place < Len(sched[n])
  <2>1. at' = at /\ sched' = sched /\ counted' = counted /\ place' = place + 1
    BY <1>7 DEF SetupMock, Clusters, Top
  <2>2. ScheduleInv'
    BY <2>1, <1>2, <1>3, ScheduleFrame DEF Good
  <2>3. Mocked' = Mocked \cup MockNow
    <3>1. Mocked' = MockedTo(place + 1)
      BY <2>1, <1>1 DEF Mocked, MockedTo
    <3> QED
      BY <3>1, <1>2
  <2>4. SetupCount'
    <3>1. place + 1 \in 1..Len(sched[n]) /\ counted + (place + 1) - 1 <= Cardinality(Mocked \cup MockNow)
      BY <1>2, <1>5, <1>7
    <3> QED
      BY <3>1, <2>1, <2>3, <1>1, <1>5 DEF SetupCount
  <2>5. Later'
    BY <1>4 DEF Later
  <2>6. AllDone'
    BY <2>1, <1>1, <1>4 DEF AllDone
  <2>7. Jobs' /\ Rans' /\ RunCount' /\ Verdict'
    BY <2>1, <1>1, <1>3, RunFrame DEF Setting
  <2> QED
    BY <2>2, <2>3, <2>4, <2>5, <2>6, <2>7, <1>6 DEF SetupInv, RunInv
<1>8. CASE ~(place < Len(sched[n]))
  <2>1. place = Len(sched[n])
    BY <1>2, <1>8
  <2>2. counted + Len(sched[n]) \in Nat /\ counted + Len(sched[n]) <= Cardinality(Mocked \cup MockNow)
    <3>1. Len(sched[n]) \in Nat
      BY <1>2
    <3> QED
      BY <3>1, <2>1, <1>5, <1>2
  <2>3. at' = "next" /\ sched' = Append(sched, <<>>) /\ counted' = counted + Len(sched[n])
    BY <1>8 DEF SetupMock, Clusters, Top
  <2>4. /\ sched' \in Schedules /\ Len(sched') = n + 1 /\ sched'[n + 1] = <<>>
        /\ \A i \in 1..n : sched'[i] = sched[i]
        /\ IsSame(sched, sched')
    BY <2>3, <1>1, TopSame
  <2>5. \A m : Levels(sched', m) = Levels(sched, m)
    BY <2>4, SameLevels
  <2>6. Levels(sched, 1..n) = MockedTo(place + 1)
    <3>1. ASSUME NEW p \in Slots(sched) PROVE (p[1] < n \/ p[2] < place + 1) /\ p[1] \in 1..n
      <4>1. p[1] \in 1..n /\ p[2] \in 1..Len(sched[p[1]]) /\ sched[p[1]] \in Seq(Seq(Elements))
        BY <1>1, SlotType
      <4>2. CASE p[1] = n
        BY <4>1, <4>2, <2>1
      <4>3. CASE p[1] # n
        BY <4>1, <4>3, <1>2
      <4> QED
        BY <4>1, <4>2, <4>3
    <3> QED
      BY <3>1 DEF Levels, MockedTo
  <2>7. Mocked' = Mocked \cup MockNow
    <3>1. Mocked' = Levels(sched', 1..(Len(sched') - 1))
      BY <2>3 DEF Mocked
    <3>2. Len(sched') - 1 = n
      BY <2>4, <1>2
    <3> QED
      BY <3>1, <3>2, <2>5, <2>6, <1>2
  <2>8. Once(sched)' /\ Chained(sched)' /\ Begun(sched)'
    <3>1. Once(sched') /\ Chained(sched') /\ Begun(sched')
      BY <1>1, <2>4, SameKeeps
    <3> QED
      BY <1>3, <3>1 DEF Once, Chained, Begun, Begins, IsLinkable, RunBefore
  <2>9. Shape'
    <3>1. ASSUME NEW l \in 1..Len(sched'), l # n + 1
          PROVE  sched'[l] # <<>> /\ \A d \in 1..Len(sched'[l]) : sched'[l][d] # <<>>
      <4>1. l \in 1..Len(sched) /\ sched'[l] = sched[l]
        BY <3>1, <2>4, <1>2
      <4> QED
        BY <4>1, <1>1 DEF Shape
    <3>2. \A l \in 1..Len(sched') : \A d \in 1..Len(sched'[l]) : sched'[l][d] # <<>>
      BY <3>1, <2>4
    <3>3. Len(sched') > 1
      BY <2>4, <1>2
    <3> QED
      BY <3>1, <3>2, <3>3, <2>3, <2>4 DEF Shape, Setting
  <2>10. Ended'
    <3>1. ASSUME NEW l \in 1..Len(sched'), NEW d \in 1..Len(sched'[l])
          PROVE  Behind(Last(sched'[l][d])) = {}
      <4>1. l # n + 1
        BY <2>4
      <4>2. l \in 1..Len(sched) /\ sched'[l] = sched[l]
        BY <4>1, <2>4, <1>2
      <4> QED
        BY <4>2, <1>1 DEF Ended
    <3>2. \A x : Behind(x)' = Behind(x)
      BY <1>3, GraphKept
    <3> QED
      BY <3>1, <3>2 DEF Ended
  <2>11. Complete'
    <3>1. Closed(sched, n - 1)
      BY <1>1, <1>2 DEF Good, ScheduleInv, Complete
    <3>2. Len(sched') - 2 = n - 1
      BY <2>4, <1>2
    <3> QED
      BY <3>1, <3>2, <2>3, <2>5, <1>3 DEF Complete, Closed
  <2>12. SetupCount'
    BY <2>2, <2>3, <2>7 DEF SetupCount
  <2>13. Later'
    BY <1>4 DEF Later
  <2>14. AllDone'
    BY <2>3, <1>4 DEF AllDone
  <2>15. Jobs' /\ Rans' /\ RunCount' /\ Verdict'
    BY <2>3, <1>1, <1>3, RunFrame DEF Setting
  <2> QED
    BY <2>7, <2>8, <2>9, <2>10, <2>11, <2>12, <2>13, <2>14, <2>15, <1>6
    DEF ScheduleInv, SetupInv, RunInv
<1> QED
  BY <1>7, <1>8

(* A sequence without a repetition has as many members as places.          *)
LEMMA SequenceCount ==
  ASSUME NEW S, NEW s \in Seq(S), \A i, j \in 1..Len(s) : s[i] = s[j] => i = j
  PROVE  Cardinality(ToSet(s)) = Len(s)
<1>1. DOMAIN s = 1..Len(s) /\ Len(s) \in Nat /\ s \in [1..Len(s) -> S]
  OBVIOUS
<1>2. s \in [1..Len(s) -> ToSet(s)]
  BY <1>1 DEF ToSet
<1>3. s \in Injection(1..Len(s), ToSet(s))
  BY <1>2 DEF Injection, IsInjective
<1>4. s \in Surjection(1..Len(s), ToSet(s))
  BY <1>1, <1>2 DEF Surjection, ToSet
<1>5. ExistsBijection(1..Len(s), ToSet(s))
  BY <1>3, <1>4 DEF ExistsBijection, Bijection
<1>6. IsFiniteSet(1..Len(s)) /\ Cardinality(1..Len(s)) = Len(s)
  BY <1>1, FS_Interval
<1> QED
  BY <1>5, <1>6, FS_Bijection

(* The invariant holds at first.                                           *)
LEMMA InitStep ==
  ASSUME EngineInit
  PROVE  EngineInv
<1>1. /\ conf \in Configs /\ at = "init" /\ sched = <<>> /\ counted = 0 /\ jobs = <<>>
      /\ run = 0 /\ inits = conf.inits /\ verdict = "none" /\ failed = FALSE
      /\ done = [e \in Elements |-> FALSE]
      /\ left = [e \in Elements |-> Cardinality(conf.depend[e])]
      /\ ran = [e \in Elements |-> 0]
  BY DEF EngineInit
<1>2. conf.inits \in Nat /\ \A e \in Elements : conf.depend[e] \in SUBSET Elements
  BY <1>1, ConfFacts
<1>3. Base /\ First
  <2>1. inits \in Int /\ inits <= conf.inits /\ failed \in BOOLEAN
    <3>1. inits \in Nat /\ inits = conf.inits
      BY <1>1, <1>2
    <3>2. inits \in Int /\ inits <= conf.inits
      BY ONLY <3>1
    <3>3. failed \in BOOLEAN
      BY <1>1
    <3> QED
      BY <3>2, <3>3
  <2> QED
    BY <1>1, <2>1 DEF Base, First
<1>4. Slots(sched) = {}
  BY <1>1 DEF Slots
<1>5. ScheduleInv
  <2>1. Shape
    BY <1>1 DEF Shape, Schedules, Setting
  <2>2. Once(sched) /\ Chained(sched) /\ Begun(sched)
    BY <1>4 DEF Once, Chained, Begun
  <2>3. Ended /\ Complete
    BY <1>1 DEF Ended, Complete
  <2> QED
    BY <2>1, <2>2, <2>3 DEF ScheduleInv
<1>6. SetupInv
  <2>1. Mocked = {}
    BY <1>1 DEF Mocked
  <2>2. \A e \in Elements : conf.depend[e] \ {} = conf.depend[e] /\ Cardinality(conf.depend[e]) \in Nat
    BY <1>2, ElementsFinite
  <2>3. Counters
    BY <1>1, <2>1, <2>2 DEF Counters
  <2> QED
    BY <1>1, <1>3, <2>3 DEF SetupInv, SetupCount, Later
<1>7. RunInv
  <2>1. AllDone
    BY <1>1, <1>3 DEF AllDone
  <2>2. Places = {}
    BY <1>1 DEF Places
  <2>3. Jobs
    BY <1>1, <2>2 DEF Jobs
  <2>4. Rans /\ RunCount /\ Verdict
    BY <1>1 DEF Rans, RunCount, Verdict
  <2> QED
    BY <2>1, <2>3, <2>4 DEF RunInv
<1> QED
  BY <1>3, <1>5, <1>6, <1>7 DEF EngineInv

(* MainInit: the fields of the elements are fit for the first Setup; a     *)
(* later one meets only elements that are done.                            *)
LEMMA MainInitStep ==
  ASSUME Good, MainInit
  PROVE  ScheduleInv' /\ SetupInv' /\ RunInv'
<1>1. /\ at = "init" /\ at' = "first" /\ sched' = << <<>> >> /\ counted' = 0
      /\ UNCHANGED <<conf, level, place, run, inits, verdict, done, left, jobs, ran, failed>>
  BY DEF MainInit
<1>2. First' <=> First
  BY <1>1 DEF First
<1>3. << <<>> >> \in Schedules /\ Len(<< <<>> >>) = 1 /\ << <<>> >>[1] = <<>>
  BY DEF Schedules
<1>4. Slots(sched') = {}
  <2>1. SUFFICES ASSUME NEW p \in Slots(sched') PROVE FALSE
    OBVIOUS
  <2>2. p[1] \in 1..Len(sched') /\ p[2] \in 1..Len(sched'[p[1]])
    BY <1>1, <1>3, SlotType
  <2> QED
    BY <2>2, <1>1, <1>3
<1>5. Mocked = {} /\ Mocked' = {}
  BY <1>1 DEF Mocked
<1>6. ScheduleInv'
  <2>1. Shape'
    BY <1>1, <1>3 DEF Shape, Setting
  <2>2. (Once(sched) /\ Chained(sched) /\ Begun(sched))'
    BY <1>4 DEF Once, Chained, Begun
  <2>3. Ended' /\ Complete'
    BY <1>1, <1>3 DEF Ended, Complete
  <2> QED
    BY <2>1, <2>2, <2>3 DEF ScheduleInv
<1>7. SetupInv'
  <2>1. Counters'
    <3>1. Counters
      BY DEF Good, SetupInv
    <3> QED
      BY <3>1, <1>1, <1>2, <1>5 DEF Counters, Setting
  <2>2. SetupCount'
    BY <1>1, <1>5, FS_EmptySet DEF SetupCount
  <2>3. Later'
    BY <1>1, <1>4 DEF Later
  <2> QED
    BY <2>1, <2>2, <2>3 DEF SetupInv
<1>8. AllDone'
  <2>1. AllDone
    BY DEF Good, RunInv
  <2> QED
    BY <2>1, <1>1, <1>2 DEF AllDone, Unsettled
<1>9. Jobs' /\ Rans' /\ RunCount' /\ Verdict'
  BY <1>1, RunFrame DEF Setting
<1> QED
  BY <1>6, <1>7, <1>8, <1>9 DEF RunInv

(* Outside of a run no cluster is committed.                               *)
LEMMA NoJobs ==
  ASSUME Good, at \notin {"commit", "get"}
  PROVE  DOMAIN jobs = {} /\ \A e : ~Unsettled(e)
<1>1. Places = {}
  BY DEF Places
<1>2. DOMAIN jobs = {}
  BY <1>1 DEF Good, RunInv, Jobs
<1> QED
  BY <1>2 DEF Unsettled

(* MainDestroy, MainJoin and MainRun, outside of a run.                    *)
LEMMA DestroyStep ==
  ASSUME Good, MainDestroy
  PROVE  ScheduleInv' /\ SetupInv' /\ RunInv'
<1>1. /\ at = "test" /\ at' = "join" /\ sched' = <<>>
      /\ UNCHANGED <<conf, level, place, run, inits, verdict, counted, done, left, jobs, ran, failed>>
  BY DEF MainDestroy, runVars
<1>2. DOMAIN jobs = {}
  BY <1>1, NoJobs
<1>3. Slots(sched') = {}
  BY <1>1 DEF Slots
<1>4. ScheduleInv'
  <2>1. Shape'
    BY <1>1 DEF Shape, Schedules, Setting
  <2>2. (Once(sched) /\ Chained(sched) /\ Begun(sched))'
    BY <1>3 DEF Once, Chained, Begun
  <2>3. Ended' /\ Complete'
    BY <1>1 DEF Ended, Complete
  <2> QED
    BY <2>1, <2>2, <2>3 DEF ScheduleInv
<1>5. SetupInv'
  <2>1. Counters'
    BY <1>1 DEF Good, SetupInv, Counters, Setting
  <2> QED
    BY <1>1, <1>3, <2>1 DEF SetupInv, SetupCount, Later
<1>6. AllDone'
  BY <1>1 DEF Good, RunInv, AllDone, Unsettled
<1>7. Jobs'
  <2>1. Places' = {}
    BY <1>1 DEF Places
  <2> QED
    BY <2>1, <1>1, <1>2 DEF Good, RunInv, Jobs
<1>8. Rans' /\ RunCount' /\ Verdict'
  BY <1>1 DEF Good, RunInv, Rans, RunCount, Verdict, First
<1> QED
  BY <1>4, <1>5, <1>6, <1>7, <1>8 DEF RunInv

(* MainJoin: an Init more, and not the first.                              *)
LEMMA JoinStep ==
  ASSUME Good, MainJoin
  PROVE  ScheduleInv' /\ SetupInv' /\ RunInv'
<1>1. /\ at = "join" /\ at' \in {"init", "end"} /\ sched' = sched /\ jobs' = <<>> /\ inits' = inits - 1
      /\ UNCHANGED <<conf, level, place, run, verdict, counted, done, left, ran, failed>>
  BY DEF MainJoin
<1>2. ~First'
  BY <1>1, ConfFacts DEF Good, Base, First
<1>3. sched = <<>>
  BY <1>1 DEF Good, ScheduleInv, Shape
<1>4. Slots(sched') = {}
  BY <1>1, <1>3 DEF Slots
<1>5. ScheduleInv'
  <2>1. Shape'
    BY <1>1, <1>3 DEF Shape, Schedules, Setting
  <2>2. (Once(sched) /\ Chained(sched) /\ Begun(sched))'
    BY <1>4 DEF Once, Chained, Begun
  <2>3. Ended' /\ Complete'
    BY <1>1, <1>2, <1>3 DEF Ended, Complete
  <2> QED
    BY <2>1, <2>2, <2>3 DEF ScheduleInv
<1>6. SetupInv'
  <2>1. Counters'
    BY <1>1, <1>2 DEF Good, SetupInv, Counters
  <2> QED
    BY <1>1, <1>4, <2>1 DEF SetupInv, SetupCount, Later
<1>7. AllDone'
  <2>1. ASSUME Acyclic(conf.depend), NEW e \in Elements PROVE done[e]
    BY <2>1, <1>1, NoJobs DEF Good, RunInv, AllDone
  <2> QED
    BY <2>1, <1>1 DEF AllDone
<1>8. Jobs'
  <2>1. Places' = {}
    BY <1>1 DEF Places
  <2> QED
    BY <2>1, <1>1 DEF Good, RunInv, Jobs
<1>9. Rans' /\ RunCount' /\ Verdict'
  BY <1>1, <1>2 DEF Good, RunInv, Rans, RunCount, Verdict
<1> QED
  BY <1>5, <1>6, <1>7, <1>8, <1>9 DEF RunInv

(* MainRun: nothing has run and nothing is committed yet.                  *)
LEMMA RunStep ==
  ASSUME Good, MainRun
  PROVE  ScheduleInv' /\ SetupInv' /\ RunInv'
<1>1. /\ at = "test" /\ at' = "commit" /\ level' = 1 /\ place' = 1 /\ run' = run + 1
      /\ verdict' = "none" /\ counted' = 0 /\ ran' = [e \in Elements |-> 0]
      /\ UNCHANGED <<conf, inits, sched, para, done, left, jobs, failed>>
  BY DEF MainRun
<1>2. DOMAIN jobs = {}
  BY <1>1, NoJobs
<1>3. ScheduleInv'
  BY <1>1, ScheduleFrame DEF Good, First, Running3
<1>4. SetupInv'
  <2>1. done' \in [Elements -> BOOLEAN] /\ left' \in [Elements -> Nat]
    BY <1>1 DEF Good, SetupInv, Counters
  <2> QED
    BY <2>1, <1>1, SetupFrame DEF Good
<1>5. Shape /\ sched \in Schedules /\ Len(sched) \in Nat
  BY DEF Good, ScheduleInv, Shape, Schedules
<1>6. AllDone'
  BY <1>1 DEF Good, RunInv, AllDone, Unsettled, First
<1>7. Places' = {}
  BY <1>1 DEF Places
<1>8. Jobs'
  <2>1. run' \in Nat
    BY <1>1 DEF Good, RunInv, Jobs
  <2>2. level' \in 1..(Len(sched) + 1)
    BY <1>1, <1>5
  <2>3. level' <= Len(sched) => place' \in 1..Len(sched[1])
    <3>1. SUFFICES ASSUME 1 <= Len(sched) PROVE Len(sched[1]) >= 1
      BY <1>1, <1>5
    <3>2. 1 \in 1..Len(sched) /\ sched[1] \in Seq(Seq(Elements)) /\ sched[1] # <<>>
      BY <3>1, <1>5, <1>1 DEF Shape, Schedules
    <3> QED
      BY <3>2
  <2> QED
    BY <2>1, <2>2, <2>3, <1>1, <1>2, <1>7 DEF Jobs
<1>9. Rans'
  <2>1. ASSUME NEW p \in Slots(sched) PROVE ~HasRun(p)' /\ In(sched, p) \in Elements
    <3>1. p[1] \in 1..Len(sched) /\ In(sched, p) \in Elements
      BY <1>5, SlotType
    <3> QED
      BY <3>1, <1>1, <1>7 DEF HasRun
  <2> QED
    BY <2>1, <1>1 DEF Rans
<1>10. RunCount'
  <2>1. ASSUME NEW p \in Slots(sched) PROVE ~(p[1] < 1 \/ (p[1] = 1 /\ p[2] < 1))
    BY <1>5, SlotType
  <2>2. Committed' = {}
    BY <2>1, <1>1 DEF Committed
  <2> QED
    BY <2>2, <1>1, FS_EmptySet DEF RunCount
<1>11. Verdict'
  BY <1>1 DEF Verdict
<1> QED
  BY <1>3, <1>4, <1>6, <1>8, <1>9, <1>10, <1>11 DEF RunInv

(* MainCheck: every place has run, so the counts of elements agree if the  *)
(* schedule holds all of them.                                             *)
LEMMA CheckStep ==
  ASSUME Good, MainCheck
  PROVE  ScheduleInv' /\ SetupInv' /\ RunInv'
<1>1. /\ at = "commit" /\ level > Len(sched) /\ at' = "test"
      /\ verdict' = IF AfterRunCheck THEN "ok" ELSE "check failed"
      /\ UNCHANGED <<conf, level, place, run, inits, sched, para, counted, done, left, jobs, ran, failed>>
  BY DEF MainCheck
<1>1a. at = "commit" /\ level > Len(sched) /\ at' = "test"
  BY DEF MainCheck
<1>2. Places = {} /\ Places' = {}
  <2>1. sched \in Schedules /\ level \in 1..(Len(sched) + 1)
    BY <1>1 DEF Good, RunInv, Jobs, ScheduleInv, Shape
  <2>2. Len(sched) \in Nat
    BY <2>1 DEF Schedules
  <2>3. ~(level <= Len(sched))
    BY ONLY <2>1, <2>2, <1>1a
  <2> QED
    BY <2>3, <1>1 DEF Places
<1>3. DOMAIN jobs = {}
  BY <1>2 DEF Good, RunInv, Jobs
<1>4. /\ Shape /\ sched \in Schedules /\ Len(sched) \in Nat /\ level \in Nat /\ conf \in Configs
      /\ \A i \in 1..Len(sched) : i < level
  <2>1. Shape /\ sched \in Schedules /\ conf \in Configs /\ level \in 1..(Len(sched) + 1)
    BY <1>1 DEF Good, ScheduleInv, Shape, RunInv, Jobs, Base
  <2>2. Len(sched) \in Nat
    BY <2>1 DEF Schedules
  <2>3. level \in Nat /\ \A i \in 1..Len(sched) : i < level
    BY ONLY <2>1, <2>2, <1>1a
  <2> QED
    BY <2>1, <2>2, <2>3
<1>5. Committed = Levels(sched, 1..Len(sched)) /\ Committed \in SUBSET Elements
  <2>1. ASSUME NEW p \in Slots(sched) PROVE p[1] \in 1..Len(sched) /\ p[1] < level
    BY <1>4, <1>1, SlotType
  <2>2. Committed = Levels(sched, 1..Len(sched))
    BY <2>1 DEF Committed, Levels
  <2> QED
    BY <2>2, <1>4, LevelsType
<1>6. counted = Cardinality(Committed)
  BY <1>1 DEF Good, RunInv, RunCount
<1>7. ScheduleInv'
  BY <1>1, ScheduleFrame DEF Good, First, Running3
<1>8. SetupInv'
  <2>1. done' \in [Elements -> BOOLEAN] /\ left' \in [Elements -> Nat]
    BY <1>1 DEF Good, SetupInv, Counters
  <2> QED
    BY <2>1, <1>1, SetupFrame DEF Good
<1>9. AllDone'
  BY <1>1 DEF Good, RunInv, AllDone, Unsettled, First
<1>10. Jobs'
  BY <1>1, <1>2, <1>3 DEF Good, RunInv, Jobs
<1>11. Rans' /\ RunCount'
  BY <1>1 DEF Good, RunInv, Rans, RunCount
<1>12. ASSUME verdict' = "ok", NEW e \in Elements PROVE ran'[e] = 1
  <2>1. Committed = Elements
    BY <1>12, <1>1, <1>5, <1>6, ElementsFinite DEF AfterRunCheck
  <2>2. PICK p \in Slots(sched) : In(sched, p) = e
    BY <2>1, <1>5, LevelsIn
  <2>3. p[1] < level
    BY <1>4, <1>1, SlotType
  <2>4. HasRun(p)
    BY <2>3 DEF HasRun
  <2> QED
    BY <2>2, <2>4, <1>1 DEF Good, RunInv, Rans
<1>13. ASSUME First, Acyclic(conf.depend) PROVE AfterRunCheck
  <2>1. Closed(sched, Len(sched))
    BY <1>13, <1>1 DEF Good, ScheduleInv, Complete
  <2>2. Levels(sched, 1..Len(sched)) = Levels(sched, 1..(Len(sched) + 1))
    <3>1. ASSUME NEW p \in Slots(sched) PROVE p[1] \in 1..Len(sched) /\ p[1] \in 1..(Len(sched) + 1)
      BY <1>4, SlotType
    <3> QED
      BY <3>1 DEF Levels
  <2>3. Elements \subseteq Levels(sched, 1..Len(sched))
    BY <2>1, <2>2, <1>13, <1>4, ClosedHasAll DEF Acyclic
  <2>4. Committed = Elements
    BY <2>3, <1>5
  <2>5. counted = Size
    BY <2>4, <1>6, ElementsFinite
  <2>6. \A e \in Elements : done[e]
    BY <1>13, <1>1, <1>3 DEF Good, RunInv, AllDone, Unsettled
  <2>7. ASSUME NEW l \in ToSet(sched), NEW c \in ToSet(l), NEW e \in ToSet(c) PROVE e \in Elements
    <3>1. l \in Seq(Seq(Elements))
      BY <1>4 DEF Schedules, ToSet
    <3>2. c \in Seq(Elements)
      BY <3>1 DEF ToSet
    <3> QED
      BY <3>2 DEF ToSet
  <2> QED
    BY <2>5, <2>6, <2>7 DEF AfterRunCheck
<1>14. Verdict'
  <2>1. First' <=> First
    BY <1>1 DEF First
  <2> QED
    BY <2>1, <1>1, <1>12, <1>13 DEF Verdict
<1> QED
  BY <1>7, <1>8, <1>9, <1>10, <1>11, <1>14 DEF RunInv

(* The level of a run, and the job at a place of it.                       *)
LEMMA RunFacts ==
  ASSUME Good, at \in {"commit", "get"}, level <= Len(sched)
  PROVE  /\ sched \in Schedules /\ Once(sched) /\ Len(sched) \in Nat /\ run \in Nat
         /\ level \in 1..Len(sched) /\ level \in Nat /\ sched[level] \in Seq(Seq(Elements))
         /\ place \in 1..Len(sched[level]) /\ place \in Nat /\ Len(sched[level]) \in Nat
         /\ \A i \in 1..Len(sched[level]) : /\ sched[level][i] \in Seq(Elements)
                                            /\ Len(sched[level][i]) \in Nat \ {0}
         /\ verdict = "none"
         /\ DOMAIN jobs = {Id(i) : i \in Places} /\ Places \subseteq 1..Len(sched[level])
         /\ \A i \in Places : JobOK(jobs[Id(i)], sched[level][i])
<1>1. /\ Shape /\ Once(sched) /\ sched \in Schedules /\ Jobs /\ verdict = "none"
  BY DEF Good, ScheduleInv, Shape, RunInv, Verdict
<1>2. Len(sched) \in Nat
  BY <1>1 DEF Schedules
<1>3. level \in 1..(Len(sched) + 1) /\ place \in 1..Len(sched[level])
  BY <1>1 DEF Jobs
<1>4. level \in 1..Len(sched) /\ level \in Nat
  BY ONLY <1>2, <1>3, level <= Len(sched)
<1>5. sched[level] \in Seq(Seq(Elements))
  BY <1>1, <1>4 DEF Schedules
<1>6. \A i \in 1..Len(sched[level]) : sched[level][i] \in Seq(Elements) /\ sched[level][i] # <<>>
  BY <1>1, <1>4, <1>5 DEF Shape
<1>7. \A i \in 1..Len(sched[level]) : Len(sched[level][i]) \in Nat \ {0}
  BY <1>6
<1>8. place \in Nat /\ Len(sched[level]) \in Nat
  BY <1>3, <1>5
<1>9. Places \subseteq 1..Len(sched[level])
  BY <1>3, <1>4, <1>8 DEF Places
<1> QED
  BY <1>1, <1>2, <1>3, <1>4, <1>5, <1>6, <1>7, <1>8, <1>9 DEF Jobs

(* Steps of the pipeline thread in a run leave the schedule and the        *)
(* counters alone.                                                         *)
LEMMA MainFrame ==
  ASSUME Good, at \in {"commit", "get"}, at' \in {"commit", "get"},
         UNCHANGED <<conf, run, inits, verdict, sched, done, left, ran>>,
         \A e : Unsettled(e) => Unsettled(e)'
  PROVE  ScheduleInv' /\ SetupInv' /\ AllDone' /\ Verdict'
<1>1. ScheduleInv'
  BY ScheduleFrame DEF Good, First, Running3
<1>2. SetupInv'
  <2>1. done' \in [Elements -> BOOLEAN] /\ left' \in [Elements -> Nat]
    BY DEF Good, SetupInv, Counters
  <2> QED
    BY <2>1, SetupFrame DEF Good
<1>3. AllDone'
  BY DEF Good, RunInv, AllDone, First
<1>4. Verdict'
  BY DEF Good, RunInv, Verdict
<1> QED
  BY <1>1, <1>2, <1>3, <1>4

(* The job MainCommit adds.                                                *)
NewJob == [els |-> sched[level][place], pos |-> 0, at |-> "queued"]

(* MainCommit: a cluster of the level more is committed.                   *)
LEMMA CommitStep ==
  ASSUME Good, MainCommit
  PROVE  ScheduleInv' /\ SetupInv' /\ RunInv'
<1>1. /\ at = "commit" /\ level <= Len(sched)
      /\ counted' = counted + Len(sched[level][place])
      /\ UNCHANGED <<conf, run, inits, verdict, sched, done, left, ran>>
  BY DEF MainCommit
<1>2. jobs' = [x \in DOMAIN jobs \cup {Id(place)} |-> IF x = Id(place) THEN NewJob ELSE jobs[x]]
  BY DEF MainCommit, NewJob
<1>3. /\ level' = level
      /\ IF place < Len(sched[level]) THEN place' = place + 1 /\ at' = at
         ELSE place' = 1 /\ at' = "get"
  <2>1. Advance("get", 0) /\ level \in Nat
    BY <1>1, RunFacts DEF MainCommit
  <2>2. level + 0 = level
    BY <2>1
  <2> QED
    BY <2>1, <2>2 DEF Advance
<1>4. /\ sched \in Schedules /\ Once(sched) /\ Len(sched) \in Nat /\ run \in Nat
      /\ level \in 1..Len(sched) /\ level \in Nat /\ sched[level] \in Seq(Seq(Elements))
      /\ place \in 1..Len(sched[level]) /\ place \in Nat /\ Len(sched[level]) \in Nat
      /\ \A i \in 1..Len(sched[level]) : /\ sched[level][i] \in Seq(Elements)
                                         /\ Len(sched[level][i]) \in Nat \ {0}
      /\ verdict = "none"
      /\ DOMAIN jobs = {Id(i) : i \in Places} /\ Places \subseteq 1..Len(sched[level])
      /\ \A i \in Places : JobOK(jobs[Id(i)], sched[level][i])
  BY <1>1, RunFacts
<1>5. Places = 1..(place - 1)
  BY <1>1 DEF Places
<1>6. Places' = Places \cup {place}
  <2>1. CASE place < Len(sched[level])
    <3>1. Places' = 1..((place + 1) - 1)
      BY <2>1, <1>1, <1>3 DEF Places
    <3> QED
      BY <3>1, <1>4, <1>5
  <2>2. CASE ~(place < Len(sched[level]))
    <3>1. Places' = 1..Len(sched[level])
      BY <2>2, <1>1, <1>3 DEF Places
    <3> QED
      BY <3>1, <2>2, <1>4, <1>5
  <2> QED
    BY <2>1, <2>2
<1>7. \A i : Id(i)' = Id(i)
  BY <1>1, <1>3 DEF Id
<1>8. \A i, j : Id(i) = Id(j) => i = j
  BY DEF Id
<1>9. /\ DOMAIN jobs' = {Id(i) : i \in Places'} /\ jobs'[Id(place)] = NewJob
      /\ \A i \in Places : jobs'[Id(i)] = jobs[Id(i)] /\ i # place
  BY <1>2, <1>4, <1>5, <1>6, <1>8
<1>10. /\ NewJob.pos = 0 /\ NewJob.at = "queued" /\ NewJob.els = sched[level][place]
       /\ JobOK(NewJob, sched[level][place])
  <2>1. Len(sched[level][place]) \in Nat
    BY <1>4
  <2> QED
    BY <2>1 DEF NewJob, JobOK
<1>11. at' \in {"commit", "get"}
  BY <1>1, <1>3
<1>12. ScheduleInv' /\ SetupInv' /\ AllDone' /\ Verdict'
  <2>1. ASSUME NEW e, Unsettled(e) PROVE Unsettled(e)'
    <3>1. PICK x \in DOMAIN jobs : jobs[x].at \in {"run", "error"} /\ e \in ToSet(jobs[x].els)
      BY <2>1 DEF Unsettled
    <3>2. PICK i \in Places : x = Id(i)
      BY <1>4
    <3>3. x \in DOMAIN jobs' /\ jobs'[x] = jobs[x]
      BY <3>2, <1>6, <1>9
    <3> QED
      BY <3>1, <3>3 DEF Unsettled
  <2> QED
    BY <2>1, <1>1, <1>11, MainFrame
<1>13. Jobs'
  <2>1. level' \in 1..(Len(sched) + 1)
    BY <1>3, <1>4
  <2>2. place' \in 1..Len(sched[level])
    BY <1>3, <1>4
  <2>3. \A i \in Places' : JobOK(jobs'[Id(i)], sched[level][i])
    BY <1>4, <1>6, <1>9, <1>10
  <2> QED
    BY <2>1, <2>2, <2>3, <1>1, <1>3, <1>4, <1>7, <1>9, <1>11 DEF Jobs
<1>14. Rans'
  <2>1. ASSUME NEW p \in Slots(sched) PROVE HasRun(p)' <=> HasRun(p)
    <3>1. p[1] \in 1..Len(sched) /\ p[2] \in 1..Len(sched[p[1]]) /\ p[3] \in 1..Len(sched[p[1]][p[2]])
          /\ p[3] \in Nat /\ p[3] >= 1
      BY <1>4, SlotType
    <3>2. CASE p[1] # level
      BY <3>2, <1>3 DEF HasRun
    <3>3. CASE p[1] = level /\ p[2] \in Places
      <4>1. p[2] \in Places' /\ jobs'[Id(p[2])] = jobs[Id(p[2])]
        BY <3>3, <1>6, <1>9
      <4> QED
        BY <4>1, <3>3, <1>3, <1>7 DEF HasRun
    <3>4. CASE p[1] = level /\ p[2] = place
      <4>1. p[2] \notin Places /\ p[2] \in Places'
        BY <3>4, <1>4, <1>5, <1>6
      <4>2. ~HasRun(p)
        BY <4>1, <3>4, <1>1, <1>4 DEF HasRun
      <4>3. jobs'[Id(p[2])'].pos = 0 /\ jobs'[Id(p[2])'].at = "queued"
        BY <3>4, <1>7, <1>9, <1>10
      <4>4. ~HasRun(p)'
        BY <4>1, <4>3, <3>1, <3>4, <1>3, <1>4 DEF HasRun
      <4> QED
        BY <4>2, <4>4
    <3>5. CASE p[1] = level /\ p[2] \notin Places /\ p[2] # place
      <4>1. p[2] \notin Places'
        BY <3>5, <1>6
      <4>2. p[2] \in 1..Len(sched[level]) /\ place < Len(sched[level])
        BY <3>1, <3>5, <1>4, <1>5
      <4>3. at' # "get"
        BY <4>2, <1>1, <1>3
      <4> QED
        BY <4>1, <4>3, <3>5, <1>1, <1>3, <1>4 DEF HasRun
    <3> QED
      BY <3>2, <3>3, <3>4, <3>5
  <2> QED
    BY <2>1, <1>1, <1>11 DEF Good, RunInv, Rans
<1>15. RunCount'
  <2> DEFINE c == sched[level][place]
  <2>1. c \in Seq(Elements) /\ \A k \in 1..Len(c) : /\ <<level, place, k>> \in Slots(sched)
                                                    /\ In(sched, <<level, place, k>>) = c[k]
    BY <1>4, SlotNumbers
  <2>2. Cardinality(ToSet(c)) = Len(c)
    <3>1. ASSUME NEW i \in 1..Len(c), NEW j \in 1..Len(c), c[i] = c[j] PROVE i = j
      <4>1. <<level, place, i>> = <<level, place, j>>
        BY <3>1, <2>1, <1>4 DEF Once
      <4> QED
        BY <4>1
    <3> QED
      BY <3>1, <2>1, SequenceCount
  <2>3. Committed' = Committed \cup ToSet(c)
    <3>1. ASSUME NEW p \in Slots(sched)
          PROVE  (p[1] < level' \/ (p[1] = level' /\ (at' = "get" \/ p[2] < place')))
             <=> \/ p[1] < level \/ (p[1] = level /\ (at = "get" \/ p[2] < place))
                 \/ (p[1] = level /\ p[2] = place)
      <4>1. p[1] \in 1..Len(sched) /\ p[2] \in 1..Len(sched[p[1]]) /\ p[2] \in Nat
        BY <1>4, SlotType
      <4>2. CASE p[1] # level
        BY <4>2, <1>3
      <4>3. CASE p[1] = level
        <5>1. p[2] \in Nat /\ p[2] \in 1..Len(sched[level]) /\ level' = level
          BY <4>1, <4>3, <1>3
        <5>2. CASE place < Len(sched[level])
          <6>1. place' = place + 1 /\ at' = "commit" /\ at = "commit"
            BY <5>2, <1>1, <1>3
          <6>2. p[2] < place + 1 <=> p[2] < place \/ p[2] = place
            BY <5>1, <1>4
          <6> QED
            BY <4>3, <5>1, <6>1, <6>2
        <5>3. CASE ~(place < Len(sched[level]))
          <6>1. at' = "get"
            BY <5>3, <1>3
          <6>2. p[2] < place \/ p[2] = place
            BY <5>1, <5>3, <1>4
          <6> QED
            BY <4>3, <5>1, <6>1, <6>2
        <5> QED
          BY <5>2, <5>3
      <4> QED
        BY <4>2, <4>3
    <3>2. Committed' = {In(sched, p) : p \in {q \in Slots(sched) :
                 \/ q[1] < level \/ (q[1] = level /\ (at = "get" \/ q[2] < place))
                 \/ (q[1] = level /\ q[2] = place)}}
      BY <3>1, <1>1 DEF Committed
    <3>3. ToSet(c) = {In(sched, p) : p \in {q \in Slots(sched) : q[1] = level /\ q[2] = place}}
      <4>1. ASSUME NEW e \in ToSet(c)
            PROVE  \E p \in Slots(sched) : p[1] = level /\ p[2] = place /\ In(sched, p) = e
        <5>1. PICK k \in 1..Len(c) : e = c[k]
          BY <2>1 DEF ToSet
        <5>2. /\ <<level, place, k>> \in Slots(sched) /\ In(sched, <<level, place, k>>) = e
              /\ <<level, place, k>>[1] = level /\ <<level, place, k>>[2] = place
          BY <5>1, <2>1
        <5> QED
          BY <5>2
      <4>2. ASSUME NEW p \in Slots(sched), p[1] = level, p[2] = place
            PROVE  In(sched, p) \in ToSet(c)
        <5>1. p[3] \in 1..Len(c) /\ In(sched, p) = c[p[3]] /\ DOMAIN c = 1..Len(c)
          BY <4>2, <2>1, <1>4, SlotType
        <5> QED
          BY <5>1 DEF ToSet
      <4> QED
        BY <4>1, <4>2
    <3> QED
      BY <3>2, <3>3 DEF Committed
  <2>4. Committed \cap ToSet(c) = {}
    <3>1. SUFFICES ASSUME NEW e \in Committed, e \in ToSet(c) PROVE FALSE
      OBVIOUS
    <3>2. PICK p \in Slots(sched) : /\ In(sched, p) = e
                                    /\ p[1] < level \/ (p[1] = level /\ (at = "get" \/ p[2] < place))
      BY DEF Committed
    <3>3. PICK k \in 1..Len(c) : e = c[k]
      BY <3>1, <2>1 DEF ToSet
    <3>4. p = <<level, place, k>>
      BY <3>2, <3>3, <2>1, <1>4 DEF Once
    <3>5. p[1] = level /\ p[2] = place
      BY <3>4
    <3> QED
      BY <3>2, <3>5, <1>1, <1>4
  <2>5. Committed \in SUBSET Elements /\ ToSet(c) \in SUBSET Elements
    <3>1. \A p \in Slots(sched) : In(sched, p) \in Elements
      BY <1>4, SlotType
    <3> QED
      BY <3>1, <2>1 DEF Committed, ToSet
  <2>6. /\ IsFiniteSet(Committed) /\ IsFiniteSet(ToSet(c)) /\ Cardinality(Committed) \in Nat
        /\ Cardinality(ToSet(c)) \in Nat
    BY <2>5, ElementsFinite
  <2>7. Cardinality(Committed \cup ToSet(c))
          = Cardinality(Committed) + Cardinality(ToSet(c)) - Cardinality(Committed \cap ToSet(c))
    BY <2>6, FS_Union
  <2>8. Cardinality(Committed \cap ToSet(c)) = 0
    BY <2>4, FS_EmptySet
  <2>9. counted = Cardinality(Committed)
    BY <1>1 DEF Good, RunInv, RunCount
  <2>10. counted + Len(c) = Cardinality(Committed \cup ToSet(c))
    BY <2>2, <2>6, <2>7, <2>8, <2>9
  <2> QED
    BY <2>3, <2>10, <1>1 DEF RunCount
<1> QED
  BY <1>12, <1>13, <1>14, <1>15 DEF RunInv

(* MainGet: a future of the level is taken, its cluster has run to its     *)
(* end.                                                                    *)
LEMMA GetStep ==
  ASSUME Good, MainGet
  PROVE  ScheduleInv' /\ SetupInv' /\ RunInv'
<1>1. /\ at = "get" /\ jobs[Id(place)].at = "ok" /\ counted' = counted
      /\ UNCHANGED <<conf, run, inits, verdict, sched, done, left, ran>>
  BY DEF MainGet
<1>2. jobs' = [x \in DOMAIN jobs \ {Id(place)} |-> jobs[x]]
  BY DEF MainGet, Without
<1>3. IF place < Len(sched[level]) THEN place' = place + 1 /\ at' = at /\ level' = level
      ELSE place' = 1 /\ at' = "commit" /\ level' = level + 1
  BY DEF MainGet, Advance
<1>4. level <= Len(sched)
  BY <1>1 DEF Good, RunInv, Jobs
<1>5. /\ sched \in Schedules /\ Once(sched) /\ Len(sched) \in Nat /\ run \in Nat
      /\ level \in 1..Len(sched) /\ level \in Nat /\ sched[level] \in Seq(Seq(Elements))
      /\ place \in 1..Len(sched[level]) /\ place \in Nat /\ Len(sched[level]) \in Nat
      /\ \A i \in 1..Len(sched[level]) : /\ sched[level][i] \in Seq(Elements)
                                         /\ Len(sched[level][i]) \in Nat \ {0}
      /\ verdict = "none"
      /\ DOMAIN jobs = {Id(i) : i \in Places} /\ Places \subseteq 1..Len(sched[level])
      /\ \A i \in Places : JobOK(jobs[Id(i)], sched[level][i])
  BY <1>1, <1>4, RunFacts
<1>6. Places = place..Len(sched[level])
  BY <1>1 DEF Places
<1>7. at' \in {"commit", "get"}
  BY <1>1, <1>3
<1>8. CASE place < Len(sched[level])
  <2>1. place' = place + 1 /\ at' = "get" /\ level' = level
    BY <1>1, <1>3, <1>8
  <2>2. Places' = (place + 1)..Len(sched[level])
    BY <2>1, <1>1 DEF Places
  <2>3. Places' = Places \ {place}
    BY <2>2, <1>5, <1>6
  <2>4. \A i : Id(i)' = Id(i)
    BY <2>1, <1>1 DEF Id
  <2>5. \A i, j : Id(i) = Id(j) => i = j
    BY DEF Id
  <2>6. /\ DOMAIN jobs' = {Id(i) : i \in Places'}
        /\ \A i \in Places' : jobs'[Id(i)] = jobs[Id(i)]
    BY <1>2, <1>5, <2>3, <2>5
  <2>7. ScheduleInv' /\ SetupInv' /\ AllDone' /\ Verdict'
    <3>1. ASSUME NEW e, Unsettled(e) PROVE Unsettled(e)'
      <4>1. PICK x \in DOMAIN jobs : jobs[x].at \in {"run", "error"} /\ e \in ToSet(jobs[x].els)
        BY <3>1 DEF Unsettled
      <4>2. x \in DOMAIN jobs' /\ jobs'[x] = jobs[x]
        BY <4>1, <1>1, <1>2
      <4> QED
        BY <4>1, <4>2 DEF Unsettled
    <3> QED
      BY <3>1, <1>1, <1>7, MainFrame
  <2>8. Jobs'
    <3>1. level' \in 1..(Len(sched) + 1) /\ place' \in 1..Len(sched[level])
      BY <1>5, <1>8, <2>1
    <3>2. \A i \in Places' : JobOK(jobs'[Id(i)], sched[level][i])
      BY <1>5, <2>3, <2>6
    <3> QED
      BY <3>1, <3>2, <1>1, <1>4, <1>5, <2>1, <2>4, <2>6 DEF Jobs
  <2>9. Rans'
    <3>1. ASSUME NEW p \in Slots(sched) PROVE HasRun(p)' <=> HasRun(p)
      <4>1. CASE p[1] # level
        BY <4>1, <2>1 DEF HasRun
      <4>2. CASE p[1] = level /\ p[2] = place
        <5>1. p[2] \in Places /\ p[2] \notin Places'
          BY <4>2, <1>5, <1>6, <2>3
        <5>2. HasRun(p)
          BY <5>1, <4>2, <1>1 DEF HasRun
        <5>3. HasRun(p)'
          BY <5>1, <4>2, <2>1 DEF HasRun
        <5> QED
          BY <5>2, <5>3
      <4>3. CASE p[1] = level /\ p[2] # place
        <5>1. p[2] \in Places' <=> p[2] \in Places
          BY <4>3, <2>3
        <5>2. p[2] \in Places' => jobs'[Id(p[2])'] = jobs[Id(p[2])]
          BY <2>4, <2>6
        <5> QED
          BY <5>1, <5>2, <4>3, <2>1, <1>1 DEF HasRun
      <4> QED
        BY <4>1, <4>2, <4>3
    <3> QED
      BY <3>1, <1>1, <1>7 DEF Good, RunInv, Rans
  <2>10. RunCount'
    <3>1. Committed' = Committed
      BY <1>1, <2>1 DEF Committed
    <3> QED
      BY <3>1, <1>1 DEF Good, RunInv, RunCount
  <2> QED
    BY <2>7, <2>8, <2>9, <2>10 DEF RunInv
<1>9. CASE ~(place < Len(sched[level]))
  <2>1. place' = 1 /\ at' = "commit" /\ level' = level + 1
    BY <1>3, <1>9
  <2>2. place = Len(sched[level]) /\ Places = {place}
    BY <1>5, <1>6, <1>9
  <2>3. Places' = {}
    BY <2>1, <1>1 DEF Places
  <2>4. DOMAIN jobs' = {}
    BY <1>2, <1>5, <2>2
  <2>5. ScheduleInv' /\ SetupInv' /\ AllDone' /\ Verdict'
    <3>1. ASSUME NEW e, Unsettled(e) PROVE Unsettled(e)'
      <4>1. PICK x \in DOMAIN jobs : jobs[x].at \in {"run", "error"}
        BY <3>1 DEF Unsettled
      <4>2. x = Id(place)
        BY <1>5, <2>2
      <4> QED
        BY <4>1, <4>2, <1>1
    <3> QED
      BY <3>1, <1>1, <1>7, MainFrame
  <2>6. Jobs'
    <3>1. level' \in 1..(Len(sched) + 1)
      BY <1>5, <2>1
    <3>2. level' <= Len(sched) => place' \in 1..Len(sched[level'])
      <4>1. SUFFICES ASSUME level' <= Len(sched) PROVE 1 \in 1..Len(sched[level'])
        BY <2>1
      <4>2. level' \in 1..Len(sched)
        BY <4>1, <3>1, <1>5
      <4>3. sched[level'] \in Seq(Seq(Elements)) /\ sched[level'] # <<>>
        BY <4>2, <1>1, <1>5 DEF Good, ScheduleInv, Shape, Schedules
      <4> QED
        BY <4>3
    <3> QED
      BY <3>1, <3>2, <1>1, <1>5, <2>1, <2>3, <2>4 DEF Jobs
  <2>7. Rans'
    <3>1. ASSUME NEW p \in Slots(sched) PROVE HasRun(p)' <=> HasRun(p)
      <4>1. p[1] \in Nat /\ p[2] \in 1..Len(sched[p[1]])
        BY <1>5, SlotType
      <4>2. HasRun(p)' <=> p[1] < level + 1
        BY <2>1, <2>3 DEF HasRun
      <4>3. HasRun(p) <=> p[1] <= level
        <5>1. CASE p[1] = level
          <6>1. p[2] \in Places => jobs[Id(p[2])].at = "ok"
            BY <2>2, <1>1
          <6> QED
            BY <6>1, <5>1, <1>1, <1>5 DEF HasRun
        <5>2. CASE p[1] # level
          BY <5>2, <4>1, <1>5 DEF HasRun
        <5> QED
          BY <5>1, <5>2
      <4> QED
        BY <4>1, <4>2, <4>3, <1>5
    <3> QED
      BY <3>1, <1>1, <1>7 DEF Good, RunInv, Rans
  <2>8. RunCount'
    <3>1. Committed' = Committed
      <4>1. ASSUME NEW p \in Slots(sched)
            PROVE  (p[1] < level + 1 \/ (p[1] = level + 1 /\ p[2] < 1)) <=> (p[1] < level \/ p[1] = level)
        <5>1. p[1] \in Nat /\ p[2] \in Nat /\ p[2] >= 1
          BY <1>5, SlotType
        <5> QED
          BY <5>1, <1>5
      <4> QED
        BY <4>1, <1>1, <2>1 DEF Committed
    <3> QED
      BY <3>1, <1>1 DEF Good, RunInv, RunCount
  <2> QED
    BY <2>5, <2>6, <2>7, <2>8 DEF RunInv
<1> QED
  BY <1>8, <1>9

(* A committed cluster is one of the level, and its job what is known of   *)
(* it.                                                                     *)
LEMMA JobIs ==
  ASSUME Good, NEW x \in DOMAIN jobs
  PROVE  /\ at \in {"commit", "get"} /\ level <= Len(sched)
         /\ \E i \in Places : x = Id(i) /\ JobOK(jobs[x], sched[level][i])
<1>1. DOMAIN jobs = {Id(i) : i \in Places} /\ \A i \in Places : JobOK(jobs[Id(i)], sched[level][i])
  BY DEF Good, RunInv, Jobs
<1>2. PICK i \in Places : x = Id(i)
  BY <1>1
<1>3. at \in {"commit", "get"} /\ level <= Len(sched)
  BY <1>2 DEF Places, Good, RunInv, Jobs
<1> QED
  BY <1>1, <1>2, <1>3

(* A step of a job leaves the others alone.                                *)
LEMMA JobFrame ==
  ASSUME Good, NEW i \in Places, NEW g, JobOK(g, sched[level][i]),
         jobs' = [jobs EXCEPT ![Id(i)] = g],
         UNCHANGED <<conf, at, runVars, sched, para, counted, failed>>,
         done' \in [Elements -> BOOLEAN], left' \in [Elements -> Nat]
  PROVE  /\ ScheduleInv' /\ SetupInv' /\ Jobs' /\ RunCount' /\ Verdict'
         /\ Places' = Places /\ Id(i) \in DOMAIN jobs /\ DOMAIN jobs' = DOMAIN jobs
         /\ jobs'[Id(i)] = g
         /\ \A x \in DOMAIN jobs : x # Id(i) => jobs'[x] = jobs[x]
         /\ \A j \in Places : j # i => jobs'[Id(j)] = jobs[Id(j)]
         /\ \A j : Id(j)' = Id(j)
<1>1. /\ conf' = conf /\ at' = at /\ level' = level /\ place' = place /\ run' = run
      /\ inits' = inits /\ verdict' = verdict /\ sched' = sched /\ counted' = counted
  BY DEF runVars
<1>2. /\ DOMAIN jobs = {Id(j) : j \in Places}
      /\ \A j \in Places : JobOK(jobs[Id(j)], sched[level][j])
  BY DEF Good, RunInv, Jobs
<1>3. Id(i) \in DOMAIN jobs
  BY <1>2
<1>4. at \in {"commit", "get"}
  BY <1>3, JobIs
<1>5. Places' = Places
  BY <1>1 DEF Places
<1>6. /\ DOMAIN jobs' = DOMAIN jobs /\ jobs'[Id(i)] = g
      /\ \A x \in DOMAIN jobs : x # Id(i) => jobs'[x] = jobs[x]
  BY <1>3
<1>7. \A j, k : Id(j) = Id(k) => j = k
  BY DEF Id
<1>8. \A j \in Places : j # i => jobs'[Id(j)] = jobs[Id(j)]
  BY <1>2, <1>6, <1>7
<1>9. \A j : Id(j)' = Id(j)
  BY <1>1 DEF Id
<1>10. ScheduleInv'
  BY <1>1, ScheduleFrame DEF Good, First
<1>11. SetupInv'
  BY <1>1, <1>4, SetupFrame DEF Good
<1>12. Jobs'
  <2>1. \A j \in Places : JobOK(jobs'[Id(j)], sched[level][j])
    BY <1>2, <1>6, <1>8
  <2>2. DOMAIN jobs' = {Id(j) : j \in Places}
    BY <1>2, <1>6
  <2> QED
    BY <2>1, <2>2, <1>1, <1>5, <1>9 DEF Good, RunInv, Jobs
<1>13. RunCount'
  <2>1. Committed' = Committed
    BY <1>1 DEF Committed
  <2> QED
    BY <2>1, <1>1 DEF Good, RunInv, RunCount
<1>14. Verdict'
  BY <1>1, <1>4 DEF Good, RunInv, Verdict
<1> QED
  BY <1>3, <1>5, <1>6, <1>8, <1>9, <1>10, <1>11, <1>12, <1>13, <1>14

(* The elements that have run are those of before, and perhaps one more.   *)
LEMMA RansSame ==
  ASSUME Good, ran' = ran, sched' = sched, at' = at,
         \A p \in Slots(sched) : HasRun(p)' <=> HasRun(p)
  PROVE  Rans'
  BY DEF Good, RunInv, Rans

(* JobBegin resets the fields of elements that are not done until it ends. *)
LEMMA JobBeginStep ==
  ASSUME Good, NEW x \in DOMAIN jobs, JobBegin(x)
  PROVE  ScheduleInv' /\ SetupInv' /\ RunInv'
<1>1. PICK i \in Places : x = Id(i) /\ JobOK(jobs[x], sched[level][i])
  BY JobIs
<1>2. at \in {"commit", "get"} /\ level <= Len(sched)
  BY JobIs
<1>3. /\ sched \in Schedules /\ Len(sched[level][i]) \in Nat \ {0}
      /\ sched[level][i] \in Seq(Elements) /\ level \in Nat
  BY <1>1, <1>2, RunFacts
<1> DEFINE els == sched[level][i]
           g == [els |-> els, pos |-> 1, at |-> "run"]
<1>4. jobs[x].at = "queued" /\ jobs[x].els = els /\ jobs[x].pos = 0
  BY <1>1 DEF JobBegin, JobOK
<1>5. /\ jobs' = [jobs EXCEPT ![x].at = "run", ![x].pos = 1]
      /\ done' = ResetDone(ToSet(els)) /\ left' = ResetLeft(ToSet(els))
      /\ UNCHANGED <<conf, at, runVars, sched, para, counted, ran, failed>>
  BY <1>4 DEF JobBegin
<1>6. jobs' = [jobs EXCEPT ![Id(i)] = g]
  <2>1. PICK h : h = jobs[x]
    OBVIOUS
  <2>2. h \in [els : {els}, pos : 0..Len(els), at : {"queued", "run", "ok", "error"}]
    BY <1>1, <2>1 DEF JobOK
  <2>2a. PICK f : f = [h EXCEPT !.at = "run"]
    OBVIOUS
  <2>2b. f = [els |-> els, pos |-> h.pos, at |-> "run"]
    BY ONLY <2>2, <2>2a
  <2>2c. [f EXCEPT !.pos = 1] = g
    BY ONLY <2>2b
  <2>3. [[h EXCEPT !.at = "run"] EXCEPT !.pos = 1] = g
    BY <2>2a, <2>2c
  <2>4. jobs' = [jobs EXCEPT ![x] = [[jobs[x] EXCEPT !.at = "run"] EXCEPT !.pos = 1]]
    BY <1>5
  <2> QED
    BY <2>1, <2>3, <2>4, <1>1
<1> HIDE DEF els
<1>7. JobOK(g, els) /\ g.els = els /\ g.pos = 1 /\ g.at = "run"
  <2>1. 1 \in 0..Len(els)
    BY <1>3 DEF els
  <2> QED
    BY <2>1 DEF JobOK
<1>8. done' \in [Elements -> BOOLEAN] /\ left' \in [Elements -> Nat]
  <2>1. done \in [Elements -> BOOLEAN] /\ left \in [Elements -> Nat]
    BY DEF Good, SetupInv, Counters
  <2>2. \A e \in Elements : Cardinality(conf.depend[e]) \in Nat
    BY ConfFacts, ElementsFinite DEF Good, Base
  <2> QED
    BY <2>1, <2>2, <1>5 DEF ResetDone, ResetLeft
<1> HIDE DEF g
<1>9. /\ ScheduleInv' /\ SetupInv' /\ Jobs' /\ RunCount' /\ Verdict'
      /\ Places' = Places /\ Id(i) \in DOMAIN jobs /\ DOMAIN jobs' = DOMAIN jobs
      /\ jobs'[Id(i)] = g
      /\ \A y \in DOMAIN jobs : y # Id(i) => jobs'[y] = jobs[y]
      /\ \A j \in Places : j # i => jobs'[Id(j)] = jobs[Id(j)]
      /\ \A j : Id(j)' = Id(j)
  <2>1. JobOK(g, sched[level][i])
    BY <1>7 DEF els
  <2> QED
    BY <2>1, <1>5, <1>6, <1>8, JobFrame
<1>10. AllDone'
  <2>1. ASSUME NEW e \in Elements, done[e] \/ Unsettled(e) PROVE done'[e] \/ Unsettled(e)'
    <3>1. CASE e \in ToSet(els)
      BY <3>1, <1>7, <1>9 DEF Unsettled
    <3>2. CASE e \notin ToSet(els) /\ done[e]
      BY <3>2, <1>5 DEF ResetDone
    <3>3. CASE e \notin ToSet(els) /\ Unsettled(e)
      <4>1. PICK y \in DOMAIN jobs : jobs[y].at \in {"run", "error"} /\ e \in ToSet(jobs[y].els)
        BY <3>3 DEF Unsettled
      <4>2. y # Id(i)
        BY <4>1, <3>3, <1>1, <1>4
      <4> QED
        BY <4>1, <4>2, <1>9 DEF Unsettled
    <3> QED
      BY <2>1, <3>1, <3>2, <3>3
  <2> QED
    BY <2>1, <1>5 DEF Good, RunInv, AllDone, First, runVars
<1>11. Rans'
  <2>1. ASSUME NEW p \in Slots(sched) PROVE HasRun(p)' <=> HasRun(p)
    <3>1. CASE ~(p[1] = level /\ p[2] = i)
      <4>1. p[2] \in Places /\ p[2] # i => jobs'[Id(p[2])'] = jobs[Id(p[2])]
        BY <1>9
      <4> QED
        BY <3>1, <4>1, <1>5, <1>9 DEF HasRun, runVars
    <3>2. CASE p[1] = level /\ p[2] = i
      <4>1. p[3] \in Nat /\ p[3] >= 1
        BY <1>3, SlotType
      <4>2. ~HasRun(p)
        BY <3>2, <4>1, <1>1, <1>3, <1>4 DEF HasRun
      <4>3. jobs'[Id(p[2])'] = g
        BY <3>2, <1>9
      <4>4. ~HasRun(p)'
        BY <3>2, <4>1, <4>3, <1>3, <1>5, <1>7, <1>9 DEF HasRun, runVars
      <4> QED
        BY <4>2, <4>4
    <3> QED
      BY <3>1, <3>2
  <2> QED
    BY <2>1, <1>5, RansSame
<1> QED
  BY <1>9, <1>10, <1>11 DEF RunInv

(* JobError: the cluster stays unsettled, the run will be left.            *)
LEMMA JobErrorStep ==
  ASSUME Good, NEW x \in DOMAIN jobs, JobError(x)
  PROVE  ScheduleInv' /\ SetupInv' /\ RunInv'
<1>1. PICK i \in Places : x = Id(i) /\ JobOK(jobs[x], sched[level][i])
  BY JobIs
<1>2. at \in {"commit", "get"} /\ level <= Len(sched)
  BY JobIs
<1>3. /\ sched \in Schedules /\ sched[level][i] \in Seq(Elements) /\ level \in Nat
  BY <1>1, <1>2, RunFacts
<1>4. jobs[x].at = "run" /\ Awaited(x)
  BY <1>1, <1>2 DEF JobError, Awaited, Id
<1>5. /\ jobs' = [jobs EXCEPT ![x].at = "error"]
      /\ UNCHANGED <<conf, at, runVars, sched, para, counted, done, left, ran, failed>>
  BY <1>4 DEF JobError, Return
<1> DEFINE els == sched[level][i]
<1>6. PICK p0 : p0 = jobs[x].pos
  OBVIOUS
<1> DEFINE g == [els |-> els, pos |-> p0, at |-> "error"]
<1>7. /\ p0 \in 0..Len(els) /\ p0 >= 1 /\ jobs[x].els = els
  BY <1>1, <1>4, <1>6 DEF JobOK
<1>8. jobs' = [jobs EXCEPT ![Id(i)] = g]
  <2>1. PICK h : h = jobs[x]
    OBVIOUS
  <2>2. h \in [els : {els}, pos : 0..Len(els), at : {"queued", "run", "ok", "error"}] /\ h.pos = p0
    BY <1>1, <1>6, <2>1 DEF JobOK
  <2>3. [h EXCEPT !.at = "error"] = g
    BY ONLY <2>2
  <2>4. jobs' = [jobs EXCEPT ![x] = [jobs[x] EXCEPT !.at = "error"]]
    BY <1>5
  <2> QED
    BY <2>1, <2>3, <2>4, <1>1
<1> HIDE DEF els
<1>9. JobOK(g, els) /\ g.els = els /\ g.pos = p0 /\ g.at = "error"
  BY <1>7 DEF JobOK
<1>10. done' \in [Elements -> BOOLEAN] /\ left' \in [Elements -> Nat]
  BY <1>5 DEF Good, SetupInv, Counters
<1> HIDE DEF g
<1>11. /\ ScheduleInv' /\ SetupInv' /\ Jobs' /\ RunCount' /\ Verdict'
       /\ Places' = Places /\ Id(i) \in DOMAIN jobs /\ DOMAIN jobs' = DOMAIN jobs
       /\ jobs'[Id(i)] = g
       /\ \A y \in DOMAIN jobs : y # Id(i) => jobs'[y] = jobs[y]
       /\ \A j \in Places : j # i => jobs'[Id(j)] = jobs[Id(j)]
       /\ \A j : Id(j)' = Id(j)
  <2>1. JobOK(g, sched[level][i])
    BY <1>9 DEF els
  <2> QED
    BY <2>1, <1>5, <1>8, <1>10, JobFrame
<1>12. AllDone'
  <2>1. ASSUME NEW e, Unsettled(e) PROVE Unsettled(e)'
    <3>1. PICK y \in DOMAIN jobs : jobs[y].at \in {"run", "error"} /\ e \in ToSet(jobs[y].els)
      BY <2>1 DEF Unsettled
    <3>2. CASE y = Id(i)
      BY <3>1, <3>2, <1>1, <1>7, <1>9, <1>11 DEF Unsettled
    <3>3. CASE y # Id(i)
      BY <3>1, <3>3, <1>11 DEF Unsettled
    <3> QED
      BY <3>2, <3>3
  <2> QED
    BY <2>1, <1>5 DEF Good, RunInv, AllDone, First, runVars
<1>13. Rans'
  <2>1. ASSUME NEW p \in Slots(sched) PROVE HasRun(p)' <=> HasRun(p)
    <3>1. CASE ~(p[1] = level /\ p[2] = i)
      <4>0. Id(p[2])' = Id(p[2])
        BY <1>11
      <4>1. p[2] \in Places /\ p[2] # i => jobs'[Id(p[2])'] = jobs[Id(p[2])]
        BY <1>11, <4>0
      <4> QED
        BY <3>1, <4>1, <1>5, <1>11 DEF HasRun, runVars
    <3>2. CASE p[1] = level /\ p[2] = i
      <4>1. HasRun(p) <=> p[3] < p0
        BY <3>2, <1>1, <1>3, <1>4, <1>6 DEF HasRun
      <4>2. jobs'[Id(p[2])'] = g
        <5>1. Id(p[2])' = Id(i)
          BY <3>2, <1>11
        <5> QED
          BY <5>1, <1>11
      <4>3. HasRun(p)' <=> p[3] < p0
        BY <3>2, <4>2, <1>3, <1>5, <1>9, <1>11 DEF HasRun, runVars
      <4> QED
        BY <4>1, <4>3
    <3> QED
      BY <3>1, <3>2
  <2> QED
    BY <2>1, <1>5, RansSame
<1> QED
  BY <1>11, <1>12, <1>13 DEF RunInv

(* What a job runs is at a place of the schedule, and has not run before.  *)
LEMMA RunningIs ==
  ASSUME Good, NEW x \in DOMAIN jobs, jobs[x].at = "run", NEW i \in Places, x = Id(i)
  PROVE  /\ <<level, i, jobs[x].pos>> \in Slots(sched)
         /\ In(sched, <<level, i, jobs[x].pos>>) = Running(x)
         /\ ~HasRun(<<level, i, jobs[x].pos>>)
         /\ Running(x) \in Elements /\ jobs[x].els = sched[level][i]
         /\ jobs[x].pos \in 1..Len(sched[level][i])
<1>1. at \in {"commit", "get"} /\ level <= Len(sched) /\ JobOK(jobs[x], sched[level][i])
  BY JobIs DEF Good, RunInv, Jobs
<1>2. /\ sched \in Schedules /\ level \in 1..Len(sched) /\ level \in Nat /\ i \in 1..Len(sched[level])
      /\ sched[level][i] \in Seq(Elements)
  BY <1>1, RunFacts
<1>3. /\ jobs[x].els = sched[level][i] /\ jobs[x].pos \in 0..Len(sched[level][i])
      /\ jobs[x].pos >= 1
  BY <1>1 DEF JobOK
<1>4. jobs[x].pos \in 1..Len(sched[level][i]) /\ jobs[x].pos \in Nat
  BY <1>2, <1>3
<1>5. /\ <<level, i, jobs[x].pos>> \in Slots(sched)
      /\ In(sched, <<level, i, jobs[x].pos>>) = sched[level][i][jobs[x].pos]
  BY <1>2, <1>4, SlotNumbers
<1>6. sched[level][i][jobs[x].pos] \in Elements
  BY <1>2, <1>4
<1>7. ~HasRun(<<level, i, jobs[x].pos>>)
  BY <1>2, <1>4 DEF HasRun
<1> QED
  BY <1>3, <1>4, <1>5, <1>6, <1>7 DEF Running

(* One element more has run.                                               *)
LEMMA RansMore ==
  ASSUME Good, at \in {"commit", "get"}, sched' = sched, NEW q \in Slots(sched), ~HasRun(q),
         ran' = [ran EXCEPT ![In(sched, q)] = @ + 1],
         \A p \in Slots(sched) : HasRun(p)' <=> (HasRun(p) \/ p = q)
  PROVE  Rans'
<1>1. /\ sched \in Schedules /\ Once(sched) /\ ran \in [Elements -> Nat]
      /\ \A p \in Slots(sched) : ran[In(sched, p)] = IF HasRun(p) THEN 1 ELSE 0
  BY DEF Good, ScheduleInv, Shape, RunInv, Rans
<1>2. In(sched, q) \in Elements /\ ran[In(sched, q)] = 0
  BY <1>1, SlotType
<1>3. ran' \in [Elements -> Nat]
  BY <1>1, <1>2
<1>4. ASSUME NEW p \in Slots(sched) PROVE ran'[In(sched, p)] = IF HasRun(p)' THEN 1 ELSE 0
  <2>1. In(sched, p) \in Elements
    BY <1>1, SlotType
  <2>2. CASE p = q
    BY <2>2, <1>1, <1>2
  <2>3. CASE p # q
    <3>1. In(sched, p) # In(sched, q)
      BY <2>3, <1>1 DEF Once
    <3>2. ran'[In(sched, p)] = ran[In(sched, p)]
      BY <2>1, <3>1, <1>1
    <3>3. HasRun(p)' <=> HasRun(p)
      BY <2>3
    <3> QED
      BY <3>2, <3>3, <1>1
  <2> QED
    BY <2>2, <2>3
<1> QED
  BY <1>3, <1>4 DEF Rans

(* JobElement: one place more has run, and after the last one the cluster  *)
(* is done.                                                                *)
LEMMA JobElementStep ==
  ASSUME Good, NEW x \in DOMAIN jobs, JobElement(x)
  PROVE  ScheduleInv' /\ SetupInv' /\ RunInv'
<1>1. PICK i \in Places : x = Id(i) /\ JobOK(jobs[x], sched[level][i])
  BY JobIs
<1>2. at \in {"commit", "get"} /\ level <= Len(sched)
  BY JobIs
<1>3. /\ sched \in Schedules /\ sched[level][i] \in Seq(Elements) /\ level \in Nat /\ i \in Nat
      /\ Len(sched[level][i]) \in Nat \ {0} /\ level \in 1..Len(sched) /\ i \in 1..Len(sched[level])
  BY <1>1, <1>2, RunFacts
<1>4. jobs[x].at = "run" /\ Awaited(x)
  BY <1>1, <1>2 DEF JobElement, Awaited, Id
<1> DEFINE els == sched[level][i]
<1>5. PICK p0 : p0 = jobs[x].pos
  OBVIOUS
<1> DEFINE q == <<level, i, p0>>
<1>6. /\ q \in Slots(sched) /\ In(sched, q) = Running(x) /\ ~HasRun(q)
      /\ jobs[x].els = els /\ p0 \in 1..Len(els) /\ p0 \in Nat
  <2>1. /\ <<level, i, jobs[x].pos>> \in Slots(sched)
        /\ In(sched, <<level, i, jobs[x].pos>>) = Running(x)
        /\ ~HasRun(<<level, i, jobs[x].pos>>)
        /\ jobs[x].els = sched[level][i] /\ jobs[x].pos \in 1..Len(sched[level][i])
    BY <1>1, <1>4, RunningIs
  <2>2. jobs[x].pos \in Nat
    BY <2>1, <1>3
  <2> QED
    BY <2>1, <2>2, <1>5
<1>7. /\ ran' = [ran EXCEPT ![In(sched, q)] = @ + 1]
      /\ UNCHANGED <<conf, at, runVars, sched, para, counted, failed>>
  BY <1>1, <1>6 DEF JobElement, Id
<1>8. IF p0 < Len(els) THEN jobs' = [jobs EXCEPT ![x].pos = @ + 1] /\ done' = done /\ left' = left
      ELSE /\ jobs' = [jobs EXCEPT ![x].at = "ok"]
           /\ done' = SettleDone(ToSet(els)) /\ left' = Settle(left, ToSet(els))
  BY <1>4, <1>5, <1>6 DEF JobElement, Return
<1>9. done \in [Elements -> BOOLEAN] /\ left \in [Elements -> Nat]
  BY DEF Good, SetupInv, Counters
<1>10. PICK h : h = jobs[x]
  OBVIOUS
<1>11. h \in [els : {els}, pos : 0..Len(els), at : {"queued", "run", "ok", "error"}] /\ h.pos = p0
       /\ h.at = "run"
  BY <1>1, <1>4, <1>5, <1>10 DEF JobOK
<1> HIDE DEF els
<1>12. CASE p0 < Len(els)
  <2> DEFINE g == [els |-> els, pos |-> p0 + 1, at |-> "run"]
  <2>1. jobs' = [jobs EXCEPT ![Id(i)] = g]
    <3>1. [h EXCEPT !.pos = p0 + 1] = g
      BY ONLY <1>11
    <3>2. jobs' = [jobs EXCEPT ![x] = [jobs[x] EXCEPT !.pos = jobs[x].pos + 1]]
      BY <1>8, <1>12
    <3> QED
      BY <3>1, <3>2, <1>1, <1>5, <1>10
  <2>2. JobOK(g, els) /\ g.els = els /\ g.pos = p0 + 1 /\ g.at = "run"
    <3>1. p0 + 1 \in 0..Len(els) /\ p0 + 1 >= 1
      BY <1>3, <1>6, <1>12 DEF els
    <3> QED
      BY <3>1 DEF JobOK
  <2>3. done' = done /\ left' = left
    BY <1>8, <1>12
  <2> HIDE DEF g
  <2>4. /\ ScheduleInv' /\ SetupInv' /\ Jobs' /\ RunCount' /\ Verdict'
        /\ Places' = Places /\ Id(i) \in DOMAIN jobs /\ DOMAIN jobs' = DOMAIN jobs
        /\ jobs'[Id(i)] = g
        /\ \A y \in DOMAIN jobs : y # Id(i) => jobs'[y] = jobs[y]
        /\ \A j \in Places : j # i => jobs'[Id(j)] = jobs[Id(j)]
        /\ \A j : Id(j)' = Id(j)
    <3>1. JobOK(g, sched[level][i])
      BY <2>2 DEF els
    <3> QED
      BY <3>1, <2>1, <2>3, <1>7, <1>9, JobFrame
  <2>5. AllDone'
    <3>1. ASSUME NEW e, Unsettled(e) PROVE Unsettled(e)'
      <4>1. PICK y \in DOMAIN jobs : jobs[y].at \in {"run", "error"} /\ e \in ToSet(jobs[y].els)
        BY <3>1 DEF Unsettled
      <4>2. CASE y = Id(i)
        BY <4>1, <4>2, <1>1, <1>6, <2>2, <2>4 DEF Unsettled, els
      <4>3. CASE y # Id(i)
        BY <4>1, <4>3, <2>4 DEF Unsettled
      <4> QED
        BY <4>2, <4>3
    <3> QED
      BY <3>1, <1>7, <2>3 DEF Good, RunInv, AllDone, First, runVars
  <2>6. ASSUME NEW p \in Slots(sched) PROVE HasRun(p)' <=> (HasRun(p) \/ p = q)
    <3>0. p = <<p[1], p[2], p[3]>> /\ p[3] \in Nat
      BY <1>3, SlotType, SlotParts
    <3>1. CASE ~(p[1] = level /\ p[2] = i)
      <4>0. p # q /\ Id(p[2])' = Id(p[2])
        BY <3>1, <2>4
      <4>1. p[2] \in Places /\ p[2] # i => jobs'[Id(p[2])'] = jobs[Id(p[2])]
        BY <2>4, <4>0
      <4> QED
        BY <3>1, <4>0, <4>1, <1>7, <2>4 DEF HasRun, runVars
    <3>2. CASE p[1] = level /\ p[2] = i
      <4>1. HasRun(p) <=> p[3] < p0
        BY <3>2, <1>1, <1>3, <1>4, <1>5 DEF HasRun
      <4>2. jobs'[Id(p[2])'] = g
        BY <3>2, <2>4
      <4>3. HasRun(p)' <=> p[3] < p0 + 1
        BY <3>2, <4>2, <1>3, <1>7, <2>2, <2>4 DEF HasRun, runVars
      <4>4. p = q <=> p[3] = p0
        BY <3>0, <3>2
      <4> QED
        BY <4>1, <4>3, <4>4, <3>0, <1>6
    <3> QED
      BY <3>1, <3>2
  <2>7. Rans'
    <3> HIDE DEF q
    <3> QED
      BY <2>6, <1>2, <1>6, <1>7, RansMore
  <2> QED
    BY <2>4, <2>5, <2>7 DEF RunInv
<1>13. CASE ~(p0 < Len(els))
  <2>0. p0 = Len(els)
    BY <1>13, <1>3, <1>6 DEF els
  <2> DEFINE g == [els |-> els, pos |-> p0, at |-> "ok"]
  <2>1. jobs' = [jobs EXCEPT ![Id(i)] = g]
    <3>1. [h EXCEPT !.at = "ok"] = g
      BY ONLY <1>11
    <3>2. jobs' = [jobs EXCEPT ![x] = [jobs[x] EXCEPT !.at = "ok"]]
      BY <1>8, <1>13
    <3> QED
      BY <3>1, <3>2, <1>1, <1>10
  <2>2. JobOK(g, els) /\ g.els = els /\ g.pos = p0 /\ g.at = "ok"
    <3>1. p0 \in 0..Len(els)
      BY <1>11
    <3> QED
      BY <3>1, <2>0 DEF JobOK
  <2>3. done' = SettleDone(ToSet(els)) /\ left' = Settle(left, ToSet(els))
    BY <1>8, <1>13
  <2>4. done' \in [Elements -> BOOLEAN] /\ left' \in [Elements -> Nat]
    <3>1. done' \in [Elements -> BOOLEAN]
      BY <2>3, <1>9 DEF SettleDone
    <3>2. ASSUME NEW e \in Elements
          PROVE  (left[e] + DependModulus - Cardinality(ToSet(els) \cap conf.depend[e])) % DependModulus \in Nat
      <4>1. ToSet(els) \cap conf.depend[e] \in SUBSET Elements
        BY ConfFacts DEF Good, Base
      <4>2. Cardinality(ToSet(els) \cap conf.depend[e]) \in Nat
        BY <4>1, ElementsFinite
      <4>3. left[e] \in Nat /\ DependModulus \in Nat /\ DependModulus > 0
        BY <1>9, EngineAssumption
      <4> QED
        BY ONLY <4>2, <4>3
    <3> QED
      BY <3>1, <3>2, <2>3 DEF Settle
  <2> HIDE DEF g
  <2>5. /\ ScheduleInv' /\ SetupInv' /\ Jobs' /\ RunCount' /\ Verdict'
        /\ Places' = Places /\ Id(i) \in DOMAIN jobs /\ DOMAIN jobs' = DOMAIN jobs
        /\ jobs'[Id(i)] = g
        /\ \A y \in DOMAIN jobs : y # Id(i) => jobs'[y] = jobs[y]
        /\ \A j \in Places : j # i => jobs'[Id(j)] = jobs[Id(j)]
        /\ \A j : Id(j)' = Id(j)
    <3>1. JobOK(g, sched[level][i])
      BY <2>2 DEF els
    <3> QED
      BY <3>1, <2>1, <2>4, <1>7, JobFrame
  <2>6. AllDone'
    <3>1. ASSUME NEW e \in Elements, done[e] \/ Unsettled(e) PROVE done'[e] \/ Unsettled(e)'
      <4>1. CASE e \in ToSet(els) \/ done[e]
        BY <4>1, <2>3 DEF SettleDone
      <4>2. CASE e \notin ToSet(els) /\ ~done[e]
        <5>1. PICK y \in DOMAIN jobs : jobs[y].at \in {"run", "error"} /\ e \in ToSet(jobs[y].els)
          BY <3>1, <4>2 DEF Unsettled
        <5>2. y # Id(i)
          BY <5>1, <4>2, <1>1, <1>6
        <5> QED
          BY <5>1, <5>2, <2>5 DEF Unsettled
      <4> QED
        BY <4>1, <4>2
    <3> QED
      BY <3>1, <1>7 DEF Good, RunInv, AllDone, First, runVars
  <2>7. ASSUME NEW p \in Slots(sched) PROVE HasRun(p)' <=> (HasRun(p) \/ p = q)
    <3>0. p = <<p[1], p[2], p[3]>> /\ p[3] \in Nat /\ p[3] \in 1..Len(sched[p[1]][p[2]])
      BY <1>3, SlotType, SlotParts
    <3>1. CASE ~(p[1] = level /\ p[2] = i)
      <4>0. p # q /\ Id(p[2])' = Id(p[2])
        BY <3>1, <2>5
      <4>1. p[2] \in Places /\ p[2] # i => jobs'[Id(p[2])'] = jobs[Id(p[2])]
        BY <2>5, <4>0
      <4> QED
        BY <3>1, <4>0, <4>1, <1>7, <2>5 DEF HasRun, runVars
    <3>2. CASE p[1] = level /\ p[2] = i
      <4>1. HasRun(p) <=> p[3] < p0
        BY <3>2, <1>1, <1>3, <1>4, <1>5 DEF HasRun
      <4>2. jobs'[Id(p[2])'] = g
        BY <3>2, <2>5
      <4>3. HasRun(p)'
        BY <3>2, <4>2, <1>7, <2>2, <2>5 DEF HasRun, runVars
      <4>4. p = q <=> p[3] = p0
        BY <3>0, <3>2
      <4>5. p[3] < p0 \/ p[3] = p0
        BY <3>0, <3>2, <2>0, <1>6 DEF els
      <4> QED
        BY <4>1, <4>3, <4>4, <4>5
    <3> QED
      BY <3>1, <3>2
  <2>8. Rans'
    <3> HIDE DEF q
    <3> QED
      BY <2>7, <1>2, <1>6, <1>7, RansMore
  <2> QED
    BY <2>5, <2>6, <2>8 DEF RunInv
<1> QED
  BY <1>12, <1>13

(* A step that changes nothing.                                            *)
LEMMA StutterStep ==
  ASSUME Good, UNCHANGED engineVars
  PROVE  ScheduleInv' /\ SetupInv' /\ RunInv'
<1>1. UNCHANGED <<conf, at, level, place, run, runs, inits, verdict, sched, para, counted, done, left,
                  jobs, ran, failed>>
  BY DEF engineVars, runVars
<1>2. ScheduleInv'
  BY <1>1, ScheduleFrame DEF Good, First
<1>3. SetupInv'
  <2>1. Mocked' = Mocked
    BY <1>1 DEF Mocked
  <2>2. Counters'
    BY <2>1, <1>1 DEF Good, SetupInv, Counters, First
  <2>3. SetupCount'
    BY <2>1, <1>1 DEF Good, SetupInv, SetupCount
  <2> QED
    BY <2>2, <2>3, <1>1 DEF Good, SetupInv, Later, First
<1>4. RunInv'
  <2>1. AllDone'
    BY <1>1 DEF Good, RunInv, AllDone, First, Unsettled
  <2>2. Places' = Places
    BY <1>1 DEF Places
  <2>3. \A i : Id(i)' = Id(i)
    BY <1>1 DEF Id
  <2>4. Jobs'
    BY <2>2, <2>3, <1>1 DEF Good, RunInv, Jobs
  <2>5. \A p : HasRun(p)' <=> HasRun(p)
    BY <2>2, <2>3, <1>1 DEF HasRun
  <2>6. Rans'
    BY <2>5, <1>1 DEF Good, RunInv, Rans
  <2>7. Committed' = Committed
    BY <1>1 DEF Committed
  <2>8. RunCount' /\ Verdict'
    BY <2>7, <1>1 DEF Good, RunInv, RunCount, Verdict, First
  <2> QED
    BY <2>1, <2>4, <2>6, <2>8 DEF RunInv
<1> QED
  BY <1>2, <1>3, <1>4

(* Every step keeps the invariant.                                         *)
LEMMA EngineStep ==
  ASSUME EngineInv, [EngineNext]_engineVars
  PROVE  EngineInv'
<1>1. Base' /\ conf' = conf /\ (IsSound' => IsSound)
  BY BaseStep DEF EngineInv
<1>2. ASSUME IsSound' PROVE ScheduleInv' /\ SetupInv' /\ RunInv'
  <2>1. Good
    BY <1>1, <1>2 DEF EngineInv, Good
  <2>2. CASE UNCHANGED engineVars
    BY <2>1, <2>2, StutterStep
  <2>3. CASE SetupStep
    <3>1. CASE SetupBuilt
      BY <2>1, <3>1, BuiltEnd, BuiltMock
    <3>2. CASE SetupHead \/ SetupLink \/ SetupMock
      BY <2>1, <3>2, HeadStep, LinkStep, MockStep
    <3> QED
      BY <2>3, <3>1, <3>2 DEF SetupStep
  <2>4. CASE MainGetError
    <3>1. failed' = TRUE
      BY <2>4 DEF MainGetError
    <3> QED
      BY <3>1, <1>2 DEF IsSound
  <2>5. CASE JobStep
    <3>1. PICK x \in DOMAIN jobs : JobBegin(x) \/ JobElement(x) \/ JobError(x)
      BY <2>5 DEF JobStep
    <3> QED
      BY <2>1, <3>1, JobBeginStep, JobElementStep, JobErrorStep
  <2>6. CASE MainInit \/ MainRun \/ MainCommit \/ MainGet
    BY <2>1, <2>6, MainInitStep, RunStep, CommitStep, GetStep
  <2>7. CASE MainCheck \/ MainDestroy \/ MainJoin
    BY <2>1, <2>7, CheckStep, DestroyStep, JoinStep
  <2> QED
    BY <2>2, <2>3, <2>4, <2>5, <2>6, <2>7 DEF EngineNext, MainStep
<1> QED
  BY <1>1, <1>2 DEF EngineInv

(* A failed run leaves the schedule as it was.                             *)
Kept ==
  First => /\ at \in Running3 => ScheduleInv
           /\ failed => at \in Running3 \cup {"join"}

(* From the first test of the runs on, a step keeps the schedule or        *)
(* deletes it.                                                             *)
LEMMA RunningKeeps ==
  ASSUME at \in Running3, [EngineNext]_engineVars, ~UNCHANGED engineVars
  PROVE  \/ at' = "join"
         \/ at' \in Running3 /\ sched' = sched /\ conf' = conf
<1>1. ~SetupStep /\ ~MainInit /\ ~MainJoin
  BY DEF Running3, SetupStep, SetupHead, SetupLink, SetupBuilt, SetupMock, MainInit, MainJoin
<1>2. CASE MainRun \/ MainGetError \/ MainCheck \/ MainDestroy
  BY <1>2 DEF MainRun, MainGetError, MainCheck, MainDestroy, Running3
<1>3. CASE MainCommit \/ MainGet
  BY <1>3 DEF MainCommit, MainGet, Advance, Running3
<1>4. CASE JobStep
  BY <1>4 DEF JobStep, JobBegin, JobElement, JobError
<1> QED
  BY <1>1, <1>2, <1>3, <1>4 DEF EngineNext, MainStep

(* Kept is kept, if the invariant holds before and after.                  *)
LEMMA KeptStep ==
  ASSUME EngineInv, Kept, EngineInv', [EngineNext]_engineVars
  PROVE  Kept'
<1>1. Base /\ Base' /\ conf' = conf /\ (First' => First) /\ (IsSound' => IsSound)
  BY BaseStep DEF EngineInv
<1>2. SUFFICES ASSUME First'
               PROVE  /\ at' \in Running3 => ScheduleInv'
                      /\ failed' => at' \in Running3 \cup {"join"}
  BY DEF Kept
<1>3. CASE ~failed'
  BY <1>2, <1>3 DEF EngineInv, IsSound
<1>4. CASE failed'
  <2>1. First
    BY <1>1, <1>2
  <2>2. at \in Running3 \cup {"join"} /\ (at \in Running3 => ScheduleInv)
    <3>1. CASE failed
      BY <2>1, <3>1 DEF Kept
    <3>2. CASE ~failed
      <4>1. at = "get"
        <5>1. MainGetError
          <6>1. SUFFICES ASSUME ~MainGetError PROVE failed' = failed
            BY <1>4, <3>2
          <6>2. CASE UNCHANGED engineVars
            BY <6>2 DEF engineVars
          <6>3. CASE SetupStep
            BY <6>3 DEF SetupStep, SetupHead, SetupLink, SetupBuilt, SetupMock
          <6>4. CASE JobStep
            BY <6>4 DEF JobStep, JobBegin, JobElement, JobError
          <6>5. CASE MainInit \/ MainRun \/ MainCommit \/ MainGet \/ MainCheck \/ MainDestroy \/ MainJoin
            BY <6>5 DEF MainInit, MainRun, MainCommit, MainGet, MainCheck, MainDestroy, MainJoin
          <6> QED
            BY <6>1, <6>2, <6>3, <6>4, <6>5 DEF EngineNext, MainStep
        <5> QED
          BY <5>1 DEF MainGetError
      <4> QED
        BY <2>1, <4>1 DEF Kept, Running3
    <3> QED
      BY <3>1, <3>2
  <2>3. CASE UNCHANGED engineVars
    <3>1. at' = at /\ sched' = sched
      BY <2>3 DEF engineVars
    <3>2. at \in Running3 => ScheduleInv'
      BY <2>2, <3>1, <1>1, ScheduleFrame
    <3> QED
      BY <2>2, <3>1, <3>2
  <2>4. CASE at = "join" /\ ~UNCHANGED engineVars
    <3>1. ~MainJoin
      BY <1>1, <2>1, <1>2, <2>4, ConfFacts DEF MainJoin, First, Base
    <3>2. JobStep
      BY <2>4, <3>1 DEF EngineNext, MainStep, SetupStep, SetupHead, SetupLink, SetupBuilt, SetupMock,
         MainInit, MainRun, MainCommit, MainGet, MainGetError, MainCheck, MainDestroy
    <3>3. at' = at
      BY <3>2 DEF JobStep, JobBegin, JobElement, JobError
    <3> QED
      BY <2>4, <3>3 DEF Running3
  <2>5. CASE at \in Running3 /\ ~UNCHANGED engineVars
    <3>1. at' = "join" \/ (at' \in Running3 /\ sched' = sched /\ conf' = conf)
      BY <2>5, RunningKeeps
    <3>2. at' \in Running3 => ScheduleInv'
      BY <2>2, <2>5, <3>1, <1>1, ScheduleFrame DEF Running3
    <3> QED
      BY <3>1, <3>2
  <2> QED
    BY <2>2, <2>3, <2>4, <2>5
<1> QED
  BY <1>3, <1>4

(* The static engine keeps its invariant, for any graphs, bindings,        *)
(* failing elements, and numbers of runs and Inits: how Setup builds the   *)
(* schedule and how Run and the clusters account for it.                   *)
THEOREM EngineInvariant == EngineSpec => [](EngineInv /\ Kept)
<1>1. EngineInit => EngineInv /\ Kept
  <2>1. EngineInit => Kept
    BY DEF EngineInit, Kept, Running3
  <2> QED
    BY <2>1, InitStep
<1>2. (EngineInv /\ Kept) /\ [EngineNext]_engineVars => (EngineInv /\ Kept)'
  BY EngineStep, KeptStep
<1> QED
  BY <1>1, <1>2, PTL DEF EngineSpec

(* A schedule whose clusters begin behind what they need holds nothing     *)
(* that needs a cycle: there would be an earliest of it.                   *)
LEMMA NothingStuck ==
  ASSUME conf \in Configs, NEW s \in Schedules, Chained(s), Begun(s), NEW p \in Slots(s)
  PROVE  In(s, p) \notin Stuck(conf.depend)
<1>1. SUFFICES ASSUME In(s, p) \in Stuck(conf.depend) PROVE FALSE
  OBVIOUS
<1>2. PICK S : In(s, p) \in S /\ \A e \in S : conf.depend[e] \cap S # {}
  BY <1>1 DEF Stuck
<1> DEFINE P == {q \in Slots(s) : In(s, q) \in S}
           L == {q[1] : q \in P}
<1>3. \A q \in P : /\ q[1] \in Nat /\ q[3] \in Nat /\ q[3] >= 1
                   /\ q[3] > 1 => <<q[1], q[2], q[3] - 1>> \in Slots(s)
  <2>1. ASSUME NEW q \in Slots(s)
        PROVE  /\ q[1] \in Nat /\ q[3] \in Nat /\ q[3] >= 1
               /\ q[3] > 1 => <<q[1], q[2], q[3] - 1>> \in Slots(s)
    <3>1. q[1] \in 1..Len(s) /\ q[3] \in 1..Len(s[q[1]][q[2]])
      BY SlotType
    <3>2. q[1] \in Nat /\ q[3] \in Nat /\ q[3] >= 1
      BY ONLY <3>1
    <3> QED
      BY <3>2, SlotBefore
  <2> QED
    BY <2>1
<1>4. L \subseteq Nat /\ L # {}
  BY <1>2, <1>3
<1>5. PICK l \in L : \A m \in L : ~(<<m, l>> \in OpToRel(<, Nat))
  <2> HIDE DEF L
  <2> QED
    BY <1>4, NatLessThanWellFounded, WFMin
<1>6. \A m \in L : ~(m < l)
  BY <1>4, <1>5 DEF OpToRel
<1> DEFINE K == {q[3] : q \in {r \in P : r[1] = l}}
<1>7. K \subseteq Nat /\ K # {}
  BY <1>3, <1>5
<1>8. PICK k \in K : \A m \in K : ~(<<m, k>> \in OpToRel(<, Nat))
  <2> HIDE DEF K
  <2> QED
    BY <1>7, NatLessThanWellFounded, WFMin
<1>9. \A m \in K : ~(m < k)
  BY <1>7, <1>8 DEF OpToRel
<1>10. PICK q \in P : q[1] = l /\ q[3] = k
  BY <1>8
<1>11. PICK d \in conf.depend[In(s, q)] : d \in S
  BY <1>2
<1>12. CASE q[3] > 1
  <2> DEFINE r == <<q[1], q[2], q[3] - 1>>
  <2>1. r \in Slots(s) /\ d = In(s, r)
    BY <1>3, <1>11, <1>12 DEF Chained
  <2>2. r \in P /\ r[1] = l
    BY <2>1, <1>10, <1>11
  <2>3. r[3] \in K /\ r[3] = k - 1
    BY <2>2, <1>10
  <2>4. PICK m \in K : m = k - 1
    BY <2>3
  <2>5. k \in Nat /\ ~(m < k)
    BY <1>7, <1>9
  <2> QED
    BY ONLY <2>4, <2>5
<1>13. CASE ~(q[3] > 1)
  <2>1. q[3] = 1
    <3>1. q[3] \in Nat /\ q[3] >= 1
      BY <1>3
    <3> QED
      BY ONLY <3>1, <1>13
  <2>2. d \in Levels(s, 1..(q[1] - 1))
    BY <2>1, <1>11 DEF Begun, Begins
  <2>3. PICK r \in Slots(s) : r[1] \in 1..(q[1] - 1) /\ In(s, r) = d
    BY <2>2, LevelsIn
  <2>4. r[1] \in L
    BY <2>3, <1>11
  <2>5. r[1] < l
    <3>1. q[1] \in Nat /\ q[1] = l
      BY <1>3, <1>10
    <3> QED
      BY ONLY <2>3, <3>1
  <2> QED
    BY <2>4, <2>5, <1>6
<1> QED
  BY <1>12, <1>13

(* The first of the properties follows from what is kept of the schedule,  *)
(* the other two from the invariant.                                       *)
LEMMA EarliestIs ==
  ASSUME Base, Kept
  PROVE  ScheduleIsEarliest
<1>1. SUFFICES ASSUME First, at \in Running3
      PROVE  /\ {In(sched, p) : p \in Slots(sched)} = Elements \ Stuck(conf.depend)
             /\ \A p, q \in Slots(sched) : In(sched, p) = In(sched, q) => p = q
             /\ \A p \in Slots(sched) :
                  /\ p[3] > 1 => conf.depend[In(sched, p)] = {In(sched, <<p[1], p[2], p[3] - 1>>)}
                  /\ p[3] = 1 => conf.depend[In(sched, p)] \subseteq Levels(sched, 1..(p[1] - 1))
                  /\ p[3] = 1 /\ p[1] > 1 =>
                       conf.depend[In(sched, p)] \cap Levels(sched, {p[1] - 1}) # {}
  BY DEF ScheduleIsEarliest, Running3
<1>2. /\ Once(sched) /\ Chained(sched) /\ Begun(sched) /\ Complete
      /\ sched \in Schedules /\ conf \in Configs /\ Len(sched) \in Nat
  BY <1>1 DEF Kept, ScheduleInv, Shape, Base, Schedules
<1>3. ASSUME NEW p \in Slots(sched) PROVE In(sched, p) \in Elements \ Stuck(conf.depend)
  BY <1>2, SlotType, NothingStuck
<1>4. Elements \ Stuck(conf.depend) \subseteq {In(sched, p) : p \in Slots(sched)}
  <2>1. Closed(sched, Len(sched))
    BY <1>1, <1>2 DEF Complete, Running3
  <2>2. Levels(sched, 1..Len(sched)) = Levels(sched, 1..(Len(sched) + 1))
    <3>1. ASSUME NEW p \in Slots(sched) PROVE p[1] \in 1..Len(sched) /\ p[1] \in 1..(Len(sched) + 1)
      BY <1>2, SlotType
    <3> QED
      BY <3>1 DEF Levels
  <2>3. Elements \ Levels(sched, 1..Len(sched)) \subseteq Stuck(conf.depend)
    BY <2>1, <2>2, <1>2, ClosedHasAll
  <2> QED
    BY <2>3 DEF Levels
<1>5. \A p \in Slots(sched) :
        /\ p[3] > 1 => conf.depend[In(sched, p)] = {In(sched, <<p[1], p[2], p[3] - 1>>)}
        /\ p[3] = 1 => conf.depend[In(sched, p)] \subseteq Levels(sched, 1..(p[1] - 1))
        /\ p[3] = 1 /\ p[1] > 1 =>
             conf.depend[In(sched, p)] \cap Levels(sched, {p[1] - 1}) # {}
  BY <1>2 DEF Chained, Begun, Begins
<1>6. \A p, q \in Slots(sched) : In(sched, p) = In(sched, q) => p = q
  BY <1>2 DEF Once
<1> QED
  BY <1>3, <1>4, <1>5, <1>6

(* What a running element depends on is at places that have run.           *)
LEMMA DependenciesIs ==
  ASSUME EngineInv
  PROVE  DependenciesFirst
<1>1. SUFFICES ASSUME Good, NEW x \in Busy
      PROVE  /\ \A d \in conf.depend[Running(x)] : ran[d] = 1
             /\ ran[Running(x)] = 0
             /\ \A y \in Busy \ {x} : Running(x) # Running(y)
  BY DEF DependenciesFirst, EngineInv, Good
<1>2. x \in DOMAIN jobs /\ jobs[x].at = "run"
  BY DEF Busy
<1>3. at \in {"commit", "get"} /\ level <= Len(sched)
  BY <1>1, <1>2, JobIs
<1>4. PICK i \in Places : x = Id(i)
  BY <1>1, <1>2, JobIs
<1>5. /\ Once(sched) /\ Chained(sched) /\ Begun(sched) /\ sched \in Schedules
      /\ \A p \in Slots(sched) : ran[In(sched, p)] = IF HasRun(p) THEN 1 ELSE 0
  BY <1>1, <1>3 DEF Good, ScheduleInv, Shape, RunInv, Rans
<1>6. PICK k : k = jobs[x].pos
  OBVIOUS
<1> DEFINE q == <<level, i, k>>
<1>7. q \in Slots(sched) /\ In(sched, q) = Running(x) /\ ~HasRun(q)
  BY <1>1, <1>2, <1>4, <1>6, RunningIs
<1>8. q[1] = level /\ q[2] = i /\ q[3] = k /\ k \in Nat /\ level \in Nat
  BY <1>5, <1>7, SlotType
<1> HIDE DEF q
<1>9. ASSUME NEW d \in conf.depend[Running(x)] PROVE ran[d] = 1
  <2>1. CASE k > 1
    <3>1. PICK r : r = <<level, i, k - 1>>
      OBVIOUS
    <3>2. r = <<q[1], q[2], q[3] - 1>>
      BY <3>1, <1>8
    <3>3. r \in Slots(sched) /\ d = In(sched, r)
      BY <3>2, <2>1, <1>5, <1>7, <1>8, SlotBefore DEF Chained
    <3>4. HasRun(r)
      <4>1. r[1] = level /\ r[2] = i /\ r[3] < jobs[Id(i)].pos
        BY <3>1, <1>4, <1>6, <1>8
      <4> QED
        BY <4>1 DEF HasRun
    <3> QED
      BY <3>3, <3>4, <1>5
  <2>2. CASE ~(k > 1)
    <3>1. q[3] = 1
      BY <2>2, <1>5, <1>7, <1>8, SlotType
    <3>2. d \in Levels(sched, 1..(level - 1))
      BY <3>1, <1>5, <1>7, <1>8 DEF Begun, Begins
    <3>3. PICK r \in Slots(sched) : r[1] \in 1..(level - 1) /\ In(sched, r) = d
      BY <3>2, LevelsIn
    <3>4. HasRun(r)
      BY <3>3, <1>8 DEF HasRun
    <3> QED
      BY <3>3, <3>4, <1>5
  <2> QED
    BY <2>1, <2>2
<1>10. ran[Running(x)] = 0
  BY <1>5, <1>7
<1>11. ASSUME NEW y \in Busy \ {x} PROVE Running(x) # Running(y)
  <2>1. y \in DOMAIN jobs /\ jobs[y].at = "run"
    BY DEF Busy
  <2>2. PICK j \in Places : y = Id(j)
    BY <2>1, <1>1, JobIs
  <2>3. PICK r : r = <<level, j, jobs[y].pos>>
    OBVIOUS
  <2>4. r \in Slots(sched) /\ In(sched, r) = Running(y)
    BY <2>1, <2>2, <2>3, <1>1, RunningIs
  <2>5. r # q
    BY <2>2, <2>3, <1>4, <1>8, <1>11
  <2> QED
    BY <2>4, <2>5, <1>5, <1>7 DEF Once
<1> QED
  BY <1>9, <1>10, <1>11

(* A check that passes has counted all elements at places that have run.   *)
LEMMA CompleteIs ==
  ASSUME EngineInv
  PROVE  RunsAreComplete
<1>1. SUFFICES ASSUME Good, at \in {"test", "join"}, verdict # "none"
      PROVE  /\ DOMAIN jobs = {}
             /\ verdict = "ok" => \A e \in Elements : ran[e] = 1
             /\ First /\ Acyclic(conf.depend) => verdict = "ok"
  BY DEF RunsAreComplete, EngineInv, Good
<1>2. DOMAIN jobs = {}
  BY <1>1, NoJobs
<1>3. Verdict
  BY <1>1 DEF Good, RunInv
<1> QED
  BY <1>1, <1>2, <1>3 DEF Verdict

(* Setup of the static engine: after the first Init the schedule holds     *)
(* exactly the elements that need nothing of a cycle, each once; only the  *)
(* first element of a cluster depends on anything but the one before it;   *)
(* and every cluster is in the earliest level its head may be in.          *)
THEOREM ScheduleEarliest == EngineSpec => []ScheduleIsEarliest
<1>1. EngineInv /\ Kept => ScheduleIsEarliest
  BY EarliestIs DEF EngineInv
<1> QED
  BY <1>1, EngineInvariant, PTL

(* Run of the static engine: while no run has failed, an element runs only *)
(* when all it depends on has run in this run, and no element runs twice   *)
(* in it.                                                                  *)
THEOREM DependenciesRunFirst == EngineSpec => []DependenciesFirst
<1>1. EngineInv /\ Kept => DependenciesFirst
  BY DependenciesIs
<1> QED
  BY <1>1, EngineInvariant, PTL

(* AfterRunCheck: when it passes, every element has run exactly once and   *)
(* nothing is running; after the first Init of a graph without a cycle it  *)
(* always passes, unless an element fails.                                 *)
THEOREM CheckedRunsAreComplete == EngineSpec => []RunsAreComplete
<1>1. EngineInv /\ Kept => RunsAreComplete
  BY CompleteIs
<1> QED
  BY <1>1, EngineInvariant, PTL

-----------------------------------------------------------------------------
(* ThreadSafeQueue.                                                        *)

USE DEF Threads, At, Goto

(* Each lock is held exactly by the thread inside its section.             *)
LockInv ==
  /\ \A p \in Producers : /\ pc[p] \in {"idle", "lock", "link", "tail", "gone"}
                          /\ pc[p] \in {"link", "tail"} <=> tail_lock_ = p
  /\ \A c \in Consumers : /\ pc[c] \in {"idle", "read", "delete", "gone"}
                          /\ At(c, "read") <=> head_lock_ = c

(* tail_ is the last node, except between the two writes of PushBack.      *)
TailInv ==
  ~Gone => \/ /\ tail_ = chain[Len(chain)]
              /\ \A p \in Producers : ~At(p, "tail")
           \/ \E p \in Producers : At(p, "tail") /\ temp[p] = chain[Len(chain)]

(* What a call knows about its node.                                       *)
CallInv ==
  /\ \A p \in Producers : pc[p] \in {"lock", "link"} =>
       next_[temp[p]] = NoNode /\ data_[temp[p]] \in Values
  /\ \A c \in Consumers : /\ At(c, "read") => temp[c] = head_
                          /\ At(c, "read") <=> result[c] = Pending

(* The destructor runs alone. *)
GoneInv == (\E t \in Threads : At(t, "gone")) => Gone

IInv == TypeOK /\ LockInv /\ TailInv /\ CallInv /\ GoneInv /\ NodesAccounted

(* The constructor establishes the invariant.                              *)
LEMMA InitInv == Init => IInv
<1> SUFFICES ASSUME Init PROVE IInv
  OBVIOUS
<1>1. PICK n \in Nodes :
         /\ head_ = n /\ tail_ = n
         /\ next_ = [m \in Nodes |-> NoNode]
         /\ data_ = [m \in Nodes |-> Nothing]
         /\ heap = {n}
         /\ head_lock_ = NoThread /\ tail_lock_ = NoThread
         /\ pc = [t \in Threads |-> "idle"]
         /\ temp = [t \in Threads |-> n]
         /\ result = [c \in Consumers |-> Nothing]
         /\ chain = <<n>>
  BY DEF Init
<1>2. \A t \in Threads : pc[t] = "idle" /\ Private(t) = {}
  BY <1>1 DEF Private
<1>3. ~Gone
  BY <1>2, QueueAssumption DEF Gone
<1>4. TypeOK
  BY <1>1, QueueAssumption DEF TypeOK
<1>5. LockInv
  BY <1>1, <1>2, QueueAssumption DEF LockInv
<1>6. TailInv
  BY <1>1, <1>2 DEF TailInv
<1>7. CallInv
  BY <1>1, <1>2, QueueAssumption DEF CallInv
<1>8. GoneInv
  BY <1>2 DEF GoneInv
<1>9. ChainLinked
  BY <1>1 DEF ChainLinked
<1>10. HeapDivided
  BY <1>1, <1>2 DEF HeapDivided, Contents
<1> QED
  BY <1>3, <1>4, <1>5, <1>6, <1>7, <1>8, <1>9, <1>10 DEF IInv, NodesAccounted

(* Every step keeps the types.                                             *)
LEMMA NextType ==
  ASSUME TypeOK, NodesAccounted, [Next]_vars
  PROVE  TypeOK'
<1> USE QueueAssumption DEF TypeOK
<1>1. CASE UNCHANGED vars
  BY <1>1 DEF vars, nodeVars
<1>2. ASSUME NEW p \in Producers, NEW v \in Values, PushNode(p, v)
      PROVE  TypeOK'
  BY <1>2 DEF PushNode
<1>3. ASSUME NEW p \in Producers, PushLock(p)
      PROVE  TypeOK'
  BY <1>3 DEF PushLock, nodeVars
<1>4. ASSUME NEW p \in Producers, PushLink(p)
      PROVE  TypeOK'
  <2>1. temp[p] \in Nodes
    BY <1>4
  <2>2. next_' \in [Nodes -> Nodes \cup {NoNode}]
    BY <1>4, <2>1 DEF PushLink
  <2>3. chain' \in Seq(Nodes)
    BY <1>4, <2>1 DEF PushLink
  <2> QED
    BY <1>4, <2>2, <2>3 DEF PushLink
<1>5. ASSUME NEW p \in Producers, PushTail(p)
      PROVE  TypeOK'
  BY <1>5 DEF PushTail, nodeVars
<1>6. ASSUME NEW c \in Consumers, PopLock(c)
      PROVE  TypeOK'
  <2>1. head_ \in Nodes
    BY <1>6 DEF PopLock, NodesAccounted, ChainLinked, Gone
  <2> QED
    BY <1>6, <2>1 DEF PopLock, nodeVars
<1>7. ASSUME NEW c \in Consumers, PopEmpty(c)
      PROVE  TypeOK'
  BY <1>7 DEF PopEmpty, nodeVars
<1>8. ASSUME NEW c \in Consumers, PopTake(c)
      PROVE  TypeOK'
  <2>1. chain # <<>>
    BY <1>8 DEF PopTake, NodesAccounted, ChainLinked, Gone
  <2> QED
    BY <1>8, <2>1 DEF PopTake, nodeVars
<1>9. ASSUME NEW c \in Consumers, PopDelete(c)
      PROVE  TypeOK'
  BY <1>9 DEF PopDelete
<1>10. CASE Destroy
  BY <1>10 DEF Destroy
<1>11. CASE Terminated
  BY <1>11 DEF Terminated, vars, nodeVars
<1> QED
  BY <1>1, <1>2, <1>3, <1>4, <1>5, <1>6, <1>7, <1>8, <1>9, <1>10, <1>11
     DEF Next, PushStep, PopStep

LEMMA AboveOne ==
  ASSUME NEW n \in Nat, n >= 1, n # 1
  PROVE  n > 1 /\ 2 <= n
  OBVIOUS

(* A set of numbers has a least element: the form of induction used below. *)
LEMMA LeastElement ==
  ASSUME NEW T \in SUBSET Nat, T # {}
  PROVE  \E m \in T : \A k \in T : m <= k
<1>1. \E m \in T : \A k \in T : ~ (<<k, m>> \in OpToRel(<, Nat))
  BY NatLessThanWellFounded, WFMin
<1>2. ASSUME NEW m \in T, NEW k \in T, ~ (<<k, m>> \in OpToRel(<, Nat))
      PROVE  m <= k
  BY <1>2 DEF OpToRel
<1> QED
  BY <1>1, <1>2

(* The destructor reaches every node of the list. *)
LEMMA ChainVisited ==
  ASSUME TypeOK, ChainLinked
  PROVE  Contents(chain) \subseteq Visited
<1> SUFFICES ASSUME NEW i \in DOMAIN chain, NEW S \in SUBSET Nodes, head_ \in S,
                    \A m \in S : next_[m] # NoNode => next_[m] \in S
             PROVE  chain[i] \in S
  BY DEF TypeOK, Contents, Visited
<1> DEFINE Missed == {j \in DOMAIN chain : chain[j] \notin S}
<1>1. ASSUME Missed # {}
      PROVE  FALSE
  <2>5. Missed \in SUBSET Nat
    BY DEF TypeOK
  <2> HIDE DEF Missed
  <2>1. PICK m \in Missed : \A k \in Missed : m <= k
    BY <1>1, <2>5, LeastElement
  <2> USE DEF Missed
  <2>2. m # 1
    BY <2>1 DEF ChainLinked
  <2>3. m - 1 \in DOMAIN chain /\ chain[m - 1] \in S
    BY <2>1, <2>2 DEF TypeOK
  <2>4. next_[chain[m - 1]] = chain[m] /\ chain[m] # NoNode
    BY <2>1, <2>3, QueueAssumption DEF ChainLinked, TypeOK
  <2> QED
    BY <2>1, <2>3, <2>4
<1> QED
  BY <1>1

-----------------------------------------------------------------------------
(* Every step keeps each part of the invariant: the locks,                 *)
LEMMA NextLock ==
  ASSUME TypeOK, LockInv, [Next]_vars
  PROVE  LockInv'
<1> USE QueueAssumption DEF TypeOK, LockInv
<1>1. CASE UNCHANGED vars
  BY <1>1 DEF vars
<1>2. ASSUME NEW p \in Producers, PushStep(p) \/ \E v \in Values : PushNode(p, v)
      PROVE  LockInv'
  BY <1>2 DEF PushNode, PushStep, PushLock, PushLink, PushTail
<1>3. ASSUME NEW c \in Consumers, PopStep(c)
      PROVE  LockInv'
  <2>1. CASE PopLock(c)
    BY <2>1 DEF PopLock
  <2>2. CASE PopEmpty(c)
    BY <2>2 DEF PopEmpty
  <2>3. CASE PopTake(c)
    BY <2>3 DEF PopTake
  <2>4. CASE PopDelete(c)
    BY <2>4 DEF PopDelete
  <2> QED
    BY <1>3, <2>1, <2>2, <2>3, <2>4 DEF PopStep
<1>4. CASE Destroy
  BY <1>4 DEF Destroy
<1>5. CASE Terminated
  BY <1>5 DEF Terminated, vars
<1> QED
  BY <1>1, <1>2, <1>3, <1>4, <1>5 DEF Next

(* A thread that takes a step has not gone, and then nobody has.           *)
LEMMA NextGone ==
  ASSUME TypeOK, LockInv, GoneInv, [Next]_vars
  PROVE  /\ GoneInv'
         /\ Gone => UNCHANGED vars
         /\ Gone' => Gone \/ Destroy
<1> USE QueueAssumption DEF TypeOK, LockInv, GoneInv, Gone
<1>1. CASE UNCHANGED vars
  BY <1>1 DEF vars
<1>2. ASSUME NEW p \in Producers, PushStep(p) \/ \E v \in Values : PushNode(p, v)
      PROVE  ~Gone /\ ~Gone' /\ GoneInv'
  <2>1. pc[p] # "gone" /\ pc'[p] # "gone" /\ p \in Threads
    BY <1>2 DEF PushNode, PushStep, PushLock, PushLink, PushTail
  <2>2. \A t \in Threads : pc'[t] = "gone" => pc[t] = "gone"
    BY <1>2 DEF PushNode, PushStep, PushLock, PushLink, PushTail
  <2> QED
    BY <2>1, <2>2
<1>3. ASSUME NEW c \in Consumers, PopStep(c)
      PROVE  ~Gone /\ ~Gone' /\ GoneInv'
  <2>1. pc[c] # "gone" /\ pc'[c] # "gone" /\ c \in Threads
    BY <1>3 DEF PopStep, PopLock, PopEmpty, PopTake, PopDelete
  <2>2. \A t \in Threads : pc'[t] = "gone" => pc[t] = "gone"
    BY <1>3 DEF PopStep, PopLock, PopEmpty, PopTake, PopDelete
  <2> QED
    BY <2>1, <2>2
<1>4. CASE Destroy
  BY <1>4 DEF Destroy
<1>5. CASE Terminated
  BY <1>5 DEF Terminated, vars
<1> QED
  BY <1>1, <1>2, <1>3, <1>4, <1>5 DEF Next

(* tail_,                                                                  *)
LEMMA NextTail ==
  ASSUME TypeOK, TypeOK', LockInv, LockInv', TailInv, CallInv, NodesAccounted,
         ~Gone, ~Gone', [Next]_vars
  PROVE  TailInv'
<1> USE QueueAssumption DEF TypeOK, LockInv, TailInv
<1>1. CASE UNCHANGED vars
  BY <1>1 DEF vars
<1>2. ASSUME NEW p \in Producers, PushLink(p)
      PROVE  TailInv'
  BY <1>2 DEF PushLink
<1>3. ASSUME NEW p \in Producers, PushTail(p)
      PROVE  TailInv'
  BY <1>3 DEF PushTail
<1>4. ASSUME NEW p \in Producers, PushLock(p) \/ \E v \in Values : PushNode(p, v)
      PROVE  TailInv'
  BY <1>4 DEF PushNode, PushLock
<1>5. ASSUME NEW c \in Consumers, PopTake(c)
      PROVE  TailInv'
  <2>1. temp[c] = chain[1] /\ Len(chain) # 1 /\ chain # <<>>
    BY <1>5 DEF PopTake, NodesAccounted, ChainLinked, CallInv
  <2>3. /\ Len(chain') = Len(chain) - 1
        /\ \A i \in 1..Len(chain') : chain'[i] = chain[i + 1]
    BY <1>5, <2>1, HeadTailProperties DEF PopTake
  <2>2. chain'[Len(chain')] = chain[Len(chain)]
    BY <2>1, <2>3
  <2> QED
    BY <1>5, <2>2 DEF PopTake
<1>6. ASSUME NEW c \in Consumers, PopLock(c) \/ PopEmpty(c) \/ PopDelete(c)
      PROVE  TailInv'
  BY <1>6 DEF PopLock, PopEmpty, PopDelete
<1>7. CASE Destroy
  BY <1>7 DEF Destroy, Gone
<1>8. CASE Terminated
  BY <1>8 DEF Terminated, vars
<1> QED
  BY <1>1, <1>2, <1>3, <1>4, <1>5, <1>6, <1>7, <1>8 DEF Next, PushStep, PopStep

(* What PushLink and PopTake find in the nodes they touch.                 *)
LEMMA EndsKnown ==
  ASSUME IInv, ~Gone
  PROVE  /\ chain # <<>> /\ chain \in Seq(Nodes) /\ ChainLinked /\ HeapDivided
         /\ \A p \in Producers : At(p, "link") =>
              /\ tail_ = chain[Len(chain)]
              /\ temp[p] \in heap /\ temp[p] \notin Contents(chain)
              /\ next_[temp[p]] = NoNode
         /\ \A c \in Consumers : At(c, "read") =>
              /\ temp[c] = chain[1] /\ Len(chain) >= 1
              /\ next_[temp[c]] = IF Len(chain) = 1 THEN NoNode ELSE chain[2]
<1> USE QueueAssumption DEF IInv, TypeOK
<1>1. ChainLinked /\ HeapDivided /\ chain # <<>> /\ chain \in Seq(Nodes)
  BY DEF NodesAccounted, ChainLinked
<1>2. ASSUME NEW p \in Producers, At(p, "link")
      PROVE  /\ tail_ = chain[Len(chain)]
             /\ temp[p] \in heap /\ temp[p] \notin Contents(chain)
             /\ next_[temp[p]] = NoNode
  <2>1. \A q \in Producers : ~At(q, "tail")
    BY <1>2 DEF LockInv
  <2>2. Private(p) = {temp[p]}
    BY <1>2 DEF Private
  <2>3. temp[p] \in heap /\ temp[p] \notin Contents(chain)
    BY <1>1, <2>2 DEF HeapDivided
  <2> QED
    BY <1>2, <2>1, <2>3 DEF TailInv, CallInv
<1>3. ASSUME NEW c \in Consumers, At(c, "read")
      PROVE  /\ temp[c] = chain[1] /\ Len(chain) >= 1
             /\ next_[temp[c]] = IF Len(chain) = 1 THEN NoNode ELSE chain[2]
  <2>1. temp[c] = chain[1]
    BY <1>1, <1>3 DEF ChainLinked, CallInv
  <2>2. 1 \in DOMAIN chain /\ Len(chain) >= 1 /\ Len(chain) \in Nat
    BY <1>1
  <2>3. next_[chain[1]] = IF 1 = Len(chain) THEN NoNode ELSE chain[1 + 1]
    BY <1>1, <2>2 DEF ChainLinked
  <2>4. next_[chain[1]] = IF Len(chain) = 1 THEN NoNode ELSE chain[2]
    BY <2>3
  <2> HIDE DEF IInv, TypeOK
  <2> QED
    BY <2>1, <2>2, <2>4
<1> QED
  BY <1>1, <1>2, <1>3

(* what the calls know,                                                    *)
LEMMA NextCall ==
  ASSUME IInv, ~Gone, ~Gone', [Next]_vars
  PROVE  CallInv'
<1> USE QueueAssumption DEF CallInv
<1>0. /\ HeapDivided /\ TypeOK /\ LockInv /\ CallInv
      /\ \A p \in Producers : At(p, "link") => tail_ \in Contents(chain)
      /\ \A p \in Producers : pc[p] \in {"lock", "link"} =>
           temp[p] \in heap /\ temp[p] \notin Contents(chain)
  <2>1. HeapDivided /\ TypeOK /\ LockInv /\ CallInv
    BY EndsKnown DEF IInv
  <2>2. ASSUME NEW p \in Producers, At(p, "link")
        PROVE  tail_ \in Contents(chain)
    BY <2>2, EndsKnown DEF Contents
  <2>3. ASSUME NEW p \in Producers, pc[p] \in {"lock", "link"}
        PROVE  temp[p] \in heap /\ temp[p] \notin Contents(chain)
    <3>1. Private(p) = {temp[p]} /\ p \in Threads /\ temp[p] \in Nodes
      BY <2>1, <2>3 DEF Private, TypeOK
    <3> QED
      BY <2>1, <3>1 DEF HeapDivided
  <2> QED
    BY <2>1, <2>2, <2>3
<1> USE <1>0 DEF TypeOK, LockInv
<1>1. CASE UNCHANGED vars
  BY <1>1 DEF vars, nodeVars
<1>2. ASSUME NEW p \in Producers, NEW v \in Values, PushNode(p, v)
      PROVE  CallInv'
  BY <1>2 DEF PushNode
<1>3. ASSUME NEW p \in Producers, PushLink(p)
      PROVE  CallInv'
  BY <1>3 DEF PushLink
<1>4. ASSUME NEW p \in Producers, PushLock(p) \/ PushTail(p)
      PROVE  CallInv'
  BY <1>4 DEF PushLock, PushTail, nodeVars
<1>5. ASSUME NEW c \in Consumers, PopLock(c)
      PROVE  CallInv'
  BY <1>5 DEF PopLock, nodeVars
<1>6. ASSUME NEW c \in Consumers, PopEmpty(c)
      PROVE  CallInv'
  BY <1>6 DEF PopEmpty, nodeVars
<1>7. ASSUME NEW c \in Consumers, PopTake(c)
      PROVE  CallInv'
  BY <1>7 DEF PopTake, nodeVars
<1>8. ASSUME NEW c \in Consumers, PopDelete(c)
      PROVE  CallInv'
  BY <1>8 DEF PopDelete
<1>9. CASE Destroy
  BY <1>9 DEF Destroy, Gone
<1>10. CASE Terminated
  BY <1>10 DEF Terminated, vars, nodeVars
<1> QED
  BY <1>1, <1>2, <1>3, <1>4, <1>5, <1>6, <1>7, <1>8, <1>9, <1>10
     DEF Next, PushStep, PopStep

(* the list itself,                                                        *)
LEMMA NextChain ==
  ASSUME IInv, ~Gone, ~Gone', [Next]_vars
  PROVE  ChainLinked'
<1> USE QueueAssumption
<1>0. TypeOK /\ ChainLinked /\ HeapDivided
  BY EndsKnown DEF IInv
<1>1. ASSUME NEW p \in Producers, NEW v \in Values, PushNode(p, v)
      PROVE  ChainLinked'
  <2>1. PICK n \in Nodes \ heap : next_' = [next_ EXCEPT ![n] = NoNode]
    BY <1>1 DEF PushNode
  <2>2. chain' = chain /\ head_' = head_
    BY <1>1 DEF PushNode
  <2>3. \A i \in DOMAIN chain : chain[i] # n
    BY <1>0, <2>1 DEF HeapDivided, Contents
  <2> QED
    BY <1>0, <2>1, <2>2, <2>3 DEF ChainLinked, TypeOK
<1>2. ASSUME NEW p \in Producers, PushLink(p)
      PROVE  ChainLinked'
  <2>1. /\ chain \in Seq(Nodes) /\ chain # <<>> /\ tail_ = chain[Len(chain)]
        /\ temp[p] \in Nodes /\ temp[p] \notin Contents(chain)
        /\ next_[temp[p]] = NoNode /\ temp[p] # NoNode
    BY <1>2, EndsKnown DEF PushLink, TypeOK, IInv
  <2>2. /\ Len(chain') = Len(chain) + 1
        /\ \A i \in 1..Len(chain) : chain'[i] = chain[i]
        /\ chain'[Len(chain) + 1] = temp[p]
        /\ DOMAIN chain' = 1..(Len(chain) + 1)
        /\ chain' # <<>>
    BY <1>2, <2>1 DEF PushLink
  <2>3. /\ next_' = [next_ EXCEPT ![chain[Len(chain)]] = temp[p]]
        /\ head_' = head_ /\ next_ \in [Nodes -> Nodes \cup {NoNode}]
    BY <1>0, <1>2, <2>1 DEF PushLink, TypeOK
  <2>4. ASSUME NEW i \in DOMAIN chain', NEW j \in DOMAIN chain', i # j
        PROVE  chain'[i] # chain'[j]
    <3>1. \A k \in 1..Len(chain) : k \in DOMAIN chain /\ chain[k] # temp[p]
      BY <2>1 DEF Contents
    <3>2. CASE i \in 1..Len(chain) /\ j \in 1..Len(chain)
      BY <1>0, <2>2, <2>4, <3>1, <3>2 DEF ChainLinked
    <3>3. CASE i = Len(chain) + 1 /\ j \in 1..Len(chain)
      BY <2>2, <3>1, <3>3
    <3>4. CASE j = Len(chain) + 1 /\ i \in 1..Len(chain)
      BY <2>2, <3>1, <3>4
    <3>5. Len(chain) \in Nat
      BY <2>1
    <3> QED
      BY <2>2, <2>4, <3>2, <3>3, <3>4, <3>5
  <2>5. ASSUME NEW i \in DOMAIN chain'
        PROVE  next_'[chain'[i]] = IF i = Len(chain') THEN NoNode ELSE chain'[i + 1]
    <3>1. CASE i = Len(chain) + 1
      BY <3>1, <2>1, <2>2, <2>3 DEF Contents
    <3>2. CASE i = Len(chain)
      BY <3>2, <2>1, <2>2, <2>3
    <3>3. CASE i < Len(chain)
      <4>1. chain[i] # chain[Len(chain)] /\ next_[chain[i]] = chain[i + 1]
            /\ chain[i] \in Nodes
        BY <1>0, <3>3, <2>1, <2>2 DEF ChainLinked
      <4> QED
        BY <3>3, <4>1, <2>1, <2>2, <2>3
    <3> QED
      BY <3>1, <3>2, <3>3, <2>1, <2>2
  <2>6. chain'[1] = head_'
    BY <1>0, <2>1, <2>2, <2>3 DEF ChainLinked
  <2> QED
    BY <2>2, <2>4, <2>5, <2>6 DEF ChainLinked
<1>3. ASSUME NEW c \in Consumers, PopTake(c)
      PROVE  ChainLinked'
  <2>0. /\ chain \in Seq(Nodes) /\ Len(chain) >= 1 /\ next_[temp[c]] # NoNode
        /\ next_[temp[c]] = IF Len(chain) = 1 THEN NoNode ELSE chain[2]
    BY <1>3, EndsKnown DEF PopTake
  <2>7. Len(chain) \in Nat /\ Len(chain) # 1
    BY <2>0
  <2>8. Len(chain) > 1
    BY <2>0, <2>7, AboveOne
  <2>1. chain \in Seq(Nodes) /\ Len(chain) > 1 /\ next_[temp[c]] = chain[2]
    BY <2>0, <2>7, <2>8
  <2>2. /\ chain' \in Seq(Nodes) /\ Len(chain') = Len(chain) - 1
        /\ \A i \in 1..Len(chain') : chain'[i] = chain[i + 1]
        /\ DOMAIN chain' = 1..(Len(chain) - 1)
    BY <1>3, <2>1, HeadTailProperties DEF PopTake
  <2>3. head_' = chain[2] /\ next_' = next_
    BY <1>3, <2>1 DEF PopTake, nodeVars
  <2>4. chain' # <<>> /\ chain'[1] = head_'
    BY <2>1, <2>2, <2>3
  <2>5. ASSUME NEW i \in DOMAIN chain'
        PROVE  /\ next_'[chain'[i]] = IF i = Len(chain') THEN NoNode ELSE chain'[i + 1]
               /\ \A j \in DOMAIN chain' : i # j => chain'[i] # chain'[j]
    <3>1. /\ \A k \in DOMAIN chain' : chain'[k] = chain[k + 1] /\ k + 1 \in DOMAIN chain
          /\ i + 1 = Len(chain) <=> i = Len(chain')
          /\ i # Len(chain') => i + 1 \in DOMAIN chain'
      BY <2>1, <2>2
    <3>2. next_[chain[i + 1]] = IF i + 1 = Len(chain) THEN NoNode ELSE chain[(i + 1) + 1]
      BY <1>0, <3>1 DEF ChainLinked
    <3>3. ASSUME NEW j \in DOMAIN chain', i # j PROVE chain'[i] # chain'[j]
      <4>1. i + 1 # j + 1
        BY <2>2, <3>3
      <4> QED
        BY <1>0, <3>1, <4>1 DEF ChainLinked
    <3> QED
      BY <2>3, <3>1, <3>2, <3>3
  <2> QED
    BY <2>4, <2>5 DEF ChainLinked
<1>4. CASE UNCHANGED <<head_, next_, chain>>
  BY <1>0, <1>4 DEF ChainLinked
<1>5. CASE Destroy
  BY <1>5 DEF Destroy, Gone, IInv, TypeOK
<1> QED
  BY <1>1, <1>2, <1>3, <1>4, <1>5 DEF Next, PushStep, PopStep, PushLock, PushTail,
     PopLock, PopEmpty, PopDelete, Terminated, vars, nodeVars

(* In each step at most one node changes hands. *)
LEMMA NextHeap ==
  ASSUME IInv, TypeOK', ~Gone, ~Gone', [Next]_vars
  PROVE  HeapDivided'
<1> USE QueueAssumption
<1>0. TypeOK /\ TypeOK' /\ ChainLinked /\ HeapDivided /\ LockInv
  BY EndsKnown DEF IInv
<1> HIDE DEF Threads
<1> DEFINE Unchanged(t) == Private(t)' = Private(t)
<1>1. ASSUME Contents(chain)' = Contents(chain), heap' = heap,
             \A t \in Threads : Unchanged(t)
      PROVE  HeapDivided'
  BY <1>0, <1>1 DEF HeapDivided
<1>2. ASSUME NEW p \in Producers, NEW v \in Values, PushNode(p, v)
      PROVE  HeapDivided'
  <2>1. PICK n \in Nodes \ heap : heap' = heap \cup {n} /\ temp' = [temp EXCEPT ![p] = n]
    BY <1>2 DEF PushNode
  <2>2. p \in Threads /\ Private(p)' = {n} /\ Private(p) = {}
    BY <1>0, <1>2, <2>1 DEF PushNode, Private, TypeOK, Threads
  <2>3. \A t \in Threads \ {p} : Unchanged(t)
    BY <1>0, <1>2, <2>1 DEF PushNode, Private, TypeOK
  <2>4. Contents(chain)' = Contents(chain)
    BY <1>2 DEF PushNode, Contents
  <2> QED
    BY <1>0, <2>1, <2>2, <2>3, <2>4 DEF HeapDivided
<1>3. ASSUME NEW p \in Producers, PushLink(p)
      PROVE  HeapDivided'
  <2>1. p \in Threads /\ Private(p)' = {} /\ Private(p) = {temp[p]}
    BY <1>0, <1>3 DEF PushLink, Private, TypeOK, Threads
  <2>2. \A t \in Threads \ {p} : Unchanged(t)
    BY <1>0, <1>3 DEF PushLink, Private, TypeOK
  <2>3. Contents(chain)' = Contents(chain) \cup {temp[p]}
    <3>1. temp[p] \in Nodes /\ chain \in Seq(Nodes)
      BY <1>0, <2>1 DEF TypeOK
    <3>2. /\ DOMAIN chain' = 1..(Len(chain) + 1) /\ chain'[Len(chain) + 1] = temp[p]
          /\ \A i \in 1..Len(chain) : chain'[i] = chain[i]
          /\ DOMAIN chain = 1..Len(chain) /\ Len(chain) \in Nat
      BY <1>3, <3>1 DEF PushLink
    <3>3. ASSUME NEW n \in Contents(chain) \cup {temp[p]} PROVE n \in Contents(chain)'
      BY <3>2 DEF Contents
    <3>4. ASSUME NEW n \in Contents(chain)' PROVE n \in Contents(chain) \cup {temp[p]}
      BY <3>2 DEF Contents
    <3> QED
      BY <3>3, <3>4
  <2>4. heap' = heap /\ temp[p] \in heap /\ temp[p] \in Nodes
    BY <1>0, <1>3, <2>1, EndsKnown DEF PushLink, TypeOK
  <2>5. ASSUME NEW t \in Threads
        PROVE  /\ Private(t)' \cap Contents(chain)' = {}
               /\ \A u \in Threads \ {t} : Private(t)' \cap Private(u)' = {}
    BY <1>0, <2>1, <2>2, <2>3 DEF HeapDivided
  <2>6. heap' = Contents(chain)' \cup {n \in Nodes : \E t \in Threads : n \in Private(t)'}
    BY <1>0, <2>1, <2>2, <2>3, <2>4 DEF HeapDivided
  <2> QED
    BY <2>5, <2>6 DEF HeapDivided
<1>4. ASSUME NEW c \in Consumers, PopTake(c)
      PROVE  HeapDivided'
  <2>1. c \in Threads /\ Private(c)' = {temp[c]} /\ Private(c) = {}
    BY <1>0, <1>4 DEF PopTake, Private, TypeOK, Threads
  <2>2. \A t \in Threads \ {c} : Unchanged(t)
    BY <1>0, <1>4 DEF PopTake, Private, TypeOK
  <2>3. temp[c] = chain[1] /\ chain \in Seq(Nodes) /\ chain # <<>>
    BY <1>4, EndsKnown DEF PopTake
  <2>4. /\ Len(chain') = Len(chain) - 1 /\ chain' \in Seq(Nodes)
        /\ \A i \in 1..Len(chain') : chain'[i] = chain[i + 1]
    BY <1>4, <2>3, HeadTailProperties DEF PopTake
  <2>5. Contents(chain)' = Contents(chain) \ {temp[c]}
    <3>1. ASSUME NEW n \in Contents(chain)' PROVE n \in Contents(chain) \ {temp[c]}
      BY <1>0, <2>3, <2>4 DEF Contents, ChainLinked
    <3>2. ASSUME NEW n \in Contents(chain), n # temp[c] PROVE n \in Contents(chain)'
      <4>1. PICK i \in DOMAIN chain : n = chain[i]
        BY DEF Contents
      <4>2. i # 1 /\ i - 1 \in 1..Len(chain') /\ chain'[i - 1] = chain[(i - 1) + 1]
        BY <2>3, <2>4, <3>2, <4>1
      <4> QED
        BY <2>4, <4>1, <4>2 DEF Contents
    <3> QED
      BY <3>1, <3>2
  <2>6. heap' = heap /\ temp[c] \in Contents(chain)
    BY <1>4, <2>3 DEF PopTake, nodeVars, Contents
  <2>7. temp[c] \in Nodes
    BY <1>0, <2>1 DEF TypeOK
  <2> QED
    BY <1>0, <2>1, <2>2, <2>5, <2>6, <2>7 DEF HeapDivided
<1>5. ASSUME NEW c \in Consumers, PopDelete(c)
      PROVE  HeapDivided'
  <2>1. c \in Threads /\ Private(c)' = {} /\ Private(c) = {temp[c]}
    BY <1>0, <1>5 DEF PopDelete, Private, TypeOK, Threads
  <2>2. \A t \in Threads \ {c} : Unchanged(t)
    BY <1>0, <1>5 DEF PopDelete, Private, TypeOK
  <2>3. Contents(chain)' = Contents(chain) /\ heap' = heap \ {temp[c]}
    BY <1>5 DEF PopDelete, Contents
  <2> QED
    BY <1>0, <2>1, <2>2, <2>3 DEF HeapDivided
<1>6. ASSUME NEW t \in Threads,
             \/ t \in Producers /\ (PushLock(t) \/ PushTail(t))
             \/ t \in Consumers /\ (PopLock(t) \/ PopEmpty(t))
      PROVE  HeapDivided'
  <2>1. heap' = heap /\ Contents(chain)' = Contents(chain)
    BY <1>6 DEF PushLock, PushTail, PopLock, PopEmpty, nodeVars, Contents
  <2>2. \A u \in Threads : Unchanged(u)
    BY <1>0, <1>6 DEF PushLock, PushTail, PopLock, PopEmpty, Private, TypeOK
  <2> QED
    BY <1>1, <2>1, <2>2
<1>7. CASE UNCHANGED vars
  BY <1>1, <1>7 DEF vars, nodeVars, Private, Contents
<1>8. CASE Destroy
  BY <1>8 DEF Destroy, Gone
<1> QED
  BY <1>2, <1>3, <1>4, <1>5, <1>6, <1>7, <1>8
     DEF Next, PushStep, PopStep, Terminated, Threads

-----------------------------------------------------------------------------
(* and so all of it.                                                       *)
LEMMA NextInv == IInv /\ [Next]_vars => IInv'
<1> SUFFICES ASSUME IInv, [Next]_vars PROVE IInv'
  OBVIOUS
<1>1. TypeOK' /\ LockInv' /\ GoneInv'
  BY NextType, NextLock, NextGone DEF IInv
<1>2. (Gone => UNCHANGED vars) /\ (Gone' => Gone \/ Destroy)
  BY NextGone DEF IInv
<1>3. CASE Gone
  <2>1. UNCHANGED vars
    BY <1>2, <1>3
  <2>2. heap' = heap /\ \A t \in Threads : Private(t)' = Private(t)
    BY <2>1 DEF vars, nodeVars, Private
  <2>3. NodesAccounted' /\ Gone'
    BY <1>3, <2>1, <2>2 DEF IInv, NodesAccounted, Gone, vars
  <2>4. TailInv' /\ CallInv'
    BY <1>3, <2>1, <2>3 DEF IInv, TailInv, CallInv, vars, nodeVars
  <2> QED
    BY <1>1, <2>3, <2>4 DEF IInv
<1>4. CASE ~Gone /\ ~Gone'
  <2>1. TailInv'
    BY <1>1, <1>4, NextTail DEF IInv
  <2>2. CallInv'
    BY <1>4, NextCall
  <2>3. ChainLinked' /\ HeapDivided'
    BY <1>1, <1>4, NextChain, NextHeap
  <2> QED
    BY <1>1, <1>4, <2>1, <2>2, <2>3 DEF IInv, NodesAccounted
<1>5. CASE ~Gone /\ Gone'
  <2>1. Destroy
    BY <1>2, <1>5
  <2>2. \A t \in Threads : Private(t) = {} /\ pc[t] = "idle"
    BY <2>1 DEF Destroy, Private
  <2>3. heap \subseteq Contents(chain) /\ Contents(chain) \subseteq Visited
    BY <1>5, <2>2, EndsKnown, ChainVisited DEF HeapDivided, IInv
  <2>4. heap' = {}
    BY <2>1, <2>3 DEF Destroy
  <2>5. TailInv' /\ NodesAccounted'
    BY <1>5, <2>4 DEF TailInv, NodesAccounted
  <2>6. CallInv'
    BY <2>1, <2>2 DEF Destroy, IInv, CallInv, TypeOK
  <2> QED
    BY <1>1, <2>5, <2>6 DEF IInv
<1> QED
  BY <1>3, <1>4, <1>5

(* The invariant holds always.                                             *)
LEMMA InvAlways == Spec => []IInv
  BY InitInv, NextInv, PTL DEF Spec

(* Type correctness of ThreadSafeQueue. *)
THEOREM TypeCorrect == Spec => []TypeOK
<1>1. IInv => TypeOK
  BY DEF IInv
<1> QED
  BY <1>1, InvAlways, PTL

(* No node is lost, linked twice or freed too early or never (PushBack,    *)
(* PopFront and the destructor), whatever the two ends do at once.         *)
THEOREM NodesKept == Spec => []NodesAccounted
<1>1. IInv => NodesAccounted
  BY DEF IInv
<1> QED
  BY <1>1, InvAlways, PTL

(* PushBack writes, and PopFront reads, only nodes that are allocated.     *)
THEOREM NodesAlive == Spec => []NoUseAfterFree
<1>1. ASSUME IInv PROVE NoUseAfterFree
  <2>1. CASE Gone
    BY <2>1 DEF Gone, NoUseAfterFree
  <2>2. CASE ~Gone
    <3>1. Contents(chain) \subseteq heap /\ chain \in Seq(Nodes) /\ chain # <<>>
      BY <1>1, <2>2, EndsKnown DEF HeapDivided
    <3>2. ASSUME NEW i \in Nat, 1 <= i, i <= Len(chain) PROVE chain[i] \in heap
      BY <3>1, <3>2 DEF Contents
    <3>3. ASSUME NEW p \in Producers, At(p, "link") PROVE tail_ \in heap
      <4>1. tail_ = chain[Len(chain)]
        BY <1>1, <2>2, <3>3, EndsKnown
      <4> QED
        BY <3>1, <3>2, <4>1
    <3>4. ASSUME NEW c \in Consumers, At(c, "read")
          PROVE  temp[c] \in heap /\ next_[temp[c]] \in heap \cup {NoNode}
      <4>1. /\ temp[c] = chain[1] /\ Len(chain) >= 1
            /\ next_[temp[c]] = IF Len(chain) = 1 THEN NoNode ELSE chain[2]
        BY <1>1, <2>2, <3>4, EndsKnown
      <4>2. chain[1] \in heap
        BY <3>2, <4>1
      <4>3. ASSUME Len(chain) # 1 PROVE chain[2] \in heap
        <5>1. Len(chain) \in Nat
          BY <3>1
        <5>2. 2 <= Len(chain)
          BY <4>1, <4>3, <5>1, AboveOne
        <5> QED
          BY <3>2, <5>2
      <4> QED
        BY <4>1, <4>2, <4>3
    <3> QED
      BY <3>3, <3>4 DEF NoUseAfterFree
  <2> QED
    BY <2>1, <2>2
<1> QED
  BY <1>1, InvAlways, PTL

-----------------------------------------------------------------------------
LEMMA ItemsType ==
  ASSUME TypeOK, ~Gone => chain # <<>>
  PROVE  /\ Items \in Seq(Values \cup {Nothing})
         /\ ~Gone => Len(Items) = Len(chain) - 1
         /\ \A i \in 1..(Len(chain) - 1) : Items[i] = data_[chain[i + 1]]
<1> DEFINE V == Values \cup {Nothing}
<1>1. \A i \in 1..(Len(chain) - 1) : data_[chain[i + 1]] \in V
  BY DEF TypeOK
<1>2. CASE chain = <<>>
  <2>1. Items = [i \in 1..0 |-> data_[chain[i + 1]]]
    BY <1>2 DEF Items
  <2> QED
    BY <1>2, <2>1 DEF Items
<1>3. CASE chain # <<>>
  <2>1. Len(chain) - 1 \in Nat
    BY <1>3 DEF TypeOK
  <2> QED
    BY <1>1, <2>1, IsASeq DEF Items
<1> QED
  BY <1>2, <1>3

(* The steps at the two ends, as steps of FifoQueue.                       *)
LEMMA StepRefines ==
  ASSUME IInv, IInv', [Next]_vars
  PROVE  [Abstract!Next]_(Abstract!fvars)
<1> USE QueueAssumption
<1>0. TypeOK /\ TypeOK'
  BY DEF IInv
<1>1. ASSUME Items' = Items, result' = result
      PROVE  [Abstract!Next]_(Abstract!fvars)
  BY <1>1 DEF Abstract!fvars
<1>2. CASE UNCHANGED vars
  BY <1>1, <1>2 DEF vars, nodeVars, Items
<1>3. CASE Destroy
  <2>1. Items' = <<>> /\ result' = result
    BY <1>3 DEF Destroy, Items
  <2> QED
    BY <2>1 DEF Abstract!Next, Abstract!Destroy
<1>4. CASE ~Gone
  <2>0. /\ chain # <<>> /\ chain \in Seq(Nodes) /\ HeapDivided
        /\ Items \in Seq(Values \cup {Nothing}) /\ Len(Items) = Len(chain) - 1
        /\ \A i \in 1..(Len(chain) - 1) : Items[i] = data_[chain[i + 1]]
    BY <1>0, <1>4, EndsKnown, ItemsType
  <2>1. ASSUME NEW p \in Producers, NEW v \in Values, PushNode(p, v)
        PROVE  Items' = Items /\ result' = result
    <3>1. PICK n \in Nodes \ heap : data_' = [data_ EXCEPT ![n] = v]
      BY <2>1 DEF PushNode
    <3>2. chain' = chain /\ result' = result
      BY <2>1 DEF PushNode
    <3>3. \A i \in 1..(Len(chain) - 1) : chain[i + 1] # n /\ chain[i + 1] \in Nodes
      <4>1. \A i \in 1..(Len(chain) - 1) : i + 1 \in DOMAIN chain
        BY <2>0
      <4>2. \A k \in DOMAIN chain : chain[k] \in heap /\ chain[k] \in Nodes
        BY <2>0 DEF HeapDivided, Contents
      <4> QED
        BY <3>1, <4>1, <4>2
    <3>4. \A i \in 1..(Len(chain) - 1) : data_'[chain[i + 1]] = data_[chain[i + 1]]
      BY <1>0, <3>1, <3>3 DEF TypeOK
    <3> QED
      BY <3>2, <3>4 DEF Items
  <2>2. ASSUME NEW p \in Producers, PushLink(p)
        PROVE  Abstract!Next
    <3>1. data_[temp[p]] \in Values /\ temp[p] \in Nodes
      BY <1>0, <2>2 DEF PushLink, IInv, CallInv, TypeOK
    <3>2. /\ chain' \in Seq(Nodes) /\ Len(chain') = Len(chain) + 1
          /\ chain'[Len(chain) + 1] = temp[p]
          /\ \A i \in 1..Len(chain) : chain'[i] = chain[i]
          /\ Len(chain) \in Nat /\ Len(chain) >= 1
          /\ data_' = data_ /\ result' = result
      BY <2>0, <2>2, <3>1 DEF PushLink
    <3>3. Append(Items, data_[temp[p]]) = [i \in 1..Len(chain) |->
             IF i = Len(chain) THEN data_[temp[p]] ELSE data_[chain[i + 1]]]
      BY <2>0, <3>2 DEF Items
    <3>4. Items' = [i \in 1..Len(chain) |->
             IF i = Len(chain) THEN data_[temp[p]] ELSE data_[chain[i + 1]]]
      BY <3>2 DEF Items
    <3> QED
      BY <3>1, <3>2, <3>3, <3>4 DEF Abstract!Next, Abstract!Put
  <2>3. ASSUME NEW c \in Consumers, PopLock(c)
        PROVE  Abstract!Next
    <3>1. Items' = Items
      BY <2>3 DEF PopLock, nodeVars, Items
    <3>2. result[c] # Pending /\ result' = [result EXCEPT ![c] = Pending]
      BY <2>3 DEF PopLock, IInv, CallInv
    <3> QED
      BY <3>1, <3>2 DEF Abstract!Next, Abstract!Call
  <2>4. ASSUME NEW c \in Consumers, PopEmpty(c)
        PROVE  Abstract!Next
    <3>1. Items' = Items /\ result' = [result EXCEPT ![c] = Nothing]
      BY <2>4 DEF PopEmpty, nodeVars, Items
    <3>2. result[c] = Pending
      BY <2>4 DEF PopEmpty, IInv, CallInv
    <3>3. /\ Len(chain) >= 1 /\ Len(chain) \in Nat
          /\ NoNode = IF Len(chain) = 1 THEN NoNode ELSE chain[2]
      BY <1>4, <2>0, <2>4, EndsKnown DEF PopEmpty
    <3>4. Len(chain) = 1
      <4>1. ASSUME Len(chain) # 1 PROVE FALSE
        <5>1. 2 <= Len(chain)
          BY <3>3, <4>1, AboveOne
        <5> QED
          BY <2>0, <3>3, <4>1, <5>1
      <4> QED
        BY <4>1
    <3>5. Items = <<>>
      BY <2>0, <3>4
    <3> QED
      BY <3>1, <3>2, <3>5 DEF Abstract!Next, Abstract!Miss
  <2>5. ASSUME NEW c \in Consumers, PopTake(c)
        PROVE  Abstract!Next
    <3>1. /\ Len(chain) >= 1 /\ Len(chain) \in Nat /\ next_[temp[c]] # NoNode
          /\ next_[temp[c]] = IF Len(chain) = 1 THEN NoNode ELSE chain[2]
      BY <1>4, <2>0, <2>5, EndsKnown DEF PopTake
    <3>2. 2 <= Len(chain) /\ next_[temp[c]] = chain[2]
      BY <3>1, AboveOne
    <3>3. Items # <<>> /\ Head(Items) = data_[chain[2]]
      BY <2>0, <3>1, <3>2
    <3>4. result[c] = Pending /\ result' = [result EXCEPT ![c] = data_[chain[2]]]
      BY <2>5, <3>2 DEF PopTake, IInv, CallInv
    <3>5. /\ Len(chain') = Len(chain) - 1 /\ data_' = data_
          /\ \A i \in 1..(Len(chain) - 1) : chain'[i] = chain[i + 1]
      BY <2>0, <2>5, HeadTailProperties DEF PopTake, nodeVars
    <3>6. Items' = [i \in 1..(Len(chain) - 2) |-> data_[chain[i + 2]]]
      BY <3>1, <3>2, <3>5 DEF Items
    <3>7. Tail(Items) = [i \in 1..(Len(chain) - 2) |-> data_[chain[i + 2]]]
      BY <2>0, <3>1, <3>2 DEF Items
    <3> QED
      BY <3>3, <3>4, <3>6, <3>7 DEF Abstract!Next, Abstract!Take
  <2>6. ASSUME UNCHANGED <<data_, chain, result>>
        PROVE  Items' = Items /\ result' = result
    BY <2>6 DEF Items
  <2> QED
    BY <1>1, <1>2, <1>3, <2>1, <2>2, <2>3, <2>4, <2>5, <2>6
       DEF Next, PushStep, PopStep, PushLock, PushTail, PopDelete, Terminated,
           nodeVars
<1>5. CASE Gone
  BY <1>2, <1>5, NextGone DEF IInv
<1> QED
  BY <1>4, <1>5

(* ThreadSafeQueue implements FifoQueue: the order of the values, and that *)
(* PopFront finds nothing only in an empty queue.                          *)
THEOREM QueueIsFifo == Spec => ImplementsFifo
<1>1. Init => Abstract!Init
  BY DEF Init, Abstract!Init, Items
<1>2. IInv /\ IInv' /\ [Next]_vars => [Abstract!Next]_(Abstract!fvars)
  BY StepRefines
<1> QED
  BY <1>1, <1>2, InvAlways, PTL DEF Spec, ImplementsFifo, Abstract!Spec
=============================================================================
