--------------------------- MODULE TCMalloc_proofs ---------------------------
(***************************************************************************)
(* Theorems about TCMalloc for any number of threads, any heap, any tables *)
(* of size classes and any sizes the program asks for, as long as it frees *)
(* no big object (FreesBig): every object is in one place, a fetch serves, *)
(* and nothing leaks.                                                      *)
(***************************************************************************)
EXTENDS TCMalloc, FiniteSetTheorems, SequenceTheorems, WellFoundedInduction, TLAPS

Distinct(s) == \A j, k \in DOMAIN s : s[j] = s[k] => j = k

(* The spans of the classes, and the free objects of span p of class b.    *)
AtHome(p, b) == Front(span_free_list_[p], ObjectsNum(b) - allocated_num_[p])

(* The runs of pages in use do not meet; a span in the list of a class has *)
(* its sizes, and one in no list serves a big object.                      *)
SpanInv ==
  /\ \A p \in Used : Run(p, pages_num_[p]) \subseteq Pages
  /\ \A p, q \in Used : p # q => Run(p, pages_num_[p]) \cap Run(q, pages_num_[q]) = {}
  /\ \A b \in Buckets, p \in Pages : InClass(p, b) =>
       pages_num_[p] = ClassPages[b] /\ object_size_[p] = ClassSize[b]
  /\ \A p \in Used : (\E b \in Buckets : InClass(p, b)) \/ p * PageUnits \in live

(* At least one object of a listed span is outside, and the others are in  *)
(* front of whatever else its free_list_ holds.                            *)
HomeInv ==
  \A b \in Buckets, p \in Pages : InClass(p, b) =>
    /\ allocated_num_[p] \in 1..ObjectsNum(b)
    /\ ObjectsNum(b) - allocated_num_[p] <= Len(span_free_list_[p])
    /\ Distinct(AtHome(p, b)) /\ Elements(AtHome(p, b)) \subseteq Elements(Objects(p, b))

(* Full spans are last in the list of a class, and all are different.      *)
Full(b) == {p \in Pages : allocated_num_[p] = ObjectsNum(b)}
FullLast(s, S) == \A j, k \in DOMAIN s : j < k /\ s[j] \in S => s[k] \in S
ListInv == \A b \in Buckets : Distinct(span_list_[b]) /\ FullLast(span_list_[b], Full(b))

(* Who may hold an address, and the addresses that c holds.                *)
Containers == {<<"live", 0, 0>>} \cup {<<"list", t, b>> : t \in Threads, b \in Buckets}
              \cup {<<"batch", t, 0>> : t \in Threads}
              \cup {<<"home", p, b>> : p \in Pages, b \in Buckets}

Contents(c) == IF c[1] = "live" THEN live
               ELSE IF c[1] = "list" THEN Elements(free_list_[c[2]][c[3]])
               ELSE IF c[1] = "batch" THEN Elements(batch[c[2]])
               ELSE IF InClass(c[2], c[3]) THEN Elements(AtHome(c[2], c[3])) ELSE {}

Held(a) == \E c \in Containers : a \in Contents(c)

(* No address is held by two, nor twice in a list.                         *)
Disjoint == \A c, d \in Containers : \A a \in Contents(c) : a \in Contents(d) => c = d
NoneTwice == \A t \in Threads : /\ Distinct(batch[t])
                                /\ \A b \in Buckets : Distinct(free_list_[t][b])

(* What each of them holds: objects of its class, and the program also big *)
(* objects, whose spans are in no list.  Every object of a listed span is  *)
(* held.                                                                   *)
KindInv ==
  /\ \A t \in Threads, b \in Buckets : \A a \in Elements(free_list_[t][b]) : ObjectOf(a, b)
  /\ \A t \in Threads : \A a \in Elements(batch[t]) : ObjectOf(a, bucket_index[t])
  /\ \A a \in live : (\E b \in Buckets : ObjectOf(a, b)) \/ BigAt(a)
  /\ \A b \in Buckets, p \in Pages : InClass(p, b) =>
       \A a \in Elements(Objects(p, b)) : Held(a)

(* A thread has a batch while it inserts, and no cache before it starts.   *)
CallInv ==
  \A t \in Threads :
    /\ batch[t] # <<>> <=> pc[t] \in {"insert", "drain"}
    /\ pc[t] = "unborn" => \A b \in Buckets : free_list_[t][b] = <<>>
    /\ pc[t] # "nothing"

IInv == /\ TypeOK /\ SpanInv /\ HomeInv /\ ListInv /\ Disjoint /\ NoneTwice
        /\ KindInv /\ CallInv
-----------------------------------------------------------------------------
(* Sequences: joined, cut, with a span put back or unlinked. *)

LEMMA Joined ==
  ASSUME NEW S, NEW f \in Seq(S), NEW g \in Seq(S)
  PROVE  /\ f \o g \in Seq(S) /\ Len(f \o g) = Len(f) + Len(g)
         /\ \A k \in 1..(Len(f) + Len(g)) :
               (f \o g)[k] = IF k <= Len(f) THEN f[k] ELSE g[k - Len(f)]
         /\ Elements(f \o g) = Elements(f) \cup Elements(g)
         /\ (Distinct(f) /\ Distinct(g) /\ Elements(f) \cap Elements(g) = {})
              => Distinct(f \o g)
<1> DEFINE h == f \o g
<1>1. /\ h \in Seq(S) /\ Len(h) = Len(f) + Len(g)
      /\ \A k \in 1..(Len(f) + Len(g)) : h[k] = IF k <= Len(f) THEN f[k] ELSE g[k - Len(f)]
  OBVIOUS
<1> HIDE DEF h
<1>2. ASSUME NEW k \in DOMAIN h PROVE h[k] \in Elements(f) \cup Elements(g)
  <2>1. \/ k \in DOMAIN f /\ h[k] = f[k]
        \/ k - Len(f) \in DOMAIN g /\ h[k] = g[k - Len(f)]
    BY <1>1
  <2>2. QED BY <2>1 DEF Elements
<1>3. ASSUME NEW k \in DOMAIN f PROVE f[k] \in Elements(h)
  <2>1. k \in DOMAIN h /\ h[k] = f[k] BY <1>1
  <2>2. QED BY <2>1 DEF Elements
<1>4. ASSUME NEW k \in DOMAIN g PROVE g[k] \in Elements(h)
  <2>1. k + Len(f) \in DOMAIN h /\ h[k + Len(f)] = g[k] BY <1>1
  <2>2. QED BY <2>1 DEF Elements
<1>5. Elements(h) = Elements(f) \cup Elements(g) BY <1>2, <1>3, <1>4 DEF Elements
<1>6. ASSUME Distinct(f), Distinct(g), Elements(f) \cap Elements(g) = {},
             NEW j \in DOMAIN h, NEW k \in DOMAIN h, h[j] = h[k]
      PROVE  j = k
  <2>1. \A i \in DOMAIN h : \/ i \in DOMAIN f /\ h[i] = f[i]
                            \/ i - Len(f) \in DOMAIN g /\ h[i] = g[i - Len(f)]
    BY <1>1
  <2>2. \A i \in DOMAIN f, l \in DOMAIN g : f[i] # g[l] BY <1>6 DEF Elements
  <2>3. CASE j \in DOMAIN f /\ h[j] = f[j] /\ k \in DOMAIN f /\ h[k] = f[k]
    BY <1>6, <2>3 DEF Distinct
  <2>4. CASE /\ j - Len(f) \in DOMAIN g /\ h[j] = g[j - Len(f)]
             /\ k - Len(f) \in DOMAIN g /\ h[k] = g[k - Len(f)]
    <3>1. j - Len(f) = k - Len(f) BY <1>6, <2>4 DEF Distinct
    <3>2. QED BY <3>1, <1>1
  <2>5. QED BY <1>6, <2>1, <2>2, <2>3, <2>4
<1>7. QED BY <1>1, <1>5, <1>6 DEF h, Distinct

LEMMA Cut ==
  ASSUME NEW S, NEW s \in Seq(S), NEW k \in 0..Len(s)
  PROVE  /\ Front(s, k) \in Seq(S) /\ Len(Front(s, k)) = k
         /\ \A i \in 1..k : Front(s, k)[i] = s[i]
         /\ Without(s, k) \in Seq(S) /\ Len(Without(s, k)) = Len(s) - k
         /\ \A i \in 1..(Len(s) - k) : Without(s, k)[i] = s[i + k]
         /\ Elements(s) = Elements(Front(s, k)) \cup Elements(Without(s, k))
         /\ Distinct(s) => /\ Distinct(Front(s, k)) /\ Distinct(Without(s, k))
                           /\ Elements(Front(s, k)) \cap Elements(Without(s, k)) = {}
<1> DEFINE f == Front(s, k)
           g == Without(s, k)
<1>1. f \in Seq(S) /\ Len(f) = k /\ \A i \in 1..k : f[i] = s[i] BY DEF Front
<1>2. g \in Seq(S) /\ Len(g) = Len(s) - k /\ \A i \in 1..(Len(s) - k) : g[i] = s[i + k]
  BY DEF Without
<1> HIDE DEF f, g
<1>3. \A i \in DOMAIN f : i \in DOMAIN s /\ f[i] = s[i] BY <1>1
<1>4. \A i \in DOMAIN g : i + k \in DOMAIN s /\ g[i] = s[i + k] BY <1>2
<1>5. Elements(f) \cup Elements(g) \subseteq Elements(s) BY <1>3, <1>4 DEF Elements
<1>6. ASSUME NEW i \in DOMAIN s PROVE s[i] \in Elements(f) \cup Elements(g)
  <2>1. CASE i <= k
    <3>1. i \in DOMAIN f /\ f[i] = s[i] BY <2>1, <1>1
    <3>2. QED BY <3>1 DEF Elements
  <2>2. CASE i > k
    <3>1. i - k \in DOMAIN g /\ g[i - k] = s[i] BY <2>2, <1>2
    <3>2. QED BY <3>1 DEF Elements
  <2>3. QED BY <2>1, <2>2
<1>7. ASSUME Distinct(s)
      PROVE  Distinct(f) /\ Distinct(g) /\ Elements(f) \cap Elements(g) = {}
  <2>1. Distinct(f) BY <1>7, <1>3 DEF Distinct
  <2>2. Distinct(g)
    <3>1. ASSUME NEW i \in DOMAIN g, NEW j \in DOMAIN g, g[i] = g[j] PROVE i = j
      <4>1. i + k = j + k BY <1>7, <1>4, <3>1 DEF Distinct
      <4>2. QED BY <4>1, <1>2
    <3>2. QED BY <3>1 DEF Distinct
  <2>3. ASSUME NEW i \in DOMAIN f, NEW j \in DOMAIN g PROVE f[i] # g[j]
    <3>1. i # j + k BY <1>1, <1>2
    <3>2. QED BY <3>1, <1>7, <1>3, <1>4 DEF Distinct
  <2>4. QED BY <2>1, <2>2, <2>3 DEF Elements
<1>8. Elements(s) \subseteq Elements(f) \cup Elements(g) BY <1>6 DEF Elements
<1>9. Elements(s) = Elements(f) \cup Elements(g) BY <1>5, <1>8
<1>10. QED BY <1>1, <1>2, <1>7, <1>9 DEF f, g

LEMMA Unit ==
  ASSUME NEW S, NEW p \in S
  PROVE  <<p>> \in Seq(S) /\ Len(<<p>>) = 1 /\ <<p>>[1] = p /\ Elements(<<p>>) = {p}
         /\ Distinct(<<p>>)
<1>1. <<p>> \in Seq(S) /\ Len(<<p>>) = 1 /\ <<p>>[1] = p /\ DOMAIN <<p>> = {1} OBVIOUS
<1>2. QED BY <1>1 DEF Elements, Distinct

LEMMA Pushed ==
  ASSUME NEW S, NEW s \in Seq(S), NEW p \in S
  PROVE  /\ <<p>> \o s \in Seq(S) /\ Len(<<p>> \o s) = Len(s) + 1
         /\ (<<p>> \o s)[1] = p /\ \A i \in 1..Len(s) : (<<p>> \o s)[i + 1] = s[i]
         /\ Elements(<<p>> \o s) = {p} \cup Elements(s)
         /\ Distinct(s) /\ p \notin Elements(s) => Distinct(<<p>> \o s)
<1>1. <<p>> \in Seq(S) /\ Len(<<p>>) = 1 /\ <<p>>[1] = p /\ Elements(<<p>>) = {p}
      /\ Distinct(<<p>>)
  BY Unit
<1> DEFINE h == <<p>> \o s
<1>2. PICK u \in Seq(S) : u = <<p>> BY <1>1
<1>6. /\ h \in Seq(S) /\ Len(h) = Len(u) + Len(s)
      /\ \A k \in 1..(Len(u) + Len(s)) : h[k] = IF k <= Len(u) THEN u[k] ELSE s[k - Len(u)]
      /\ Elements(h) = Elements(u) \cup Elements(s)
      /\ Distinct(u) /\ Distinct(s) /\ Elements(u) \cap Elements(s) = {} => Distinct(h)
  <2>1. h = u \o s BY <1>2
  <2> HIDE DEF h
  <2>2. QED BY <2>1, Joined
<1> HIDE DEF h
<1>7. Len(u) = 1 /\ u[1] = p /\ Elements(u) = {p} /\ Distinct(u) BY <1>1, <1>2
<1>3. h[1] = p /\ \A i \in 1..Len(s) : h[i + 1] = s[i] BY <1>6, <1>7
<1>4. Len(h) = Len(s) + 1 BY <1>6, <1>7
<1>5. QED BY <1>6, <1>7, <1>3, <1>4 DEF h

LEMMA PutLast ==
  ASSUME NEW S, NEW s \in Seq(S), NEW p \in S
  PROVE  /\ Append(s, p) \in Seq(S) /\ Len(Append(s, p)) = Len(s) + 1
         /\ Append(s, p)[Len(s) + 1] = p /\ \A i \in 1..Len(s) : Append(s, p)[i] = s[i]
         /\ Elements(Append(s, p)) = Elements(s) \cup {p}
         /\ Distinct(s) /\ p \notin Elements(s) => Distinct(Append(s, p))
<1> DEFINE h == Append(s, p)
<1>1. /\ h \in Seq(S) /\ Len(h) = Len(s) + 1 /\ h[Len(s) + 1] = p
      /\ \A i \in 1..Len(s) : h[i] = s[i]
  OBVIOUS
<1> HIDE DEF h
<1>2. \A i \in DOMAIN h : (i \in DOMAIN s /\ h[i] = s[i]) \/ (i = Len(s) + 1 /\ h[i] = p)
  BY <1>1
<1>3. \A i \in DOMAIN s : i \in DOMAIN h /\ h[i] = s[i] BY <1>1
<1>4. Len(s) + 1 \in DOMAIN h /\ h[Len(s) + 1] = p BY <1>1
<1>5. Elements(h) = Elements(s) \cup {p} BY <1>2, <1>3, <1>4 DEF Elements
<1>6. Distinct(s) /\ p \notin Elements(s) => Distinct(h)
  BY <1>2 DEF Distinct, Elements
<1>7. QED BY <1>1, <1>5, <1>6 DEF h

LEMMA HeadTail ==
  ASSUME NEW S, NEW s \in Seq(S), s # <<>>
  PROVE  /\ Head(s) \in S /\ Tail(s) \in Seq(S) /\ Len(s) \in Nat \ {0}
         /\ Len(Tail(s)) = Len(s) - 1
         /\ Head(s) = s[1] /\ \A i \in 1..(Len(s) - 1) : Tail(s)[i] = s[i + 1]
         /\ Elements(s) = {Head(s)} \cup Elements(Tail(s))
         /\ Distinct(s) => Distinct(Tail(s)) /\ Head(s) \notin Elements(Tail(s))
<1> DEFINE h == Tail(s)
<1>1. /\ Head(s) \in S /\ h \in Seq(S) /\ Len(s) \in Nat \ {0} /\ Len(h) = Len(s) - 1
      /\ Head(s) = s[1] /\ \A i \in 1..(Len(s) - 1) : h[i] = s[i + 1]
  OBVIOUS
<1> HIDE DEF h
<1>2. \A i \in DOMAIN h : i + 1 \in DOMAIN s /\ h[i] = s[i + 1] /\ i + 1 # 1 BY <1>1
<1>3. 1 \in DOMAIN s BY <1>1
<1>4. ASSUME NEW i \in DOMAIN s PROVE i = 1 \/ s[i] \in Elements(h)
  <2>1. CASE i # 1
    <3>1. i - 1 \in DOMAIN h /\ h[i - 1] = s[i] BY <2>1, <1>1
    <3>2. QED BY <3>1 DEF Elements
  <2>2. QED BY <2>1
<1>5. Elements(s) = {s[1]} \cup Elements(h) BY <1>2, <1>3, <1>4 DEF Elements
<1>6. ASSUME Distinct(s) PROVE Distinct(h) /\ s[1] \notin Elements(h)
  <2>1. s[1] \notin Elements(h) BY <1>6, <1>2, <1>3 DEF Distinct, Elements
  <2>2. ASSUME NEW i \in DOMAIN h, NEW j \in DOMAIN h, h[i] = h[j] PROVE i = j
    <3>1. i + 1 = j + 1 BY <2>2, <1>2, <1>6 DEF Distinct
    <3>2. QED BY <3>1, <1>1
  <2>3. QED BY <2>1, <2>2 DEF Distinct
<1>7. QED BY <1>1, <1>5, <1>6 DEF h

(* Taking out one span, wherever it is, keeps the others in their order.   *)
LEMMA Unlinking ==
  ASSUME NEW S, NEW s \in Seq(S), NEW p \in Elements(s), Distinct(s)
  PROVE  /\ Unlinked(s, p) \in Seq(S)
         /\ Elements(Unlinked(s, p)) = Elements(s) \ {p}
         /\ Distinct(Unlinked(s, p))
         /\ \A F : FullLast(s, F) => FullLast(Unlinked(s, p), F)
<1>1. PICK k \in DOMAIN s : k = CHOOSE j \in DOMAIN s : s[j] = p
  BY DEF Elements
<1>2. s[k] = p BY <1>1 DEF Elements
<1>3. k \in 1..Len(s) /\ k - 1 \in 0..Len(s) /\ k \in 0..Len(s) OBVIOUS
<1> DEFINE f == Front(s, k - 1)
           g == Without(s, k)
           h == f \o g
<1>4. Unlinked(s, p) = h BY <1>1 DEF Unlinked
<1>5. /\ f \in Seq(S) /\ Len(f) = k - 1 /\ (\A i \in 1..(k - 1) : f[i] = s[i])
      /\ Distinct(f)
  <2>1. PICK n \in 0..Len(s) : n = k - 1 BY <1>3
  <2>2. /\ Front(s, n) \in Seq(S) /\ Len(Front(s, n)) = n /\ Distinct(Front(s, n))
        /\ \A i \in 1..n : Front(s, n)[i] = s[i]
    BY Cut
  <2>3. f = Front(s, n) BY <2>1
  <2> HIDE DEF f
  <2>4. QED BY <2>1, <2>2, <2>3
<1>6. /\ g \in Seq(S) /\ Len(g) = Len(s) - k /\ (\A i \in 1..(Len(s) - k) : g[i] = s[i + k])
      /\ Distinct(g)
  <2>1. PICK n \in 0..Len(s) : n = k BY <1>3
  <2>2. /\ Without(s, n) \in Seq(S) /\ Len(Without(s, n)) = Len(s) - n
        /\ Distinct(Without(s, n))
        /\ \A i \in 1..(Len(s) - n) : Without(s, n)[i] = s[i + n]
    BY Cut
  <2>3. QED BY <2>1, <2>2
<1> HIDE DEF f, g
<1>7. /\ h \in Seq(S) /\ Len(h) = Len(f) + Len(g)
      /\ \A i \in 1..(Len(f) + Len(g)) : h[i] = IF i <= Len(f) THEN f[i] ELSE g[i - Len(f)]
      /\ Elements(h) = Elements(f) \cup Elements(g)
      /\ (Elements(f) \cap Elements(g) = {} => Distinct(h))
  BY <1>5, <1>6, Joined, ZenonT(40)
<1> HIDE DEF h
<1>8. \A i \in DOMAIN f : i \in DOMAIN s /\ f[i] = s[i] /\ i # k BY <1>3, <1>5
<1>9. \A i \in DOMAIN g : i + k \in DOMAIN s /\ g[i] = s[i + k] /\ i + k # k BY <1>3, <1>6
<1>10. Elements(f) \cup Elements(g) \subseteq Elements(s) \ {p}
  BY <1>2, <1>3, <1>8, <1>9 DEF Elements, Distinct
<1>11. ASSUME NEW i \in DOMAIN s, i # k PROVE s[i] \in Elements(f) \cup Elements(g)
  <2>1. CASE i < k
    <3>1. i \in DOMAIN f /\ f[i] = s[i] BY <2>1, <1>3, <1>5
    <3>2. QED BY <3>1 DEF Elements
  <2>2. CASE i > k
    <3>1. i - k \in 1..(Len(s) - k) /\ (i - k) + k = i BY <2>2, <1>3
    <3>2. i - k \in DOMAIN g /\ g[i - k] = s[i] BY <3>1, <1>6
    <3>3. QED BY <3>2 DEF Elements
  <2>3. QED BY <1>3, <1>11, <2>1, <2>2
<1>12. Elements(s) \ {p} \subseteq Elements(f) \cup Elements(g)
  BY <1>2, <1>11 DEF Elements
<1>13. ASSUME NEW i \in DOMAIN f, NEW j \in DOMAIN g PROVE f[i] # g[j]
  <2>1. i # j + k BY <1>3, <1>5, <1>6
  <2>2. QED BY <2>1, <1>8, <1>9 DEF Distinct
<1>14. Distinct(h) BY <1>7, <1>13 DEF Elements
<1>15. ASSUME NEW F, FullLast(s, F) PROVE FullLast(h, F)
  <2>1. SUFFICES ASSUME NEW i \in DOMAIN h, NEW j \in DOMAIN h, i < j, h[i] \in F
                 PROVE  h[j] \in F
    BY DEF FullLast
  <2>6. ASSUME NEW m \in DOMAIN h
        PROVE  LET a == IF m < k THEN m ELSE m + 1 IN a \in DOMAIN s /\ h[m] = s[a]
    <3>5. Len(h) = Len(s) - 1 /\ Len(h) = Len(f) + Len(g) BY <1>3, <1>5, <1>6, <1>7
    <3>6. m \in 1..(Len(s) - 1) /\ Len(s) \in Nat BY <3>5, <1>7
    <3>7. h[m] = IF m <= k - 1 THEN f[m] ELSE g[m - (k - 1)] BY <1>5, <1>7, <3>5, <3>6
    <3>1. CASE m < k
      <4>1. m \in 1..(k - 1) /\ m \in DOMAIN s BY <3>1, <3>6, <1>3
      <4>2. f[m] = s[m] BY <4>1, <1>5
      <4>3. QED BY <3>1, <3>6, <3>7, <4>1, <4>2, <1>3
    <3>2. CASE m >= k
      <4>1. m - (k - 1) \in 1..(Len(s) - k) /\ (m - (k - 1)) + k = m + 1
        BY <3>2, <1>3, <3>6
      <4>2. h[m] = g[m - (k - 1)] BY <3>2, <1>3, <3>6, <3>7
      <4>3. h[m] = s[m + 1] BY <4>1, <4>2, <1>6
      <4>4. m + 1 \in DOMAIN s /\ ~(m < k) BY <3>2, <1>3, <3>6
      <4>5. QED BY <4>3, <4>4
    <3>3. QED BY <3>1, <3>2, <1>3, <1>7
  <2>2. PICK a \in DOMAIN s : h[i] = s[a] /\ a = IF i < k THEN i ELSE i + 1
    BY <2>6
  <2>3. PICK c \in DOMAIN s : h[j] = s[c] /\ c = IF j < k THEN j ELSE j + 1
    BY <2>6
  <2>4. a < c BY <2>1, <2>2, <2>3, <1>3, <1>7
  <2>5. QED BY <2>1, <2>2, <2>3, <2>4, <1>15 DEF FullLast
<1>16. QED BY <1>4, <1>7, <1>10, <1>12, <1>14, <1>15

(* A full span goes to the back, any other to the front.                   *)
LEMMA PuttingBack ==
  ASSUME NEW S, NEW s \in Seq(S), NEW p \in S, p \notin Elements(s), Distinct(s),
         NEW F, FullLast(s, F), NEW full \in BOOLEAN, full <=> p \in F
  PROVE  /\ PutBack(s, p, full) \in Seq(S)
         /\ Elements(PutBack(s, p, full)) = Elements(s) \cup {p}
         /\ Distinct(PutBack(s, p, full)) /\ FullLast(PutBack(s, p, full), F)
<1>1. CASE full
  <2> DEFINE h == Append(s, p)
  <2>1. /\ h \in Seq(S) /\ Len(h) = Len(s) + 1 /\ h[Len(s) + 1] = p
        /\ (\A i \in 1..Len(s) : h[i] = s[i])
        /\ Elements(h) = Elements(s) \cup {p} /\ Distinct(h)
    BY PutLast
  <2>2. PutBack(s, p, full) = h BY <1>1 DEF PutBack
  <2> HIDE DEF h
  <2>3. ASSUME NEW i \in DOMAIN h, NEW j \in DOMAIN h, i < j, h[i] \in F PROVE h[j] \in F
    <3>1. i \in DOMAIN s /\ h[i] = s[i] BY <2>1, <2>3
    <3>2. CASE j = Len(s) + 1 BY <3>2, <2>1, <1>1
    <3>3. CASE j # Len(s) + 1
      <4>1. j \in DOMAIN s /\ h[j] = s[j] BY <3>3, <2>1
      <4>2. QED BY <3>1, <4>1, <2>3 DEF FullLast
    <3>4. QED BY <3>2, <3>3
  <2>4. FullLast(h, F) BY <2>3 DEF FullLast
  <2>5. QED BY <2>1, <2>2, <2>4
<1>2. CASE ~full
  <2> DEFINE h == <<p>> \o s
  <2>1. /\ h \in Seq(S) /\ Len(h) = Len(s) + 1 /\ h[1] = p
        /\ (\A i \in 1..Len(s) : h[i + 1] = s[i])
        /\ Elements(h) = Elements(s) \cup {p} /\ Distinct(h)
    BY Pushed
  <2>2. PutBack(s, p, full) = h BY <1>2 DEF PutBack
  <2> HIDE DEF h
  <2>3. ASSUME NEW i \in DOMAIN h, NEW j \in DOMAIN h, i < j, h[i] \in F PROVE h[j] \in F
    <3>1. i # 1 BY <2>1, <2>3, <1>2
    <3>4. ASSUME NEW m \in DOMAIN h, m # 1 PROVE m - 1 \in DOMAIN s /\ h[m] = s[m - 1]
      <4>1. m - 1 \in 1..Len(s) /\ (m - 1) + 1 = m BY <3>4, <2>1
      <4>2. QED BY <4>1, <2>1
    <3>2. /\ i - 1 \in DOMAIN s /\ h[i] = s[i - 1] /\ j - 1 \in DOMAIN s /\ h[j] = s[j - 1]
          /\ i - 1 < j - 1
      <4>1. j # 1 /\ i - 1 < j - 1 BY <3>1, <2>1, <2>3
      <4>2. QED BY <4>1, <3>1, <3>4
    <3>3. QED BY <3>2, <2>3 DEF FullLast
  <2>4. FullLast(h, F) BY <2>3 DEF FullLast
  <2>5. QED BY <2>1, <2>2, <2>4
<1>3. QED BY <1>1, <1>2
-----------------------------------------------------------------------------
(* The tables, the class of a size, and the objects of a span.             *)

LEMMA ClassFacts ==
  /\ Buckets = 1..Len(ClassSize) /\ Len(ClassSize) \in Nat \ {0} /\ 1 \in Buckets
  /\ \A b \in Buckets : /\ ClassSize[b] \in Nat \ {0} /\ ClassSize[b] <= MaxSize
                        /\ ClassPages[b] \in Nat \ {0} /\ MoveNum[b] \in Nat \ {0}
                        /\ MoveNum[b] <= MaxDynamic
  /\ MaxSize \in Nat \ {0} /\ MaxDynamic \in Nat \ {0}
  /\ \A b, c \in Buckets : ClassSize[b] = ClassSize[c] => b = c
<1>1. /\ Buckets = 1..Len(ClassSize) /\ Len(ClassSize) \in Nat \ {0} /\ 1 \in Buckets
      /\ Len(ClassSize) \in Buckets
      /\ \A b \in Buckets : ClassSize[b] \in Nat \ {0}
  BY TablesAssumption DEF Buckets
<1>2. MaxSize \in Nat \ {0} BY <1>1 DEF MaxSize
<1>3. \A b, c \in Buckets : b < c => ClassSize[b] < ClassSize[c] BY TablesAssumption
<1>4. ASSUME NEW b \in Buckets PROVE ClassSize[b] <= MaxSize
  <2>1. CASE b = Len(ClassSize) BY <2>1, <1>1 DEF MaxSize
  <2>2. CASE b < Len(ClassSize)
    <3>1. ClassSize[b] < MaxSize BY <2>2, <1>1, <1>3 DEF MaxSize
    <3>2. QED BY <3>1, <1>1, <1>2
  <2>3. QED BY <1>1, <2>1, <2>2
<1>5. ASSUME NEW b \in Buckets, NEW c \in Buckets, ClassSize[b] = ClassSize[c] PROVE b = c
  <2>1. ~(b < c) /\ ~(c < b) BY <1>1, <1>3, <1>5
  <2>2. b \in Nat /\ c \in Nat BY <1>1
  <2>3. QED BY <2>1, <2>2
<1>6. \A b \in Buckets : /\ ClassPages[b] \in Nat \ {0} /\ MoveNum[b] \in Nat \ {0}
                         /\ MoveNum[b] <= MaxDynamic
  BY TablesAssumption
<1>7. MaxDynamic \in Nat \ {0}
  <2>1. MaxDynamic \in Nat /\ MoveNum[1] \in Nat \ {0} /\ MoveNum[1] <= MaxDynamic
    BY <1>1, <1>6, TablesAssumption
  <2>2. QED BY <2>1
<1>8. QED BY <1>1, <1>2, <1>4, <1>5, <1>6, <1>7

LEMMA HasMinimum ==
  ASSUME NEW S \in SUBSET Nat, S # {}
  PROVE  \E i \in S : \A j \in S : i <= j
<1> DEFINE R == {ss \in Nat \X Nat : ss[1] < ss[2]}
<1>1. IsWellFoundedOn(R, Nat) BY NatLessThanWellFounded, Zenon DEF OpToRel
<1>2. \A j, i \in Nat : j < i => <<j, i>> \in R OBVIOUS
<1> HIDE DEF R
<1>3. PICK i \in S : \A j \in S : ~(<<j, i>> \in R) BY <1>1, WFMin, Zenon
<1>4. ASSUME NEW j \in S PROVE i <= j
  <2>1. ~(j < i) BY <1>2, <1>3
  <2>2. QED BY <2>1
<1>5. QED BY <1>4

LEMMA ClassOfSize ==
  ASSUME NEW n \in Nat, n <= MaxSize
  PROVE  ClassOf(n) \in Buckets
<1> DEFINE B == {b \in Buckets : ClassSize[b] >= n}
<1>1. Len(ClassSize) \in B BY ClassFacts DEF MaxSize
<1>2. B \in SUBSET Nat /\ B # {} BY <1>1, ClassFacts
<1>3. PICK b \in B : \A c \in B : b <= c BY <1>2, HasMinimum
<1>4. ASSUME NEW c \in 1..(b - 1) PROVE ClassSize[c] < n
  <2>1. c \in Buckets /\ ~(b <= c) BY <1>2, <1>4, ClassFacts
  <2>2. c \notin B BY <2>1, <1>3
  <2>3. ~(ClassSize[c] >= n) /\ ClassSize[c] \in Nat BY <2>1, <2>2, ClassFacts
  <2>4. QED BY <2>3
<1>5. b \in Buckets /\ ClassSize[b] >= n OBVIOUS
<1>6. QED BY <1>4, <1>5 DEF ClassOf

LEMMA ClassOfItself ==
  ASSUME NEW b \in Buckets
  PROVE  ClassOf(ClassSize[b]) = b
<1> DEFINE n == ClassSize[b]
<1>1. n \in Nat /\ n <= MaxSize BY ClassFacts
<1>2. \A c, d \in Buckets : c < d => ClassSize[c] < ClassSize[d] BY TablesAssumption
<1>3. \A c \in 1..(b - 1) : c \in Buckets /\ c < b BY ClassFacts
<1>4. ClassSize[b] >= n /\ \A c \in 1..(b - 1) : ClassSize[c] < n
  BY <1>1, <1>2, <1>3
<1>5. ASSUME NEW c \in Buckets, ClassSize[c] >= n, \A d \in 1..(c - 1) : ClassSize[d] < n
      PROVE  c = b
  <2>1. ~(c < b)
    <3>1. SUFFICES ASSUME c < b PROVE FALSE OBVIOUS
    <3>2. ClassSize[c] < n BY <3>1, <1>2
    <3>3. ClassSize[c] \in Nat BY ClassFacts
    <3>4. QED BY <3>2, <3>3, <1>1, <1>5
  <2>2. ~(b < c)
    <3>1. SUFFICES ASSUME b < c PROVE FALSE OBVIOUS
    <3>2. b \in 1..(c - 1) BY <3>1, ClassFacts
    <3>3. n < n BY <3>2, <1>5
    <3>4. QED BY <3>3, <1>1
  <2>3. b \in Nat /\ c \in Nat BY ClassFacts
  <2>4. QED BY <2>1, <2>2, <2>3
<1>6. QED BY <1>4, <1>5 DEF ClassOf

LEMMA Times ==
  /\ \A x, m \in Nat : x * m \in Nat /\ x * m = m * x
  /\ \A x, y, m \in Nat : x <= y => x * m <= y * m
  /\ \A x, y, m \in Nat : (x + y) * m = x * m + y * m
  /\ \A x, y \in Nat, m \in Nat \ {0} : x * m < y * m => x < y
<1>1. \A x, m \in Nat : x * m \in Nat /\ x * m = m * x OBVIOUS
<1>2. \A x, y, m \in Nat : (x + y) * m = x * m + y * m OBVIOUS
<1>3. ASSUME NEW x \in Nat, NEW y \in Nat, NEW m \in Nat, x <= y PROVE x * m <= y * m
  <2>1. PICK d \in Nat : y = x + d
    <3>1. y - x \in Nat /\ y = x + (y - x) BY <1>3
    <3>2. QED BY <3>1
  <2>2. y * m = x * m + d * m BY <2>1, <1>2
  <2>3. x * m \in Nat /\ d * m \in Nat BY <1>1
  <2>4. QED BY <2>2, <2>3
<1>4. ASSUME NEW x \in Nat, NEW y \in Nat, NEW m \in Nat \ {0}, x * m < y * m PROVE x < y
  <2>1. SUFFICES ASSUME y <= x PROVE FALSE OBVIOUS
  <2>2. y * m <= x * m BY <2>1, <1>3
  <2>3. x * m \in Nat /\ y * m \in Nat BY <1>1
  <2>4. QED BY <2>2, <2>3, <1>4
<1>5. QED BY <1>1, <1>2, <1>3, <1>4

LEMMA Division ==
  ASSUME NEW a \in Nat, NEW m \in Nat \ {0}
  PROVE  /\ a \div m \in Nat /\ (a \div m) * m \in Nat
         /\ (a \div m) * m <= a /\ a < (a \div m) * m + m
OBVIOUS

(* The page of an address inside a run of pages.                           *)
LEMMA PageInside ==
  ASSUME NEW a \in Nat, NEW p \in Nat, NEW n \in Nat,
         p * PageUnits <= a, a < (p + n) * PageUnits
  PROVE  PageOf(a) \in Run(p, n)
<1> DEFINE q == a \div PageUnits
<1>1. PageUnits \in Nat \ {0} BY TablesAssumption
<1>2. /\ q \in Nat /\ q * PageUnits \in Nat
      /\ q * PageUnits <= a /\ a < q * PageUnits + PageUnits
  BY <1>1, Division
<1>3. PageOf(a) = q BY DEF PageOf
<1> HIDE DEF q
<1>4. (q + 1) * PageUnits = q * PageUnits + PageUnits BY <1>1, <1>2
<1>5. /\ p * PageUnits \in Nat /\ (p + n) * PageUnits \in Nat
      /\ (q + 1) * PageUnits \in Nat
  BY <1>1, <1>2, Times
<1>6. q * PageUnits < (p + n) * PageUnits BY <1>2, <1>5
<1>7. p * PageUnits < (q + 1) * PageUnits BY <1>2, <1>4, <1>5
<1>8. q < p + n /\ p < q + 1
  <2>1. q + 1 \in Nat /\ p + n \in Nat BY <1>2
  <2>2. QED BY <2>1, <1>1, <1>2, <1>6, <1>7, Times
<1>9. QED BY <1>2, <1>3, <1>8 DEF Run

LEMMA ObjectsCount ==
  ASSUME NEW b \in Buckets
  PROVE  /\ ObjectsNum(b) \in Nat \ {0}
         /\ ObjectsNum(b) * ClassSize[b] <= ClassPages[b] * PageUnits
<1> DEFINE u == ClassPages[b] * PageUnits
           s == ClassSize[b]
           n == u \div s
<1>1. /\ PageUnits \in Nat \ {0} /\ ClassPages[b] \in Nat \ {0} /\ s \in Nat \ {0} /\ u >= s
  BY ClassFacts, TablesAssumption
<1>2. u \in Nat BY <1>1, Times
<1>3. ObjectsNum(b) = n BY DEF ObjectsNum
<1> HIDE DEF u, s
<1>4. n \in Nat /\ n * s <= u /\ u < n * s + s BY <1>1, <1>2, Division
<1> HIDE DEF n
<1>5. n # 0
  <2>1. SUFFICES ASSUME n = 0 PROVE FALSE OBVIOUS
  <2>2. n * s = 0 BY <2>1, <1>1
  <2>3. QED BY <2>2, <1>1, <1>2, <1>4
<1>6. QED BY <1>3, <1>4, <1>5 DEF u, s

(* The first address of a page.                                            *)
LEMMA FirstOfPage ==
  ASSUME NEW p \in Pages
  PROVE  /\ p * PageUnits \in Addresses /\ PageOf(p * PageUnits) = p
<1> DEFINE a == p * PageUnits
<1>1. PageUnits \in Nat \ {0} /\ HeapPages \in Nat \ {0} /\ p \in 1..HeapPages /\ p \in Nat
  BY TablesAssumption DEF Pages
<1>2. a \in Nat /\ (p + 1) * PageUnits = a + PageUnits BY <1>1, Times
<1>3. 1 * PageUnits <= a /\ (p + 1) * PageUnits <= (HeapPages + 1) * PageUnits
  <2>1. 1 \in Nat /\ 1 <= p /\ p + 1 \in Nat /\ HeapPages + 1 \in Nat
        /\ p + 1 <= HeapPages + 1
    BY <1>1
  <2>2. QED BY <2>1, <1>1, Times
<1>4. (HeapPages + 1) * PageUnits = PageUnits * (HeapPages + 1)
      /\ PageUnits * (HeapPages + 1) \in Nat
  BY <1>1, Times
<1> HIDE DEF a
<1>5. a \in Addresses
  <2>1. a >= PageUnits /\ a + PageUnits <= PageUnits * (HeapPages + 1)
    BY <1>1, <1>2, <1>3, <1>4
  <2> DEFINE z == PageUnits * (HeapPages + 1)
  <2>2. z \in Nat /\ a + PageUnits <= z BY <1>4, <2>1
  <2>3. Addresses = PageUnits..(z - 1) BY DEF Addresses
  <2> HIDE DEF z
  <2>4. QED BY <2>1, <2>2, <2>3, <1>1, <1>2
<1>6. PageOf(a) \in Run(p, 1)
  <2>1. p * PageUnits <= a /\ a < (p + 1) * PageUnits BY <1>1, <1>2 DEF a
  <2>2. QED BY <2>1, <1>1, <1>2, PageInside
<1>7. PageOf(a) = p BY <1>1, <1>6 DEF Run
<1>8. QED BY <1>5, <1>7 DEF a

(* The objects of a run of the right size are different addresses inside   *)
(* of it.                                                                  *)
LEMMA ObjectsFacts ==
  ASSUME NEW b \in Buckets, NEW p \in Pages, Run(p, ClassPages[b]) \subseteq Pages
  PROVE  /\ Objects(p, b) \in Seq(Addresses) /\ Len(Objects(p, b)) = ObjectsNum(b)
         /\ Distinct(Objects(p, b))
         /\ \A a \in Elements(Objects(p, b)) : PageOf(a) \in Run(p, ClassPages[b])
<1> DEFINE N == ObjectsNum(b)
           s == ClassSize[b]
           c == ClassPages[b]
           e(k) == p * PageUnits + (k - 1) * s
<1>1. /\ PageUnits \in Nat \ {0} /\ HeapPages \in Nat \ {0} /\ p \in Nat /\ p >= 1
      /\ s \in Nat \ {0} /\ c \in Nat \ {0} /\ N \in Nat \ {0}
  BY ClassFacts, ObjectsCount, TablesAssumption DEF Pages
<1>2. p + c <= HeapPages + 1
  <2>1. p + c - 1 \in Run(p, c) BY <1>1 DEF Run
  <2>2. p + c - 1 \in Pages BY <2>1
  <2>3. QED BY <2>2, <1>1 DEF Pages
<1>3. N * s <= c * PageUnits BY ObjectsCount
<1>4. Objects(p, b) = [k \in 1..N |-> e(k)] BY DEF Objects
<1> HIDE DEF N, s, c
<1> DEFINE x == p * PageUnits
           y == c * PageUnits
           z == (HeapPages + 1) * PageUnits
<1>5. /\ x \in Nat /\ y \in Nat /\ z \in Nat /\ (p + c) * PageUnits = x + y
      /\ PageUnits <= x /\ x + y <= z /\ Addresses = PageUnits..(z - 1)
  <2>1. x \in Nat /\ y \in Nat /\ z \in Nat /\ (p + c) * PageUnits = x + y
    BY <1>1, Times
  <2>2. 1 * PageUnits <= x /\ 1 * PageUnits = PageUnits BY <1>1, Times
  <2>3. p + c \in Nat /\ HeapPages + 1 \in Nat BY <1>1
  <2>4. (p + c) * PageUnits <= z BY <2>3, <1>1, <1>2, Times
  <2>5. z = PageUnits * (HeapPages + 1) BY <1>1, <2>3, Times
  <2>6. QED BY <2>1, <2>2, <2>4, <2>5 DEF Addresses
<1>6. ASSUME NEW k \in 1..N
      PROVE  /\ e(k) \in Nat /\ (k - 1) * s \in Nat /\ e(k) = x + (k - 1) * s
             /\ x <= e(k) /\ e(k) < x + y
  <2>1. k - 1 \in Nat /\ k \in Nat /\ k <= N BY <1>1
  <2>2. k * s <= N * s /\ N * s \in Nat BY <2>1, <1>1, Times
  <2>3. k * s = (k - 1) * s + s
    <3>1. PICK j \in Nat : j = k - 1 BY <2>1
    <3>2. k = j + 1 BY <3>1
    <3>3. (j + 1) * s = j * s + 1 * s BY <1>1, Times
    <3>4. QED BY <3>1, <3>2, <3>3, <1>1
  <2>4. (k - 1) * s \in Nat BY <2>1, <1>1, Times
  <2> DEFINE w == (k - 1) * s
             v == k * s
             m == N * s
  <2>5. v <= m /\ m \in Nat /\ v = w + s /\ w \in Nat /\ m <= y /\ e(k) = x + w
    BY <1>3, <2>2, <2>3, <2>4
  <2> HIDE DEF x, y, w, v, m
  <2>6. QED BY <1>1, <1>5, <2>5 DEF w
<1>7. \A k \in 1..N : e(k) \in Addresses
  <2>1. SUFFICES ASSUME NEW k \in 1..N PROVE e(k) \in Addresses OBVIOUS
  <2>2. e(k) \in Nat /\ x <= e(k) /\ e(k) < x + y BY <1>6
  <2> HIDE DEF x, y, z
  <2>3. QED BY <2>2, <1>1, <1>5
<1>8. Objects(p, b) \in Seq(Addresses) /\ Len(Objects(p, b)) = N
  <2> HIDE DEF e
  <2>1. QED BY <1>1, <1>4, <1>7
<1>9. \A k \in 1..N : Objects(p, b)[k] = e(k)
  <2> HIDE DEF e
  <2>1. QED BY <1>4
<1>10. ASSUME NEW j \in 1..N, NEW k \in 1..N, e(j) = e(k) PROVE j = k
  <2>1. (j - 1) * s = (k - 1) * s
    <3>1. x \in Nat /\ (j - 1) * s \in Nat /\ (k - 1) * s \in Nat BY <1>5, <1>6
    <3>2. x + (j - 1) * s = x + (k - 1) * s BY <1>6, <1>10
    <3> HIDE DEF x
    <3>3. QED BY <3>1, <3>2
  <2>2. PICK i \in Nat, l \in Nat : i = j - 1 /\ l = k - 1 BY <1>1
  <2>3. i * s = l * s /\ i * s \in Nat BY <2>1, <2>2, <1>1, Times
  <2>4. ASSUME NEW f \in Nat, NEW g \in Nat, f * s = g * s, f < g PROVE FALSE
    <3>1. f + 1 \in Nat /\ f + 1 <= g BY <2>4
    <3>2. (f + 1) * s <= g * s /\ (f + 1) * s = f * s + 1 * s BY <3>1, <1>1, Times
    <3>3. f * s \in Nat /\ g * s \in Nat /\ 1 * s = s BY <1>1, Times
    <3>4. QED BY <3>2, <3>3, <2>4, <1>1
  <2>5. ~(i < l) /\ ~(l < i) BY <2>3, <2>4
  <2>6. QED BY <2>2, <2>5
<1>11. Distinct(Objects(p, b))
  <2> HIDE DEF e
  <2>1. DOMAIN Objects(p, b) = 1..N BY <1>4
  <2>2. QED BY <2>1, <1>9, <1>10 DEF Distinct
<1>12. ASSUME NEW a \in Elements(Objects(p, b)) PROVE PageOf(a) \in Run(p, c)
  <2>1. PICK k \in 1..N : a = e(k)
    <3> HIDE DEF e
    <3>1. QED BY <1>4, <1>9 DEF Elements
  <2>2. a \in Nat /\ p * PageUnits <= a /\ a < (p + c) * PageUnits
    BY <2>1, <1>5, <1>6
  <2>3. QED BY <2>2, <1>1, PageInside
<1>13. QED BY <1>8, <1>11, <1>12 DEF N, c
-----------------------------------------------------------------------------
(* What the invariant says of spans and their objects.                     *)

LEMMA Listed ==
  ASSUME TypeOK, SpanInv, NEW p, NEW b \in Buckets, InClass(p, b)
  PROVE  /\ p \in Pages /\ p \in Used
         /\ pages_num_[p] = ClassPages[b] /\ object_size_[p] = ClassSize[b]
         /\ Run(p, ClassPages[b]) \subseteq Pages
         /\ \A c \in Buckets : InClass(p, c) => b = c
<1>1. p \in Pages
  <2>1. span_list_[b] \in Seq(Pages) BY DEF TypeOK
  <2>2. QED BY <2>1 DEF InClass, Elements
<1>2. pages_num_[p] = ClassPages[b] /\ object_size_[p] = ClassSize[b]
  BY <1>1 DEF SpanInv
<1>3. p \in Used BY <1>1, <1>2, ClassFacts DEF Used
<1>4. Run(p, ClassPages[b]) \subseteq Pages BY <1>2, <1>3 DEF SpanInv
<1>5. ASSUME NEW c \in Buckets, InClass(p, c) PROVE b = c
  <2>1. object_size_[p] = ClassSize[c] BY <1>1, <1>5 DEF SpanInv
  <2>2. QED BY <1>2, <2>1, ClassFacts
<1>6. QED BY <1>1, <1>2, <1>3, <1>4, <1>5

LEMMA SpanOfPage ==
  ASSUME SpanInv, NEW p \in Used, NEW a, PageOf(a) \in Run(p, pages_num_[p])
  PROVE  SpanOf(a) = p
<1>1. \A q \in Used : PageOf(a) \in Run(q, pages_num_[q]) => q = p BY DEF SpanInv
<1>2. QED BY <1>1 DEF SpanOf

LEMMA ObjectFacts ==
  ASSUME TypeOK, SpanInv, NEW p, NEW b \in Buckets, InClass(p, b),
         NEW a \in Elements(Objects(p, b))
  PROVE  /\ SpanOf(a) = p /\ a \in Addresses /\ ObjectOf(a, b) /\ ~IsBig(a)
         /\ PageOf(a) \in Run(p, pages_num_[p])
<1>1. /\ p \in Pages /\ p \in Used /\ pages_num_[p] = ClassPages[b]
      /\ Run(p, ClassPages[b]) \subseteq Pages
  BY Listed
<1>2. a \in Addresses /\ PageOf(a) \in Run(p, pages_num_[p])
  BY <1>1, ObjectsFacts DEF Elements
<1>3. SpanOf(a) = p BY <1>1, <1>2, SpanOfPage
<1>4. ObjectOf(a, b) BY <1>1 DEF ObjectOf
<1>5. ~IsBig(a) BY <1>3 DEF IsBig, InClass
<1>6. QED BY <1>2, <1>3, <1>4, <1>5

LEMMA SpanOfObject ==
  ASSUME TypeOK, SpanInv, NEW b \in Buckets, NEW a, ObjectOf(a, b)
  PROVE  /\ InClass(SpanOf(a), b) /\ a \in Elements(Objects(SpanOf(a), b))
         /\ SpanOf(a) \in Pages
         /\ ClassOf(object_size_[SpanOf(a)]) = b
<1>1. PICK p \in Pages : InClass(p, b) /\ a \in Elements(Objects(p, b)) BY DEF ObjectOf
<1>2. SpanOf(a) = p BY <1>1, ObjectFacts
<1>3. object_size_[p] = ClassSize[b] BY <1>1, Listed
<1>4. QED BY <1>1, <1>2, <1>3, ClassOfItself

LEMMA BigFacts ==
  ASSUME TypeOK, SpanInv, NEW p \in Used
  PROVE  /\ SpanOf(p * PageUnits) = p
         /\ (\A b \in Buckets : ~InClass(p, b)) => IsBig(p * PageUnits)
<1>1. p \in Pages /\ pages_num_[p] \in Nat \ {0} BY DEF Used, TypeOK
<1>2. PageOf(p * PageUnits) = p BY <1>1, FirstOfPage
<1>3. p \in Run(p, pages_num_[p]) BY <1>1 DEF Run, Pages
<1>4. SpanOf(p * PageUnits) = p BY <1>2, <1>3, SpanOfPage
<1>5. QED BY <1>4 DEF IsBig, InClass

LEMMA BigNowhere ==
  ASSUME TypeOK, SpanInv, NEW a, BigAt(a)
  PROVE  \A b \in Buckets : ~ObjectOf(a, b)
<1>1. PICK p \in Used : a = p * PageUnits /\ \A b \in Buckets : ~InClass(p, b) BY DEF BigAt
<1>2. SpanOf(a) = p BY <1>1, BigFacts
<1>3. QED BY <1>1, <1>2, SpanOfObject

(* The part of free_list_ that is at home.                                 *)
LEMMA HomeFacts ==
  ASSUME TypeOK, SpanInv, HomeInv, NEW p, NEW b \in Buckets, InClass(p, b)
  PROVE  /\ ObjectsNum(b) - allocated_num_[p] \in 0..Len(span_free_list_[p])
         /\ ObjectsNum(b) - allocated_num_[p] < ObjectsNum(b)
         /\ allocated_num_[p] \in Nat \ {0} /\ allocated_num_[p] <= ObjectsNum(b)
         /\ Capacity(p) = ObjectsNum(b) /\ Home(p) = AtHome(p, b)
         /\ IsFull(p) <=> p \in Full(b)
         /\ Len(AtHome(p, b)) = ObjectsNum(b) - allocated_num_[p]
         /\ Distinct(AtHome(p, b)) /\ Elements(AtHome(p, b)) \subseteq Elements(Objects(p, b))
<1>1. /\ p \in Pages /\ pages_num_[p] = ClassPages[b] /\ object_size_[p] = ClassSize[b]
  BY Listed
<1>2. /\ allocated_num_[p] \in 1..ObjectsNum(b)
      /\ ObjectsNum(b) - allocated_num_[p] <= Len(span_free_list_[p])
      /\ Distinct(AtHome(p, b)) /\ Elements(AtHome(p, b)) \subseteq Elements(Objects(p, b))
  BY <1>1 DEF HomeInv
<1>3. span_free_list_[p] \in Seq(Addresses \cup {Stale}) BY <1>1 DEF TypeOK
<1>4. ObjectsNum(b) \in Nat /\ Len(span_free_list_[p]) \in Nat BY <1>3, ObjectsCount
<1>5. ObjectsNum(b) - allocated_num_[p] \in 0..Len(span_free_list_[p]) BY <1>2, <1>4
<1>6. Capacity(p) = ObjectsNum(b) BY <1>1 DEF Capacity, ObjectsNum
<1>7. Home(p) = AtHome(p, b) BY <1>6 DEF Home, AtHome
<1>8. IsFull(p) <=> p \in Full(b) BY <1>1, <1>6 DEF IsFull, Full
<1>9. Len(AtHome(p, b)) = ObjectsNum(b) - allocated_num_[p]
  BY <1>3, <1>5, Cut DEF AtHome
<1>10. QED BY <1>2, <1>4, <1>5, <1>6, <1>7, <1>8, <1>9
-----------------------------------------------------------------------------
(* Who holds what, now and after a step.                                   *)

LEMMA Seen ==
  /\ Contents(<<"live", 0, 0>>) = live
  /\ \A t, b : Contents(<<"list", t, b>>) = Elements(free_list_[t][b])
  /\ \A t : Contents(<<"batch", t, 0>>) = Elements(batch[t])
  /\ \A p, b : Contents(<<"home", p, b>>) =
                 IF InClass(p, b) THEN Elements(AtHome(p, b)) ELSE {}
BY DEF Contents

LEMMA SeenNext ==
  /\ Contents(<<"live", 0, 0>>)' = live'
  /\ \A t, b : Contents(<<"list", t, b>>)' = Elements(free_list_'[t][b])
  /\ \A t : Contents(<<"batch", t, 0>>)' = Elements(batch'[t])
  /\ \A p, b : Contents(<<"home", p, b>>)' =
                 IF InClass(p, b)' THEN Elements(AtHome(p, b))' ELSE {}
BY DEF Contents, Elements

LEMMA Kinds ==
  /\ <<"live", 0, 0>> \in Containers
  /\ \A t \in Threads, b \in Buckets : <<"list", t, b>> \in Containers
  /\ \A t \in Threads : <<"batch", t, 0>> \in Containers
  /\ \A p \in Pages, b \in Buckets : <<"home", p, b>> \in Containers
  /\ \A c \in Containers :
       \/ c = <<"live", 0, 0>>
       \/ \E t \in Threads, b \in Buckets : c = <<"list", t, b>>
       \/ \E t \in Threads : c = <<"batch", t, 0>>
       \/ \E p \in Pages, b \in Buckets : c = <<"home", p, b>>
BY DEF Containers

(* The containers From redistribute the addresses X, all they have and     *)
(* perhaps new ones; no other container has one of them.                   *)
LEMMA Moving ==
  ASSUME Disjoint, NEW From \in SUBSET Containers, NEW X,
         \A d \in Containers \ From : Contents(d)' = Contents(d) /\ Contents(d) \cap X = {},
         \A c \in From : Contents(c) \subseteq X /\ Contents(c)' \subseteq X,
         \A c, d \in From : c # d => Contents(c)' \cap Contents(d)' = {},
         \A a \in X : \E c \in From : a \in Contents(c)'
  PROVE  /\ Disjoint'
         /\ \A a : Held(a) \/ a \in X => Held(a)'
<1>1. ASSUME NEW c \in Containers, NEW d \in Containers, NEW a,
             a \in Contents(c)', a \in Contents(d)', c # d
      PROVE  FALSE
  <2>1. CASE c \in From /\ d \in From BY <1>1, <2>1
  <2>2. CASE c \in From /\ d \notin From BY <1>1, <2>2
  <2>3. CASE c \notin From /\ d \in From BY <1>1, <2>3
  <2>4. CASE c \notin From /\ d \notin From
    <3>1. a \in Contents(c) /\ a \in Contents(d) BY <1>1, <2>4
    <3>2. QED BY <3>1, <1>1 DEF Disjoint
  <2>5. QED BY <2>1, <2>2, <2>3, <2>4
<1>2. Disjoint'
  <2>1. Containers' = Containers BY DEF Containers
  <2>2. QED BY <1>1, <2>1 DEF Disjoint
<1>3. ASSUME NEW a, Held(a) \/ a \in X PROVE Held(a)'
  <2>1. Held(a)' <=> \E c \in Containers : a \in Contents(c)' BY DEF Held, Containers
  <2>2. CASE a \in X BY <2>1, <2>2
  <2>3. CASE a \notin X
    <3>1. PICK c \in Containers : a \in Contents(c) BY <1>3, <2>3 DEF Held
    <3>2. c \notin From BY <2>3, <3>1
    <3>3. a \in Contents(c)' BY <3>1, <3>2
    <3>4. QED BY <2>1, <3>3
  <2>4. QED BY <2>2, <2>3
<1>4. QED BY <1>2, <1>3
-----------------------------------------------------------------------------
(* Cutting twice. *)

LEMMA CutTwice ==
  ASSUME NEW S, NEW s \in Seq(S), NEW n \in 0..Len(s), NEW k \in 0..n
  PROVE  /\ Front(Front(s, n), k) = Front(s, k)
         /\ Front(Without(s, k), n - k) = Without(Front(s, n), k)
         /\ SubSeq(s, 2, k) = Without(Front(s, k), 1)
<1>0. k \in 0..Len(s) OBVIOUS
<1> DEFINE f == Front(s, n)
           g == Without(s, k)
           h == Front(s, k)
<1>1. f \in Seq(S) /\ Len(f) = n /\ \A i \in 1..n : f[i] = s[i] BY Cut
<1>2. g \in Seq(S) /\ Len(g) = Len(s) - k /\ \A i \in 1..(Len(s) - k) : g[i] = s[i + k]
  BY <1>0, Cut
<1>3. h \in Seq(S) /\ Len(h) = k /\ \A i \in 1..k : h[i] = s[i] BY <1>0, Cut
<1> HIDE DEF f, g, h
<1>4. Front(f, k) = h
  <2>1. k \in 0..Len(f) BY <1>1
  <2>2. /\ Front(f, k) \in Seq(S) /\ Len(Front(f, k)) = k
        /\ \A i \in 1..k : Front(f, k)[i] = f[i]
    BY <2>1, <1>1, Cut
  <2>3. \A i \in 1..k : Front(f, k)[i] = h[i] BY <2>2, <1>1, <1>3
  <2>4. QED BY <2>2, <2>3, <1>3, SeqEqual
<1>5. Front(g, n - k) = Without(f, k)
  <2>1. PICK m \in 0..Len(g) : m = n - k BY <1>2
  <2>2. /\ Front(g, m) \in Seq(S) /\ Len(Front(g, m)) = m
        /\ \A i \in 1..m : Front(g, m)[i] = g[i]
    BY <2>1, <1>2, Cut
  <2>3. k \in 0..Len(f) BY <1>1
  <2>8. /\ Without(f, k) \in Seq(S) /\ Len(Without(f, k)) = Len(f) - k
        /\ \A i \in 1..(Len(f) - k) : Without(f, k)[i] = f[i + k]
    BY <2>3, <1>1 DEF Without
  <2>4. /\ Without(f, k) \in Seq(S) /\ Len(Without(f, k)) = n - k
        /\ \A i \in 1..(n - k) : Without(f, k)[i] = f[i + k]
    BY <2>8, <1>1
  <2>5. ASSUME NEW i \in 1..m PROVE Front(g, m)[i] = Without(f, k)[i]
    <3>1. i \in 1..(n - k) /\ i \in 1..(Len(s) - k) /\ i + k \in 1..n BY <2>1
    <3>2. Front(g, m)[i] = s[i + k] BY <3>1, <2>2, <1>2
    <3>3. Without(f, k)[i] = s[i + k] BY <3>1, <2>4, <1>1
    <3>4. QED BY <3>2, <3>3
  <2>6. Front(g, m) = Without(f, k) BY <2>1, <2>2, <2>4, <2>5, SeqEqual
  <2>7. QED BY <2>1, <2>6
<1>6. SubSeq(s, 2, k) = Without(h, 1)
  <2>1. CASE k = 0
    <3>1. SubSeq(s, 2, k) = <<>> BY <2>1, SubSeqEmpty
    <3>2. Without(h, 1) = <<>>
      <4>1. Without(h, 1) = SubSeq(h, 2, k) BY <1>3 DEF Without
      <4>2. QED BY <4>1, <2>1, SubSeqEmpty
    <3>3. QED BY <3>1, <3>2
  <2>2. CASE k # 0
    <3>1. 1 \in 0..Len(h) /\ k - 1 \in Nat /\ 1 + 1 = 2 BY <2>2, <1>3
    <3>6. /\ Without(h, 1) \in Seq(S) /\ Len(Without(h, 1)) = Len(h) - 1
          /\ \A i \in 1..(Len(h) - 1) : Without(h, 1)[i] = h[i + 1]
      BY <3>1, <1>3 DEF Without
    <3>2. /\ Without(h, 1) \in Seq(S) /\ Len(Without(h, 1)) = k - 1
          /\ \A i \in 1..(k - 1) : Without(h, 1)[i] = h[i + 1]
      BY <3>6, <1>3
    <3>3. /\ SubSeq(s, 2, k) \in Seq(S) /\ Len(SubSeq(s, 2, k)) = k - 1
          /\ \A i \in 1..(k - 1) : SubSeq(s, 2, k)[i] = s[i + 1]
      BY <2>2, <1>0
    <3>4. ASSUME NEW i \in 1..(k - 1) PROVE SubSeq(s, 2, k)[i] = Without(h, 1)[i]
      <4>1. i + 1 \in 1..k BY <3>1
      <4>2. QED BY <4>1, <3>2, <3>3, <1>3
    <3>5. QED BY <3>2, <3>3, <3>4, SeqEqual
  <2>3. QED BY <2>1, <2>2
<1>7. QED BY <1>4, <1>5, <1>6 DEF f, g, h

LEMMA SmallerFacts ==
  \A a, b \in Nat : /\ Smaller(a, b) \in Nat /\ Smaller(a, b) <= a /\ Smaller(a, b) <= b
                    /\ a # 0 /\ b # 0 => Smaller(a, b) # 0
BY DEF Smaller

(* The number of objects a fetch takes.                                    *)
Taken(t, b, allocated) == Smaller(Smaller(MoveNum[b], max_length_[t][b]), ObjectsNum(b) - allocated)

LEMMA TakenFacts ==
  ASSUME TypeOK, NEW t \in Threads, NEW b \in Buckets, NEW allocated \in Nat,
         allocated < ObjectsNum(b)
  PROVE  /\ Taken(t, b, allocated) \in Nat \ {0}
         /\ Taken(t, b, allocated) <= ObjectsNum(b) - allocated
         /\ Smaller(1, Taken(t, b, allocated)) = 1
<1>1. MoveNum[b] \in Nat /\ MoveNum[b] # 0 BY ClassFacts
<1>2. max_length_[t][b] \in Nat /\ max_length_[t][b] # 0
  <2>1. max_length_[t][b] \in 1..MaxDynamic BY DEF TypeOK
  <2>2. QED BY <2>1, ClassFacts
<1>3. ObjectsNum(b) - allocated \in Nat /\ ObjectsNum(b) - allocated # 0 BY ObjectsCount
<1> DEFINE m == Smaller(MoveNum[b], max_length_[t][b])
           n == ObjectsNum(b) - allocated
<1>4. m \in Nat /\ m # 0 BY <1>1, <1>2, SmallerFacts
<1>5. Taken(t, b, allocated) = Smaller(m, n) BY DEF Taken
<1> HIDE DEF m, n
<1>6. Smaller(m, n) \in Nat /\ Smaller(m, n) # 0 /\ Smaller(m, n) <= n
  <2>1. n \in Nat /\ n # 0 BY <1>3 DEF n
  <2>2. QED BY <2>1, <1>4, SmallerFacts
<1>7. Smaller(1, Smaller(m, n)) = 1 BY <1>6 DEF Smaller
<1>8. QED BY <1>5, <1>6, <1>7 DEF n

LEMMA Popping ==
  ASSUME TypeOK, NEW t \in Threads, NEW b \in Buckets, NEW p, NEW list, NEW free,
         NEW allocated \in Nat, allocated < ObjectsNum(b),
         PopObjects(t, b, p, list, allocated, free)
  PROVE  \E k \in 1..(ObjectsNum(b) - allocated) :
           /\ span_free_list_' = [span_free_list_ EXCEPT ![p] = Without(free, k)]
           /\ allocated_num_' = [allocated_num_ EXCEPT ![p] = allocated + k]
           /\ span_list_' = [span_list_ EXCEPT ![b] =
                               PutBack(list, p, allocated + k = ObjectsNum(b))]
           /\ lock_' = [lock_ EXCEPT ![b] = Null]
           /\ live' = live \cup Elements(Front(free, 1))
           /\ free_list_' = [free_list_ EXCEPT ![t][b] = SubSeq(free, 2, k) \o @]
           /\ max_length_' = [max_length_ EXCEPT ![t][b] = Grown(@, b)]
           /\ Goto(t, "idle")
<1> DEFINE k == Taken(t, b, allocated)
<1>1. /\ k \in Nat \ {0} /\ k <= ObjectsNum(b) - allocated /\ Smaller(1, k) = 1
  BY TakenFacts
<1>2. /\ span_free_list_' = [span_free_list_ EXCEPT ![p] = Without(free, k)]
      /\ allocated_num_' = [allocated_num_ EXCEPT ![p] = allocated + k]
      /\ span_list_' = [span_list_ EXCEPT ![b] =
                          PutBack(list, p, allocated + k = ObjectsNum(b))]
      /\ lock_' = [lock_ EXCEPT ![b] = Null]
      /\ live' = live \cup Elements(Front(free, Smaller(1, k)))
      /\ free_list_' = [free_list_ EXCEPT ![t][b] = SubSeq(free, 2, k) \o @]
      /\ max_length_' = [max_length_ EXCEPT ![t][b] = IF k = 0 THEN @ ELSE Grown(@, b)]
      /\ Goto(t, IF k = 0 THEN "nothing" ELSE "idle")
  BY DEF PopObjects, Taken
<1> HIDE DEF k
<1>3. k # 0 /\ k \in 1..(ObjectsNum(b) - allocated) BY <1>1, ObjectsCount
<1>4. /\ live' = live \cup Elements(Front(free, 1))
      /\ max_length_' = [max_length_ EXCEPT ![t][b] = Grown(@, b)]
      /\ Goto(t, "idle")
  BY <1>1, <1>2, <1>3
<1>5. QED BY <1>2, <1>3, <1>4
-----------------------------------------------------------------------------
(* Types. *)

LEMMA Going ==
  ASSUME pc \in [Threads -> PcValues], NEW t \in Threads, NEW l \in PcValues, Goto(t, l)
  PROVE  /\ pc' \in [Threads -> PcValues] /\ pc'[t] = l
         /\ \A u \in Threads : u # t => pc'[u] = pc[u]
BY DEF Goto

LEMMA GrownType ==
  ASSUME NEW b \in Buckets, NEW n \in 1..MaxDynamic
  PROVE  Grown(n, b) \in 1..MaxDynamic
<1> DEFINE m == MoveNum[b]
<1>1. m \in Nat \ {0} /\ m <= MaxDynamic /\ MaxDynamic \in Nat \ {0} BY ClassFacts
<1> HIDE DEF m
<1>2. CASE n < m
  <2>1. Grown(n, b) = n + 1 BY <1>2 DEF Grown, m
  <2>2. QED BY <2>1, <1>1, <1>2
<1>3. CASE ~(n < m)
  <2> DEFINE l == Smaller(n + m, MaxDynamic)
  <2>1. l \in Nat /\ l <= MaxDynamic /\ l >= m BY <1>1 DEF Smaller
  <2>2. Grown(n, b) = l - (l % m) BY <1>3 DEF Grown, m
  <2> HIDE DEF l
  <2>3. l % m \in 0..(m - 1) BY <2>1, <1>1
  <2>4. QED BY <2>1, <2>2, <2>3, <1>1
<1>4. QED BY <1>2, <1>3

LEMMA AdaptType ==
  ASSUME TypeOK, NEW t \in Threads, NEW b \in Buckets, AdaptMaximum(t, b)
  PROVE  /\ max_length_' \in [Threads -> [Buckets -> 1..MaxDynamic]]
         /\ overages_length_' \in [Threads -> [Buckets -> 0..MaxOverages]]
<1> DEFINE m == max_length_[t][b]
           o == overages_length_[t][1]
           n == MoveNum[b]
<1>1. /\ m \in 1..MaxDynamic /\ o \in 0..MaxOverages /\ n \in Nat \ {0} /\ n <= MaxDynamic
      /\ MaxDynamic \in Nat /\ MaxOverages \in Nat
  <2>1. 1 \in Buckets BY ClassFacts
  <2>2. m \in 1..MaxDynamic /\ o \in 0..MaxOverages BY <2>1 DEF TypeOK
  <2>3. n \in Nat \ {0} /\ n <= MaxDynamic /\ MaxDynamic \in Nat /\ MaxOverages \in Nat
    BY ClassFacts, TablesAssumption
  <2>4. QED BY <2>2, <2>3
<1>2. CASE m < n /\ max_length_' = [max_length_ EXCEPT ![t][b] = @ + 1] /\ UNCHANGED overages_length_
  <2>1. m + 1 \in 1..MaxDynamic BY <1>1, <1>2
  <2>2. QED BY <2>1, <1>2 DEF TypeOK
<1>3. CASE UNCHANGED <<max_length_, overages_length_>> BY <1>3 DEF TypeOK
<1>4. CASE /\ o + 1 <= MaxOverages
           /\ overages_length_' = [overages_length_ EXCEPT ![t][b] = o + 1]
           /\ UNCHANGED max_length_
  <2>1. o + 1 \in 0..MaxOverages BY <1>1, <1>4
  <2>2. QED BY <2>1, <1>4 DEF TypeOK
<1>5. CASE /\ m > n
           /\ overages_length_' = [overages_length_ EXCEPT ![t][b] = 0]
           /\ max_length_' = [max_length_ EXCEPT ![t][b] = @ - MoveNum[b]]
  <2>1. m - n \in 1..MaxDynamic /\ 0 \in 0..MaxOverages BY <1>1, <1>5
  <2>2. QED BY <2>1, <1>5 DEF TypeOK
<1>6. QED BY <1>2, <1>3, <1>4, <1>5 DEF AdaptMaximum

LEMMA InitType == Init => TypeOK
<1> SUFFICES ASSUME Init PROVE TypeOK OBVIOUS
<1>1. /\ free_list_ \in [Threads -> [Buckets -> Seq(Addresses)]]
      /\ batch \in [Threads -> Seq(Addresses)] /\ span_list_ \in [Buckets -> Seq(Pages)]
      /\ span_free_list_ \in [Pages -> Seq(Addresses \cup {Stale})]
  <2>1. /\ <<>> \in Seq(Addresses) /\ <<>> \in Seq(Pages)
        /\ <<>> \in Seq(Addresses \cup {Stale})
    OBVIOUS
  <2>2. QED BY <2>1 DEF Init
<1>2. /\ max_length_ \in [Threads -> [Buckets -> 1..MaxDynamic]]
      /\ overages_length_ \in [Threads -> [Buckets -> 0..MaxOverages]]
  <2>1. 1 \in 1..MaxDynamic /\ 0 \in 0..MaxOverages BY ClassFacts, TablesAssumption
  <2>2. QED BY <2>1 DEF Init
<1>3. /\ pages_num_ \in [Pages -> 0..HeapPages] /\ object_size_ \in [Pages -> 0..MaxSize]
      /\ allocated_num_ \in [Pages -> Nat]
  <2>1. 0 \in 0..HeapPages /\ 0 \in 0..MaxSize BY ClassFacts, TablesAssumption
  <2>2. QED BY <2>1 DEF Init
<1>4. /\ lock_ \in [Buckets -> Threads \cup {Null}] /\ live \subseteq Addresses
      /\ pc \in [Threads -> PcValues]
      /\ bucket_index \in [Threads -> Buckets]
  BY ClassFacts DEF Init, PcValues
<1>5. QED BY <1>1, <1>2, <1>3, <1>4 DEF TypeOK

LEMMA AskedFacts == Asked \subseteq Nat
<1>1. SUFFICES ASSUME NEW n \in Asked PROVE n \in Nat OBVIOUS
<1>2. PICK i \in Sizes : n = ((Request(i) + Alignment(Request(i)) - 1)
                               \div Alignment(Request(i))) * Alignment(Request(i))
  BY DEF Asked
<1> DEFINE r == Request(i)
           a == Alignment(Request(i))
<1>3. r \in Nat /\ a \in Nat \ {0} BY TablesAssumption DEF Request, Alignment
<1> HIDE DEF r, a
<1>4. r + a - 1 \in Nat BY <1>3
<1>5. ((r + a - 1) \div a) * a \in Nat BY <1>3, <1>4, Division
<1>6. QED BY <1>2, <1>5 DEF r, a

LEMMA SeqIn ==
  ASSUME NEW S, NEW T, NEW s \in Seq(S), Elements(s) \subseteq T
  PROVE  s \in Seq(T)
<1>1. Len(s) \in Nat /\ s = [i \in 1..Len(s) |-> s[i]] /\ \A i \in 1..Len(s) : s[i] \in T
  BY DEF Elements
<1>2. [i \in 1..Len(s) |-> s[i]] \in Seq(T) BY <1>1
<1>3. QED BY <1>1, <1>2

LEMMA ElementsIn ==
  ASSUME NEW S, NEW s \in Seq(S)
  PROVE  Elements(s) \subseteq S
BY DEF Elements

(* The objects that a fetch takes out of the home part of free.            *)
LEMMA TakenObjects ==
  ASSUME NEW free \in Seq(Addresses \cup {Stale}), NEW n \in 1..Len(free),
         Elements(Front(free, n)) \subseteq Addresses, NEW k \in 1..n
  PROVE  /\ Front(free, 1) \in Seq(Addresses) /\ Len(Front(free, 1)) = 1
         /\ SubSeq(free, 2, k) \in Seq(Addresses)
         /\ Front(free, k) \in Seq(Addresses)
         /\ Front(free, 1) = Front(Front(free, k), 1)
         /\ SubSeq(free, 2, k) = Without(Front(free, k), 1)
         /\ Without(free, k) \in Seq(Addresses \cup {Stale})
         /\ Len(Without(free, k)) = Len(free) - k
<1> DEFINE S == Addresses \cup {Stale}
<1>1. n \in 0..Len(free) /\ k \in 0..n /\ k \in 0..Len(free) /\ 1 \in 0..k OBVIOUS
<1>2. Front(free, n) \in Seq(S) /\ Len(Front(free, n)) = n BY <1>1, Cut
<1>3. Front(free, n) \in Seq(Addresses) BY <1>2, SeqIn
<1>4. Front(Front(free, n), k) = Front(free, k) BY <1>1, CutTwice
<1>5. Front(free, k) \in Seq(Addresses) /\ Len(Front(free, k)) = k
  BY <1>1, <1>2, <1>3, <1>4, Cut
<1>6. Front(Front(free, k), 1) = Front(free, 1) BY <1>1, CutTwice
<1>7. PICK f \in Seq(Addresses) : f = Front(free, k) BY <1>5
<1>13. 1 \in 0..Len(f) BY <1>1, <1>5, <1>7
<1>14. /\ Front(f, 1) \in Seq(Addresses) /\ Len(Front(f, 1)) = 1
       /\ Without(f, 1) \in Seq(Addresses)
  BY <1>13 DEF Front, Without
<1>8. Front(free, 1) \in Seq(Addresses) /\ Len(Front(free, 1)) = 1
  BY <1>6, <1>7, <1>14
<1>9. SubSeq(free, 2, k) = Without(Front(free, k), 1) BY <1>1, CutTwice
<1>10. SubSeq(free, 2, k) \in Seq(Addresses) BY <1>7, <1>9, <1>14
<1>11. Without(free, k) \in Seq(S) /\ Len(Without(free, k)) = Len(free) - k BY <1>1, Cut
<1>12. QED BY <1>5, <1>6, <1>8, <1>9, <1>10, <1>11

LEMMA PopType ==
  ASSUME TypeOK, NEW t \in Threads, NEW b \in Buckets, NEW p \in Pages,
         NEW list \in Seq(Pages), NEW free \in Seq(Addresses \cup {Stale}),
         NEW allocated \in Nat, allocated < ObjectsNum(b),
         ObjectsNum(b) - allocated <= Len(free),
         Elements(Front(free, ObjectsNum(b) - allocated)) \subseteq Addresses,
         PopObjects(t, b, p, list, allocated, free)
  PROVE  /\ free_list_' \in [Threads -> [Buckets -> Seq(Addresses)]]
         /\ max_length_' \in [Threads -> [Buckets -> 1..MaxDynamic]]
         /\ span_list_' \in [Buckets -> Seq(Pages)]
         /\ lock_' \in [Buckets -> Threads \cup {Null}]
         /\ allocated_num_' \in [Pages -> Nat]
         /\ span_free_list_' \in [Pages -> Seq(Addresses \cup {Stale})]
         /\ live' \subseteq Addresses
         /\ pc' \in [Threads -> PcValues]
<1>1. PICK k \in 1..(ObjectsNum(b) - allocated) :
           /\ span_free_list_' = [span_free_list_ EXCEPT ![p] = Without(free, k)]
           /\ allocated_num_' = [allocated_num_ EXCEPT ![p] = allocated + k]
           /\ span_list_' = [span_list_ EXCEPT ![b] =
                               PutBack(list, p, allocated + k = ObjectsNum(b))]
           /\ lock_' = [lock_ EXCEPT ![b] = Null]
           /\ live' = live \cup Elements(Front(free, 1))
           /\ free_list_' = [free_list_ EXCEPT ![t][b] = SubSeq(free, 2, k) \o @]
           /\ max_length_' = [max_length_ EXCEPT ![t][b] = Grown(@, b)]
           /\ Goto(t, "idle")
  BY Popping
<1>2. PICK n \in 1..Len(free) : n = ObjectsNum(b) - allocated
  BY ObjectsCount
<1>3. k \in 1..n /\ k \in Nat BY <1>2
<1>4. /\ Front(free, 1) \in Seq(Addresses) /\ SubSeq(free, 2, k) \in Seq(Addresses)
      /\ Without(free, k) \in Seq(Addresses \cup {Stale})
  BY <1>2, <1>3, TakenObjects
<1>5. free_list_' \in [Threads -> [Buckets -> Seq(Addresses)]]
  <2>1. free_list_[t][b] \in Seq(Addresses) BY DEF TypeOK
  <2>2. SubSeq(free, 2, k) \o free_list_[t][b] \in Seq(Addresses) BY <1>4, <2>1, Joined
  <2>3. QED BY <2>2, <1>1 DEF TypeOK
<1>6. max_length_' \in [Threads -> [Buckets -> 1..MaxDynamic]]
  <2>3. max_length_[t][b] \in 1..MaxDynamic BY DEF TypeOK
  <2>1. Grown(max_length_[t][b], b) \in 1..MaxDynamic BY <2>3, GrownType
  <2>2. QED BY <2>1, <1>1 DEF TypeOK
<1>7. span_list_' \in [Buckets -> Seq(Pages)]
  <2>1. Append(list, p) \in Seq(Pages) /\ <<p>> \o list \in Seq(Pages) BY PutLast, Pushed
  <2>2. PutBack(list, p, allocated + k = ObjectsNum(b)) \in Seq(Pages) BY <2>1 DEF PutBack
  <2>3. QED BY <2>2, <1>1 DEF TypeOK
<1>8. lock_' \in [Buckets -> Threads \cup {Null}] BY <1>1 DEF TypeOK
<1>9. allocated_num_' \in [Pages -> Nat]
  <2>1. allocated + k \in Nat BY <1>3
  <2>2. QED BY <2>1, <1>1 DEF TypeOK
<1>10. span_free_list_' \in [Pages -> Seq(Addresses \cup {Stale})] BY <1>1, <1>4 DEF TypeOK
<1>11. live' \subseteq Addresses BY <1>1, <1>4, ElementsIn DEF TypeOK
<1>12. pc' \in [Threads -> PcValues]
  <2>1. "idle" \in PcValues BY DEF PcValues
  <2>2. QED BY <2>1, <1>1, Going DEF TypeOK
<1>13. QED BY <1>5, <1>6, <1>7, <1>8, <1>9, <1>10, <1>11, <1>12

LEMMA FreeRunFacts ==
  ASSUME TypeOK, NEW n \in Nat \ {0}, NEW p \in FreeRuns(n)
  PROVE  /\ p \in Pages /\ Run(p, n) \subseteq Pages /\ n \in 0..HeapPages /\ p \notin Used
         /\ \A q \in Used : Run(q, pages_num_[q]) \cap Run(p, n) = {}
<1>1. /\ p \in Pages /\ Run(p, n) \subseteq Pages
      /\ \A q \in Used : Run(q, pages_num_[q]) \cap Run(p, n) = {}
  BY DEF FreeRuns
<1>2. n \in 0..HeapPages
  <2>1. p + n - 1 \in Run(p, n) BY <1>1 DEF Run, Pages
  <2>2. p + n - 1 \in Pages BY <1>1, <2>1
  <2>3. QED BY <2>2, <1>1, TablesAssumption DEF Pages
<1>3. p \notin Used
  <2>1. SUFFICES ASSUME p \in Used PROVE FALSE OBVIOUS
  <2>2. pages_num_[p] \in Nat \ {0} BY <2>1 DEF Used, TypeOK
  <2>3. p \in Run(p, pages_num_[p]) /\ p \in Run(p, n) BY <1>1, <2>2 DEF Run, Pages
  <2>4. QED BY <1>1, <2>1, <2>3
<1>4. QED BY <1>1, <1>2, <1>3

LEMMA AllocBigPages ==
  ASSUME NEW n \in Nat, n > MaxSize
  PROVE  (n + PageUnits - 1) \div PageUnits \in Nat \ {0}
<1> DEFINE a == n + PageUnits - 1
           q == a \div PageUnits
<1>1. PageUnits \in Nat \ {0} /\ n \in Nat \ {0} BY ClassFacts, TablesAssumption
<1>2. a \in Nat /\ a >= PageUnits BY <1>1
<1> HIDE DEF a
<1>3. q \in Nat /\ a < q * PageUnits + PageUnits BY <1>1, <1>2, Division
<1> HIDE DEF q
<1>4. q # 0
  <2>1. SUFFICES ASSUME q = 0 PROVE FALSE OBVIOUS
  <2>2. q * PageUnits = 0 BY <2>1, <1>1
  <2>3. QED BY <2>2, <1>1, <1>2, <1>3
<1>5. QED BY <1>3, <1>4 DEF q, a

LEMMA FrameType ==
  ASSUME TypeOK, UNCHANGED <<cacheVars, spanVars, live, batch>>,
         span_list_' = span_list_ \/ span_list_' \in [Buckets -> Seq(Pages)],
         lock_' \in [Buckets -> Threads \cup {Null}],
         pc' \in [Threads -> PcValues], bucket_index' \in [Threads -> Buckets]
  PROVE  TypeOK'
BY DEF TypeOK, cacheVars, spanVars

LEMMA AllocateCachedType ==
  ASSUME TypeOK, NEW t \in Threads, NEW n \in Asked, AllocateCached(t, n)
  PROVE  TypeOK'
<1> DEFINE b == ClassOf(n)
<1>1. b \in Buckets /\ free_list_[t][b] # <<>>
  BY AskedFacts, ClassOfSize DEF AllocateCached
<1>2. /\ free_list_' = [free_list_ EXCEPT ![t][b] = Tail(@)]
      /\ live' = live \cup {Head(free_list_[t][b])}
      /\ UNCHANGED <<max_length_, overages_length_, centralVars, spanVars, pc, callVars>>
  BY DEF AllocateCached
<1> HIDE DEF b
<1>3. free_list_[t][b] \in Seq(Addresses) BY <1>1 DEF TypeOK
<1>4. Tail(free_list_[t][b]) \in Seq(Addresses) /\ Head(free_list_[t][b]) \in Addresses
  BY <1>1, <1>3, HeadTail
<1>5. free_list_' \in [Threads -> [Buckets -> Seq(Addresses)]] BY <1>2, <1>4 DEF TypeOK
<1>6. live' \subseteq Addresses BY <1>2, <1>4 DEF TypeOK
<1>7. QED BY <1>2, <1>5, <1>6 DEF TypeOK, centralVars, spanVars, callVars

LEMMA AllocBigType ==
  ASSUME TypeOK, NEW t \in Threads, NEW n \in Asked, AllocBig(t, n)
  PROVE  TypeOK'
<1> DEFINE m == (n + PageUnits - 1) \div PageUnits
<1>1. m \in Nat \ {0}
  <2>1. n \in Nat /\ n > MaxSize BY AskedFacts DEF AllocBig
  <2>2. QED BY <2>1, AllocBigPages
<1>2. /\ \/ \E p \in FreeRuns(m) :
              /\ pages_num_' = [pages_num_ EXCEPT ![p] = m]
              /\ \E s \in {0} \cup Elements(ClassSize) :
                   object_size_' = [object_size_ EXCEPT ![p] = s]
              /\ live' = live \cup {p * PageUnits}
              /\ UNCHANGED pc
         \/ Goto(t, "nullptr") /\ UNCHANGED <<pages_num_, object_size_, live>>
      /\ UNCHANGED <<cacheVars, centralVars, allocated_num_, span_free_list_, callVars>>
  BY DEF AllocBig
<1> HIDE DEF m
<1>3. CASE Goto(t, "nullptr") /\ UNCHANGED <<pages_num_, object_size_, live>>
  <2>1. "nullptr" \in PcValues BY DEF PcValues
  <2>2. pc' \in [Threads -> PcValues] BY <1>3, <2>1, Going DEF TypeOK
  <2>3. QED BY <1>2, <1>3, <2>2 DEF TypeOK, cacheVars, centralVars, callVars
<1>4. ASSUME NEW p \in FreeRuns(m), pages_num_' = [pages_num_ EXCEPT ![p] = m],
             NEW s \in {0} \cup Elements(ClassSize),
             object_size_' = [object_size_ EXCEPT ![p] = s],
             live' = live \cup {p * PageUnits}, UNCHANGED pc
      PROVE  TypeOK'
  <2>1. p \in Pages /\ m \in 0..HeapPages BY <1>1, FreeRunFacts
  <2>2. pages_num_' \in [Pages -> 0..HeapPages] BY <2>1, <1>4 DEF TypeOK
  <2>3. s \in 0..MaxSize
    <3>1. \A b \in Buckets : ClassSize[b] \in 0..MaxSize BY ClassFacts
    <3>2. QED BY <3>1, <1>4, ClassFacts DEF Elements, Buckets
  <2>4. object_size_' \in [Pages -> 0..MaxSize] BY <2>1, <2>3, <1>4 DEF TypeOK
  <2>5. live' \subseteq Addresses BY <2>1, <1>4, FirstOfPage DEF TypeOK
  <2>6. QED BY <1>2, <1>4, <2>2, <2>4, <2>5 DEF TypeOK, cacheVars, centralVars, callVars
<1>5. QED BY <1>2, <1>3, <1>4

LEMMA HeadSpan ==
  ASSUME TypeOK, SpanInv, HomeInv, ListInv, NEW b \in Buckets, HasFreeSpan(b)
  PROVE  LET p == Head(span_list_[b]) IN
         /\ InClass(p, b) /\ p \in Pages /\ p \notin Full(b)
         /\ Tail(span_list_[b]) \in Seq(Pages) /\ Distinct(Tail(span_list_[b]))
         /\ Elements(Tail(span_list_[b])) = Elements(span_list_[b]) \ {p}
         /\ FullLast(Tail(span_list_[b]), Full(b))
         /\ allocated_num_[p] \in Nat /\ allocated_num_[p] < ObjectsNum(b)
<1> DEFINE s == span_list_[b]
           p == Head(s)
<1>1. s \in Seq(Pages) /\ s # <<>> /\ ~IsFull(p) BY DEF TypeOK, HasFreeSpan
<1>2. Distinct(s) /\ FullLast(s, Full(b)) BY DEF ListInv
<1> HIDE DEF s
<1>3. /\ p \in Pages /\ Tail(s) \in Seq(Pages) /\ Elements(s) = {p} \cup Elements(Tail(s))
      /\ Distinct(Tail(s)) /\ p \notin Elements(Tail(s))
      /\ Len(s) \in Nat \ {0} /\ Len(Tail(s)) = Len(s) - 1
      /\ \A i \in 1..(Len(s) - 1) : Tail(s)[i] = s[i + 1]
  BY <1>1, <1>2, HeadTail
<1>4. Elements(Tail(s)) = Elements(s) \ {p} BY <1>3
<1>5. FullLast(Tail(s), Full(b))
  <2>1. \A i \in DOMAIN Tail(s) : i + 1 \in DOMAIN s /\ Tail(s)[i] = s[i + 1] BY <1>3
  <2>2. ASSUME NEW i \in DOMAIN Tail(s), NEW j \in DOMAIN Tail(s), i < j,
               Tail(s)[i] \in Full(b)
        PROVE  Tail(s)[j] \in Full(b)
    <3>1. i + 1 < j + 1 BY <2>2, <1>3
    <3>2. QED BY <3>1, <2>1, <2>2, <1>2 DEF FullLast
  <2>3. QED BY <2>2 DEF FullLast
<1>6. InClass(p, b) BY <1>3 DEF InClass, s
<1>7. p \notin Full(b) /\ allocated_num_[p] \in Nat /\ allocated_num_[p] <= ObjectsNum(b)
  BY <1>1, <1>6, HomeFacts
<1>8. allocated_num_[p] < ObjectsNum(b)
  <2>1. allocated_num_[p] # ObjectsNum(b) BY <1>3, <1>7 DEF Full
  <2>2. QED BY <2>1, <1>7, ObjectsCount
<1>9. QED BY <1>3, <1>4, <1>5, <1>6, <1>7, <1>8 DEF s

LEMMA RemoveRangeType ==
  ASSUME TypeOK, SpanInv, HomeInv, ListInv, NEW t \in Threads, NEW n \in Asked,
         RemoveRange(t, n)
  PROVE  TypeOK'
<1> DEFINE b == ClassOf(n)
           p == Head(span_list_[b])
<1>1. b \in Buckets /\ HasFreeSpan(b) BY AskedFacts, ClassOfSize DEF RemoveRange
<1>2. /\ PopObjects(t, b, p, Tail(span_list_[b]), allocated_num_[p], span_free_list_[p])
      /\ UNCHANGED <<overages_length_, pages_num_, object_size_, callVars>>
  BY DEF RemoveRange
<1> HIDE DEF b
<1>3. /\ InClass(p, b) /\ p \in Pages /\ Tail(span_list_[b]) \in Seq(Pages)
      /\ allocated_num_[p] \in Nat /\ allocated_num_[p] < ObjectsNum(b)
  BY <1>1, HeadSpan
<1>4. /\ span_free_list_[p] \in Seq(Addresses \cup {Stale})
      /\ ObjectsNum(b) - allocated_num_[p] <= Len(span_free_list_[p])
  <2>1. span_free_list_[p] \in Seq(Addresses \cup {Stale}) BY <1>3 DEF TypeOK
  <2>2. ObjectsNum(b) - allocated_num_[p] \in 0..Len(span_free_list_[p])
    BY <1>1, <1>3, HomeFacts
  <2> HIDE DEF p
  <2>3. QED BY <2>1, <2>2
<1>5. Elements(Front(span_free_list_[p], ObjectsNum(b) - allocated_num_[p])) \subseteq Addresses
  <2>1. Elements(AtHome(p, b)) \subseteq Elements(Objects(p, b)) BY <1>1, <1>3, HomeFacts
  <2>2. Objects(p, b) \in Seq(Addresses) BY <1>1, <1>3, Listed, ObjectsFacts
  <2>3. QED BY <2>1, <2>2, ElementsIn DEF AtHome
<1> HIDE DEF p
<1>6. /\ free_list_' \in [Threads -> [Buckets -> Seq(Addresses)]]
      /\ max_length_' \in [Threads -> [Buckets -> 1..MaxDynamic]]
      /\ span_list_' \in [Buckets -> Seq(Pages)]
      /\ lock_' \in [Buckets -> Threads \cup {Null}]
      /\ allocated_num_' \in [Pages -> Nat]
      /\ span_free_list_' \in [Pages -> Seq(Addresses \cup {Stale})]
      /\ live' \subseteq Addresses
      /\ pc' \in [Threads -> PcValues]
  BY <1>1, <1>2, <1>3, <1>4, <1>5, PopType
<1>7. QED BY <1>2, <1>6 DEF TypeOK, callVars

(* The objects that InitializePush pushes, on top of what was left.        *)
LEMMA FreshObjects ==
  ASSUME NEW b \in Buckets, NEW p \in Pages, Run(p, ClassPages[b]) \subseteq Pages
  PROVE  LET free == Objects(p, b) \o <<Stale>> IN
         /\ free \in Seq(Addresses \cup {Stale}) /\ Len(free) = ObjectsNum(b) + 1
         /\ Front(free, ObjectsNum(b)) = Objects(p, b)
         /\ Objects(p, b) \in Seq(Addresses) /\ Distinct(Objects(p, b))
<1> DEFINE o == Objects(p, b)
           S == Addresses \cup {Stale}
           u == <<Stale>>
<1>1. o \in Seq(Addresses) /\ Len(o) = ObjectsNum(b) /\ Distinct(o) BY ObjectsFacts
<1>2. o \in Seq(S) /\ Len(o) \in Nat BY <1>1
<1>3. u \in Seq(S) /\ Len(u) = 1
  <2>1. Stale \in S OBVIOUS
  <2>2. QED BY <2>1, Unit
<1> HIDE DEF o, u, S
<1>4. /\ o \o u \in Seq(S) /\ Len(o \o u) = Len(o) + 1
      /\ \A k \in 1..Len(o) : (o \o u)[k] = o[k]
  <2>1. /\ o \o u \in Seq(S) /\ Len(o \o u) = Len(o) + Len(u)
        /\ \A k \in 1..(Len(o) + Len(u)) :
              (o \o u)[k] = IF k <= Len(o) THEN o[k] ELSE u[k - Len(o)]
    BY <1>2, <1>3, Joined
  <2>2. QED BY <2>1, <1>2, <1>3
<1>5. Len(o) \in 0..Len(o \o u) BY <1>2, <1>4
<1>6. Front(o \o u, Len(o)) = o
  <2> DEFINE h == o \o u
  <2>1. h \in Seq(S) /\ Len(o) \in 0..Len(h) BY <1>4, <1>5
  <2> HIDE DEF h
  <2>2. /\ Front(h, Len(o)) \in Seq(S) /\ Len(Front(h, Len(o))) = Len(o)
        /\ \A i \in 1..Len(o) : Front(h, Len(o))[i] = h[i]
    BY <2>1, Cut
  <2>3. \A i \in 1..Len(o) : Front(h, Len(o))[i] = o[i] BY <2>2, <1>4 DEF h
  <2>4. Front(h, Len(o)) = o BY <2>2, <2>3, <1>2, SeqEqual
  <2>5. QED BY <2>4 DEF h
<1>7. QED BY <1>1, <1>4, <1>6 DEF o, u, S

LEMMA NewSpanType ==
  ASSUME TypeOK, NEW t \in Threads, NewSpan(t)
  PROVE  TypeOK'
<1> DEFINE b == bucket_index[t]
<1>1. b \in Buckets /\ ClassPages[b] \in Nat \ {0} BY ClassFacts DEF TypeOK
<1>2. /\ \/ \E p \in FreeRuns(ClassPages[b]) :
              /\ pages_num_' = [pages_num_ EXCEPT ![p] = ClassPages[b]]
              /\ object_size_' = [object_size_ EXCEPT ![p] = ClassSize[b]]
              /\ PopObjects(t, b, p, span_list_[b], 0, Objects(p, b) \o <<Stale>>)
              /\ bucket_index' = [bucket_index EXCEPT ![t] = 1]
         \/ /\ Goto(t, "nullptr")
            /\ UNCHANGED <<free_list_, max_length_, centralVars, spanVars, live, bucket_index>>
      /\ UNCHANGED <<overages_length_, batch>>
  BY DEF NewSpan
<1>3. CASE /\ Goto(t, "nullptr")
           /\ UNCHANGED <<free_list_, max_length_, centralVars, spanVars, live, bucket_index>>
  <2>1. "nullptr" \in PcValues BY DEF PcValues
  <2>2. pc' \in [Threads -> PcValues] BY <1>3, <2>1, Going DEF TypeOK
  <2>3. QED BY <1>2, <1>3, <2>2 DEF TypeOK, centralVars, spanVars
<1>4. ASSUME NEW p \in FreeRuns(ClassPages[b]),
             pages_num_' = [pages_num_ EXCEPT ![p] = ClassPages[b]],
             object_size_' = [object_size_ EXCEPT ![p] = ClassSize[b]],
             PopObjects(t, b, p, span_list_[b], 0, Objects(p, b) \o <<Stale>>),
             bucket_index' = [bucket_index EXCEPT ![t] = 1]
      PROVE  TypeOK'
  <2>0. PICK c \in Buckets : c = b BY <1>1
  <2>1. p \in Pages /\ ClassPages[b] \in 0..HeapPages /\ Run(p, ClassPages[b]) \subseteq Pages
    BY <1>1, FreeRunFacts
  <2>2. pages_num_' \in [Pages -> 0..HeapPages] BY <2>1, <1>4 DEF TypeOK
  <2>3. object_size_' \in [Pages -> 0..MaxSize]
    <3>1. ClassSize[b] \in 0..MaxSize BY <1>1, ClassFacts
    <3>2. QED BY <3>1, <2>1, <1>4 DEF TypeOK
  <2>4. PICK free \in Seq(Addresses \cup {Stale}) :
          /\ free = Objects(p, c) \o <<Stale>> /\ Len(free) = ObjectsNum(c) + 1
          /\ Front(free, ObjectsNum(c)) = Objects(p, c) /\ Objects(p, c) \in Seq(Addresses)
    BY <2>0, <2>1, FreshObjects
  <2>5. /\ 0 \in Nat /\ 0 < ObjectsNum(c) /\ ObjectsNum(c) - 0 = ObjectsNum(c)
        /\ ObjectsNum(c) <= Len(free)
    BY <2>4, ObjectsCount
  <2>6. Elements(Front(free, ObjectsNum(c) - 0)) \subseteq Addresses
    BY <2>4, <2>5, ElementsIn
  <2>7. PopObjects(t, c, p, span_list_[c], 0, free) BY <1>4, <2>0, <2>4
  <2>8. span_list_[c] \in Seq(Pages) BY DEF TypeOK
  <2>9. /\ free_list_' \in [Threads -> [Buckets -> Seq(Addresses)]]
        /\ max_length_' \in [Threads -> [Buckets -> 1..MaxDynamic]]
        /\ span_list_' \in [Buckets -> Seq(Pages)]
        /\ lock_' \in [Buckets -> Threads \cup {Null}]
        /\ allocated_num_' \in [Pages -> Nat]
        /\ span_free_list_' \in [Pages -> Seq(Addresses \cup {Stale})]
        /\ live' \subseteq Addresses
        /\ pc' \in [Threads -> PcValues]
    BY <2>1, <2>4, <2>5, <2>6, <2>7, <2>8, PopType
  <2>10. bucket_index' \in [Threads -> Buckets] BY <1>4, ClassFacts DEF TypeOK
  <2>11. QED BY <1>2, <2>2, <2>3, <2>9, <2>10 DEF TypeOK
<1> HIDE DEF b
<1>5. QED BY <1>2, <1>3, <1>4

(* An object the program frees is one of the class that TCFree finds.      *)
LEMMA Freed ==
  ASSUME TypeOK, SpanInv, KindInv, ~FreesBig, NEW a \in live, FreesBig \/ ~IsBig(a)
  PROVE  /\ ClassOf(object_size_[SpanOf(a)]) \in Buckets
         /\ ObjectOf(a, ClassOf(object_size_[SpanOf(a)]))
<1>1. ~BigAt(a)
  <2>1. SUFFICES ASSUME BigAt(a) PROVE FALSE OBVIOUS
  <2>2. PICK p \in Used : a = p * PageUnits /\ \A b \in Buckets : ~InClass(p, b)
    BY <2>1 DEF BigAt
  <2>3. IsBig(a) BY <2>2, BigFacts
  <2>4. QED BY <2>3
<1>2. PICK b \in Buckets : ObjectOf(a, b) BY <1>1 DEF KindInv
<1>3. ClassOf(object_size_[SpanOf(a)]) = b BY <1>2, SpanOfObject
<1>4. QED BY <1>2, <1>3

LEMMA CutType ==
  ASSUME NEW s \in Seq(Addresses), NEW n \in Nat
  PROVE  LET k == Smaller(n, Len(s)) IN
         /\ k \in 0..Len(s) /\ Front(s, k) \in Seq(Addresses)
         /\ Without(s, k) \in Seq(Addresses)
<1>1. Smaller(n, Len(s)) \in 0..Len(s) BY DEF Smaller
<1>2. QED BY <1>1 DEF Front, Without

LEMMA FreeType ==
  ASSUME TypeOK, SpanInv, KindInv, ~FreesBig, NEW t \in Threads, NEW a \in live, Free(t, a)
  PROVE  TypeOK'
<1> DEFINE b    == ClassOf(object_size_[SpanOf(a)])
           list == <<a>> \o free_list_[t][b]
           k    == Smaller(MoveNum[b], Len(list))
<1>1. b \in Buckets BY Freed DEF Free
<1>2. /\ live' = live \ {a}
      /\ \/ /\ free_list_' = [free_list_ EXCEPT ![t][b] = list]
            /\ UNCHANGED <<pc, bucket_index, batch>>
         \/ /\ Goto(t, "insert")
            /\ free_list_' = [free_list_ EXCEPT ![t][b] = Without(list, k)]
            /\ batch' = [batch EXCEPT ![t] = Front(list, k)]
            /\ bucket_index' = [bucket_index EXCEPT ![t] = b]
      /\ UNCHANGED <<max_length_, overages_length_, centralVars, spanVars>>
  BY DEF Free
<1> HIDE DEF b
<1>3. list \in Seq(Addresses)
  <2>1. a \in Addresses /\ free_list_[t][b] \in Seq(Addresses) BY <1>1 DEF TypeOK
  <2>2. QED BY <2>1, Pushed
<1>4. Front(list, k) \in Seq(Addresses) /\ Without(list, k) \in Seq(Addresses)
  <2>1. MoveNum[b] \in Nat BY <1>1, ClassFacts
  <2> HIDE DEF list
  <2>2. QED BY <2>1, <1>3, CutType
<1> HIDE DEF list, k
<1>5. live' \subseteq Addresses BY <1>2 DEF TypeOK
<1>6. CASE /\ free_list_' = [free_list_ EXCEPT ![t][b] = list]
           /\ UNCHANGED <<pc, bucket_index, batch>>
  <2>1. free_list_' \in [Threads -> [Buckets -> Seq(Addresses)]] BY <1>3, <1>6 DEF TypeOK
  <2>2. QED BY <1>2, <1>5, <1>6, <2>1 DEF TypeOK, centralVars, spanVars
<1>7. CASE /\ Goto(t, "insert")
           /\ free_list_' = [free_list_ EXCEPT ![t][b] = Without(list, k)]
           /\ batch' = [batch EXCEPT ![t] = Front(list, k)]
           /\ bucket_index' = [bucket_index EXCEPT ![t] = b]
  <2>1. free_list_' \in [Threads -> [Buckets -> Seq(Addresses)]] BY <1>4, <1>7 DEF TypeOK
  <2>2. batch' \in [Threads -> Seq(Addresses)] BY <1>4, <1>7 DEF TypeOK
  <2>3. bucket_index' \in [Threads -> Buckets] BY <1>1, <1>7 DEF TypeOK
  <2>4. "insert" \in PcValues BY DEF PcValues
  <2>5. pc' \in [Threads -> PcValues] BY <1>7, <2>4, Going DEF TypeOK
  <2>6. QED BY <1>2, <1>5, <2>1, <2>2, <2>3, <2>5 DEF TypeOK, centralVars, spanVars
<1>8. QED BY <1>2, <1>6, <1>7

(* The object that InsertRange pushes, its class and its span.             *)
LEMMA Inserted ==
  ASSUME TypeOK, SpanInv, KindInv, CallInv, NEW t \in Threads, pc[t] \in {"insert", "drain"}
  PROVE  LET b == bucket_index[t]
             a == Head(batch[t])
             p == SpanOf(a)
         IN  /\ b \in Buckets /\ batch[t] # <<>> /\ batch[t] \in Seq(Addresses)
             /\ a \in Elements(batch[t]) /\ a \in Addresses
             /\ InClass(p, b) /\ p \in Pages /\ a \in Elements(Objects(p, b))
<1> DEFINE b == bucket_index[t]
           a == Head(batch[t])
<1>1. b \in Buckets /\ batch[t] # <<>> /\ batch[t] \in Seq(Addresses)
  BY DEF TypeOK, CallInv
<1>2. a \in Elements(batch[t]) /\ a \in Addresses BY <1>1, HeadTail
<1>3. ObjectOf(a, b) BY <1>1, <1>2 DEF KindInv
<1>4. QED BY <1>1, <1>2, <1>3, SpanOfObject

LEMMA InsertObjectType ==
  ASSUME TypeOK, SpanInv, HomeInv, ListInv, KindInv, CallInv, NEW t \in Threads,
         InsertObject(t)
  PROVE  TypeOK'
<1> DEFINE b == bucket_index[t]
           a == Head(batch[t])
           p == SpanOf(a)
           others == Unlinked(span_list_[b], p)
<1>1. pc[t] \in {"insert", "drain"} BY DEF InsertObject
<1>2. /\ b \in Buckets /\ batch[t] # <<>> /\ batch[t] \in Seq(Addresses)
      /\ a \in Addresses /\ InClass(p, b) /\ p \in Pages
  BY <1>1, Inserted
<1>3. /\ PushObject(a, p, b, others)
      /\ batch' = [batch EXCEPT ![t] = Tail(@)]
      /\ \/ /\ lock_' = [lock_ EXCEPT ![b] = t]
            /\ UNCHANGED <<pc, bucket_index, max_length_, overages_length_>>
         \/ /\ lock_' = [lock_ EXCEPT ![b] = Null]
            /\ bucket_index' = [bucket_index EXCEPT ![t] = 1]
            /\ \/ Goto(t, "idle") /\ AdaptMaximum(t, b)
               \/ Goto(t, "clear") /\ UNCHANGED <<max_length_, overages_length_>>
      /\ UNCHANGED <<free_list_, live>>
  BY DEF InsertObject
<1>4. others \in Seq(Pages)
  <2>1. span_list_[b] \in Seq(Pages) BY <1>2 DEF TypeOK
  <2>2. Distinct(span_list_[b]) BY <1>2 DEF ListInv
  <2>3. p \in Elements(span_list_[b]) BY <1>2 DEF InClass
  <2> HIDE DEF p
  <2>4. QED BY <2>1, <2>2, <2>3, Unlinking
<1>5. allocated_num_[p] \in Nat \ {0} BY <1>2, HomeFacts
<1> HIDE DEF a, b, p, others
<1>6. Tail(batch[t]) \in Seq(Addresses) BY <1>2, HeadTail
<1>7. batch' \in [Threads -> Seq(Addresses)] BY <1>3, <1>6 DEF TypeOK
<1>8. /\ span_list_' \in [Buckets -> Seq(Pages)]
      /\ pages_num_' \in [Pages -> 0..HeapPages] /\ object_size_' \in [Pages -> 0..MaxSize]
      /\ allocated_num_' \in [Pages -> Nat]
      /\ span_free_list_' \in [Pages -> Seq(Addresses \cup {Stale})]
  <2>1. CASE span_list_' = [span_list_ EXCEPT ![b] = others] /\ DeallocateSpan(p)
    <3>1. /\ 0 \in 0..HeapPages /\ 0 \in 0..MaxSize /\ 0 \in Nat
          /\ <<>> \in Seq(Addresses \cup {Stale})
      BY ClassFacts, TablesAssumption
    <3>2. QED BY <3>1, <2>1, <1>4 DEF DeallocateSpan, TypeOK
  <2>2. CASE /\ span_list_' = [span_list_ EXCEPT ![b] = <<p>> \o others]
             /\ span_free_list_' = [span_free_list_ EXCEPT ![p] = <<a>> \o @]
             /\ allocated_num_' = [allocated_num_ EXCEPT ![p] = @ - 1]
             /\ UNCHANGED <<pages_num_, object_size_>>
    <3>1. <<p>> \o others \in Seq(Pages) BY <1>2, <1>4, Pushed
    <3>2. <<a>> \o span_free_list_[p] \in Seq(Addresses \cup {Stale})
      <4>1. span_free_list_[p] \in Seq(Addresses \cup {Stale}) BY <1>2 DEF TypeOK
      <4>2. QED BY <4>1, <1>2, Pushed
    <3>3. allocated_num_[p] - 1 \in Nat BY <1>5
    <3>4. span_list_' \in [Buckets -> Seq(Pages)] BY <2>2, <3>1 DEF TypeOK
    <3>5. span_free_list_' \in [Pages -> Seq(Addresses \cup {Stale})]
      BY <2>2, <3>2 DEF TypeOK
    <3>6. allocated_num_' \in [Pages -> Nat] BY <2>2, <3>3 DEF TypeOK
    <3>7. QED BY <2>2, <3>4, <3>5, <3>6 DEF TypeOK
  <2>3. QED BY <1>3, <2>1, <2>2 DEF PushObject
<1>9. lock_' \in [Buckets -> Threads \cup {Null}] BY <1>3 DEF TypeOK
<1>10. bucket_index' \in [Threads -> Buckets] BY <1>3, ClassFacts DEF TypeOK
<1>11. pc' \in [Threads -> PcValues]
  <2>1. "idle" \in PcValues /\ "clear" \in PcValues BY DEF PcValues
  <2>2. UNCHANGED pc \/ Goto(t, "idle") \/ Goto(t, "clear") BY <1>3
  <2>3. QED BY <2>1, <2>2, Going DEF TypeOK
<1>12. /\ max_length_' \in [Threads -> [Buckets -> 1..MaxDynamic]]
       /\ overages_length_' \in [Threads -> [Buckets -> 0..MaxOverages]]
  <2>1. AdaptMaximum(t, b) \/ UNCHANGED <<max_length_, overages_length_>> BY <1>3
  <2>2. QED BY <2>1, <1>2, AdaptType DEF TypeOK
<1>13. QED BY <1>3, <1>7, <1>8, <1>9, <1>10, <1>11, <1>12 DEF TypeOK

LEMMA ClearType ==
  ASSUME TypeOK, NEW t \in Threads, Clear(t)
  PROVE  TypeOK'
<1>1. ASSUME NEW b \in Unreleased(t),
             NEW k, k = Smaller(MoveNum[b], Len(free_list_[t][b])),
             bucket_index' = [bucket_index EXCEPT ![t] = b], Goto(t, "drain"),
             batch' = [batch EXCEPT ![t] = Front(free_list_[t][b], k)],
             free_list_' = [free_list_ EXCEPT ![t][b] = Without(@, k)],
             UNCHANGED <<max_length_, overages_length_, centralVars, spanVars, live>>
      PROVE  TypeOK'
  <2>1. b \in Buckets /\ free_list_[t][b] \in Seq(Addresses) BY DEF Unreleased, TypeOK
  <2>2. Front(free_list_[t][b], k) \in Seq(Addresses)
        /\ Without(free_list_[t][b], k) \in Seq(Addresses)
    <3>1. MoveNum[b] \in Nat BY <2>1, ClassFacts
    <3>2. QED BY <3>1, <2>1, <1>1, CutType
  <2>3. free_list_' \in [Threads -> [Buckets -> Seq(Addresses)]] BY <1>1, <2>2 DEF TypeOK
  <2>4. batch' \in [Threads -> Seq(Addresses)] BY <1>1, <2>2 DEF TypeOK
  <2>5. bucket_index' \in [Threads -> Buckets] BY <1>1, <2>1 DEF TypeOK
  <2>6. "drain" \in PcValues BY DEF PcValues
  <2>7. pc' \in [Threads -> PcValues] BY <1>1, <2>6, Going DEF TypeOK
  <2>8. QED BY <1>1, <2>3, <2>4, <2>5, <2>7 DEF TypeOK, centralVars, spanVars
<1>2. ASSUME Goto(t, "unborn"),
             free_list_' = [free_list_ EXCEPT ![t] = [b \in Buckets |-> <<>>]],
             max_length_' = [max_length_ EXCEPT ![t] = [b \in Buckets |-> 1]],
             overages_length_' = [overages_length_ EXCEPT ![t] = [b \in Buckets |-> 0]],
             UNCHANGED <<bucket_index, batch, centralVars, spanVars, live>>
      PROVE  TypeOK'
  <2>1. <<>> \in Seq(Addresses) /\ 1 \in 1..MaxDynamic /\ 0 \in 0..MaxOverages
    BY ClassFacts, TablesAssumption
  <2>2. free_list_' \in [Threads -> [Buckets -> Seq(Addresses)]] BY <1>2, <2>1 DEF TypeOK
  <2>3. max_length_' \in [Threads -> [Buckets -> 1..MaxDynamic]] BY <1>2, <2>1 DEF TypeOK
  <2>4. overages_length_' \in [Threads -> [Buckets -> 0..MaxOverages]]
    BY <1>2, <2>1 DEF TypeOK
  <2>5. "unborn" \in PcValues BY DEF PcValues
  <2>6. pc' \in [Threads -> PcValues] BY <1>2, <2>5, Going DEF TypeOK
  <2>7. QED BY <1>2, <2>2, <2>3, <2>4, <2>6 DEF TypeOK, centralVars, spanVars
<1>3. QED BY <1>1, <1>2 DEF Clear

LEMMA NextType ==
  ASSUME IInv, ~FreesBig, [Next]_vars
  PROVE  TypeOK'
<1>1. /\ TypeOK /\ SpanInv /\ HomeInv /\ ListInv /\ KindInv /\ CallInv BY DEF IInv
<1>2. CASE UNCHANGED vars
  BY <1>1, <1>2 DEF TypeOK, vars, cacheVars, centralVars, spanVars, callVars
<1>3. ASSUME NEW t \in Threads, Step(t) PROVE TypeOK'
  <2>1. \A l \in {"idle", "clear", "new", "nullptr"} : Goto(t, l) => pc' \in [Threads -> PcValues]
    <3>1. {"idle", "clear", "new", "nullptr"} \subseteq PcValues BY DEF PcValues
    <3>2. QED BY <3>1, <1>1, Going DEF TypeOK
  <2>2. CASE Start(t)
    BY <2>1, <2>2, <1>1, FrameType DEF Start, TypeOK, centralVars, callVars
  <2>3. CASE Finish(t)
    BY <2>1, <2>3, <1>1, FrameType DEF Finish, TypeOK, centralVars, callVars
  <2>4. CASE NewSpan(t) BY <2>4, <1>1, NewSpanType
  <2>5. CASE InsertObject(t) BY <2>5, <1>1, InsertObjectType
  <2>6. CASE Clear(t) BY <2>6, <1>1, ClearType
  <2>7. ASSUME NEW n \in Asked, AllocateCached(t, n) PROVE TypeOK'
    BY <2>7, <1>1, AllocateCachedType
  <2>8. ASSUME NEW n \in Asked, AllocBig(t, n) PROVE TypeOK' BY <2>8, <1>1, AllocBigType
  <2>9. ASSUME NEW n \in Asked, RemoveRange(t, n) PROVE TypeOK'
    BY <2>9, <1>1, RemoveRangeType
  <2>10. ASSUME NEW n \in Asked, RemoveRangeFull(t, n) PROVE TypeOK'
    <3> DEFINE b == ClassOf(n)
    <3>1. b \in Buckets BY <2>10, AskedFacts, ClassOfSize DEF RemoveRangeFull
    <3>2. /\ lock_' = [lock_ EXCEPT ![b] = t]
          /\ bucket_index' = [bucket_index EXCEPT ![t] = b]
          /\ Goto(t, "new") /\ UNCHANGED <<cacheVars, span_list_, spanVars, live, batch>>
      BY <2>10 DEF RemoveRangeFull
    <3> HIDE DEF b
    <3>3. /\ lock_' \in [Buckets -> Threads \cup {Null}]
          /\ bucket_index' \in [Threads -> Buckets]
      BY <3>1, <3>2, <1>1 DEF TypeOK
    <3>4. QED BY <3>2, <3>3, <2>1, <1>1, FrameType
  <2>11. CASE Delete(t)
    <3>1. ASSUME NEW a \in live, Free(t, a) PROVE TypeOK' BY <3>1, <1>1, FreeType
    <3>2. CASE Goto(t, "nullptr") /\ UNCHANGED <<cacheVars, centralVars, spanVars, live, callVars>>
      BY <3>2, <2>1, <1>1, FrameType DEF TypeOK, centralVars, callVars
    <3>3. QED BY <2>11, <3>1, <3>2 DEF Delete
  <2>12. QED
    BY <1>3, <2>2, <2>3, <2>4, <2>5, <2>6, <2>7, <2>8, <2>9, <2>10, <2>11 DEF Step
<1>4. QED BY <1>2, <1>3 DEF Next
-----------------------------------------------------------------------------
(* Steps that leave the central cache and the spans alone.                 *)

LEMMA CentralStays ==
  ASSUME UNCHANGED <<span_list_, spanVars>>
  PROVE  /\ \A p, b : InClass(p, b)' <=> InClass(p, b)
         /\ \A p, b : AtHome(p, b)' = AtHome(p, b)
         /\ \A a, b : ObjectOf(a, b)' <=> ObjectOf(a, b)
         /\ \A a : BigAt(a)' <=> BigAt(a)
         /\ Used' = Used
<1>1. /\ \A p, b : InClass(p, b)' <=> InClass(p, b)
      /\ \A p, b : AtHome(p, b)' = AtHome(p, b)
      /\ Used' = Used
  BY DEF InClass, AtHome, Used, spanVars, Elements
<1>2. \A a, b : ObjectOf(a, b)' <=> ObjectOf(a, b)
  BY <1>1 DEF ObjectOf, Objects, Elements
<1>3. \A a : BigAt(a)' <=> BigAt(a) BY <1>1 DEF BigAt
<1>4. QED BY <1>1, <1>2, <1>3

LEMMA Handed ==
  ASSUME IInv, UNCHANGED <<span_list_, spanVars>>,
         \A a : Held(a) => Held(a)',
         \A u \in Threads, c \in Buckets : \A a \in Elements(free_list_'[u][c]) : ObjectOf(a, c),
         \A u \in Threads : \A a \in Elements(batch'[u]) : ObjectOf(a, bucket_index'[u]),
         \A a \in live' : a \in live \/ \E c \in Buckets : ObjectOf(a, c),
         \A a \in live : a \in live' \/ \E c \in Buckets : ObjectOf(a, c)
  PROVE  SpanInv' /\ HomeInv' /\ ListInv' /\ KindInv'
<1>0. TypeOK /\ SpanInv /\ HomeInv /\ ListInv /\ KindInv BY DEF IInv
<1>1. /\ \A p, b : InClass(p, b)' <=> InClass(p, b)
      /\ \A p, b : AtHome(p, b)' = AtHome(p, b)
      /\ \A a, b : ObjectOf(a, b)' <=> ObjectOf(a, b)
      /\ \A a : BigAt(a)' <=> BigAt(a)
      /\ Used' = Used
  BY CentralStays
<1>2. UNCHANGED spanVars /\ UNCHANGED span_list_ OBVIOUS
<1>3. SpanInv'
  <2>1. \A p \in Used : (\E b \in Buckets : InClass(p, b)) \/ p * PageUnits \in live'
    <3>1. SUFFICES ASSUME NEW p \in Used, \A b \in Buckets : ~InClass(p, b)
                   PROVE  p * PageUnits \in live'
      OBVIOUS
    <3>2. p * PageUnits \in live BY <1>0, <3>1 DEF SpanInv
    <3>3. BigAt(p * PageUnits) BY <3>1 DEF BigAt
    <3>4. \A c \in Buckets : ~ObjectOf(p * PageUnits, c) BY <1>0, <3>3, BigNowhere
    <3>5. QED BY <3>2, <3>4
  <2>2. QED BY <1>0, <1>1, <1>2, <2>1 DEF SpanInv, spanVars
<1>4. HomeInv'
  <2>1. \A p \in Pages, b \in Buckets :
          /\ Elements(AtHome(p, b))' = Elements(AtHome(p, b))
          /\ Distinct(AtHome(p, b))' <=> Distinct(AtHome(p, b))
    BY <1>1 DEF Elements, Distinct
  <2>2. \A p \in Pages, b \in Buckets : Elements(Objects(p, b))' = Elements(Objects(p, b))
    BY DEF Elements, Objects
  <2>3. \A p \in Pages : /\ allocated_num_'[p] = allocated_num_[p]
                         /\ span_free_list_'[p] = span_free_list_[p]
    BY <1>2 DEF spanVars
  <2>4. QED BY <1>0, <1>1, <2>1, <2>2, <2>3 DEF HomeInv
<1>5. ListInv' BY <1>0, <1>2 DEF ListInv, spanVars, Full
<1>6. KindInv'
  <2>1. \A a \in live' : (\E b \in Buckets : ObjectOf(a, b)) \/ BigAt(a)
    BY <1>0 DEF KindInv
  <2>2. \A b \in Buckets, p \in Pages : InClass(p, b) =>
          \A a \in Elements(Objects(p, b)) : Held(a)'
    BY <1>0 DEF KindInv
  <2>3. QED BY <1>1, <2>1, <2>2 DEF KindInv, Elements, Objects
<1>7. QED BY <1>3, <1>4, <1>5, <1>6

(* All of the invariant but the types and the places of the threads.       *)
Kept == SpanInv /\ HomeInv /\ ListInv /\ Disjoint /\ NoneTwice /\ KindInv

(* Thread t and the program exchange objects of class b: l and s are the   *)
(* list and the batch of t afterwards.                                     *)
LEMMA ThreadMoves ==
  ASSUME IInv, UNCHANGED <<span_list_, spanVars>>, NEW t \in Threads, NEW b \in Buckets,
         NEW l \in Seq(Addresses), NEW s \in Seq(Addresses), Distinct(l), Distinct(s),
         free_list_' = [free_list_ EXCEPT ![t][b] = l],
         batch' = [batch EXCEPT ![t] = s],
         Elements(l) \cap Elements(s) = {}, Elements(l) \cap live' = {},
         Elements(s) \cap live' = {},
         live' \cup Elements(l) \cup Elements(s)
           = live \cup Elements(free_list_[t][b]) \cup Elements(batch[t]),
         \A a \in Elements(l) : ObjectOf(a, b),
         \A a \in Elements(s) : ObjectOf(a, bucket_index'[t]),
         bucket_index'[t] \in Buckets,
         \A u \in Threads : u # t => bucket_index'[u] = bucket_index[u]
  PROVE  Kept'
<1>0. /\ TypeOK /\ SpanInv /\ HomeInv /\ ListInv /\ KindInv /\ Disjoint /\ NoneTwice
  BY DEF IInv
<1> DEFINE L == <<"live", 0, 0>>
           F == <<"list", t, b>>
           B == <<"batch", t, 0>>
           From == {L, F, B}
           X == live \cup Elements(free_list_[t][b]) \cup Elements(batch[t])
<1>1. From \subseteq Containers /\ L # F /\ L # B /\ F # B BY Kinds
<1>2. Contents(L) = live /\ Contents(F) = Elements(free_list_[t][b])
      /\ Contents(B) = Elements(batch[t])
  BY Seen
<1>3. /\ free_list_'[t][b] = l /\ batch'[t] = s
      /\ \A u \in Threads, c \in Buckets : u # t \/ c # b => free_list_'[u][c] = free_list_[u][c]
      /\ \A u \in Threads : u # t => batch'[u] = batch[u]
  BY <1>0 DEF TypeOK
<1>4. Contents(L)' = live' /\ Contents(F)' = Elements(l) /\ Contents(B)' = Elements(s)
  BY <1>3, SeenNext
<1>5. /\ \A p, c : InClass(p, c)' <=> InClass(p, c)
      /\ \A p, c : AtHome(p, c)' = AtHome(p, c)
  BY CentralStays
<1>6. \A d \in Containers \ From : Contents(d)' = Contents(d)
  <2>1. SUFFICES ASSUME NEW d \in Containers, d \notin From PROVE Contents(d)' = Contents(d)
    OBVIOUS
  <2>2. CASE d = L BY <2>1, <2>2
  <2>3. ASSUME NEW u \in Threads, NEW c \in Buckets, d = <<"list", u, c>>
        PROVE  Contents(d)' = Contents(d)
    <3>1. u # t \/ c # b BY <2>1, <2>3
    <3>2. free_list_'[u][c] = free_list_[u][c] BY <3>1, <1>3
    <3>3. QED BY <2>3, <3>2, Seen, SeenNext
  <2>4. ASSUME NEW u \in Threads, d = <<"batch", u, 0>>
        PROVE  Contents(d)' = Contents(d)
    <3>1. u # t BY <2>1, <2>4
    <3>2. batch'[u] = batch[u] BY <3>1, <1>3
    <3>3. QED BY <2>4, <3>2, Seen, SeenNext
  <2>5. ASSUME NEW p \in Pages, NEW c \in Buckets, d = <<"home", p, c>>
        PROVE  Contents(d)' = Contents(d)
    <3>1. Elements(AtHome(p, c))' = Elements(AtHome(p, c)) BY <1>5 DEF Elements
    <3>2. Contents(d)' = IF InClass(p, c)' THEN Elements(AtHome(p, c))' ELSE {}
      BY <2>5, SeenNext
    <3>3. Contents(d) = IF InClass(p, c) THEN Elements(AtHome(p, c)) ELSE {}
      BY <2>5, Seen
    <3>4. QED BY <3>1, <3>2, <3>3, <1>5
  <2>6. QED BY <2>1, <2>2, <2>3, <2>4, <2>5, Kinds
<1>7. \A d \in Containers \ From : Contents(d) \cap X = {}
  BY <1>0, <1>1, <1>2 DEF Disjoint
<1>8. \A c \in From : Contents(c) \subseteq X /\ Contents(c)' \subseteq X
  BY <1>2, <1>4
<1>9. \A c, d \in From : c # d => Contents(c)' \cap Contents(d)' = {}
  <2> HIDE DEF L, F, B
  <2>1. SUFFICES ASSUME NEW c \in From, NEW d \in From, c # d
                 PROVE  Contents(c)' \cap Contents(d)' = {}
    OBVIOUS
  <2>2. CASE c = L BY <2>1, <2>2, <1>4
  <2>3. CASE c = F BY <2>1, <2>3, <1>4
  <2>4. CASE c = B BY <2>1, <2>4, <1>4
  <2>5. QED BY <2>2, <2>3, <2>4
<1>10. \A a \in X : \E c \in From : a \in Contents(c)'
  BY <1>4
<1>11. Disjoint' /\ \A a : Held(a) => Held(a)'
  <2> HIDE DEF L, F, B, From, X
  <2>1. From \in SUBSET Containers BY <1>1
  <2>2. \A d \in Containers \ From : Contents(d)' = Contents(d) /\ Contents(d) \cap X = {}
    BY <1>6, <1>7
  <2>3. /\ Disjoint'
        /\ \A a : Held(a) \/ a \in X => Held(a)'
    BY <1>0, <2>1, <2>2, <1>8, <1>9, <1>10, Moving
  <2>4. QED BY <2>3
<1>12. NoneTwice' BY <1>0, <1>3 DEF NoneTwice, Distinct
<1>13. \A u \in Threads, c \in Buckets : \A a \in Elements(free_list_'[u][c]) : ObjectOf(a, c)
  BY <1>0, <1>3 DEF KindInv
<1>14. \A u \in Threads : \A a \in Elements(batch'[u]) : ObjectOf(a, bucket_index'[u])
  BY <1>0, <1>3 DEF KindInv
<1>15. \A a \in X : a \in live \/ \E c \in Buckets : ObjectOf(a, c)
  <2>1. \A u \in Threads : bucket_index[u] \in Buckets BY <1>0 DEF TypeOK
  <2>2. QED BY <1>0, <2>1 DEF KindInv
<1>16. \A a \in live : a \in live' \/ \E c \in Buckets : ObjectOf(a, c)
  OBVIOUS
<1>17. SpanInv' /\ HomeInv' /\ ListInv' /\ KindInv'
  BY <1>11, <1>13, <1>14, <1>15, <1>16, Handed
<1>18. QED BY <1>11, <1>12, <1>17 DEF Kept

LEMMA Apart ==
  ASSUME IInv, NEW t \in Threads, NEW b \in Buckets
  PROVE  /\ free_list_[t][b] \in Seq(Addresses) /\ batch[t] \in Seq(Addresses)
         /\ Distinct(free_list_[t][b]) /\ Distinct(batch[t])
         /\ Elements(free_list_[t][b]) \cap Elements(batch[t]) = {}
         /\ Elements(free_list_[t][b]) \cap live = {}
         /\ Elements(batch[t]) \cap live = {}
         /\ \A a \in Elements(free_list_[t][b]) : ObjectOf(a, b)
         /\ \A a \in Elements(batch[t]) : ObjectOf(a, bucket_index[t])
<1>1. TypeOK /\ KindInv /\ Disjoint /\ NoneTwice BY DEF IInv
<1> DEFINE L == <<"live", 0, 0>>
           F == <<"list", t, b>>
           B == <<"batch", t, 0>>
<1>2. L \in Containers /\ F \in Containers /\ B \in Containers BY Kinds
<1>3. L # F /\ L # B /\ F # B OBVIOUS
<1>4. /\ Contents(L) = live /\ Contents(F) = Elements(free_list_[t][b])
      /\ Contents(B) = Elements(batch[t])
  BY Seen
<1> HIDE DEF L, F, B
<1>5. /\ Contents(F) \cap Contents(B) = {} /\ Contents(F) \cap Contents(L) = {}
      /\ Contents(B) \cap Contents(L) = {}
  BY <1>1, <1>2, <1>3 DEF Disjoint
<1>6. QED BY <1>1, <1>4, <1>5 DEF TypeOK, KindInv, NoneTwice

LEMMA Unmoved ==
  ASSUME IInv, UNCHANGED <<free_list_, batch, live, span_list_, spanVars>>,
         NEW t \in Threads, bucket_index'[t] \in Buckets,
         \A u \in Threads : u # t => bucket_index'[u] = bucket_index[u],
         batch[t] = <<>> \/ bucket_index'[t] = bucket_index[t]
  PROVE  Kept'
<1>1. PICK b \in Buckets : b = 1 BY ClassFacts
<1>2. TypeOK BY DEF IInv
<1> DEFINE l == free_list_[t][b]
           s == batch[t]
<1>3. /\ l \in Seq(Addresses) /\ s \in Seq(Addresses) /\ Distinct(l) /\ Distinct(s)
      /\ Elements(l) \cap Elements(s) = {} /\ Elements(l) \cap live' = {}
      /\ Elements(s) \cap live' = {}
      /\ \A a \in Elements(l) : ObjectOf(a, b)
      /\ \A a \in Elements(s) : ObjectOf(a, bucket_index[t])
  BY Apart
<1>4. free_list_' = [free_list_ EXCEPT ![t][b] = l] /\ batch' = [batch EXCEPT ![t] = s]
  BY <1>2 DEF TypeOK
<1>5. \A a \in Elements(s) : ObjectOf(a, bucket_index'[t])
  <2>1. CASE batch[t] = <<>>
    <3>1. Elements(s) = {} BY <2>1 DEF Elements
    <3>2. QED BY <3>1
  <2>2. CASE bucket_index'[t] = bucket_index[t] BY <2>2, <1>3
  <2>3. QED BY <2>1, <2>2
<1>6. live' \cup Elements(l) \cup Elements(s)
        = live \cup Elements(free_list_[t][b]) \cup Elements(batch[t])
  OBVIOUS
<1> HIDE DEF l, s
<1>7. QED BY <1>3, <1>4, <1>5, <1>6, ThreadMoves

LEMMA AllocateCachedKept ==
  ASSUME IInv, NEW t \in Threads, NEW n \in Asked, AllocateCached(t, n)
  PROVE  Kept'
<1> DEFINE b == ClassOf(n)
           f == free_list_[t][b]
           l == Tail(f)
           s == batch[t]
<1>0. TypeOK BY DEF IInv
<1>1. b \in Buckets /\ f # <<>>
  BY AskedFacts, ClassOfSize DEF AllocateCached
<1>2. /\ free_list_' = [free_list_ EXCEPT ![t][b] = l]
      /\ live' = live \cup {Head(f)}
      /\ UNCHANGED <<span_list_, spanVars>> /\ UNCHANGED <<batch, bucket_index>>
  BY DEF AllocateCached, centralVars, callVars
<1> HIDE DEF b
<1>3. /\ f \in Seq(Addresses) /\ s \in Seq(Addresses) /\ Distinct(f) /\ Distinct(s)
      /\ Elements(f) \cap Elements(s) = {} /\ Elements(f) \cap live = {}
      /\ Elements(s) \cap live = {}
      /\ \A a \in Elements(f) : ObjectOf(a, b)
      /\ \A a \in Elements(s) : ObjectOf(a, bucket_index[t])
  BY <1>1, Apart
<1>4. batch' = [batch EXCEPT ![t] = s] BY <1>0, <1>2 DEF TypeOK
<1>5. bucket_index'[t] \in Buckets /\ bucket_index' = bucket_index BY <1>0, <1>2 DEF TypeOK
<1> HIDE DEF f
<1>6. /\ l \in Seq(Addresses) /\ Elements(f) = {Head(f)} \cup Elements(l)
      /\ Distinct(l) /\ Head(f) \notin Elements(l)
  BY <1>1, <1>3, HeadTail
<1> HIDE DEF l, s
<1>7. /\ Elements(l) \cap Elements(s) = {} /\ Elements(l) \cap live' = {}
      /\ Elements(s) \cap live' = {}
  BY <1>2, <1>3, <1>6
<1>8. live' \cup Elements(l) \cup Elements(s)
        = live \cup Elements(free_list_[t][b]) \cup Elements(batch[t])
  BY <1>2, <1>6 DEF f, s
<1>9. /\ \A a \in Elements(l) : ObjectOf(a, b)
      /\ \A a \in Elements(s) : ObjectOf(a, bucket_index'[t])
  BY <1>3, <1>5, <1>6
<1>10. QED BY <1>1, <1>2, <1>3, <1>4, <1>5, <1>6, <1>7, <1>8, <1>9, ThreadMoves

LEMMA Halves ==
  ASSUME NEW r \in Seq(Addresses), NEW n \in Nat, Distinct(r)
  PROVE  LET k == Smaller(n, Len(r))
             l == Without(r, k)
             s == Front(r, k)
         IN  /\ l \in Seq(Addresses) /\ s \in Seq(Addresses) /\ Distinct(l) /\ Distinct(s)
             /\ Elements(l) \cap Elements(s) = {}
             /\ Elements(r) = Elements(l) \cup Elements(s)
             /\ n # 0 /\ r # <<>> => s # <<>>
<1> DEFINE k == Smaller(n, Len(r))
<1>1. k \in 0..Len(r) /\ (n # 0 /\ Len(r) # 0 => k # 0) BY DEF Smaller
<1>2. r # <<>> => Len(r) # 0 OBVIOUS
<1> HIDE DEF k
<1>3. /\ Without(r, k) \in Seq(Addresses) /\ Front(r, k) \in Seq(Addresses)
      /\ Distinct(Without(r, k)) /\ Distinct(Front(r, k))
      /\ Elements(Front(r, k)) \cap Elements(Without(r, k)) = {}
      /\ Elements(r) = Elements(Front(r, k)) \cup Elements(Without(r, k))
      /\ Len(Front(r, k)) = k
  BY <1>1, Cut
<1>4. n # 0 /\ r # <<>> => Front(r, k) # <<>> BY <1>1, <1>2, <1>3
<1>5. QED BY <1>3, <1>4 DEF k

LEMMA FreeKept ==
  ASSUME IInv, ~FreesBig, NEW t \in Threads, NEW a \in live, Free(t, a)
  PROVE  Kept'
<1> DEFINE b    == ClassOf(object_size_[SpanOf(a)])
           f    == free_list_[t][b]
           list == <<a>> \o f
           k    == Smaller(MoveNum[b], Len(list))
<1>0. TypeOK /\ SpanInv /\ KindInv /\ CallInv BY DEF IInv
<1>1. b \in Buckets /\ ObjectOf(a, b) BY <1>0, Freed DEF Free
<1>2. /\ At(t, "idle") /\ live' = live \ {a}
      /\ \/ /\ free_list_' = [free_list_ EXCEPT ![t][b] = list]
            /\ UNCHANGED <<pc, bucket_index, batch>>
         \/ /\ free_list_' = [free_list_ EXCEPT ![t][b] = Without(list, k)]
            /\ batch' = [batch EXCEPT ![t] = Front(list, k)]
            /\ bucket_index' = [bucket_index EXCEPT ![t] = b]
      /\ UNCHANGED <<span_list_, spanVars>>
  BY DEF Free, centralVars
<1> HIDE DEF b
<1>3. /\ f \in Seq(Addresses) /\ Distinct(f) /\ batch[t] \in Seq(Addresses) /\ Distinct(batch[t])
      /\ Elements(f) \cap Elements(batch[t]) = {} /\ Elements(f) \cap live = {}
      /\ Elements(batch[t]) \cap live = {}
      /\ \A x \in Elements(f) : ObjectOf(x, b)
      /\ \A x \in Elements(batch[t]) : ObjectOf(x, bucket_index[t])
  BY <1>1, Apart
<1>4. batch[t] = <<>> /\ Elements(batch[t]) = {}
  <2>1. batch[t] = <<>> BY <1>0, <1>2 DEF CallInv, At
  <2>2. QED BY <2>1 DEF Elements
<1>5. /\ list \in Seq(Addresses) /\ Elements(list) = {a} \cup Elements(f) /\ Distinct(list)
  <2>1. a \in Addresses /\ a \notin Elements(f) BY <1>0, <1>3 DEF TypeOK
  <2> HIDE DEF f
  <2>2. QED BY <2>1, <1>3, Pushed
<1>6. Elements(f) = Elements(free_list_[t][b]) OBVIOUS
<1>7. MoveNum[b] \in Nat BY <1>1, ClassFacts
<1> HIDE DEF f, list
<1>8. CASE /\ free_list_' = [free_list_ EXCEPT ![t][b] = list]
           /\ UNCHANGED <<pc, bucket_index, batch>>
  <2>1. batch' = [batch EXCEPT ![t] = batch[t]] BY <1>0, <1>8 DEF TypeOK
  <2>2. /\ bucket_index'[t] \in Buckets
        /\ \A u \in Threads : u # t => bucket_index'[u] = bucket_index[u]
    BY <1>0, <1>8 DEF TypeOK
  <2>3. /\ Elements(list) \cap Elements(batch[t]) = {} /\ Elements(list) \cap live' = {}
        /\ Elements(batch[t]) \cap live' = {}
    BY <1>2, <1>3, <1>4, <1>5
  <2>4. live' \cup Elements(list) \cup Elements(batch[t])
          = live \cup Elements(free_list_[t][b]) \cup Elements(batch[t])
    BY <1>2, <1>5, <1>6
  <2>5. /\ \A x \in Elements(list) : ObjectOf(x, b)
        /\ \A x \in Elements(batch[t]) : ObjectOf(x, bucket_index'[t])
    BY <1>1, <1>3, <1>4, <1>5
  <2>6. QED BY <1>1, <1>2, <1>3, <1>5, <1>8, <2>1, <2>2, <2>3, <2>4, <2>5, ThreadMoves
<1>9. CASE /\ free_list_' = [free_list_ EXCEPT ![t][b] = Without(list, k)]
           /\ batch' = [batch EXCEPT ![t] = Front(list, k)]
           /\ bucket_index' = [bucket_index EXCEPT ![t] = b]
  <2> DEFINE l == Without(list, k)
             s == Front(list, k)
  <2>1. /\ l \in Seq(Addresses) /\ s \in Seq(Addresses) /\ Distinct(l) /\ Distinct(s)
        /\ Elements(l) \cap Elements(s) = {}
        /\ Elements(list) = Elements(l) \cup Elements(s)
    BY <1>5, <1>7, Halves
  <2>2. free_list_' = [free_list_ EXCEPT ![t][b] = l] /\ batch' = [batch EXCEPT ![t] = s]
    BY <1>9
  <2>3. /\ bucket_index'[t] = b
        /\ \A u \in Threads : u # t => bucket_index'[u] = bucket_index[u]
    BY <1>0, <1>9 DEF TypeOK
  <2> HIDE DEF l, s
  <2>4. Elements(l) \cap live' = {} /\ Elements(s) \cap live' = {}
    BY <1>2, <1>3, <1>5, <2>1
  <2>5. live' \cup Elements(l) \cup Elements(s)
          = live \cup Elements(free_list_[t][b]) \cup Elements(batch[t])
    BY <1>2, <1>4, <1>5, <1>6, <2>1
  <2>6. /\ \A x \in Elements(l) : ObjectOf(x, b)
        /\ \A x \in Elements(s) : ObjectOf(x, bucket_index'[t])
    BY <1>1, <1>3, <1>5, <2>1, <2>3
  <2>7. bucket_index'[t] \in Buckets BY <1>1, <2>3
  <2>8. QED BY <1>1, <1>2, <2>1, <2>2, <2>3, <2>4, <2>5, <2>6, <2>7, ThreadMoves
<1>10. QED BY <1>2, <1>8, <1>9

LEMMA ClearKept ==
  ASSUME IInv, NEW t \in Threads, Clear(t)
  PROVE  Kept'
<1>0. TypeOK /\ CallInv BY DEF IInv
<1>1. At(t, "clear") /\ UNCHANGED <<span_list_, spanVars>> /\ UNCHANGED live
  BY DEF Clear, centralVars
<1>2. batch[t] = <<>> /\ Elements(batch[t]) = {}
  <2>1. batch[t] = <<>> BY <1>0, <1>1 DEF CallInv, At
  <2>2. QED BY <2>1 DEF Elements
<1>3. ASSUME NEW b \in Unreleased(t),
             NEW k, k = Smaller(MoveNum[b], Len(free_list_[t][b])),
             bucket_index' = [bucket_index EXCEPT ![t] = b],
             batch' = [batch EXCEPT ![t] = Front(free_list_[t][b], k)],
             free_list_' = [free_list_ EXCEPT ![t][b] = Without(@, k)]
      PROVE  Kept'
  <2> DEFINE f == free_list_[t][b]
             l == Without(f, k)
             s == Front(f, k)
  <2>1. b \in Buckets /\ MoveNum[b] \in Nat BY ClassFacts DEF Unreleased
  <2>2. /\ f \in Seq(Addresses) /\ Distinct(f) /\ Elements(f) \cap live = {}
        /\ \A x \in Elements(f) : ObjectOf(x, b)
    BY <2>1, Apart
  <2>3. free_list_' = [free_list_ EXCEPT ![t][b] = l] /\ batch' = [batch EXCEPT ![t] = s]
    BY <1>3
  <2>4. Elements(f) = Elements(free_list_[t][b]) /\ k = Smaller(MoveNum[b], Len(f)) BY <1>3
  <2> HIDE DEF f
  <2>5. /\ l \in Seq(Addresses) /\ s \in Seq(Addresses) /\ Distinct(l) /\ Distinct(s)
        /\ Elements(l) \cap Elements(s) = {}
        /\ Elements(f) = Elements(l) \cup Elements(s)
    BY <2>1, <2>2, <2>4, Halves
  <2>6. /\ bucket_index'[t] = b
        /\ \A u \in Threads : u # t => bucket_index'[u] = bucket_index[u]
    BY <1>0, <1>3 DEF TypeOK
  <2> HIDE DEF l, s
  <2>7. Elements(l) \cap live' = {} /\ Elements(s) \cap live' = {}
    BY <1>1, <2>2, <2>5
  <2>8. live' \cup Elements(l) \cup Elements(s)
          = live \cup Elements(free_list_[t][b]) \cup Elements(batch[t])
    BY <1>1, <1>2, <2>4, <2>5
  <2>9. /\ \A x \in Elements(l) : ObjectOf(x, b)
        /\ \A x \in Elements(s) : ObjectOf(x, bucket_index'[t])
    BY <2>2, <2>5, <2>6
  <2>10. bucket_index'[t] \in Buckets BY <2>1, <2>6
  <2>11. QED BY <1>1, <2>1, <2>3, <2>5, <2>6, <2>7, <2>8, <2>9, <2>10, ThreadMoves
<1>4. ASSUME Unreleased(t) = {},
             free_list_' = [free_list_ EXCEPT ![t] = [b \in Buckets |-> <<>>]],
             UNCHANGED <<bucket_index, batch>>
      PROVE  Kept'
  <2>1. \A b \in Buckets : free_list_[t][b] = <<>> BY <1>4 DEF Unreleased
  <2>2. free_list_[t] = [b \in Buckets |-> <<>>] BY <2>1, <1>0 DEF TypeOK
  <2>3. UNCHANGED free_list_ BY <2>2, <1>0, <1>4 DEF TypeOK
  <2>4. /\ bucket_index'[t] \in Buckets /\ bucket_index' = bucket_index
    BY <1>0, <1>4 DEF TypeOK
  <2>5. QED BY <1>1, <1>2, <1>4, <2>3, <2>4, Unmoved
<1>5. QED BY <1>3, <1>4 DEF Clear
-----------------------------------------------------------------------------
(* Steps of the central cache: RemoveRange on a span of the list, or on a  *)
(* new one.                                                                *)

LEMMA FullSame ==
  ASSUME NEW s \in Seq(Pages), NEW p, p \notin Elements(s), NEW F, NEW G, FullLast(s, F),
         \A q \in Pages : q # p => (q \in F <=> q \in G)
  PROVE  FullLast(s, G)
<1>1. \A i \in DOMAIN s : s[i] \in Pages /\ s[i] # p BY DEF Elements
<1>2. QED BY <1>1 DEF FullLast

(* Span p, of class b from now on, gets the list of objects f, of which    *)
(* those of r are at home; the program gets o and thread t the objects l.  *)
LEMMA Spread ==
  ASSUME IInv, NEW t \in Threads, NEW b \in Buckets, NEW p \in Pages,
         NEW o, NEW l \in Seq(Addresses), NEW r \in Seq(Addresses),
         NEW f \in Seq(Addresses \cup {Stale}), NEW s \in Seq(Pages),
         NEW A \in 1..ObjectsNum(b), NEW X,
         X \subseteq Elements(Objects(p, b)), X = o \cup Elements(l) \cup Elements(r),
         o \cap Elements(l) = {}, o \cap Elements(r) = {}, Elements(l) \cap Elements(r) = {},
         Distinct(l), Distinct(r),
         \A c \in Containers : c # <<"home", p, b>> => Contents(c) \cap X = {},
         Contents(<<"home", p, b>>) \subseteq X,
         \A a \in Elements(Objects(p, b)) : a \in X \/ Held(a),
         r = Front(f, ObjectsNum(b) - A), ObjectsNum(b) - A <= Len(f),
         Elements(s) = Elements(span_list_[b]) \cup {p}, Distinct(s), FullLast(s, Full(b)'),
         \A c \in Buckets : c # b => ~InClass(p, c),
         p \in Used => InClass(p, b),
         Run(p, ClassPages[b]) \subseteq Pages,
         \A q \in Used : q # p => Run(q, pages_num_[q]) \cap Run(p, ClassPages[b]) = {},
         pages_num_' = [pages_num_ EXCEPT ![p] = ClassPages[b]],
         object_size_' = [object_size_ EXCEPT ![p] = ClassSize[b]],
         allocated_num_' = [allocated_num_ EXCEPT ![p] = A],
         span_free_list_' = [span_free_list_ EXCEPT ![p] = f],
         span_list_' = [span_list_ EXCEPT ![b] = s],
         live' = live \cup o,
         free_list_' = [free_list_ EXCEPT ![t][b] = l \o @],
         UNCHANGED batch,
         \A u \in Threads : batch[u] = <<>> \/ bucket_index'[u] = bucket_index[u]
  PROVE  Kept'
<1>0. /\ TypeOK /\ SpanInv /\ HomeInv /\ ListInv /\ KindInv /\ Disjoint /\ NoneTwice
  BY DEF IInv
<1> DEFINE g == free_list_[t][b]
           N == ObjectsNum(b)
<1>1. /\ \A q \in Pages : q # p => /\ pages_num_'[q] = pages_num_[q]
                                   /\ object_size_'[q] = object_size_[q]
                                   /\ allocated_num_'[q] = allocated_num_[q]
                                   /\ span_free_list_'[q] = span_free_list_[q]
      /\ pages_num_'[p] = ClassPages[b] /\ object_size_'[p] = ClassSize[b]
      /\ allocated_num_'[p] = A /\ span_free_list_'[p] = f
  BY <1>0 DEF TypeOK
<1>2. /\ span_list_'[b] = s
      /\ \A c \in Buckets : c # b => span_list_'[c] = span_list_[c]
  BY <1>0 DEF TypeOK
<1>3. \A q \in Pages, c \in Buckets : InClass(q, c)' <=> InClass(q, c) \/ (q = p /\ c = b)
  <2>1. \A q \in Pages, c \in Buckets : InClass(q, c)' <=> q \in Elements(span_list_'[c])
    BY DEF InClass, Elements
  <2>2. \A q \in Pages : InClass(q, b)' <=> InClass(q, b) \/ q = p
    BY <1>2, <2>1 DEF InClass
  <2>3. \A q \in Pages, c \in Buckets : c # b => (InClass(q, c)' <=> InClass(q, c))
    BY <1>2, <2>1 DEF InClass
  <2>4. QED BY <2>2, <2>3
<1>4. /\ free_list_'[t][b] = l \o g
      /\ \A u \in Threads, c \in Buckets : u # t \/ c # b => free_list_'[u][c] = free_list_[u][c]
  BY <1>0 DEF TypeOK
<1>5. /\ g \in Seq(Addresses) /\ Distinct(g) /\ \A a \in Elements(g) : ObjectOf(a, b)
  BY Apart
<1>6. Used' = Used \cup {p}
  <2>1. ClassPages[b] \in Nat \ {0} BY ClassFacts
  <2>2. ClassPages[b] > 0 BY <2>1
  <2>3. QED BY <1>1, <2>2 DEF Used
<1>7. AtHome(p, b)' = r /\ \A q \in Pages, c \in Buckets : q # p => AtHome(q, c)' = AtHome(q, c)
  BY <1>1 DEF AtHome
<1>8. N \in Nat \ {0} BY ObjectsCount
<1>9. SpanInv'
  <2>1. \A q \in Used' : Run(q, pages_num_'[q]) \subseteq Pages
    BY <1>0, <1>1, <1>6 DEF SpanInv, Used
  <2>2. ASSUME NEW q \in Used', NEW w \in Used', q # w
        PROVE  Run(q, pages_num_'[q]) \cap Run(w, pages_num_'[w]) = {}
    <3>1. CASE q = p
      <4>1. w \in Used /\ w \in Pages BY <1>6, <2>2, <3>1 DEF Used
      <4>2. QED BY <4>1, <3>1, <2>2, <1>1
    <3>2. CASE w = p
      <4>1. q \in Used /\ q \in Pages BY <1>6, <2>2, <3>2 DEF Used
      <4>2. QED BY <4>1, <3>2, <2>2, <1>1
    <3>3. CASE q # p /\ w # p
      <4>1. q \in Used /\ w \in Used /\ q \in Pages /\ w \in Pages
        BY <1>6, <3>3 DEF Used
      <4>2. QED BY <4>1, <3>3, <2>2, <1>0, <1>1 DEF SpanInv
    <3>4. QED BY <3>1, <3>2, <3>3
  <2>3. ASSUME NEW c \in Buckets, NEW q \in Pages, InClass(q, c)'
        PROVE  pages_num_'[q] = ClassPages[c] /\ object_size_'[q] = ClassSize[c]
    <3>1. CASE q = p
      <4>1. c = b BY <1>3, <2>3, <3>1
      <4>2. QED BY <3>1, <4>1, <1>1
    <3>2. CASE q # p
      <4>1. InClass(q, c) BY <1>3, <2>3, <3>2
      <4>2. QED BY <3>2, <4>1, <1>0, <1>1 DEF SpanInv
    <3>3. QED BY <3>1, <3>2
  <2>4. ASSUME NEW q \in Used'
        PROVE  (\E c \in Buckets : InClass(q, c)') \/ q * PageUnits \in live'
    <3>1. CASE q = p BY <3>1, <1>3
    <3>2. CASE q # p
      <4>1. q \in Used /\ q \in Pages BY <3>2, <1>6 DEF Used
      <4>2. (\E c \in Buckets : InClass(q, c)) \/ q * PageUnits \in live
        BY <4>1, <1>0 DEF SpanInv
      <4>3. QED BY <4>1, <4>2, <1>3
    <3>3. QED BY <3>1, <3>2
  <2>5. QED BY <2>1, <2>2, <2>3, <2>4 DEF SpanInv
<1>10. HomeInv'
  <2>1. ASSUME NEW c \in Buckets, NEW q \in Pages, InClass(q, c)'
        PROVE  /\ allocated_num_'[q] \in 1..ObjectsNum(c)
               /\ ObjectsNum(c) - allocated_num_'[q] <= Len(span_free_list_'[q])
               /\ Distinct(AtHome(q, c)')
               /\ Elements(AtHome(q, c)') \subseteq Elements(Objects(q, c))
    <3>1. CASE q = p
      <4>1. c = b BY <1>3, <2>1, <3>1
      <4>2. Elements(r) \subseteq Elements(Objects(p, b)) OBVIOUS
      <4>3. QED BY <3>1, <4>1, <4>2, <1>1, <1>7
    <3>2. CASE q # p
      <4>1. InClass(q, c) BY <1>3, <2>1, <3>2
      <4>2. QED BY <3>2, <4>1, <1>0, <1>1, <1>7 DEF HomeInv
    <3>3. QED BY <3>1, <3>2
  <2>2. \A q \in Pages, c \in Buckets : /\ Elements(AtHome(q, c))' = Elements(AtHome(q, c)')
                                        /\ Distinct(AtHome(q, c))' = Distinct(AtHome(q, c)')
                                        /\ Elements(Objects(q, c))' = Elements(Objects(q, c))
                                        /\ ObjectsNum(c)' = ObjectsNum(c)
    BY DEF Elements, Distinct, Objects, ObjectsNum
  <2>3. QED BY <2>1, <2>2 DEF HomeInv
<1>11. ListInv'
  <2>1. ASSUME NEW c \in Buckets
        PROVE  Distinct(span_list_'[c]) /\ FullLast(span_list_'[c], Full(c)')
    <3>1. CASE c = b BY <3>1, <1>2
    <3>2. CASE c # b
      <4>1. span_list_[c] \in Seq(Pages) /\ p \notin Elements(span_list_[c])
        BY <3>2, <1>0 DEF TypeOK, InClass
      <4>2. Distinct(span_list_[c]) /\ FullLast(span_list_[c], Full(c)) BY <1>0 DEF ListInv
      <4>3. \A q \in Pages : q # p => (q \in Full(c) <=> q \in Full(c)') BY <1>1 DEF Full
      <4>4. FullLast(span_list_[c], Full(c)') BY <4>1, <4>2, <4>3, FullSame
      <4>5. QED BY <3>2, <4>2, <4>4, <1>2
    <3>3. QED BY <3>1, <3>2
  <2>2. \A c \in Buckets : /\ Distinct(span_list_[c])' <=> Distinct(span_list_'[c])
                           /\ FullLast(span_list_[c], Full(c))' <=> FullLast(span_list_'[c], Full(c)')
    BY DEF Distinct, FullLast
  <2>3. QED BY <2>1, <2>2 DEF ListInv
<1> DEFINE L == <<"live", 0, 0>>
           F == <<"list", t, b>>
           P == <<"home", p, b>>
           From == {L, F, P}
           Y == live \cup Elements(g) \cup X
<1>12. From \subseteq Containers /\ L # F /\ L # P /\ F # P BY Kinds
<1>13. Elements(l \o g) = Elements(l) \cup Elements(g)
       /\ (Elements(l) \cap Elements(g) = {} => Distinct(l \o g))
  BY <1>5, Joined
<1>14. /\ Contents(L) = live /\ Contents(F) = Elements(g) /\ Contents(P) \subseteq X
       /\ Contents(L)' = live \cup o /\ Contents(F)' = Elements(l) \cup Elements(g)
       /\ Contents(P)' = Elements(r)
  <2>6. Contents(F)' = Elements(free_list_'[t][b]) BY SeenNext
  <2>1. Contents(F)' = Elements(l \o g) BY <2>6, <1>4
  <2>2. InClass(p, b)' BY <1>3
  <2>3. Contents(P)' = Elements(AtHome(p, b))' BY <2>2, SeenNext
  <2>4. Elements(AtHome(p, b))' = Elements(r) BY <1>7 DEF Elements
  <2>5. QED BY <2>1, <2>3, <2>4, <1>13, Seen, SeenNext
<1>15. \A d \in Containers \ From : Contents(d)' = Contents(d)
  <2>1. SUFFICES ASSUME NEW d \in Containers, d \notin From PROVE Contents(d)' = Contents(d)
    OBVIOUS
  <2>2. CASE d = L BY <2>1, <2>2
  <2>3. ASSUME NEW u \in Threads, NEW c \in Buckets, d = <<"list", u, c>>
        PROVE  Contents(d)' = Contents(d)
    <3>1. u # t \/ c # b BY <2>1, <2>3
    <3>2. free_list_'[u][c] = free_list_[u][c] BY <3>1, <1>4
    <3>3. QED BY <2>3, <3>2, Seen, SeenNext
  <2>4. ASSUME NEW u \in Threads, d = <<"batch", u, 0>>
        PROVE  Contents(d)' = Contents(d)
    BY <2>4, Seen, SeenNext
  <2>5. ASSUME NEW q \in Pages, NEW c \in Buckets, d = <<"home", q, c>>
        PROVE  Contents(d)' = Contents(d)
    <3>1. Contents(d)' = IF InClass(q, c)' THEN Elements(AtHome(q, c))' ELSE {}
      BY <2>5, SeenNext
    <3>2. Contents(d) = IF InClass(q, c) THEN Elements(AtHome(q, c)) ELSE {}
      BY <2>5, Seen
    <3>3. q # p \/ c # b BY <2>1, <2>5
    <3>4. CASE q = p
      <4>1. ~InClass(q, c) /\ ~InClass(q, c)' BY <3>3, <3>4, <1>3
      <4>2. QED BY <3>1, <3>2, <4>1
    <3>5. CASE q # p
      <4>1. InClass(q, c)' <=> InClass(q, c) BY <3>5, <1>3
      <4>2. Elements(AtHome(q, c))' = Elements(AtHome(q, c)) BY <3>5, <1>7 DEF Elements
      <4>3. QED BY <3>1, <3>2, <4>1, <4>2
    <3>6. QED BY <3>4, <3>5
  <2>6. QED BY <2>1, <2>2, <2>3, <2>4, <2>5, Kinds
<1>16. live \cap Elements(g) = {} /\ live \cap X = {} /\ Elements(g) \cap X = {}
  <2>1. live \cap Elements(g) = {} BY Apart
  <2>2. L \in Containers /\ F \in Containers /\ L # P /\ F # P BY <1>12
  <2> HIDE DEF L, F
  <2>3. Contents(L) \cap X = {} /\ Contents(F) \cap X = {} BY <2>2
  <2>4. QED BY <2>1, <2>3, <1>14
<1>17. Disjoint' /\ \A a : Held(a) \/ a \in X => Held(a)'
  <2>1. From \in SUBSET Containers BY <1>12
  <2>2. \A d \in Containers \ From : Contents(d) \cap Y = {}
    <3>1. SUFFICES ASSUME NEW d \in Containers, d \notin From PROVE Contents(d) \cap Y = {}
      OBVIOUS
    <3>2. d # L /\ d # F /\ d # P BY <3>1
    <3>3. Contents(d) \cap X = {} BY <3>2
    <3> HIDE DEF L, F, P
    <3>4. Contents(d) \cap Contents(L) = {} /\ Contents(d) \cap Contents(F) = {}
      BY <1>0, <1>12, <3>2 DEF Disjoint
    <3>5. QED BY <3>3, <3>4, <1>14
  <2>3. \A d \in Containers \ From : Contents(d)' = Contents(d) /\ Contents(d) \cap Y = {}
    BY <1>15, <2>2
  <2>4. \A c \in From : Contents(c) \subseteq Y /\ Contents(c)' \subseteq Y BY <1>14
  <2>5. \A c, d \in From : c # d => Contents(c)' \cap Contents(d)' = {}
    <3> HIDE DEF L, F, P
    <3>1. SUFFICES ASSUME NEW c \in From, NEW d \in From, c # d
                   PROVE  Contents(c)' \cap Contents(d)' = {}
      OBVIOUS
    <3>2. /\ Contents(L)' \cap Contents(F)' = {} /\ Contents(L)' \cap Contents(P)' = {}
          /\ Contents(F)' \cap Contents(P)' = {}
      BY <1>14, <1>16
    <3>3. CASE c = L BY <3>1, <3>2, <3>3
    <3>4. CASE c = F BY <3>1, <3>2, <3>4
    <3>5. CASE c = P BY <3>1, <3>2, <3>5
    <3>6. QED BY <3>3, <3>4, <3>5
  <2>6. \A a \in Y : \E c \in From : a \in Contents(c)' BY <1>14
  <2> HIDE DEF L, F, P, From, Y
  <2>7. Disjoint' /\ \A a : Held(a) \/ a \in Y => Held(a)'
    BY <1>0, <2>1, <2>3, <2>4, <2>5, <2>6, Moving
  <2>8. X \subseteq Y BY DEF Y
  <2>9. QED BY <2>7, <2>8
<1>18. NoneTwice'
  <2>1. Distinct(l \o g) BY <1>13, <1>16
  <2>2. ASSUME NEW u \in Threads, NEW c \in Buckets PROVE Distinct(free_list_'[u][c])
    <3>1. CASE u = t /\ c = b BY <3>1, <2>1, <1>4
    <3>2. CASE ~(u = t /\ c = b)
      <4>1. free_list_'[u][c] = free_list_[u][c] BY <3>2, <1>4
      <4>2. QED BY <4>1, <1>0 DEF NoneTwice
    <3>3. QED BY <3>1, <3>2
  <2>3. \A u \in Threads, c \in Buckets : /\ Distinct(free_list_[u][c])' <=> Distinct(free_list_'[u][c])
                                          /\ Distinct(batch[u])' <=> Distinct(batch'[u])
    BY DEF Distinct
  <2>4. \A u \in Threads : Distinct(batch'[u]) BY <1>0 DEF NoneTwice
  <2>5. QED BY <2>2, <2>3, <2>4, ClassFacts DEF NoneTwice
<1>19. \A a, c : ObjectOf(a, c)' <=> \E q \in Pages : InClass(q, c)' /\ a \in Elements(Objects(q, c))
  BY DEF ObjectOf, Elements, Objects
<1>20. \A a : \A c \in Buckets : ObjectOf(a, c) => ObjectOf(a, c)'
  BY <1>3, <1>19 DEF ObjectOf
<1>21. \A a \in X : ObjectOf(a, b)' BY <1>3, <1>19
<1>22. KindInv'
  <2>1. ASSUME NEW u \in Threads, NEW c \in Buckets, NEW a \in Elements(free_list_'[u][c])
        PROVE  ObjectOf(a, c)'
    <3>1. CASE u = t /\ c = b
      <4>1. a \in Elements(l) \/ a \in Elements(g) BY <2>1, <3>1, <1>4, <1>13
      <4>2. QED BY <4>1, <3>1, <1>5, <1>20, <1>21
    <3>2. CASE ~(u = t /\ c = b)
      <4>1. free_list_'[u][c] = free_list_[u][c] BY <3>2, <1>4
      <4>2. QED BY <4>1, <2>1, <1>0, <1>20 DEF KindInv
    <3>3. QED BY <3>1, <3>2
  <2>2. ASSUME NEW u \in Threads, NEW a \in Elements(batch'[u])
        PROVE  \E q \in Pages : /\ q \in Elements(span_list_'[bucket_index'[u]])
                                /\ a \in Elements(Objects(q, bucket_index'[u]))
    <3>1. a \in Elements(batch[u]) /\ batch[u] # <<>> BY <2>2 DEF Elements
    <3>2. bucket_index'[u] = bucket_index[u] BY <3>1
    <3>3. ObjectOf(a, bucket_index[u]) /\ bucket_index[u] \in Buckets
      BY <3>1, <1>0 DEF KindInv, TypeOK
    <3>4. PICK q \in Pages : /\ InClass(q, bucket_index[u])
                            /\ a \in Elements(Objects(q, bucket_index[u]))
      BY <3>3 DEF ObjectOf
    <3>5. \A c \in Buckets : InClass(q, c) => q \in Elements(span_list_'[c])
      BY <1>2 DEF InClass
    <3>6. QED BY <3>2, <3>3, <3>4, <3>5
  <2>3. ASSUME NEW a \in live' PROVE (\E c \in Buckets : ObjectOf(a, c)') \/ BigAt(a)'
    <3>1. CASE a \in X BY <3>1, <1>21
    <3>2. CASE a \in live
      <4>1. CASE \E c \in Buckets : ObjectOf(a, c) BY <4>1, <1>20
      <4>2. CASE BigAt(a)
        <5>1. PICK q \in Used : a = q * PageUnits /\ \A c \in Buckets : ~InClass(q, c)
          BY <4>2 DEF BigAt
        <5>2. q # p /\ q \in Pages BY <5>1 DEF Used
        <5>3. \A c \in Buckets : ~InClass(q, c)' BY <5>1, <5>2, <1>3
        <5>4. q \in Used' BY <1>6
        <5>5. QED BY <5>1, <5>3, <5>4 DEF BigAt
      <4>3. QED BY <3>2, <4>1, <4>2, <1>0 DEF KindInv
    <3>3. QED BY <2>3, <3>1, <3>2
  <2>4. ASSUME NEW c \in Buckets, NEW q \in Pages, InClass(q, c)',
               NEW a \in Elements(Objects(q, c))
        PROVE  Held(a)'
    <3>1. CASE q = p
      <4>1. c = b BY <3>1, <2>4, <1>3
      <4>2. QED BY <3>1, <4>1, <1>17
    <3>2. CASE q # p
      <4>1. InClass(q, c) BY <3>2, <2>4, <1>3
      <4>2. Held(a) BY <4>1, <1>0 DEF KindInv
      <4>3. QED BY <4>2, <1>17
    <3>3. QED BY <3>1, <3>2
  <2>5. \A q \in Pages, c \in Buckets : Elements(Objects(q, c))' = Elements(Objects(q, c))
    BY DEF Elements, Objects
  <2>6. \A u \in Threads, c \in Buckets : \A a \in Elements(free_list_[u][c])' : ObjectOf(a, c)'
    BY <2>1 DEF Elements
  <2>7. \A u \in Threads : \A a \in Elements(batch[u])' : ObjectOf(a, bucket_index[u])'
    BY <2>2 DEF Elements, ObjectOf, InClass
  <2>8. QED BY <2>3, <2>4, <2>5, <2>6, <2>7 DEF KindInv
<1>23. QED BY <1>9, <1>10, <1>11, <1>17, <1>18, <1>22 DEF Kept

LEMMA Parts ==
  ASSUME NEW S, NEW s \in Seq(S), NEW k \in 0..Len(s), Distinct(s)
  PROVE  /\ Front(s, k) \in Seq(S) /\ Len(Front(s, k)) = k /\ Distinct(Front(s, k))
         /\ Without(s, k) \in Seq(S) /\ Distinct(Without(s, k))
         /\ Elements(s) = Elements(Front(s, k)) \cup Elements(Without(s, k))
         /\ Elements(Front(s, k)) \cap Elements(Without(s, k)) = {}
BY Cut

(* The home part of free: one object for the program, k - 1 for the list   *)
(* of the thread, the rest stays.                                          *)
LEMMA ThreeParts ==
  ASSUME NEW free \in Seq(Addresses \cup {Stale}), NEW n \in 1..Len(free), NEW k \in 1..n,
         Elements(Front(free, n)) \subseteq Addresses, Distinct(Front(free, n))
  PROVE  LET o == Elements(Front(free, 1))
             l == SubSeq(free, 2, k)
             r == Front(Without(free, k), n - k)
         IN  /\ l \in Seq(Addresses) /\ r \in Seq(Addresses) /\ Distinct(l) /\ Distinct(r)
             /\ Elements(Front(free, n)) = o \cup Elements(l) \cup Elements(r)
             /\ o \cap Elements(l) = {} /\ o \cap Elements(r) = {}
             /\ Elements(l) \cap Elements(r) = {}
<1> DEFINE S == Addresses \cup {Stale}
<1>1. n \in 0..Len(free) /\ k \in 0..n /\ k \in 0..Len(free) OBVIOUS
<1>2. PICK h \in Seq(Addresses) : h = Front(free, n) /\ Len(h) = n /\ Distinct(h)
  <2>1. Front(free, n) \in Seq(S) /\ Len(Front(free, n)) = n BY <1>1, Cut
  <2>2. QED BY <2>1, SeqIn
<1>3. /\ Front(Without(free, k), n - k) = Without(h, k) /\ Front(h, k) = Front(free, k)
  BY <1>1, <1>2, CutTwice
<1>4. k \in 0..Len(h) BY <1>1, <1>2
<1>5. /\ Front(h, k) \in Seq(Addresses) /\ Len(Front(h, k)) = k /\ Distinct(Front(h, k))
      /\ Without(h, k) \in Seq(Addresses) /\ Distinct(Without(h, k))
      /\ Elements(h) = Elements(Front(h, k)) \cup Elements(Without(h, k))
      /\ Elements(Front(h, k)) \cap Elements(Without(h, k)) = {}
  BY <1>2, <1>4, Parts
<1>6. PICK f \in Seq(Addresses) : f = Front(h, k) /\ Len(f) = k /\ Distinct(f) BY <1>5
<1>7. /\ SubSeq(free, 2, k) = Without(f, 1) /\ Front(free, 1) = Front(f, 1)
  BY <1>2, <1>3, <1>6, TakenObjects
<1>8. PICK one \in 0..Len(f) : one = 1 BY <1>6
<1>9. /\ Without(f, one) \in Seq(Addresses) /\ Distinct(Without(f, one))
      /\ Elements(f) = Elements(Front(f, one)) \cup Elements(Without(f, one))
      /\ Elements(Front(f, one)) \cap Elements(Without(f, one)) = {}
  <2>1. Distinct(f) /\ one \in 0..Len(f) BY <1>6
  <2>2. QED BY <2>1, Parts, Zenon
<1>10. QED BY <1>2, <1>3, <1>5, <1>6, <1>7, <1>8, <1>9

LEMMA PopKept ==
  ASSUME IInv, NEW t \in Threads, NEW b \in Buckets, NEW p \in Pages,
         NEW list \in Seq(Pages), NEW free \in Seq(Addresses \cup {Stale}),
         NEW allocated \in Nat, allocated < ObjectsNum(b),
         NEW n, n = ObjectsNum(b) - allocated, n <= Len(free),
         NEW X, X = Elements(Front(free, n)),
         X \subseteq Elements(Objects(p, b)), Distinct(Front(free, n)),
         \A c \in Containers : c # <<"home", p, b>> => Contents(c) \cap X = {},
         Contents(<<"home", p, b>>) \subseteq X,
         \A a \in Elements(Objects(p, b)) : a \in X \/ Held(a),
         Elements(list) = Elements(span_list_[b]) \ {p}, Distinct(list),
         FullLast(list, Full(b)),
         \A c \in Buckets : c # b => ~InClass(p, c),
         p \in Used => InClass(p, b),
         Run(p, ClassPages[b]) \subseteq Pages,
         \A q \in Used : q # p => Run(q, pages_num_[q]) \cap Run(p, ClassPages[b]) = {},
         pages_num_' = [pages_num_ EXCEPT ![p] = ClassPages[b]],
         object_size_' = [object_size_ EXCEPT ![p] = ClassSize[b]],
         PopObjects(t, b, p, list, allocated, free),
         UNCHANGED batch,
         \A u \in Threads : batch[u] = <<>> \/ bucket_index'[u] = bucket_index[u]
  PROVE  Kept'
<1>0. TypeOK BY DEF IInv
<1>1. PICK k \in 1..(ObjectsNum(b) - allocated) :
           /\ span_free_list_' = [span_free_list_ EXCEPT ![p] = Without(free, k)]
           /\ allocated_num_' = [allocated_num_ EXCEPT ![p] = allocated + k]
           /\ span_list_' = [span_list_ EXCEPT ![b] =
                               PutBack(list, p, allocated + k = ObjectsNum(b))]
           /\ live' = live \cup Elements(Front(free, 1))
           /\ free_list_' = [free_list_ EXCEPT ![t][b] = SubSeq(free, 2, k) \o @]
  BY <1>0, Popping
<1> DEFINE N == ObjectsNum(b)
           A == allocated + k
           o == Elements(Front(free, 1))
           l == SubSeq(free, 2, k)
           f == Without(free, k)
           s == PutBack(list, p, A = N)
<1>2. N \in Nat \ {0} BY ObjectsCount
<1>3. n \in 1..Len(free) /\ k \in 1..n /\ A \in 1..N /\ N - A = n - k
  BY <1>2
<1>4. Elements(Front(free, n)) \subseteq Addresses
  BY ObjectsFacts, ElementsIn
<1>5. PICK r \in Seq(Addresses) :
        /\ r = Front(f, n - k) /\ l \in Seq(Addresses) /\ Distinct(l) /\ Distinct(r)
        /\ X = o \cup Elements(l) \cup Elements(r)
        /\ o \cap Elements(l) = {} /\ o \cap Elements(r) = {}
        /\ Elements(l) \cap Elements(r) = {}
  BY <1>3, <1>4, ThreeParts, SMTT(30)
<1>6. f \in Seq(Addresses \cup {Stale}) /\ Len(f) = Len(free) - k
  <2>1. k \in 0..Len(free) BY <1>3
  <2>2. QED BY <2>1, Cut
<1>7. r = Front(f, N - A) /\ N - A <= Len(f)
  <2>1. r = Front(f, N - A) BY <1>3, <1>5
  <2>2. Len(free) \in Nat OBVIOUS
  <2>3. N - A <= Len(f) BY <2>2, <1>3, <1>6
  <2>4. QED BY <2>1, <2>3
<1>8. /\ s \in Seq(Pages) /\ Elements(s) = Elements(span_list_[b]) \cup {p}
      /\ Distinct(s) /\ FullLast(s, Full(b)')
  <2>1. p \notin Elements(list) OBVIOUS
  <2>2. allocated_num_'[p] = A /\ \A q \in Pages : q # p => allocated_num_'[q] = allocated_num_[q]
    BY <1>0, <1>1 DEF TypeOK
  <2>3. Full(b)' = {q \in Pages : allocated_num_'[q] = N} BY DEF Full
  <2>4. \A q \in Pages : q # p => (q \in Full(b) <=> q \in Full(b)') BY <2>2, <2>3 DEF Full
  <2>5. PICK G : G = Full(b)' OBVIOUS
  <2>6. FullLast(list, G) BY <2>1, <2>4, <2>5, FullSame
  <2>7. (A = N) \in BOOLEAN /\ ((A = N) <=> p \in G) BY <2>2, <2>3, <2>5
  <2>8. PICK full \in BOOLEAN : full <=> A = N BY <2>7
  <2>9. /\ PutBack(list, p, full) \in Seq(Pages)
        /\ Elements(PutBack(list, p, full)) = Elements(list) \cup {p}
        /\ Distinct(PutBack(list, p, full)) /\ FullLast(PutBack(list, p, full), G)
    <3>1. full <=> p \in G BY <2>7, <2>8
    <3>2. QED BY <2>1, <2>6, <3>1, PuttingBack
  <2>10. s = PutBack(list, p, full) BY <2>8 DEF PutBack
  <2> HIDE DEF s
  <2>11. Elements(s) = Elements(span_list_[b]) \cup {p} BY <2>9, <2>10
  <2>12. QED BY <2>5, <2>9, <2>10, <2>11
<1>9. /\ span_free_list_' = [span_free_list_ EXCEPT ![p] = f]
      /\ allocated_num_' = [allocated_num_ EXCEPT ![p] = A]
      /\ span_list_' = [span_list_ EXCEPT ![b] = s]
      /\ live' = live \cup o
      /\ free_list_' = [free_list_ EXCEPT ![t][b] = l \o @]
  BY <1>1
<1>10. A \in 1..ObjectsNum(b) /\ r = Front(f, ObjectsNum(b) - A) /\ ObjectsNum(b) - A <= Len(f)
  BY <1>3, <1>7
<1> HIDE DEF N, A, o, l, f, s
<1>11. QED BY <1>5, <1>6, <1>8, <1>9, <1>10, Spread

LEMMA RemoveRangeKept ==
  ASSUME IInv, NEW t \in Threads, NEW n \in Asked, RemoveRange(t, n)
  PROVE  Kept'
<1>0. /\ TypeOK /\ SpanInv /\ HomeInv /\ ListInv /\ KindInv /\ Disjoint /\ NoneTwice
  BY DEF IInv
<1> DEFINE b == ClassOf(n)
           p == Head(span_list_[b])
           list == Tail(span_list_[b])
           allocated == allocated_num_[p]
           free == span_free_list_[p]
           m == ObjectsNum(b) - allocated
           X == Elements(Front(free, m))
<1>1. b \in Buckets /\ HasFreeSpan(b) BY AskedFacts, ClassOfSize DEF RemoveRange
<1>2. /\ PopObjects(t, b, p, list, allocated, free)
      /\ UNCHANGED <<pages_num_, object_size_>> /\ UNCHANGED <<bucket_index, batch>>
  BY DEF RemoveRange, callVars
<1> HIDE DEF b
<1>3. /\ InClass(p, b) /\ p \in Pages /\ list \in Seq(Pages) /\ Distinct(list)
      /\ Elements(list) = Elements(span_list_[b]) \ {p} /\ FullLast(list, Full(b))
      /\ allocated \in Nat /\ allocated < ObjectsNum(b)
  BY <1>0, <1>1, HeadSpan
<1> HIDE DEF p, list
<1>4. /\ p \in Used /\ pages_num_[p] = ClassPages[b] /\ object_size_[p] = ClassSize[b]
      /\ Run(p, ClassPages[b]) \subseteq Pages
      /\ \A c \in Buckets : InClass(p, c) => b = c
  BY <1>0, <1>1, <1>3, Listed
<1>5. /\ m <= Len(free) /\ Distinct(AtHome(p, b))
      /\ Elements(AtHome(p, b)) \subseteq Elements(Objects(p, b))
  <2>1. ObjectsNum(b) - allocated_num_[p] \in 0..Len(span_free_list_[p])
        /\ Distinct(AtHome(p, b))
        /\ Elements(AtHome(p, b)) \subseteq Elements(Objects(p, b))
    BY <1>0, <1>1, <1>3, HomeFacts
  <2>2. span_free_list_[p] \in Seq(Addresses \cup {Stale}) BY <1>0, <1>3 DEF TypeOK
  <2>3. m <= Len(free) BY <2>1, <2>2
  <2>4. QED BY <2>1, <2>3
<1>6. Front(free, m) = AtHome(p, b) BY DEF AtHome
<1> DEFINE P == <<"home", p, b>>
<1>7. Contents(P) = X BY <1>3, <1>6, Seen
<1>8. P \in Containers BY <1>1, <1>3, Kinds
<1>9. \A c \in Containers : c # P => Contents(c) \cap X = {}
  <2> HIDE DEF P, X
  <2>1. QED BY <1>0, <1>7, <1>8 DEF Disjoint
<1>10. \A a \in Elements(Objects(p, b)) : Held(a) BY <1>0, <1>1, <1>3 DEF KindInv
<1>11. \A q \in Used : q # p => Run(q, pages_num_[q]) \cap Run(p, ClassPages[b]) = {}
  BY <1>0, <1>4 DEF SpanInv
<1>12. /\ pages_num_' = [pages_num_ EXCEPT ![p] = ClassPages[b]]
       /\ object_size_' = [object_size_ EXCEPT ![p] = ClassSize[b]]
  BY <1>0, <1>2, <1>3, <1>4 DEF TypeOK
<1>13. free \in Seq(Addresses \cup {Stale}) BY <1>0, <1>3 DEF TypeOK
<1>14. X \subseteq Elements(Objects(p, b)) /\ Distinct(Front(free, m)) BY <1>5, <1>6
<1>15. \A c \in Containers : c # <<"home", p, b>> => Contents(c) \cap X = {} BY <1>9
<1>16. Contents(<<"home", p, b>>) \subseteq X BY <1>7
<1>17. \A u \in Threads : bucket_index'[u] = bucket_index[u] BY <1>2
<1>18. PICK mm : mm = m OBVIOUS
<1>19. PICK XX : XX = X OBVIOUS
<1> HIDE DEF m, X, allocated, free, P
<1>20. XX = Elements(Front(free, mm)) /\ mm = ObjectsNum(b) - allocated
  BY <1>18, <1>19 DEF m, X
<1>21. QED
  BY <1>1, <1>2, <1>3, <1>4, <1>5, <1>10, <1>11, <1>12, <1>13, <1>14, <1>15, <1>16, <1>17,
     <1>18, <1>19, <1>20, PopKept

LEMMA NewSpanKept ==
  ASSUME IInv, NEW t \in Threads, NewSpan(t)
  PROVE  Kept'
<1>0. /\ TypeOK /\ SpanInv /\ HomeInv /\ ListInv /\ KindInv /\ Disjoint /\ NoneTwice /\ CallInv
  BY DEF IInv
<1>1. PICK b \in Buckets : b = bucket_index[t] BY <1>0 DEF TypeOK
<1>2. At(t, "new") /\ UNCHANGED batch BY DEF NewSpan
<1>3. batch[t] = <<>> BY <1>0, <1>2 DEF CallInv, At
<1>4. CASE UNCHANGED <<free_list_, max_length_, centralVars, spanVars, live, bucket_index>>
  <2>1. UNCHANGED span_list_ /\ UNCHANGED spanVars BY <1>4 DEF centralVars
  <2>2. bucket_index'[t] \in Buckets BY <1>0, <1>4 DEF TypeOK
  <2>3. QED BY <1>2, <1>4, <2>1, <2>2, Unmoved
<1>5. ASSUME NEW p \in FreeRuns(ClassPages[b]),
             pages_num_' = [pages_num_ EXCEPT ![p] = ClassPages[b]],
             object_size_' = [object_size_ EXCEPT ![p] = ClassSize[b]],
             PopObjects(t, b, p, span_list_[b], 0, Objects(p, b) \o <<Stale>>),
             bucket_index' = [bucket_index EXCEPT ![t] = 1]
      PROVE  Kept'
  <2>1. ClassPages[b] \in Nat \ {0} BY ClassFacts
  <2>2. /\ p \in Pages /\ Run(p, ClassPages[b]) \subseteq Pages /\ p \notin Used
        /\ \A q \in Used : Run(q, pages_num_[q]) \cap Run(p, ClassPages[b]) = {}
    BY <1>0, <2>1, FreeRunFacts
  <2>3. \A c \in Buckets : ~InClass(p, c) BY <1>0, <2>2, Listed
  <2>4. PICK free \in Seq(Addresses \cup {Stale}) :
          /\ free = Objects(p, b) \o <<Stale>> /\ Len(free) = ObjectsNum(b) + 1
          /\ Front(free, ObjectsNum(b)) = Objects(p, b) /\ Distinct(Objects(p, b))
    BY <2>2, FreshObjects
  <2>5. ObjectsNum(b) \in Nat \ {0} BY ObjectsCount
  <2>6. PICK n : n = ObjectsNum(b) OBVIOUS
  <2>7. 0 \in Nat /\ 0 < ObjectsNum(b) /\ n = ObjectsNum(b) - 0 /\ n <= Len(free)
    BY <2>4, <2>5, <2>6
  <2>8. PICK X : X = Elements(Objects(p, b)) OBVIOUS
  <2>9. \A c \in Buckets : \A q : InClass(q, c) => X \cap Elements(Objects(q, c)) = {}
    <3>1. SUFFICES ASSUME NEW c \in Buckets, NEW q, InClass(q, c),
                          NEW a \in X, a \in Elements(Objects(q, c))
                   PROVE  FALSE
      OBVIOUS
    <3>2. PageOf(a) \in Run(q, pages_num_[q]) /\ q \in Used
      BY <1>0, <3>1, ObjectFacts, Listed
    <3>3. PageOf(a) \in Run(p, ClassPages[b]) BY <2>2, <2>8, <3>1, ObjectsFacts
    <3>4. QED BY <2>2, <3>2, <3>3
  <2>10. \A c \in Buckets, a \in X : ~ObjectOf(a, c) BY <2>9 DEF ObjectOf
  <2>11. \A a \in X : ~BigAt(a)
    <3>1. SUFFICES ASSUME NEW a \in X, NEW q \in Used, a = q * PageUnits PROVE FALSE
      BY DEF BigAt
    <3>2. q \in Pages /\ pages_num_[q] \in Nat \ {0} BY <1>0 DEF Used, TypeOK
    <3>3. PageOf(a) = q BY <3>1, <3>2, FirstOfPage
    <3>4. q \in Run(q, pages_num_[q]) BY <3>2 DEF Run, Pages
    <3>5. PageOf(a) \in Run(p, ClassPages[b]) BY <2>2, <2>8, <3>1, ObjectsFacts
    <3>6. QED BY <2>2, <3>3, <3>4, <3>5
  <2>12. \A c \in Containers : Contents(c) \cap X = {}
    <3>1. SUFFICES ASSUME NEW c \in Containers, NEW a \in Contents(c), a \in X PROVE FALSE
      OBVIOUS
    <3>2. CASE c = <<"live", 0, 0>>
      <4>1. a \in live BY <3>1, <3>2, Seen
      <4>2. QED BY <4>1, <3>1, <1>0, <2>10, <2>11 DEF KindInv
    <3>3. ASSUME NEW u \in Threads, NEW d \in Buckets, c = <<"list", u, d>> PROVE FALSE
      <4>1. a \in Elements(free_list_[u][d]) BY <3>1, <3>3, Seen
      <4>2. QED BY <4>1, <3>1, <1>0, <2>10 DEF KindInv
    <3>4. ASSUME NEW u \in Threads, c = <<"batch", u, 0>> PROVE FALSE
      <4>1. a \in Elements(batch[u]) BY <3>1, <3>4, Seen
      <4>2. bucket_index[u] \in Buckets BY <1>0 DEF TypeOK
      <4>3. QED BY <4>1, <4>2, <3>1, <1>0, <2>10 DEF KindInv
    <3>5. ASSUME NEW q \in Pages, NEW d \in Buckets, c = <<"home", q, d>> PROVE FALSE
      <4>1. InClass(q, d) /\ a \in Elements(AtHome(q, d)) BY <3>1, <3>5, Seen
      <4>2. a \in Elements(Objects(q, d)) BY <4>1, <1>0 DEF HomeInv
      <4>3. QED BY <4>1, <4>2, <3>1, <2>9
    <3>6. QED BY <3>2, <3>3, <3>4, <3>5, Kinds
  <2>13. Contents(<<"home", p, b>>) \subseteq X
    <3>1. Contents(<<"home", p, b>>) = {} BY <2>3, Seen
    <3>2. QED BY <3>1
  <2>14. /\ span_list_[b] \in Seq(Pages) /\ Distinct(span_list_[b])
         /\ FullLast(span_list_[b], Full(b))
         /\ Elements(span_list_[b]) = Elements(span_list_[b]) \ {p}
    BY <1>0, <2>3 DEF TypeOK, ListInv, InClass
  <2>15. \A u \in Threads : batch[u] = <<>> \/ bucket_index'[u] = bucket_index[u]
    BY <1>0, <1>3, <1>5 DEF TypeOK
  <2>16. PopObjects(t, b, p, span_list_[b], 0, free) BY <1>5, <2>4
  <2>17. X = Elements(Front(free, n)) /\ Distinct(Front(free, n)) BY <2>4, <2>6, <2>8
  <2>18. QED
    BY <1>2, <1>5, <2>2, <2>3, <2>7, <2>8, <2>12, <2>13, <2>14, <2>15, <2>16, <2>17, PopKept
<1>6. QED BY <1>1, <1>4, <1>5 DEF NewSpan
-----------------------------------------------------------------------------
(* A run of pages for a big object.                                        *)

LEMMA BigRun ==
  ASSUME IInv, NEW m \in Nat \ {0}, NEW p \in FreeRuns(m), NEW s,
         pages_num_' = [pages_num_ EXCEPT ![p] = m],
         object_size_' = [object_size_ EXCEPT ![p] = s],
         live' = live \cup {p * PageUnits},
         UNCHANGED <<free_list_, batch, bucket_index, span_list_, allocated_num_, span_free_list_>>
  PROVE  Kept'
<1>0. /\ TypeOK /\ SpanInv /\ HomeInv /\ ListInv /\ KindInv /\ Disjoint /\ NoneTwice
  BY DEF IInv
<1>1. /\ p \in Pages /\ Run(p, m) \subseteq Pages /\ p \notin Used
      /\ \A q \in Used : Run(q, pages_num_[q]) \cap Run(p, m) = {}
  BY <1>0, FreeRunFacts
<1>2. \A c \in Buckets : ~InClass(p, c) BY <1>0, <1>1, Listed
<1>3. /\ \A q \in Pages : q # p => /\ pages_num_'[q] = pages_num_[q]
                                   /\ object_size_'[q] = object_size_[q]
      /\ pages_num_'[p] = m
  BY <1>0, <1>1 DEF TypeOK
<1>4. Used' = Used \cup {p}
  <2>1. m > 0 OBVIOUS
  <2>2. QED BY <1>1, <1>3, <2>1 DEF Used
<1>5. /\ \A q, c : InClass(q, c)' <=> InClass(q, c)
      /\ \A q, c : AtHome(q, c)' = AtHome(q, c)
      /\ \A q, c : Elements(AtHome(q, c))' = Elements(AtHome(q, c))
      /\ \A q, c : Distinct(AtHome(q, c))' <=> Distinct(AtHome(q, c))
      /\ \A q, c : Elements(Objects(q, c))' = Elements(Objects(q, c))
      /\ \A c : Full(c)' = Full(c)
  BY DEF InClass, AtHome, Elements, Objects, Distinct, Full
<1>6. \A a, c : ObjectOf(a, c)' <=> ObjectOf(a, c)
  BY <1>5 DEF ObjectOf
<1> DEFINE x == p * PageUnits
<1>7. PageOf(x) = p /\ p \in Run(p, m) BY <1>1, FirstOfPage DEF Run, Pages
<1>8. \A c \in Buckets : ~ObjectOf(x, c)
  <2>1. SUFFICES ASSUME NEW c \in Buckets, ObjectOf(x, c) PROVE FALSE OBVIOUS
  <2>2. PICK q \in Pages : InClass(q, c) /\ x \in Elements(Objects(q, c))
    BY <2>1 DEF ObjectOf
  <2> HIDE DEF x
  <2>3. PageOf(x) \in Run(q, pages_num_[q]) /\ q \in Used
    BY <1>0, <2>2, ObjectFacts, Listed
  <2>4. QED BY <1>1, <1>7, <2>3
<1>9. ~BigAt(x)
  <2>1. SUFFICES ASSUME NEW q \in Used, x = q * PageUnits PROVE FALSE BY DEF BigAt
  <2>2. q \in Pages BY DEF Used
  <2>3. PageOf(x) = q BY <2>1, <2>2, FirstOfPage
  <2>4. QED BY <1>1, <1>7, <2>3
<1>10. x \notin live BY <1>0, <1>8, <1>9 DEF KindInv
<1>11. BigAt(x)' BY <1>2, <1>4, <1>5 DEF BigAt
<1>12. \A a : BigAt(a) => BigAt(a)'
  <2>1. \A a : BigAt(a)' <=> \E q \in Used' : a = q * PageUnits /\ \A b \in Buckets : ~InClass(q, b)'
    BY DEF BigAt
  <2>2. QED BY <2>1, <1>4, <1>5 DEF BigAt
<1> HIDE DEF x
<1>13. live' = live \cup {x} BY DEF x
<1>14. SpanInv'
  <2>1. \A q \in Used' : Run(q, pages_num_'[q]) \subseteq Pages
    BY <1>0, <1>1, <1>3, <1>4 DEF SpanInv, Used
  <2>2. ASSUME NEW q \in Used', NEW w \in Used', q # w
        PROVE  Run(q, pages_num_'[q]) \cap Run(w, pages_num_'[w]) = {}
    <3>1. CASE q = p
      <4>1. w \in Used /\ w \in Pages BY <1>4, <2>2, <3>1 DEF Used
      <4>2. QED BY <4>1, <3>1, <2>2, <1>1, <1>3
    <3>2. CASE w = p
      <4>1. q \in Used /\ q \in Pages BY <1>4, <2>2, <3>2 DEF Used
      <4>2. QED BY <4>1, <3>2, <2>2, <1>1, <1>3
    <3>3. CASE q # p /\ w # p
      <4>1. q \in Used /\ w \in Used /\ q \in Pages /\ w \in Pages
        BY <1>4, <3>3 DEF Used
      <4>2. QED BY <4>1, <3>3, <2>2, <1>0, <1>3 DEF SpanInv
    <3>4. QED BY <3>1, <3>2, <3>3
  <2>3. ASSUME NEW c \in Buckets, NEW q \in Pages, InClass(q, c)
        PROVE  pages_num_'[q] = ClassPages[c] /\ object_size_'[q] = ClassSize[c]
    <3>1. q # p BY <1>2, <2>3
    <3>2. QED BY <3>1, <2>3, <1>0, <1>3 DEF SpanInv
  <2>4. ASSUME NEW q \in Used'
        PROVE  (\E c \in Buckets : InClass(q, c)) \/ q * PageUnits \in live'
    <3>1. CASE q = p BY <3>1
    <3>2. CASE q # p
      <4>1. q \in Used /\ q \in Pages BY <3>2, <1>4 DEF Used
      <4>2. (\E c \in Buckets : InClass(q, c)) \/ q * PageUnits \in live
        BY <4>1, <1>0 DEF SpanInv
      <4>3. QED BY <4>2
    <3>3. QED BY <3>1, <3>2
  <2>5. QED BY <1>5, <2>1, <2>2, <2>3, <2>4 DEF SpanInv
<1>15. HomeInv' BY <1>0, <1>5 DEF HomeInv
<1>16. ListInv' BY <1>0, <1>5 DEF ListInv
<1>17. NoneTwice' BY <1>0 DEF NoneTwice
<1> DEFINE L == <<"live", 0, 0>>
           From == {L}
           X == live'
<1>18. From \subseteq Containers BY Kinds
<1>19. \A d \in Containers \ From : Contents(d)' = Contents(d)
  <2>1. SUFFICES ASSUME NEW d \in Containers, d \notin From PROVE Contents(d)' = Contents(d)
    OBVIOUS
  <2>2. CASE d = L BY <2>1, <2>2
  <2>3. ASSUME NEW u \in Threads, NEW c \in Buckets, d = <<"list", u, c>>
        PROVE  Contents(d)' = Contents(d)
    BY <2>3, Seen, SeenNext
  <2>4. ASSUME NEW u \in Threads, d = <<"batch", u, 0>>
        PROVE  Contents(d)' = Contents(d)
    BY <2>4, Seen, SeenNext
  <2>5. ASSUME NEW q \in Pages, NEW c \in Buckets, d = <<"home", q, c>>
        PROVE  Contents(d)' = Contents(d)
    BY <2>5, <1>5, Seen, SeenNext
  <2>6. QED BY <2>1, <2>2, <2>3, <2>4, <2>5, Kinds
<1>20. Contents(L) = live /\ Contents(L)' = live' BY Seen, SeenNext
<1>21. \A d \in Containers \ From : x \notin Contents(d)
  <2>1. SUFFICES ASSUME NEW d \in Containers, d # L, x \in Contents(d) PROVE FALSE
    OBVIOUS
  <2>2. ASSUME NEW u \in Threads, NEW c \in Buckets, d = <<"list", u, c>> PROVE FALSE
    <3>1. x \in Elements(free_list_[u][c]) BY <2>1, <2>2, Seen
    <3>2. QED BY <3>1, <1>0, <1>8 DEF KindInv
  <2>3. ASSUME NEW u \in Threads, d = <<"batch", u, 0>> PROVE FALSE
    <3>1. x \in Elements(batch[u]) BY <2>1, <2>3, Seen
    <3>2. bucket_index[u] \in Buckets BY <1>0 DEF TypeOK
    <3>3. QED BY <3>1, <3>2, <1>0, <1>8 DEF KindInv
  <2>4. ASSUME NEW q \in Pages, NEW c \in Buckets, d = <<"home", q, c>> PROVE FALSE
    <3>1. InClass(q, c) /\ x \in Elements(AtHome(q, c)) BY <2>1, <2>4, Seen
    <3>2. x \in Elements(Objects(q, c)) BY <3>1, <1>0 DEF HomeInv
    <3>3. QED BY <3>1, <3>2, <1>8 DEF ObjectOf
  <2>5. QED BY <2>1, <2>2, <2>3, <2>4, Kinds
<1>22. Disjoint' /\ \A a : Held(a) => Held(a)'
  <2>1. \A d \in Containers \ From : Contents(d)' = Contents(d) /\ Contents(d) \cap X = {}
    <3>1. SUFFICES ASSUME NEW d \in Containers, d \notin From PROVE Contents(d) \cap X = {}
      BY <1>19
    <3>2. d # L /\ L \in Containers BY <3>1, <1>18
    <3>3. x \notin Contents(d) BY <3>1, <1>21
    <3> HIDE DEF L
    <3>4. Contents(d) \cap Contents(L) = {} BY <1>0, <3>2 DEF Disjoint
    <3>5. QED BY <3>3, <3>4, <1>13, <1>20
  <2>2. \A c \in From : Contents(c) \subseteq X /\ Contents(c)' \subseteq X BY <1>13, <1>20
  <2>3. \A a \in X : \E c \in From : a \in Contents(c)' BY <1>20
  <2>4. \A c, d \in From : c # d => Contents(c)' \cap Contents(d)' = {} OBVIOUS
  <2>5. From \in SUBSET Containers BY <1>18
  <2> HIDE DEF L, From, X
  <2>6. Disjoint' /\ \A a : Held(a) \/ a \in X => Held(a)'
    BY <1>0, <2>1, <2>2, <2>3, <2>4, <2>5, Moving
  <2>7. QED BY <2>6
<1>23. KindInv'
  <2>1. \A u \in Threads, c \in Buckets : \A a \in Elements(free_list_[u][c]) : ObjectOf(a, c)
    BY <1>0 DEF KindInv
  <2>2. \A u \in Threads : \A a \in Elements(batch[u]) : ObjectOf(a, bucket_index[u])
    BY <1>0 DEF KindInv
  <2>3. \A a \in live' : (\E c \in Buckets : ObjectOf(a, c)) \/ BigAt(a)'
    BY <1>0, <1>11, <1>12, <1>13 DEF KindInv
  <2>4. \A c \in Buckets, q \in Pages : InClass(q, c) =>
          \A a \in Elements(Objects(q, c)) : Held(a)'
    BY <1>0, <1>22 DEF KindInv
  <2>5. \A u \in Threads, c \in Buckets : /\ Elements(free_list_[u][c])' = Elements(free_list_[u][c])
                                          /\ Elements(batch[u])' = Elements(batch[u])
    BY DEF Elements
  <2>6. \A u \in Threads : \A a \in Elements(batch[u])' : ObjectOf(a, bucket_index[u])'
    <3>1. \A u \in Threads : \A a : ObjectOf(a, bucket_index[u])' <=> ObjectOf(a, bucket_index[u])
      BY <1>5 DEF ObjectOf
    <3>2. QED BY <3>1, <2>2, ClassFacts DEF Elements
  <2>7. QED BY <1>5, <1>6, <2>1, <2>3, <2>4, <2>5, <2>6 DEF KindInv
<1>24. QED BY <1>14, <1>15, <1>16, <1>17, <1>22, <1>23 DEF Kept

LEMMA AllocBigKept ==
  ASSUME IInv, NEW t \in Threads, NEW n \in Asked, AllocBig(t, n)
  PROVE  Kept'
<1> DEFINE m == (n + PageUnits - 1) \div PageUnits
<1>1. m \in Nat \ {0}
  <2>1. n \in Nat /\ n > MaxSize BY AskedFacts DEF AllocBig
  <2>2. QED BY <2>1, AllocBigPages
<1>2. /\ \/ \E p \in FreeRuns(m) :
              /\ pages_num_' = [pages_num_ EXCEPT ![p] = m]
              /\ \E s \in {0} \cup Elements(ClassSize) :
                   object_size_' = [object_size_ EXCEPT ![p] = s]
              /\ live' = live \cup {p * PageUnits}
         \/ UNCHANGED <<pages_num_, object_size_, live>>
      /\ UNCHANGED <<free_list_, span_list_, allocated_num_, span_free_list_, bucket_index, batch>>
  BY DEF AllocBig, cacheVars, centralVars, callVars
<1> HIDE DEF m
<1>3. CASE UNCHANGED <<pages_num_, object_size_, live>>
  <2>1. UNCHANGED spanVars BY <1>2, <1>3 DEF spanVars
  <2>2. bucket_index'[t] \in Buckets BY <1>2 DEF IInv, TypeOK
  <2>3. QED BY <1>2, <1>3, <2>1, <2>2, Unmoved
<1>4. ASSUME NEW p \in FreeRuns(m), pages_num_' = [pages_num_ EXCEPT ![p] = m],
             NEW s, object_size_' = [object_size_ EXCEPT ![p] = s],
             live' = live \cup {p * PageUnits}
      PROVE  Kept'
  BY <1>1, <1>2, <1>4, BigRun
<1>5. QED BY <1>2, <1>3, <1>4
-----------------------------------------------------------------------------
(* InsertRange: an object goes home, or its span goes back.                *)

LEMMA DistinctCount ==
  ASSUME NEW S, NEW s \in Seq(S), Distinct(s)
  PROVE  IsFiniteSet(Elements(s)) /\ Cardinality(Elements(s)) = Len(s)
<1> DEFINE n == Len(s)
<1>1. s \in [1..n -> Elements(s)] /\ n \in Nat BY DEF Elements
<1>2. s \in Surjection(1..n, Elements(s)) BY <1>1 DEF Surjection, Elements
<1>3. \A j, k \in 1..n : s[j] = s[k] => j = k BY DEF Distinct
<1>4. s \in Injection(1..n, Elements(s)) BY <1>1, <1>3 DEF Injection, IsInjective
<1>5. ExistsBijection(1..n, Elements(s)) BY <1>2, <1>4 DEF ExistsBijection, Bijection
<1>6. IsFiniteSet(1..n) /\ Cardinality(1..n) = n
  <2> HIDE DEF n
  <2>1. 1 \in Int /\ n \in Int BY <1>1
  <2>2. IsFiniteSet(1..n) /\ Cardinality(1..n) = IF 1 > n THEN 0 ELSE n - 1 + 1
    BY <2>1, FS_Interval
  <2>3. QED BY <1>1, <2>2
<1>7. QED BY <1>5, <1>6, FS_Bijection

(* All but one.                                                            *)
LEMMA AllButOne ==
  ASSUME NEW S, NEW s \in Seq(S), NEW h \in Seq(S), Distinct(s), Distinct(h),
         Elements(h) \subseteq Elements(s), Len(h) = Len(s) - 1,
         NEW a \in Elements(s), a \notin Elements(h)
  PROVE  Elements(h) = Elements(s) \ {a}
<1> DEFINE T == Elements(s) \ {a}
<1>1. IsFiniteSet(Elements(s)) /\ Cardinality(Elements(s)) = Len(s) BY DistinctCount
<1>2. IsFiniteSet(Elements(h)) /\ Cardinality(Elements(h)) = Len(h) BY DistinctCount
<1>3. IsFiniteSet(T) /\ Cardinality(T) = Len(s) - 1 BY <1>1, FS_RemoveElement
<1>4. Elements(h) \in SUBSET T OBVIOUS
<1>5. Cardinality(T) = Cardinality(Elements(h)) BY <1>2, <1>3
<1> HIDE DEF T
<1>6. T = Elements(h) BY <1>3, <1>4, <1>5, FS_Subset
<1>7. QED BY <1>6 DEF T

LEMMA FrontPushed ==
  ASSUME NEW S, NEW f \in Seq(S), NEW a \in S, NEW k \in 0..Len(f)
  PROVE  Front(<<a>> \o f, k + 1) = <<a>> \o Front(f, k)
<1> DEFINE g == <<a>> \o f
<1>1. /\ g \in Seq(S) /\ Len(g) = Len(f) + 1 /\ g[1] = a
      /\ \A i \in 1..Len(f) : g[i + 1] = f[i]
  BY Pushed
<1>2. Front(f, k) \in Seq(S) /\ Len(Front(f, k)) = k /\ \A i \in 1..k : Front(f, k)[i] = f[i]
  BY Cut
<1> HIDE DEF g
<1>3. PICK m \in 0..Len(g) : m = k + 1 BY <1>1
<1>4. Front(g, m) \in Seq(S) /\ Len(Front(g, m)) = m /\ \A i \in 1..m : Front(g, m)[i] = g[i]
  <2>1. g \in Seq(S) /\ m \in 0..Len(g) BY <1>1, <1>3
  <2>2. QED BY <2>1 DEF Front
<1>5. PICK h \in Seq(S) : h = Front(f, k) BY <1>2
<1> DEFINE r == <<a>> \o h
<1>6. /\ r \in Seq(S) /\ Len(r) = Len(h) + 1 /\ r[1] = a
      /\ \A i \in 1..Len(h) : r[i + 1] = h[i]
  BY Pushed
<1> HIDE DEF r
<1>7. PICK u \in Seq(S) : u = Front(g, m) BY <1>4
<1>8. Len(u) = m /\ Len(r) = m BY <1>2, <1>3, <1>4, <1>5, <1>6, <1>7
<1>9. ASSUME NEW i \in 1..m PROVE u[i] = r[i]
  <2>1. CASE i = 1 BY <2>1, <1>1, <1>4, <1>6, <1>7
  <2>2. CASE i # 1
    <3>1. PICK j \in 1..k : i = j + 1
      <4>1. i - 1 \in 1..k /\ i = (i - 1) + 1 BY <2>2, <1>3
      <4>2. QED BY <4>1
    <3>2. u[i] = g[j + 1] BY <3>1, <1>4, <1>7
    <3>3. g[j + 1] = f[j] BY <1>1
    <3>4. r[j + 1] = h[j] /\ h[j] = f[j] BY <1>2, <1>5, <1>6
    <3>5. QED BY <3>1, <3>2, <3>3, <3>4
  <2>3. QED BY <2>1, <2>2
<1>10. u = r
  <2>1. u = [i \in 1..m |-> u[i]] /\ r = [i \in 1..m |-> r[i]] BY <1>6, <1>8
  <2>2. QED BY <2>1, <1>9
<1>11. Front(g, k + 1) = u BY <1>3, <1>7
<1>12. QED BY <1>5, <1>10, <1>11 DEF g, r

(* A thread hands the first object of its batch to span p of its class.    *)
LEMMA GoesHome ==
  ASSUME IInv, NEW t \in Threads, NEW b \in Buckets, b = bucket_index[t], batch[t] # <<>>,
         NEW a, a = Head(batch[t]), NEW p \in Pages, InClass(p, b), a \in Elements(Objects(p, b)),
         NEW s, s = <<p>> \o Unlinked(span_list_[b], p), allocated_num_[p] # 1,
         span_list_' = [span_list_ EXCEPT ![b] = s],
         span_free_list_' = [span_free_list_ EXCEPT ![p] = <<a>> \o @],
         allocated_num_' = [allocated_num_ EXCEPT ![p] = @ - 1],
         batch' = [batch EXCEPT ![t] = Tail(@)],
         UNCHANGED <<pages_num_, object_size_, free_list_, live>>,
         \A u \in Threads : batch'[u] = <<>> \/ bucket_index'[u] = bucket_index[u]
  PROVE  Kept'
<1>0. /\ TypeOK /\ SpanInv /\ HomeInv /\ ListInv /\ KindInv /\ Disjoint /\ NoneTwice
  BY DEF IInv
<1> DEFINE N == ObjectsNum(b)
           A == allocated_num_[p]
           f == span_free_list_[p]
           h == AtHome(p, b)
           y == Tail(batch[t])
<1>1. /\ N - A \in 0..Len(f) /\ A \in Nat \ {0} /\ A <= N
      /\ Len(h) = N - A /\ Distinct(h) /\ Elements(h) \subseteq Elements(Objects(p, b))
      /\ h = Front(f, N - A)
  BY <1>0, HomeFacts DEF AtHome
<1>2. N \in Nat \ {0} BY ObjectsCount
<1>3. /\ batch[t] \in Seq(Addresses) /\ y \in Seq(Addresses)
      /\ Elements(batch[t]) = {a} \cup Elements(y) /\ Distinct(y) /\ a \notin Elements(y)
      /\ a \in Addresses
  <2>1. batch[t] \in Seq(Addresses) /\ Distinct(batch[t]) BY <1>0 DEF TypeOK, NoneTwice
  <2>2. QED BY <2>1, HeadTail
<1>4. f \in Seq(Addresses \cup {Stale}) BY <1>0 DEF TypeOK
<1>5. /\ \A q \in Pages : q # p => /\ allocated_num_'[q] = allocated_num_[q]
                                   /\ span_free_list_'[q] = span_free_list_[q]
      /\ allocated_num_'[p] = A - 1 /\ span_free_list_'[p] = <<a>> \o f
      /\ span_list_'[b] = s /\ \A c \in Buckets : c # b => span_list_'[c] = span_list_[c]
      /\ batch'[t] = y /\ \A u \in Threads : u # t => batch'[u] = batch[u]
  BY <1>0 DEF TypeOK
<1> DEFINE B == <<"batch", t, 0>>
           P == <<"home", p, b>>
<1>6. Contents(B) = Elements(batch[t]) /\ Contents(P) = Elements(h) BY Seen
<1>7. B \in Containers /\ P \in Containers /\ B # P BY Kinds
<1>8. Elements(batch[t]) \cap Elements(h) = {}
  <2> HIDE DEF B, P, h
  <2>1. QED BY <1>0, <1>6, <1>7 DEF Disjoint
<1>9. PICK H \in Seq(Addresses) : H = h
  <2>1. Objects(p, b) \in Seq(Addresses) BY <1>0, Listed, ObjectsFacts
  <2>2. Elements(h) \subseteq Addresses BY <2>1, <1>1, ElementsIn
  <2>3. h \in Seq(Addresses \cup {Stale}) BY <1>1, <1>4, Cut
  <2> HIDE DEF h
  <2>4. QED BY <2>2, <2>3, SeqIn
<1>10. /\ AtHome(p, b)' = <<a>> \o H
       /\ \A q \in Pages, c \in Buckets : q # p => AtHome(q, c)' = AtHome(q, c)
  <2>1. PICK k \in 0..Len(f) : k = N - A BY <1>1
  <2>2. Front(<<a>> \o f, k + 1) = <<a>> \o Front(f, k)
    <3>1. PICK z \in Seq(Addresses \cup {Stale}) : z = f BY <1>4
    <3>2. k \in 0..Len(z) /\ a \in Addresses \cup {Stale} BY <1>3, <3>1
    <3> HIDE DEF f
    <3>3. Front(<<a>> \o z, k + 1) = <<a>> \o Front(z, k) BY <3>2, FrontPushed
    <3>4. QED BY <3>1, <3>3
  <2>3. N - (A - 1) = k + 1 BY <2>1, <1>1, <1>2
  <2>4. AtHome(p, b)' = Front(<<a>> \o f, N - (A - 1)) BY <1>5 DEF AtHome
  <2>5. Front(f, k) = H BY <2>1, <1>1, <1>9
  <2>6. \A q \in Pages, c \in Buckets : q # p => AtHome(q, c)' = AtHome(q, c)
    BY <1>5 DEF AtHome
  <2> HIDE DEF N, A, f, h
  <2>7. QED BY <2>2, <2>3, <2>4, <2>5, <2>6
<1>11. /\ Elements(<<a>> \o H) = {a} \cup Elements(H) /\ Distinct(<<a>> \o H)
  <2>1. Distinct(H) /\ a \notin Elements(H) BY <1>1, <1>3, <1>8, <1>9
  <2>2. QED BY <2>1, <1>3, Pushed
<1>12. /\ s \in Seq(Pages) /\ Elements(s) = Elements(span_list_[b]) /\ Distinct(s)
       /\ \A F : FullLast(span_list_[b], F) => FullLast(Unlinked(span_list_[b], p), F)
       /\ p \notin Elements(Unlinked(span_list_[b], p))
       /\ Unlinked(span_list_[b], p) \in Seq(Pages)
  <2>1. span_list_[b] \in Seq(Pages) /\ Distinct(span_list_[b]) BY <1>0 DEF TypeOK, ListInv
  <2>2. p \in Elements(span_list_[b]) BY DEF InClass
  <2>3. PICK z \in Seq(Pages) : /\ z = Unlinked(span_list_[b], p)
                                /\ Elements(z) = Elements(span_list_[b]) \ {p} /\ Distinct(z)
                                /\ \A F : FullLast(span_list_[b], F) => FullLast(z, F)
    BY <2>1, <2>2, Unlinking
  <2>4. /\ <<p>> \o z \in Seq(Pages) /\ Elements(<<p>> \o z) = {p} \cup Elements(z)
        /\ Distinct(<<p>> \o z)
    BY <2>3, Pushed
  <2>5. s = <<p>> \o z BY <2>3
  <2>6. Elements(s) = Elements(span_list_[b]) BY <2>2, <2>3, <2>4, <2>5
  <2>7. QED BY <2>3, <2>4, <2>5, <2>6
<1>13. \A q \in Pages, c \in Buckets : InClass(q, c)' <=> InClass(q, c)
  <2>1. \A q \in Pages, c \in Buckets : InClass(q, c)' <=> q \in Elements(span_list_'[c])
    BY DEF InClass, Elements
  <2>2. \A q \in Pages : InClass(q, b)' <=> InClass(q, b) BY <1>5, <1>12, <2>1 DEF InClass
  <2>3. \A q \in Pages, c \in Buckets : c # b => (InClass(q, c)' <=> InClass(q, c))
    BY <1>5, <2>1 DEF InClass
  <2>4. QED BY <2>2, <2>3
<1>14. /\ Used' = Used
       /\ \A x : \A c \in Buckets : ObjectOf(x, c)' <=> ObjectOf(x, c)
       /\ \A q, c : Elements(Objects(q, c))' = Elements(Objects(q, c))
  <2>1. \A q, c : Elements(Objects(q, c))' = Elements(Objects(q, c)) BY DEF Elements, Objects
  <2>2. Used' = Used BY DEF Used
  <2>3. QED BY <1>13, <2>1, <2>2 DEF ObjectOf
<1> HIDE DEF N, A, f, h, y
<1>15. SpanInv'
  <2>1. Used \subseteq Pages BY DEF Used
  <2>2. QED BY <2>1, <1>0, <1>13, <1>14 DEF SpanInv
<1>16. HomeInv'
  <2>1. ASSUME NEW c \in Buckets, NEW q \in Pages, InClass(q, c)
        PROVE  /\ allocated_num_'[q] \in 1..ObjectsNum(c)
               /\ ObjectsNum(c) - allocated_num_'[q] <= Len(span_free_list_'[q])
               /\ Distinct(AtHome(q, c)')
               /\ Elements(AtHome(q, c)') \subseteq Elements(Objects(q, c))
    <3>1. CASE q = p
      <4>1. c = b BY <3>1, <2>1, <1>0, Listed
      <4>2. A - 1 \in 1..N
        <5>1. A # 1 BY DEF A
        <5>2. QED BY <5>1, <1>1, <1>2
      <4>3. Len(<<a>> \o f) = Len(f) + 1 /\ Len(f) \in Nat BY <1>3, <1>4, Pushed
      <4>4. N - (A - 1) <= Len(f) + 1 BY <4>3, <1>1, <1>2
      <4>5. Elements(<<a>> \o H) \subseteq Elements(Objects(p, b))
        BY <1>1, <1>9, <1>11
      <4>6. /\ allocated_num_'[p] \in 1..N
            /\ N - allocated_num_'[p] <= Len(span_free_list_'[p])
        BY <4>2, <4>3, <4>4, <1>5
      <4>7. QED BY <3>1, <4>1, <4>5, <4>6, <1>10, <1>11 DEF N
    <3>2. CASE q # p BY <3>2, <2>1, <1>0, <1>5, <1>10 DEF HomeInv
    <3>3. QED BY <3>1, <3>2
  <2>2. \A q \in Pages, c \in Buckets : /\ Elements(AtHome(q, c))' = Elements(AtHome(q, c)')
                                        /\ Distinct(AtHome(q, c))' = Distinct(AtHome(q, c)')
                                        /\ ObjectsNum(c)' = ObjectsNum(c)
    BY DEF Elements, Distinct, ObjectsNum
  <2>3. QED BY <2>1, <2>2, <1>13, <1>14 DEF HomeInv
<1>17. ListInv'
  <2>1. ASSUME NEW c \in Buckets
        PROVE  Distinct(span_list_'[c]) /\ FullLast(span_list_'[c], Full(c)')
    <3>1. CASE c = b
      <4>1. p \notin Full(b)'
        <5>1. allocated_num_'[p] # N BY <1>1, <1>2, <1>5
        <5>2. QED BY <5>1 DEF Full, N, ObjectsNum
      <4>2. \A q \in Pages : q # p => (q \in Full(b) <=> q \in Full(b)')
        BY <1>5 DEF Full
      <4>3. FullLast(span_list_[b], Full(b)) BY <1>0 DEF ListInv
      <4>4. PICK z \in Seq(Pages) : z = Unlinked(span_list_[b], p) BY <1>12
      <4>5. FullLast(z, Full(b)) /\ p \notin Elements(z) BY <4>3, <4>4, <1>12
      <4>6. PICK G : G = Full(b)' OBVIOUS
      <4>7. FullLast(z, G) BY <4>2, <4>5, <4>6, FullSame
      <4>8. PutBack(z, p, FALSE) = s BY <4>4 DEF PutBack
      <4>9. FullLast(PutBack(z, p, FALSE), G)
        <5>1. Distinct(z)
          <6>1. span_list_[b] \in Seq(Pages) /\ Distinct(span_list_[b])
            BY <1>0 DEF TypeOK, ListInv
          <6>2. p \in Elements(span_list_[b]) BY DEF InClass
          <6>3. QED BY <6>1, <6>2, <4>4, Unlinking
        <5>2. PICK full \in BOOLEAN : full = FALSE OBVIOUS
        <5>3. full <=> p \in G BY <5>2, <4>1, <4>6
        <5>4. FullLast(PutBack(z, p, full), G)
          BY <4>5, <4>7, <5>1, <5>3, PuttingBack
        <5>5. QED BY <5>2, <5>4
      <4>10. QED BY <3>1, <4>6, <4>8, <4>9, <1>5, <1>12
    <3>2. CASE c # b
      <4>1. ~InClass(p, c) BY <3>2, <1>0, Listed
      <4>2. span_list_[c] \in Seq(Pages) /\ p \notin Elements(span_list_[c])
        BY <4>1, <1>0 DEF TypeOK, InClass
      <4>3. Distinct(span_list_[c]) /\ FullLast(span_list_[c], Full(c)) BY <1>0 DEF ListInv
      <4>4. \A q \in Pages : q # p => (q \in Full(c) <=> q \in Full(c)') BY <1>5 DEF Full
      <4>5. FullLast(span_list_[c], Full(c)') BY <4>2, <4>3, <4>4, FullSame
      <4>6. QED BY <3>2, <4>3, <4>5, <1>5
    <3>3. QED BY <3>1, <3>2
  <2>2. \A c \in Buckets : /\ Distinct(span_list_[c])' <=> Distinct(span_list_'[c])
                           /\ FullLast(span_list_[c], Full(c))' <=> FullLast(span_list_'[c], Full(c)')
    BY DEF Distinct, FullLast
  <2>3. QED BY <2>1, <2>2 DEF ListInv
<1> DEFINE From == {B, P}
           X == Elements(batch[t]) \cup Elements(H)
<1>18. Contents(P)' = {a} \cup Elements(H) /\ Contents(B)' = Elements(y)
  <2>1. InClass(p, b)' BY <1>13
  <2>2. Contents(P)' = Elements(AtHome(p, b))' BY <2>1, SeenNext
  <2>3. Elements(AtHome(p, b))' = Elements(<<a>> \o H) BY <1>10 DEF Elements
  <2>4. Contents(B)' = Elements(batch'[t]) BY SeenNext
  <2>5. QED BY <2>2, <2>3, <2>4, <1>5, <1>11
<1>19. \A d \in Containers \ From : Contents(d)' = Contents(d)
  <2>1. SUFFICES ASSUME NEW d \in Containers, d \notin From PROVE Contents(d)' = Contents(d)
    OBVIOUS
  <2>2. CASE d = <<"live", 0, 0>> BY <2>2, Seen, SeenNext
  <2>3. ASSUME NEW u \in Threads, NEW c \in Buckets, d = <<"list", u, c>>
        PROVE  Contents(d)' = Contents(d)
    BY <2>3, Seen, SeenNext
  <2>4. ASSUME NEW u \in Threads, d = <<"batch", u, 0>>
        PROVE  Contents(d)' = Contents(d)
    <3>1. u # t BY <2>1, <2>4
    <3>2. batch'[u] = batch[u] BY <3>1, <1>5
    <3>3. QED BY <2>4, <3>2, Seen, SeenNext
  <2>5. ASSUME NEW q \in Pages, NEW c \in Buckets, d = <<"home", q, c>>
        PROVE  Contents(d)' = Contents(d)
    <3>1. Contents(d)' = IF InClass(q, c)' THEN Elements(AtHome(q, c))' ELSE {}
      BY <2>5, SeenNext
    <3>2. Contents(d) = IF InClass(q, c) THEN Elements(AtHome(q, c)) ELSE {}
      BY <2>5, Seen
    <3>3. q # p \/ c # b BY <2>1, <2>5
    <3>4. CASE q = p
      <4>1. ~InClass(q, c) BY <3>3, <3>4, <1>0, Listed
      <4>2. QED BY <3>1, <3>2, <4>1, <1>13
    <3>5. CASE q # p
      <4>1. Elements(AtHome(q, c))' = Elements(AtHome(q, c)) BY <3>5, <1>10 DEF Elements
      <4>2. QED BY <3>1, <3>2, <4>1, <1>13
    <3>6. QED BY <3>4, <3>5
  <2>6. QED BY <2>1, <2>2, <2>3, <2>4, <2>5, Kinds
<1>20. Disjoint' /\ \A x : Held(x) => Held(x)'
  <2> HIDE DEF B, P
  <2>1. From \in SUBSET Containers BY <1>7
  <2>2. Contents(B) \cup Contents(P) = X /\ Contents(B)' \cup Contents(P)' = X
    BY <1>3, <1>6, <1>9, <1>18
  <2>3. \A d \in Containers \ From : Contents(d)' = Contents(d) /\ Contents(d) \cap X = {}
    <3>1. SUFFICES ASSUME NEW d \in Containers, d \notin From PROVE Contents(d) \cap X = {}
      BY <1>19
    <3>2. Contents(d) \cap Contents(B) = {} /\ Contents(d) \cap Contents(P) = {}
      BY <3>1, <1>0, <1>7 DEF Disjoint
    <3>3. QED BY <3>2, <2>2
  <2>4. \A c \in From : Contents(c) \subseteq X /\ Contents(c)' \subseteq X BY <2>2
  <2>5. Contents(B)' \cap Contents(P)' = {} BY <1>3, <1>8, <1>9, <1>18
  <2>6. \A c, d \in From : c # d => Contents(c)' \cap Contents(d)' = {} BY <2>5
  <2>7. \A x \in X : \E c \in From : x \in Contents(c)' BY <2>2
  <2> HIDE DEF From, X
  <2>8. Disjoint' /\ \A x : Held(x) \/ x \in X => Held(x)'
    BY <1>0, <2>1, <2>3, <2>4, <2>6, <2>7, Moving
  <2>9. QED BY <2>8
<1>21. NoneTwice'
  <2>1. \A u \in Threads : Distinct(batch'[u]) BY <1>0, <1>3, <1>5 DEF NoneTwice
  <2>2. \A u \in Threads : Distinct(batch[u])' <=> Distinct(batch'[u]) BY DEF Distinct
  <2>3. \A u \in Threads, c \in Buckets : Distinct(free_list_[u][c])' <=> Distinct(free_list_[u][c])
    BY DEF Distinct
  <2>4. QED BY <2>1, <2>2, <2>3, <1>0 DEF NoneTwice
<1>22. KindInv'
  <2>1. \A u \in Threads, c \in Buckets : \A x \in Elements(free_list_[u][c]) : ObjectOf(x, c)'
    BY <1>0, <1>14 DEF KindInv
  <2>2. ASSUME NEW u \in Threads, NEW x \in Elements(batch'[u])
        PROVE  \E q \in Pages : /\ q \in Elements(span_list_'[bucket_index'[u]])
                                /\ x \in Elements(Objects(q, bucket_index'[u]))
    <3>1. bucket_index'[u] = bucket_index[u] BY DEF Elements
    <3>2. x \in Elements(batch[u])
      <4>1. CASE u = t BY <4>1, <2>2, <1>3, <1>5
      <4>2. CASE u # t BY <4>2, <2>2, <1>5
      <4>3. QED BY <4>1, <4>2
    <3>3. PICK c \in Buckets : c = bucket_index[u] BY <1>0 DEF TypeOK
    <3>4. ObjectOf(x, c) BY <3>2, <3>3, <1>0 DEF KindInv
    <3>5. PICK q \in Pages : InClass(q, c) /\ x \in Elements(Objects(q, c)) BY <3>4 DEF ObjectOf
    <3>6. q \in Elements(span_list_'[c])
      <4>1. InClass(q, c)' BY <3>5, <1>13
      <4>2. QED BY <4>1 DEF InClass, Elements
    <3>7. QED BY <3>1, <3>3, <3>5, <3>6
  <2>3. \A x \in live : (\E c \in Buckets : ObjectOf(x, c)') \/ BigAt(x)'
    <3>1. \A x : BigAt(x)' <=> BigAt(x)
      <4>1. \A x : BigAt(x)' <=> \E q \in Used' : x = q * PageUnits /\ \A c \in Buckets : ~InClass(q, c)'
        BY DEF BigAt
      <4>2. Used \subseteq Pages BY DEF Used
      <4>3. QED BY <4>1, <4>2, <1>13, <1>14 DEF BigAt
    <3>2. QED BY <3>1, <1>0, <1>14 DEF KindInv
  <2>4. \A c \in Buckets, q \in Pages : InClass(q, c) =>
          \A x \in Elements(Objects(q, c)) : Held(x)'
    BY <1>0, <1>20 DEF KindInv
  <2>6. \A u \in Threads, c \in Buckets : \A x \in Elements(free_list_[u][c])' : ObjectOf(x, c)'
    BY <2>1 DEF Elements
  <2>7. \A u \in Threads : \A x \in Elements(batch[u])' : ObjectOf(x, bucket_index[u])'
    BY <2>2 DEF Elements, ObjectOf, InClass
  <2>8. QED BY <1>13, <1>14, <2>3, <2>4, <2>6, <2>7 DEF KindInv
<1>23. QED BY <1>15, <1>16, <1>17, <1>20, <1>21, <1>22 DEF Kept

(* The last object outside comes home: span p leaves its class and goes    *)
(* back to the page heap with all its objects.                             *)
LEMMA GoesBack ==
  ASSUME IInv, NEW t \in Threads, NEW b \in Buckets, b = bucket_index[t], batch[t] # <<>>,
         NEW a, a = Head(batch[t]), NEW p \in Pages, InClass(p, b), a \in Elements(Objects(p, b)),
         NEW s, s = Unlinked(span_list_[b], p), allocated_num_[p] = 1,
         span_list_' = [span_list_ EXCEPT ![b] = s], DeallocateSpan(p),
         batch' = [batch EXCEPT ![t] = Tail(@)],
         UNCHANGED <<free_list_, live>>,
         \A u \in Threads : batch'[u] = <<>> \/ bucket_index'[u] = bucket_index[u]
  PROVE  Kept'
<1>0. /\ TypeOK /\ SpanInv /\ HomeInv /\ ListInv /\ KindInv /\ Disjoint /\ NoneTwice
  BY DEF IInv
<1> DEFINE y == Tail(batch[t])
           O == Elements(Objects(p, b))
           B == <<"batch", t, 0>>
           P == <<"home", p, b>>
<1>1. /\ batch[t] \in Seq(Addresses) /\ y \in Seq(Addresses)
      /\ Elements(batch[t]) = {a} \cup Elements(y) /\ Distinct(y) /\ a \notin Elements(y)
  <2>1. batch[t] \in Seq(Addresses) /\ Distinct(batch[t]) BY <1>0 DEF TypeOK, NoneTwice
  <2>2. QED BY <2>1, HeadTail
<1>2. /\ \A q \in Pages : q # p => /\ pages_num_'[q] = pages_num_[q]
                                   /\ object_size_'[q] = object_size_[q]
                                   /\ allocated_num_'[q] = allocated_num_[q]
                                   /\ span_free_list_'[q] = span_free_list_[q]
      /\ pages_num_'[p] = 0
      /\ span_list_'[b] = s /\ \A c \in Buckets : c # b => span_list_'[c] = span_list_[c]
      /\ batch'[t] = y /\ \A u \in Threads : u # t => batch'[u] = batch[u]
  BY <1>0 DEF TypeOK, DeallocateSpan
<1>3. /\ s \in Seq(Pages) /\ Elements(s) = Elements(span_list_[b]) \ {p} /\ Distinct(s)
      /\ \A F : FullLast(span_list_[b], F) => FullLast(s, F)
  <2>1. span_list_[b] \in Seq(Pages) /\ Distinct(span_list_[b]) BY <1>0 DEF TypeOK, ListInv
  <2>2. p \in Elements(span_list_[b]) BY DEF InClass
  <2>3. QED BY <2>1, <2>2, Unlinking
<1>4. /\ p \in Used /\ Run(p, ClassPages[b]) \subseteq Pages
      /\ \A c \in Buckets : InClass(p, c) => b = c
  BY <1>0, Listed
<1>5. \A q \in Pages, c \in Buckets : InClass(q, c)' <=> InClass(q, c) /\ q # p
  <2>1. \A q \in Pages, c \in Buckets : InClass(q, c)' <=> q \in Elements(span_list_'[c])
    BY DEF InClass, Elements
  <2>2. \A q \in Pages : InClass(q, b)' <=> InClass(q, b) /\ q # p
    BY <1>2, <1>3, <2>1 DEF InClass
  <2>3. \A q \in Pages, c \in Buckets : c # b => (InClass(q, c)' <=> InClass(q, c))
    BY <1>2, <2>1 DEF InClass
  <2>4. \A c \in Buckets : c # b => ~InClass(p, c) BY <1>4
  <2>5. QED BY <2>2, <2>3, <2>4
<1>6. Used' = Used \ {p} BY <1>2 DEF Used
<1>7. /\ \A q \in Pages, c \in Buckets : q # p => AtHome(q, c)' = AtHome(q, c)
      /\ \A q, c : Elements(Objects(q, c))' = Elements(Objects(q, c))
  BY <1>2 DEF AtHome, Elements, Objects
<1>8. Contents(B) = {a} \cup Elements(y) /\ Contents(P) = Elements(AtHome(p, b))
  BY <1>1, Seen
<1>9. B \in Containers /\ P \in Containers /\ B # P BY Kinds
<1>10. Elements(AtHome(p, b)) = O \ {a}
  <2>1. /\ Len(AtHome(p, b)) = ObjectsNum(b) - 1 /\ Distinct(AtHome(p, b))
        /\ Elements(AtHome(p, b)) \subseteq O
        /\ ObjectsNum(b) - allocated_num_[p] \in 0..Len(span_free_list_[p])
    BY <1>0, HomeFacts
  <2>2. PICK o \in Seq(Addresses) : o = Objects(p, b) /\ Len(o) = ObjectsNum(b) /\ Distinct(o)
    BY <1>4, ObjectsFacts
  <2>3. a \notin Elements(AtHome(p, b))
    <3> HIDE DEF B, P
    <3>1. QED BY <1>0, <1>8, <1>9 DEF Disjoint
  <2>4. AtHome(p, b) \in Seq(Addresses)
    <3>1. span_free_list_[p] \in Seq(Addresses \cup {Stale}) BY <1>0 DEF TypeOK
    <3>2. AtHome(p, b) \in Seq(Addresses \cup {Stale}) BY <2>1, <3>1, Cut DEF AtHome
    <3>3. Elements(AtHome(p, b)) \subseteq Addresses BY <2>1, <2>2, ElementsIn
    <3>4. QED BY <3>2, <3>3, SeqIn
  <2>5. PICK h \in Seq(Addresses) : h = AtHome(p, b) BY <2>4
  <2>6. a \in Elements(o) /\ a \notin Elements(h) /\ Len(h) = Len(o) - 1 /\ Distinct(h)
        /\ Elements(h) \subseteq Elements(o)
    BY <2>1, <2>2, <2>3, <2>5
  <2>7. Elements(h) = Elements(o) \ {a} BY <2>2, <2>6, AllButOne
  <2>8. QED BY <2>2, <2>5, <2>7
<1> HIDE DEF y
<1>11. \A d \in Containers : d # B /\ d # P => Contents(d)' = Contents(d)
  <2>1. SUFFICES ASSUME NEW d \in Containers, d # B, d # P PROVE Contents(d)' = Contents(d)
    OBVIOUS
  <2>2. CASE d = <<"live", 0, 0>> BY <2>2, Seen, SeenNext
  <2>3. ASSUME NEW u \in Threads, NEW c \in Buckets, d = <<"list", u, c>>
        PROVE  Contents(d)' = Contents(d)
    BY <2>3, Seen, SeenNext
  <2>4. ASSUME NEW u \in Threads, d = <<"batch", u, 0>>
        PROVE  Contents(d)' = Contents(d)
    <3>1. u # t BY <2>1, <2>4
    <3>2. batch'[u] = batch[u] BY <3>1, <1>2
    <3>3. QED BY <2>4, <3>2, Seen, SeenNext
  <2>5. ASSUME NEW q \in Pages, NEW c \in Buckets, d = <<"home", q, c>>
        PROVE  Contents(d)' = Contents(d)
    <3>1. Contents(d)' = IF InClass(q, c)' THEN Elements(AtHome(q, c))' ELSE {}
      BY <2>5, SeenNext
    <3>2. Contents(d) = IF InClass(q, c) THEN Elements(AtHome(q, c)) ELSE {}
      BY <2>5, Seen
    <3>3. q # p \/ c # b BY <2>1, <2>5
    <3>4. CASE q = p
      <4>1. ~InClass(q, c) BY <3>3, <3>4, <1>4
      <4>2. QED BY <3>1, <3>2, <4>1, <1>5
    <3>5. CASE q # p
      <4>1. Elements(AtHome(q, c))' = Elements(AtHome(q, c)) BY <3>5, <1>7 DEF Elements
      <4>2. QED BY <3>1, <3>2, <3>5, <4>1, <1>5
    <3>6. QED BY <3>4, <3>5
  <2>6. QED BY <2>1, <2>2, <2>3, <2>4, <2>5, Kinds
<1>12. Contents(B)' = Elements(y) /\ Contents(P)' = {}
  <2>1. ~InClass(p, b)' BY <1>5
  <2>2. Contents(B)' = Elements(batch'[t]) BY SeenNext
  <2>3. QED BY <2>1, <2>2, <1>2, SeenNext
<1>13. \A d \in Containers : Contents(d)' \subseteq Contents(d) /\ Contents(d)' \cap O = {}
  <2> HIDE DEF B, P, O
  <2>1. SUFFICES ASSUME NEW d \in Containers
                 PROVE  Contents(d)' \subseteq Contents(d) /\ Contents(d)' \cap O = {}
    OBVIOUS
  <2>2. O \subseteq {a} \cup Contents(P) BY <1>8, <1>10
  <2>3. CASE d = B
    <3>1. Contents(B) \cap Contents(P) = {} BY <1>0, <1>9 DEF Disjoint
    <3>2. QED BY <2>2, <2>3, <3>1, <1>1, <1>8, <1>12
  <2>4. CASE d = P BY <2>4, <1>12
  <2>5. CASE d # B /\ d # P
    <3>1. Contents(d) \cap Contents(P) = {} /\ Contents(d) \cap Contents(B) = {}
      BY <2>5, <1>0, <1>9 DEF Disjoint
    <3>2. a \in Contents(B) BY <1>8
    <3>3. QED BY <2>2, <2>5, <3>1, <3>2, <1>11
  <2>6. QED BY <2>3, <2>4, <2>5
<1>14. Disjoint'
  <2>1. Containers' = Containers BY DEF Containers
  <2>2. QED BY <2>1, <1>0, <1>13 DEF Disjoint
<1>15. \A x : Held(x) /\ x \notin O => Held(x)'
  <2>1. SUFFICES ASSUME NEW x, NEW d \in Containers, x \in Contents(d), x \notin O
                 PROVE  \E c \in Containers : x \in Contents(c)'
    BY DEF Held, Containers
  <2>2. a \in O OBVIOUS
  <2> HIDE DEF B, P, O
  <2>3. CASE d = B
    <3>1. x \in Contents(B)' BY <2>1, <2>2, <2>3, <1>8, <1>12
    <3>2. QED BY <3>1, <1>9
  <2>4. CASE d = P BY <2>1, <2>4, <1>8, <1>10
  <2>5. CASE d # B /\ d # P BY <2>1, <2>5, <1>11
  <2>6. QED BY <2>3, <2>4, <2>5
<1>16. SpanInv'
  <2>1. Used \subseteq Pages BY DEF Used
  <2>2. \A q \in Used' : q \in Used /\ q \in Pages /\ q # p /\ pages_num_'[q] = pages_num_[q]
    BY <2>1, <1>2, <1>6
  <2>3. \A q \in Used' : Run(q, pages_num_'[q]) \subseteq Pages
    BY <2>2, <1>0 DEF SpanInv
  <2>4. \A q, w \in Used' : q # w => Run(q, pages_num_'[q]) \cap Run(w, pages_num_'[w]) = {}
    BY <2>2, <1>0 DEF SpanInv
  <2>5. \A c \in Buckets, q \in Pages : InClass(q, c)' =>
          pages_num_'[q] = ClassPages[c] /\ object_size_'[q] = ClassSize[c]
    BY <1>0, <1>2, <1>5 DEF SpanInv
  <2>6. \A q \in Used' : (\E c \in Buckets : InClass(q, c)') \/ q * PageUnits \in live'
    BY <2>2, <1>0, <1>5 DEF SpanInv
  <2>7. QED BY <2>3, <2>4, <2>5, <2>6 DEF SpanInv
<1>17. HomeInv'
  <2>1. \A c \in Buckets, q \in Pages : InClass(q, c) /\ q # p =>
          /\ allocated_num_'[q] \in 1..ObjectsNum(c)
          /\ ObjectsNum(c) - allocated_num_'[q] <= Len(span_free_list_'[q])
          /\ Distinct(AtHome(q, c)')
          /\ Elements(AtHome(q, c)') \subseteq Elements(Objects(q, c))
    BY <1>0, <1>2, <1>7 DEF HomeInv
  <2>2. \A q \in Pages, c \in Buckets : /\ Elements(AtHome(q, c))' = Elements(AtHome(q, c)')
                                        /\ Distinct(AtHome(q, c))' = Distinct(AtHome(q, c)')
                                        /\ ObjectsNum(c)' = ObjectsNum(c)
    BY DEF Elements, Distinct, ObjectsNum
  <2>3. QED BY <2>1, <2>2, <1>5, <1>7 DEF HomeInv
<1>18. ListInv'
  <2>1. ASSUME NEW c \in Buckets
        PROVE  Distinct(span_list_'[c]) /\ FullLast(span_list_'[c], Full(c)')
    <3>1. PICK z \in Seq(Pages) : z = span_list_'[c]
      BY <1>0, <1>2, <1>3 DEF TypeOK
    <3>2. Distinct(z) /\ FullLast(z, Full(c)) /\ p \notin Elements(z)
      <4>1. CASE c = b BY <4>1, <3>1, <1>0, <1>2, <1>3 DEF ListInv
      <4>2. CASE c # b
        <5>1. ~InClass(p, c) BY <4>2, <1>4
        <5>2. QED BY <5>1, <4>2, <3>1, <1>0, <1>2 DEF ListInv, InClass
      <4>3. QED BY <4>1, <4>2
    <3>3. \A q \in Pages : q # p => (q \in Full(c) <=> q \in Full(c)') BY <1>2 DEF Full
    <3>4. PICK G : G = Full(c)' OBVIOUS
    <3>5. FullLast(z, G) BY <3>2, <3>3, <3>4, FullSame
    <3>6. QED BY <3>1, <3>2, <3>4, <3>5
  <2>2. \A c \in Buckets : /\ Distinct(span_list_[c])' <=> Distinct(span_list_'[c])
                           /\ FullLast(span_list_[c], Full(c))' <=> FullLast(span_list_'[c], Full(c)')
    BY DEF Distinct, FullLast
  <2>3. QED BY <2>1, <2>2 DEF ListInv
<1>19. NoneTwice'
  <2>1. \A u \in Threads : Distinct(batch'[u]) BY <1>0, <1>1, <1>2 DEF NoneTwice
  <2>2. \A u \in Threads : Distinct(batch[u])' <=> Distinct(batch'[u]) BY DEF Distinct
  <2>3. \A u \in Threads, c \in Buckets : Distinct(free_list_[u][c])' <=> Distinct(free_list_[u][c])
    BY DEF Distinct
  <2>4. QED BY <2>1, <2>2, <2>3, <1>0 DEF NoneTwice
<1>20. \A c \in Buckets : \A x : ObjectOf(x, c) /\ x \notin O =>
         \E q \in Pages : InClass(q, c)' /\ x \in Elements(Objects(q, c))
  <2>1. SUFFICES ASSUME NEW c \in Buckets, NEW x, ObjectOf(x, c), x \notin O
                 PROVE  \E q \in Pages : InClass(q, c)' /\ x \in Elements(Objects(q, c))
    OBVIOUS
  <2>2. PICK q \in Pages : InClass(q, c) /\ x \in Elements(Objects(q, c))
    BY <2>1 DEF ObjectOf
  <2>3. q # p BY <2>1, <2>2, <1>4
  <2>4. QED BY <2>2, <2>3, <1>5
<1>21. \A c \in Buckets : \A x : ObjectOf(x, c) /\ x \notin O => ObjectOf(x, c)'
  BY <1>7, <1>20 DEF ObjectOf
<1>22. KindInv'
  <2>1. ASSUME NEW u \in Threads, NEW c \in Buckets, NEW x \in Elements(free_list_[u][c])
        PROVE  ObjectOf(x, c)'
    <3>1. <<"list", u, c>> \in Containers /\ x \in Contents(<<"list", u, c>>)'
      BY Kinds, SeenNext
    <3>2. x \notin O BY <3>1, <1>13
    <3>3. QED BY <3>2, <1>0, <1>21 DEF KindInv
  <2>2. ASSUME NEW u \in Threads, NEW x \in Elements(batch'[u])
        PROVE  \E q \in Pages : /\ q \in Elements(span_list_'[bucket_index'[u]])
                                /\ x \in Elements(Objects(q, bucket_index'[u]))
    <3>1. bucket_index'[u] = bucket_index[u] BY DEF Elements
    <3>2. x \in Elements(batch[u]) /\ x \notin O
      <4>1. <<"batch", u, 0>> \in Containers /\ x \in Contents(<<"batch", u, 0>>)'
        BY Kinds, SeenNext
      <4>2. x \notin O /\ x \in Contents(<<"batch", u, 0>>) BY <4>1, <1>13
      <4>3. QED BY <4>2, Seen
    <3>3. PICK c \in Buckets : c = bucket_index[u] BY <1>0 DEF TypeOK
    <3>4. ObjectOf(x, c) BY <3>2, <3>3, <1>0 DEF KindInv
    <3>5. PICK q \in Pages : InClass(q, c)' /\ x \in Elements(Objects(q, c))
      BY <3>2, <3>4, <1>20
    <3>6. q \in Elements(span_list_'[c]) BY <3>5 DEF InClass, Elements
    <3>7. QED BY <3>1, <3>3, <3>5, <3>6
  <2>3. ASSUME NEW x \in live PROVE (\E c \in Buckets : ObjectOf(x, c)') \/ BigAt(x)'
    <3>1. x \notin O
      <4>1. <<"live", 0, 0>> \in Containers /\ x \in Contents(<<"live", 0, 0>>)'
        BY Kinds, SeenNext
      <4>2. QED BY <4>1, <1>13
    <3>2. CASE \E c \in Buckets : ObjectOf(x, c) BY <3>1, <3>2, <1>21
    <3>3. CASE BigAt(x)
      <4>1. PICK q \in Used : x = q * PageUnits /\ \A c \in Buckets : ~InClass(q, c)
        BY <3>3 DEF BigAt
      <4>2. q # p /\ q \in Pages BY <4>1 DEF Used
      <4>3. q \in Used' /\ \A c \in Buckets : ~InClass(q, c)' BY <4>1, <4>2, <1>5, <1>6
      <4>4. QED BY <4>1, <4>3 DEF BigAt
    <3>4. QED BY <3>2, <3>3, <1>0 DEF KindInv
  <2>4. ASSUME NEW c \in Buckets, NEW q \in Pages, InClass(q, c)',
               NEW x \in Elements(Objects(q, c))
        PROVE  Held(x)'
    <3>1. InClass(q, c) /\ q # p BY <2>4, <1>5
    <3>2. SpanOf(x) = q BY <3>1, <2>4, <1>0, ObjectFacts
    <3>3. x \notin O
      <4>1. x \in Elements(Objects(p, b)) => SpanOf(x) = p BY <1>0, ObjectFacts
      <4>2. QED BY <4>1, <3>1, <3>2
    <3>4. Held(x) BY <3>1, <2>4, <1>0 DEF KindInv
    <3>5. QED BY <3>3, <3>4, <1>15
  <2>6. \A u \in Threads, c \in Buckets : \A x \in Elements(free_list_[u][c])' : ObjectOf(x, c)'
    BY <2>1 DEF Elements
  <2>7. \A u \in Threads : \A x \in Elements(batch[u])' : ObjectOf(x, bucket_index[u])'
    BY <2>2 DEF Elements, ObjectOf, InClass
  <2>8. QED BY <1>7, <2>3, <2>4, <2>6, <2>7 DEF KindInv
<1>23. QED BY <1>14, <1>16, <1>17, <1>18, <1>19, <1>22 DEF Kept

LEMMA InsertObjectKept ==
  ASSUME IInv, NEW t \in Threads, InsertObject(t)
  PROVE  Kept'
<1>0. TypeOK /\ SpanInv /\ KindInv /\ CallInv BY DEF IInv
<1>1. pc[t] \in {"insert", "drain"} BY DEF InsertObject
<1>2. PICK b \in Buckets, a \in Addresses, p \in Pages :
        /\ b = bucket_index[t] /\ a = Head(batch[t]) /\ p = SpanOf(a)
        /\ batch[t] # <<>> /\ batch[t] \in Seq(Addresses)
        /\ InClass(p, b) /\ a \in Elements(Objects(p, b))
  BY <1>0, <1>1, Inserted
<1>3. /\ PushObject(a, p, b, Unlinked(span_list_[b], p))
      /\ batch' = [batch EXCEPT ![t] = Tail(@)]
      /\ \/ UNCHANGED bucket_index
         \/ Len(batch[t]) = 1 /\ bucket_index' = [bucket_index EXCEPT ![t] = 1]
      /\ UNCHANGED <<free_list_, live>>
  BY <1>2 DEF InsertObject
<1>4. \A u \in Threads : batch'[u] = <<>> \/ bucket_index'[u] = bucket_index[u]
  <2>1. Len(batch[t]) = 1 => Tail(batch[t]) = <<>>
    <3>1. Tail(batch[t]) \in Seq(Addresses) /\ Len(Tail(batch[t])) = Len(batch[t]) - 1
      BY <1>2, HeadTail
    <3>2. PICK z \in Seq(Addresses) : z = Tail(batch[t]) BY <3>1
    <3>3. Len(z) = 0 => z = <<>> OBVIOUS
    <3>4. Len(batch[t]) = 1 => Len(z) = 0 BY <3>1, <3>2
    <3>5. QED BY <3>2, <3>3, <3>4
  <2>2. batch'[t] = Tail(batch[t]) BY <1>0, <1>3 DEF TypeOK
  <2>3. QED BY <2>1, <2>2, <1>0, <1>3 DEF TypeOK
<1>5. CASE allocated_num_[p] = 1
  <2>1. /\ span_list_' = [span_list_ EXCEPT ![b] = Unlinked(span_list_[b], p)]
        /\ DeallocateSpan(p)
    BY <1>3, <1>5 DEF PushObject
  <2>2. PICK s : s = Unlinked(span_list_[b], p) OBVIOUS
  <2>3. span_list_' = [span_list_ EXCEPT ![b] = s] BY <2>1, <2>2
  <2>4. QED BY <1>2, <1>3, <1>4, <1>5, <2>1, <2>2, <2>3, GoesBack, ZenonT(40)
<1>6. CASE allocated_num_[p] # 1
  <2>1. /\ span_list_' = [span_list_ EXCEPT ![b] = <<p>> \o Unlinked(span_list_[b], p)]
        /\ span_free_list_' = [span_free_list_ EXCEPT ![p] = <<a>> \o @]
        /\ allocated_num_' = [allocated_num_ EXCEPT ![p] = @ - 1]
        /\ UNCHANGED <<pages_num_, object_size_>>
    BY <1>3, <1>6 DEF PushObject
  <2>2. PICK s : s = <<p>> \o Unlinked(span_list_[b], p) OBVIOUS
  <2>3. span_list_' = [span_list_ EXCEPT ![b] = s] BY <2>1, <2>2
  <2>4. UNCHANGED <<pages_num_, object_size_, free_list_, live>> BY <1>3, <2>1
  <2>5. span_free_list_' = [span_free_list_ EXCEPT ![p] = <<a>> \o span_free_list_[p]]
    BY <2>1
  <2>6. allocated_num_' = [allocated_num_ EXCEPT ![p] = allocated_num_[p] - 1] BY <2>1
  <2>7. batch' = [batch EXCEPT ![t] = Tail(batch[t])] BY <1>3
  <2>8. QED BY <1>2, <1>4, <1>6, <2>2, <2>3, <2>4, <2>5, <2>6, <2>7, GoesHome
<1>7. QED BY <1>5, <1>6
-----------------------------------------------------------------------------
(* The invariant. *)

LEMMA NextKept ==
  ASSUME IInv, ~FreesBig, [Next]_vars
  PROVE  Kept'
<1>1. CASE UNCHANGED vars
  <2>1. UNCHANGED <<free_list_, batch, live, span_list_, spanVars, bucket_index, lock_>>
    BY <1>1 DEF vars, cacheVars, centralVars, callVars
  <2>2. Kept BY DEF IInv, Kept
  <2>3. /\ SpanInv' <=> SpanInv
        /\ HomeInv' <=> HomeInv
        /\ ListInv' <=> ListInv
    BY <2>1 DEF SpanInv, HomeInv, ListInv, spanVars, Used, InClass, AtHome, Full, Elements,
                Distinct, FullLast, Objects
  <2>4. NoneTwice' <=> NoneTwice BY <2>1 DEF NoneTwice, Distinct
  <2>5. \A c : Contents(c)' = Contents(c)
    BY <2>1 DEF Contents, InClass, AtHome, Elements, spanVars
  <2>6. (Disjoint' <=> Disjoint) /\ \A a : Held(a)' <=> Held(a)
    BY <2>5 DEF Disjoint, Held, Containers
  <2>7. /\ \A a, b : ObjectOf(a, b)' <=> ObjectOf(a, b)
        /\ \A a : BigAt(a)' <=> BigAt(a)
        /\ \A p, b : InClass(p, b)' <=> InClass(p, b)
    BY <2>1, CentralStays
  <2>8. /\ \A t, b : Elements(free_list_[t][b])' = Elements(free_list_[t][b])
        /\ \A t : Elements(batch[t])' = Elements(batch[t])
        /\ \A p, b : Elements(Objects(p, b))' = Elements(Objects(p, b))
        /\ \A t, a : ObjectOf(a, bucket_index[t])' <=> ObjectOf(a, bucket_index[t])
    BY <2>1, <2>7 DEF Elements, Objects, ObjectOf, InClass
  <2>9. KindInv' <=> KindInv BY <2>1, <2>6, <2>7, <2>8 DEF KindInv
  <2>10. QED BY <2>2, <2>3, <2>4, <2>6, <2>9 DEF Kept
<1>2. ASSUME NEW t \in Threads, Step(t) PROVE Kept'
  <2>1. TypeOK /\ CallInv BY DEF IInv
  <2>2. CASE Start(t) \/ Finish(t)
    <3>1. UNCHANGED <<free_list_, batch, live, span_list_, spanVars, bucket_index>>
      BY <2>2 DEF Start, Finish, cacheVars, centralVars, callVars
    <3>2. bucket_index'[t] \in Buckets BY <3>1, <2>1 DEF TypeOK
    <3>3. QED BY <3>1, <3>2, Unmoved
  <2>3. CASE NewSpan(t) BY <2>3, NewSpanKept
  <2>4. CASE InsertObject(t) BY <2>4, InsertObjectKept
  <2>5. CASE Clear(t) BY <2>5, ClearKept
  <2>6. ASSUME NEW n \in Asked, AllocateCached(t, n) PROVE Kept' BY <2>6, AllocateCachedKept
  <2>7. ASSUME NEW n \in Asked, AllocBig(t, n) PROVE Kept' BY <2>7, AllocBigKept
  <2>8. ASSUME NEW n \in Asked, RemoveRange(t, n) PROVE Kept' BY <2>8, RemoveRangeKept
  <2>9. ASSUME NEW n \in Asked, RemoveRangeFull(t, n) PROVE Kept'
    <3> DEFINE b == ClassOf(n)
    <3>1. b \in Buckets BY <2>9, AskedFacts, ClassOfSize DEF RemoveRangeFull
    <3>2. /\ UNCHANGED <<free_list_, batch, live, span_list_, spanVars>>
          /\ bucket_index' = [bucket_index EXCEPT ![t] = b] /\ At(t, "idle")
      BY <2>9 DEF RemoveRangeFull, cacheVars
    <3>3. batch[t] = <<>> BY <3>2, <2>1 DEF CallInv, At
    <3> HIDE DEF b
    <3>4. /\ bucket_index'[t] \in Buckets
          /\ \A u \in Threads : u # t => bucket_index'[u] = bucket_index[u]
      BY <3>1, <3>2, <2>1 DEF TypeOK
    <3>5. QED BY <3>2, <3>3, <3>4, Unmoved
  <2>10. CASE Delete(t)
    <3>1. ASSUME NEW a \in live, Free(t, a) PROVE Kept' BY <3>1, FreeKept
    <3>2. CASE UNCHANGED <<cacheVars, centralVars, spanVars, live, callVars>>
      <4>1. UNCHANGED <<free_list_, batch, live, span_list_, spanVars, bucket_index>>
        BY <3>2 DEF cacheVars, centralVars, callVars
      <4>2. bucket_index'[t] \in Buckets BY <4>1, <2>1 DEF TypeOK
      <4>3. QED BY <4>1, <4>2, Unmoved
    <3>3. QED BY <2>10, <3>1, <3>2 DEF Delete
  <2>11. QED BY <1>2, <2>2, <2>3, <2>4, <2>5, <2>6, <2>7, <2>8, <2>9, <2>10 DEF Step
<1>3. QED BY <1>1, <1>2 DEF Next

LEMMA Calling ==
  ASSUME TypeOK, CallInv, NEW t \in Threads, NEW l \in PcValues, l # "nothing",
         pc' = [pc EXCEPT ![t] = l],
         batch'[t] # <<>> <=> l \in {"insert", "drain"},
         l = "unborn" => \A b \in Buckets : free_list_'[t][b] = <<>>,
         \A u \in Threads : u # t => /\ batch'[u] = batch[u]
                                     /\ free_list_'[u] = free_list_[u]
  PROVE  CallInv'
<1>1. pc'[t] = l /\ \A u \in Threads : u # t => pc'[u] = pc[u] BY DEF TypeOK
<1>2. ASSUME NEW u \in Threads
      PROVE  /\ batch'[u] # <<>> <=> pc'[u] \in {"insert", "drain"}
             /\ pc'[u] = "unborn" => \A b \in Buckets : free_list_'[u][b] = <<>>
             /\ pc'[u] # "nothing"
  <2>1. CASE u = t BY <2>1, <1>1
  <2>2. CASE u # t BY <2>2, <1>1 DEF CallInv
  <2>3. QED BY <2>1, <2>2
<1>3. QED BY <1>2 DEF CallInv

LEMMA NextCall ==
  ASSUME IInv, ~FreesBig, [Next]_vars
  PROVE  CallInv'
<1>0. TypeOK /\ SpanInv /\ HomeInv /\ ListInv /\ KindInv /\ CallInv BY DEF IInv
<1>1. CASE UNCHANGED vars BY <1>0, <1>1 DEF CallInv, vars, cacheVars, callVars
<1>2. ASSUME NEW t \in Threads, Step(t) PROVE CallInv'
  <2>0. {"unborn", "idle", "new", "nullptr", "insert", "drain", "clear"} \subseteq PcValues
    BY DEF PcValues
  <2>1. ASSUME NEW l \in {"idle", "clear", "new", "nullptr"}, Goto(t, l),
               UNCHANGED batch, pc[t] \notin {"insert", "drain"},
               \A u \in Threads : u # t => free_list_'[u] = free_list_[u]
        PROVE  CallInv'
    <3>1. batch'[t] = <<>> BY <1>0, <2>1 DEF CallInv
    <3>2. QED BY <3>1, <2>0, <2>1, <1>0, Calling DEF Goto
  <2>2. pc[t] \in PcValues BY <1>0 DEF TypeOK
  <2>3. CASE Start(t)
    BY <2>1, <2>3 DEF Start, At, callVars, cacheVars
  <2>4. CASE Finish(t)
    BY <2>1, <2>4 DEF Finish, At, callVars, cacheVars
  <2>5. ASSUME NEW b \in Buckets, NEW p, NEW list, NEW free, NEW allocated \in Nat,
               allocated < ObjectsNum(b), PopObjects(t, b, p, list, allocated, free),
               UNCHANGED batch, pc[t] \in {"idle", "new"}
        PROVE  CallInv'
    <3>4. PICK k \in 1..(ObjectsNum(b) - allocated) :
            /\ free_list_' = [free_list_ EXCEPT ![t][b] = SubSeq(free, 2, k) \o @]
            /\ Goto(t, "idle")
      BY <2>5, <1>0, Popping
    <3>1. Goto(t, "idle") /\ \A u \in Threads : u # t => free_list_'[u] = free_list_[u]
      BY <3>4, <1>0 DEF TypeOK
    <3>2. pc[t] \notin {"insert", "drain"} BY <2>5
    <3>3. QED BY <3>1, <3>2, <2>1, <2>5
  <2>6. CASE NewSpan(t)
    <3>1. PICK b \in Buckets : b = bucket_index[t] BY <1>0 DEF TypeOK
    <3>2. 0 \in Nat /\ 0 < ObjectsNum(b) BY ObjectsCount
    <3>3. pc[t] = "new" /\ UNCHANGED batch BY <2>6 DEF NewSpan, At
    <3>4. ASSUME NEW p, PopObjects(t, b, p, span_list_[b], 0, Objects(p, b) \o <<Stale>>)
          PROVE  CallInv'
      BY <3>2, <3>3, <3>4, <2>5
    <3>5. CASE Goto(t, "nullptr") /\ UNCHANGED free_list_ BY <3>3, <3>5, <2>1
    <3>6. QED BY <2>6, <3>1, <3>4, <3>5 DEF NewSpan
  <2>7. CASE InsertObject(t)
    <3>1. pc[t] \in {"insert", "drain"} BY <2>7 DEF InsertObject
    <3>2. batch[t] # <<>> /\ batch[t] \in Seq(Addresses) BY <1>0, <3>1, Inserted
    <3>3. /\ batch' = [batch EXCEPT ![t] = Tail(@)]
          /\ UNCHANGED <<free_list_>>
          /\ \/ Len(batch[t]) > 1 /\ UNCHANGED pc
             \/ Len(batch[t]) = 1 /\ Goto(t, "idle")
             \/ Len(batch[t]) = 1 /\ Goto(t, "clear")
      BY <2>7 DEF InsertObject
    <3>4. PICK z \in Seq(Addresses) : z = Tail(batch[t]) /\ Len(z) = Len(batch[t]) - 1
      BY <3>2, HeadTail
    <3>5. z = <<>> <=> Len(batch[t]) = 1
      <4>1. Len(batch[t]) \in Nat BY <3>2
      <4>2. z = <<>> <=> Len(z) = 0 OBVIOUS
      <4>3. QED BY <4>1, <4>2, <3>4
    <3>6. batch'[t] = z /\ \A u \in Threads : u # t => batch'[u] = batch[u]
      BY <1>0, <3>3, <3>4 DEF TypeOK
    <3>7. CASE Len(batch[t]) > 1 /\ UNCHANGED pc
      <4>1. pc' = [pc EXCEPT ![t] = pc[t]] BY <3>7, <1>0 DEF TypeOK
      <4>2. batch'[t] # <<>>
        <5>1. Len(batch[t]) # 1
          <6>1. PICK n \in Nat : n = Len(batch[t]) BY <3>2
          <6>2. n > 1 => n # 1 OBVIOUS
          <6>3. QED BY <6>1, <6>2, <3>7
        <5>2. QED BY <5>1, <3>5, <3>6
      <4>3. PICK l \in PcValues : l = pc[t] BY <2>2
      <4>4. l # "nothing" /\ l # "unborn" /\ l \in {"insert", "drain"} BY <4>3, <3>1
      <4>5. QED BY <4>1, <4>2, <4>3, <4>4, <3>3, <3>6, <1>0, Calling
    <3>8. ASSUME NEW l \in {"idle", "clear"}, Len(batch[t]) = 1, Goto(t, l) PROVE CallInv'
      <4>1. batch'[t] = <<>> BY <3>5, <3>6, <3>8
      <4>2. QED BY <4>1, <2>0, <3>3, <3>6, <3>8, <1>0, Calling DEF Goto
    <3>9. QED BY <3>3, <3>7, <3>8
  <2>8. CASE Clear(t)
    <3>1. pc[t] = "clear" /\ batch[t] = <<>> BY <2>8, <1>0 DEF Clear, At, CallInv
    <3>2. ASSUME NEW b \in Unreleased(t),
                 NEW k, k = Smaller(MoveNum[b], Len(free_list_[t][b])), Goto(t, "drain"),
                 batch' = [batch EXCEPT ![t] = Front(free_list_[t][b], k)],
                 free_list_' = [free_list_ EXCEPT ![t][b] = Without(@, k)]
          PROVE  CallInv'
      <4>1. b \in Buckets /\ MoveNum[b] \in Nat \ {0} /\ free_list_[t][b] # <<>>
        BY ClassFacts DEF Unreleased
      <4>2. PICK f \in Seq(Addresses) : f = free_list_[t][b] /\ Distinct(f) BY <4>1, Apart
      <4>3. Front(f, k) # <<>> BY <4>1, <4>2, <3>2, Halves
      <4>4. batch'[t] # <<>> BY <4>2, <4>3, <3>2, <1>0 DEF TypeOK
      <4>5. \A u \in Threads : u # t => batch'[u] = batch[u] /\ free_list_'[u] = free_list_[u]
        BY <3>2, <1>0 DEF TypeOK
      <4>6. QED BY <4>4, <4>5, <3>2, <2>0, <1>0, Calling DEF Goto
    <3>3. ASSUME Goto(t, "unborn"), UNCHANGED batch,
                 free_list_' = [free_list_ EXCEPT ![t] = [b \in Buckets |-> <<>>]]
          PROVE  CallInv'
      <4>1. \A b \in Buckets : free_list_'[t][b] = <<>> BY <3>3, <1>0 DEF TypeOK
      <4>2. \A u \in Threads : u # t => batch'[u] = batch[u] /\ free_list_'[u] = free_list_[u]
        BY <3>3, <1>0 DEF TypeOK
      <4>3. batch'[t] = <<>> BY <3>1, <3>3
      <4>4. QED BY <4>1, <4>2, <4>3, <3>3, <2>0, <1>0, Calling DEF Goto
    <3>4. QED BY <2>8, <3>2, <3>3 DEF Clear
  <2>9. ASSUME pc[t] = "idle", UNCHANGED <<pc, batch>>,
               \A u \in Threads : u # t => free_list_'[u] = free_list_[u]
        PROVE  CallInv'
    <3>1. pc' = [pc EXCEPT ![t] = "idle"] BY <2>9, <1>0 DEF TypeOK
    <3>2. pc[t] \notin {"insert", "drain"} BY <2>9
    <3>3. QED BY <3>1, <3>2, <2>1, <2>9 DEF Goto
  <2>10. ASSUME NEW n \in Asked, AllocateCached(t, n) PROVE CallInv'
    <3>1. /\ pc[t] = "idle" /\ UNCHANGED <<pc, batch>>
          /\ free_list_' = [free_list_ EXCEPT ![t][ClassOf(n)] = Tail(@)]
      BY <2>10 DEF AllocateCached, At, callVars
    <3>2. \A u \in Threads : u # t => free_list_'[u] = free_list_[u]
      BY <3>1, <1>0 DEF TypeOK
    <3>3. QED BY <3>1, <3>2, <2>9
  <2>11. ASSUME NEW n \in Asked, AllocBig(t, n) PROVE CallInv'
    <3>1. pc[t] = "idle" /\ UNCHANGED <<free_list_, batch>> /\ (UNCHANGED pc \/ Goto(t, "nullptr"))
      BY <2>11 DEF AllocBig, At, callVars, cacheVars
    <3>2. pc[t] \notin {"insert", "drain"} BY <3>1
    <3>3. QED BY <3>1, <3>2, <2>1, <2>9
  <2>12. ASSUME NEW n \in Asked, RemoveRange(t, n) PROVE CallInv'
    <3> DEFINE b == ClassOf(n)
               p == Head(span_list_[b])
    <3>1. b \in Buckets /\ HasFreeSpan(b) BY <2>12, AskedFacts, ClassOfSize DEF RemoveRange
    <3>2. /\ PopObjects(t, b, p, Tail(span_list_[b]), allocated_num_[p], span_free_list_[p])
          /\ UNCHANGED batch /\ pc[t] = "idle"
      BY <2>12 DEF RemoveRange, callVars, At
    <3>3. allocated_num_[p] \in Nat /\ allocated_num_[p] < ObjectsNum(b)
      BY <1>0, <3>1, HeadSpan
    <3> HIDE DEF b, p
    <3>4. QED BY <3>1, <3>2, <3>3, <2>5
  <2>13. ASSUME NEW n \in Asked, RemoveRangeFull(t, n) PROVE CallInv'
    <3>1. pc[t] = "idle" /\ UNCHANGED <<free_list_, batch>> /\ Goto(t, "new")
      BY <2>13 DEF RemoveRangeFull, At, cacheVars
    <3>2. pc[t] \notin {"insert", "drain"} BY <3>1
    <3>3. QED BY <3>1, <3>2, <2>1
  <2>14. ASSUME NEW a \in live, Free(t, a) PROVE CallInv'
    <3> DEFINE b    == ClassOf(object_size_[SpanOf(a)])
               list == <<a>> \o free_list_[t][b]
               k    == Smaller(MoveNum[b], Len(list))
    <3>1. /\ pc[t] = "idle"
          /\ \/ /\ free_list_' = [free_list_ EXCEPT ![t][b] = list]
                /\ UNCHANGED <<pc, bucket_index, batch>>
             \/ /\ Goto(t, "insert")
                /\ free_list_' = [free_list_ EXCEPT ![t][b] = Without(list, k)]
                /\ batch' = [batch EXCEPT ![t] = Front(list, k)]
      BY <2>14 DEF Free, At
    <3>2. b \in Buckets BY <2>14, <1>0, Freed DEF Free
    <3> HIDE DEF b
    <3>3. a \in Addresses /\ free_list_[t][b] \in Seq(Addresses) BY <3>2, <1>0 DEF TypeOK
    <3>4. list \in Seq(Addresses) /\ Len(list) = Len(free_list_[t][b]) + 1 BY <3>3, Pushed
    <3>5. PICK r \in Seq(Addresses) : r = list /\ Len(r) # 0
      <4>1. Len(free_list_[t][b]) \in Nat BY <3>3
      <4>2. Len(list) # 0 BY <3>4, <4>1
      <4>3. QED BY <3>4, <4>2
    <3>6. MoveNum[b] \in Nat \ {0} BY <3>2, ClassFacts
    <3> HIDE DEF list
    <3>7. k \in 1..Len(r)
      <4>1. k = Smaller(MoveNum[b], Len(r)) BY <3>5
      <4>2. Len(r) \in Nat \ {0} BY <3>5
      <4>3. QED BY <4>1, <4>2, <3>6 DEF Smaller
    <3>8. Front(list, k) # <<>>
      <4>1. PICK m \in 1..Len(r) : m = k BY <3>7
      <4>2. Len(Front(r, m)) = m BY DEF Front
      <4>3. Front(r, m) # <<>> BY <4>2
      <4>4. QED BY <3>5, <4>1, <4>3
    <3> HIDE DEF k
    <3>9. \A u \in Threads : u # t => free_list_'[u] = free_list_[u]
      BY <3>1, <1>0 DEF TypeOK
    <3>10. CASE UNCHANGED <<pc, bucket_index, batch>> BY <3>1, <3>9, <3>10, <2>9
    <3>11. CASE Goto(t, "insert") /\ batch' = [batch EXCEPT ![t] = Front(list, k)]
      <4>1. batch'[t] # <<>> /\ \A u \in Threads : u # t => batch'[u] = batch[u]
        BY <3>8, <3>11, <1>0 DEF TypeOK
      <4>2. QED BY <4>1, <3>9, <3>11, <2>0, <1>0, Calling DEF Goto
    <3>12. QED BY <3>1, <3>10, <3>11
  <2>15. CASE Delete(t)
    <3>1. CASE /\ At(t, "idle") /\ Goto(t, "nullptr")
               /\ UNCHANGED <<cacheVars, centralVars, spanVars, live, callVars>>
      <4>1. pc[t] \notin {"insert", "drain"} /\ UNCHANGED <<free_list_, batch>>
        BY <3>1 DEF At, cacheVars, callVars
      <4>2. QED BY <4>1, <3>1, <2>1
    <3>2. QED BY <2>14, <2>15, <3>1 DEF Delete
  <2>16. QED
    BY <1>2, <2>3, <2>4, <2>6, <2>7, <2>8, <2>10, <2>11, <2>12, <2>13, <2>15 DEF Step
<1>3. QED BY <1>1, <1>2 DEF Next

LEMMA InitInv == Init => IInv
<1> SUFFICES ASSUME Init PROVE IInv OBVIOUS
<1>1. TypeOK BY InitType
<1>2. Elements(<<>>) = {} /\ Distinct(<<>>) BY DEF Elements, Distinct
<1>3. Used = {} /\ \A b \in Buckets : \A p : ~InClass(p, b) BY <1>2 DEF Init, Used, InClass
<1>4. SpanInv /\ HomeInv BY <1>3 DEF SpanInv, HomeInv
<1>5. \A S : FullLast(<<>>, S) BY DEF FullLast
<1>6. ListInv BY <1>2, <1>5 DEF ListInv, Init
<1>7. \A c \in Containers : Contents(c) = {}
  <2>1. SUFFICES ASSUME NEW c \in Containers PROVE Contents(c) = {} OBVIOUS
  <2>2. CASE c = <<"live", 0, 0>> BY <2>2, Seen DEF Init
  <2>3. ASSUME NEW t \in Threads, NEW b \in Buckets, c = <<"list", t, b>>
        PROVE  Contents(c) = {}
    <3>1. free_list_[t][b] = <<>> BY DEF Init
    <3>2. QED BY <2>3, <3>1, <1>2, Seen
  <2>4. ASSUME NEW t \in Threads, c = <<"batch", t, 0>> PROVE Contents(c) = {}
    <3>1. batch[t] = <<>> BY DEF Init
    <3>2. QED BY <2>4, <3>1, <1>2, Seen
  <2>5. ASSUME NEW p \in Pages, NEW b \in Buckets, c = <<"home", p, b>>
        PROVE  Contents(c) = {}
    BY <2>5, <1>3, Seen
  <2>6. QED BY <2>2, <2>3, <2>4, <2>5, Kinds
<1>8. Disjoint BY <1>7 DEF Disjoint
<1>9. NoneTwice BY <1>2 DEF NoneTwice, Init
<1>10. KindInv
  <2>1. \A t \in Threads : Elements(batch[t]) = {} BY <1>2 DEF Init
  <2>2. \A t \in Threads, b \in Buckets : Elements(free_list_[t][b]) = {} BY <1>2 DEF Init
  <2>3. live = {} BY DEF Init
  <2>4. QED BY <2>1, <2>2, <2>3, <1>3 DEF KindInv
<1>11. CallInv BY DEF CallInv, Init
<1>12. QED BY <1>1, <1>4, <1>6, <1>8, <1>9, <1>10, <1>11 DEF IInv
-----------------------------------------------------------------------------
(* The theorems. *)

(* Whatever threads allocate, free and fetch, and however InsertRange and  *)
(* RemoveRange of several classes interleave, the invariant holds, as long *)
(* as no big object is freed (TCFree takes it for one of class 1).         *)
THEOREM HeapInvariant == ASSUME ~FreesBig PROVE Spec => []IInv
<1>1. Init => IInv BY InitInv
<1>2. IInv /\ [Next]_vars => IInv'
  <2>1. SUFFICES ASSUME IInv, [Next]_vars PROVE IInv' OBVIOUS
  <2>2. TypeOK' /\ Kept' /\ CallInv' BY <2>1, NextType, NextKept, NextCall
  <2>3. QED BY <2>2 DEF IInv, Kept
<1>3. QED BY <1>1, <1>2, PTL DEF Spec

(* What an element of Places(a) is: a container that holds a, and where in *)
(* its list.                                                               *)
ListOf(c) == IF c[1] = "list" THEN free_list_[c[2]][c[3]]
             ELSE IF c[1] = "batch" THEN batch[c[2]] ELSE Home(c[2])

Place(c, k, a) ==
  /\ a \in Contents(c)
  /\ IF c[1] = "live" THEN k = 0 ELSE k \in Positions(ListOf(c), a) /\ Distinct(ListOf(c))

LEMMA OfList ==
  ASSUME NEW s, NEW a
  PROVE  Positions(s, a) # {} <=> a \in Elements(s)
BY DEF Positions, Elements

LEMMA OfPlaces ==
  ASSUME NEW a, NEW x
  PROVE  x \in Places(a) <=>
           \/ x = <<"live", 0, 0, 0>> /\ a \in live
           \/ \E t \in Threads, b \in Buckets : \E k \in Positions(free_list_[t][b], a) :
                x = <<"list", t, b, k>>
           \/ \E t \in Threads : \E k \in Positions(batch[t], a) : x = <<"batch", t, 0, k>>
           \/ \E p \in Pages, b \in Buckets : InClass(p, b)
                /\ \E k \in Positions(Home(p), a) : x = <<"home", p, b, k>>
<1> DEFINE L == {<<"live", 0, 0, 0>> : z \in live \cap {a}}
           F(t, b) == {<<"list", t, b, k>> : k \in Positions(free_list_[t][b], a)}
           B(t) == {<<"batch", t, 0, k>> : k \in Positions(batch[t], a)}
           H(p, b) == {<<"home", p, b, k>> : k \in IF InClass(p, b) THEN Positions(Home(p), a) ELSE {}}
<1>1. Places(a) = L \cup (UNION {F(t, b) : t \in Threads, b \in Buckets})
                  \cup (UNION {B(t) : t \in Threads})
                  \cup (UNION {H(p, b) : p \in Pages, b \in Buckets})
  BY DEF Places
<1>2. x \in L <=> x = <<"live", 0, 0, 0>> /\ a \in live OBVIOUS
<1>3. \A t, b : x \in F(t, b) <=> \E k \in Positions(free_list_[t][b], a) : x = <<"list", t, b, k>>
  OBVIOUS
<1>4. \A t : x \in B(t) <=> \E k \in Positions(batch[t], a) : x = <<"batch", t, 0, k>>
  OBVIOUS
<1>5. \A p, b : x \in H(p, b) <=>
        InClass(p, b) /\ \E k \in Positions(Home(p), a) : x = <<"home", p, b, k>>
  OBVIOUS
<1> HIDE DEF L, F, B, H
<1>6. x \in Places(a) <=> \/ x \in L
                          \/ \E t \in Threads, b \in Buckets : x \in F(t, b)
                          \/ \E t \in Threads : x \in B(t)
                          \/ \E p \in Pages, b \in Buckets : x \in H(p, b)
  BY <1>1
<1>7. QED BY <1>2, <1>3, <1>4, <1>5, <1>6

LEMMA PlaceIs ==
  ASSUME IInv, NEW a, NEW x \in Places(a)
  PROVE  \E c \in Containers : \E k : x = <<c[1], c[2], c[3], k>> /\ Place(c, k, a)
<1>0. TypeOK /\ SpanInv /\ HomeInv /\ NoneTwice BY DEF IInv
<1>1. CASE x = <<"live", 0, 0, 0>> /\ a \in live
  <2> DEFINE c == <<"live", 0, 0>>
  <2>1. c \in Containers /\ a \in Contents(c) BY <1>1, Kinds, Seen
  <2>2. Place(c, 0, a) BY <2>1 DEF Place
  <2>3. x = <<c[1], c[2], c[3], 0>> BY <1>1
  <2>4. QED BY <2>1, <2>2, <2>3
<1>2. ASSUME NEW t \in Threads, NEW b \in Buckets, NEW k \in Positions(free_list_[t][b], a),
             x = <<"list", t, b, k>>
      PROVE  \E c \in Containers : \E j : x = <<c[1], c[2], c[3], j>> /\ Place(c, j, a)
  <2> DEFINE c == <<"list", t, b>>
  <2>1. c \in Containers BY Kinds
  <2>2. ListOf(c) = free_list_[t][b] BY DEF ListOf
  <2>3. Distinct(free_list_[t][b]) BY <1>0 DEF NoneTwice
  <2>4. a \in Contents(c) BY Seen, OfList
  <2>5. Place(c, k, a) BY <2>2, <2>3, <2>4 DEF Place
  <2>6. x = <<c[1], c[2], c[3], k>> BY <1>2
  <2>7. QED BY <2>1, <2>5, <2>6
<1>3. ASSUME NEW t \in Threads, NEW k \in Positions(batch[t], a), x = <<"batch", t, 0, k>>
      PROVE  \E c \in Containers : \E j : x = <<c[1], c[2], c[3], j>> /\ Place(c, j, a)
  <2> DEFINE c == <<"batch", t, 0>>
  <2>1. c \in Containers BY Kinds
  <2>2. ListOf(c) = batch[t] BY DEF ListOf
  <2>3. Distinct(batch[t]) BY <1>0 DEF NoneTwice
  <2>4. a \in Contents(c) BY Seen, OfList
  <2>5. Place(c, k, a) BY <2>2, <2>3, <2>4 DEF Place
  <2>6. x = <<c[1], c[2], c[3], k>> BY <1>3
  <2>7. QED BY <2>1, <2>5, <2>6
<1>4. ASSUME NEW p \in Pages, NEW b \in Buckets, InClass(p, b), NEW k \in Positions(Home(p), a),
             x = <<"home", p, b, k>>
      PROVE  \E c \in Containers : \E j : x = <<c[1], c[2], c[3], j>> /\ Place(c, j, a)
  <2> DEFINE c == <<"home", p, b>>
  <2>1. c \in Containers BY Kinds
  <2>2. ListOf(c) = Home(p) BY DEF ListOf
  <2>3. Distinct(Home(p)) /\ Home(p) = AtHome(p, b) BY <1>0, <1>4, HomeFacts
  <2>4. a \in Contents(c) BY <1>4, <2>3, Seen, OfList
  <2>5. Place(c, k, a) BY <2>2, <2>3, <2>4 DEF Place
  <2>6. x = <<c[1], c[2], c[3], k>> BY <1>4
  <2>7. QED BY <2>1, <2>5, <2>6
<1>5. QED BY <1>1, <1>2, <1>3, <1>4, OfPlaces

LEMMA HasPlace ==
  ASSUME IInv, NEW a, Held(a)
  PROVE  Places(a) # {}
<1>0. TypeOK /\ SpanInv /\ HomeInv BY DEF IInv
<1>1. PICK c \in Containers : a \in Contents(c) BY DEF Held
<1>2. CASE c = <<"live", 0, 0>>
  <2>1. a \in live BY <1>1, <1>2, Seen
  <2>2. <<"live", 0, 0, 0>> \in Places(a) BY <2>1, OfPlaces
  <2>3. QED BY <2>2
<1>3. ASSUME NEW t \in Threads, NEW b \in Buckets, c = <<"list", t, b>> PROVE Places(a) # {}
  <2>1. a \in Elements(free_list_[t][b]) BY <1>1, <1>3, Seen
  <2>2. PICK k : k \in Positions(free_list_[t][b], a) BY <2>1, OfList
  <2>3. <<"list", t, b, k>> \in Places(a) BY <2>2, OfPlaces
  <2>4. QED BY <2>3
<1>4. ASSUME NEW t \in Threads, c = <<"batch", t, 0>> PROVE Places(a) # {}
  <2>1. a \in Elements(batch[t]) BY <1>1, <1>4, Seen
  <2>2. PICK k : k \in Positions(batch[t], a) BY <2>1, OfList
  <2>3. <<"batch", t, 0, k>> \in Places(a) BY <2>2, OfPlaces
  <2>4. QED BY <2>3
<1>5. ASSUME NEW p \in Pages, NEW b \in Buckets, c = <<"home", p, b>> PROVE Places(a) # {}
  <2>1. InClass(p, b) /\ a \in Elements(AtHome(p, b)) BY <1>1, <1>5, Seen
  <2>2. Home(p) = AtHome(p, b) BY <2>1, <1>0, HomeFacts
  <2>3. PICK k : k \in Positions(Home(p), a) BY <2>1, <2>2, OfList
  <2>4. <<"home", p, b, k>> \in Places(a) BY <2>1, <2>3, OfPlaces
  <2>5. QED BY <2>4
<1>6. QED BY <1>1, <1>2, <1>3, <1>4, <1>5, Kinds

LEMMA OnePlace ==
  ASSUME IInv, NEW a, Held(a)
  PROVE  \E x \in Places(a) : Places(a) = {x}
<1>1. PICK x : x \in Places(a) BY HasPlace
<1>2. ASSUME NEW y \in Places(a) PROVE x = y
  <2>1. PICK c \in Containers : \E k : x = <<c[1], c[2], c[3], k>> /\ Place(c, k, a)
    BY <1>1, PlaceIs
  <2>2. PICK k : x = <<c[1], c[2], c[3], k>> /\ Place(c, k, a) BY <2>1
  <2>3. PICK d \in Containers : \E j : y = <<d[1], d[2], d[3], j>> /\ Place(d, j, a)
    BY PlaceIs
  <2>4. PICK j : y = <<d[1], d[2], d[3], j>> /\ Place(d, j, a) BY <2>3
  <2>5. c = d
    <3>1. a \in Contents(c) /\ a \in Contents(d) BY <2>2, <2>4 DEF Place
    <3>2. QED BY <3>1 DEF IInv, Disjoint
  <2>6. k = j
    <3>1. CASE c[1] = "live" BY <3>1, <2>2, <2>4, <2>5 DEF Place
    <3>2. CASE c[1] # "live"
      <4>1. /\ k \in Positions(ListOf(c), a) /\ j \in Positions(ListOf(c), a)
            /\ Distinct(ListOf(c))
        BY <3>2, <2>2, <2>4, <2>5 DEF Place
      <4>2. QED BY <4>1 DEF Positions, Distinct
    <3>3. QED BY <3>1, <3>2
  <2>7. QED BY <2>2, <2>4, <2>5, <2>6
<1>3. QED BY <1>1, <1>2

LEMMA Accounted == IInv => ObjectsAccounted
<1> SUFFICES ASSUME IInv PROVE ObjectsAccounted OBVIOUS
<1>0. TypeOK /\ SpanInv /\ HomeInv /\ KindInv BY DEF IInv
<1>1. ASSUME NEW b \in Buckets, NEW p \in Elements(span_list_[b])
      PROVE  LET objects == Elements(Objects(p, b))
                 home    == Elements(Home(p))
             IN  /\ pages_num_[p] = ClassPages[b] /\ object_size_[p] = ClassSize[b]
                 /\ \A a \in objects : \E x \in Places(a) : Places(a) = {x}
                 /\ home \subseteq objects
                 /\ allocated_num_[p] = Cardinality(objects \ home)
  <2> DEFINE objects == Elements(Objects(p, b))
             home    == Elements(Home(p))
  <2>1. InClass(p, b) BY DEF InClass
  <2>2. /\ p \in Pages /\ pages_num_[p] = ClassPages[b] /\ object_size_[p] = ClassSize[b]
        /\ Run(p, ClassPages[b]) \subseteq Pages
    BY <2>1, <1>0, Listed
  <2>3. /\ Home(p) = AtHome(p, b) /\ allocated_num_[p] \in Nat \ {0}
        /\ allocated_num_[p] <= ObjectsNum(b)
        /\ Len(AtHome(p, b)) = ObjectsNum(b) - allocated_num_[p]
        /\ ObjectsNum(b) - allocated_num_[p] \in 0..Len(span_free_list_[p])
        /\ Distinct(AtHome(p, b)) /\ Elements(AtHome(p, b)) \subseteq objects
    BY <2>1, <1>0, HomeFacts
  <2>4. \A a \in objects : \E x \in Places(a) : Places(a) = {x}
    <3>1. \A a \in objects : Held(a) BY <2>1, <2>2, <1>0 DEF KindInv
    <3>2. QED BY <3>1, OnePlace
  <2>5. allocated_num_[p] = Cardinality(objects \ home)
    <3>1. IsFiniteSet(objects) /\ Cardinality(objects) = ObjectsNum(b)
      BY <2>2, ObjectsFacts, DistinctCount
    <3>2. AtHome(p, b) \in Seq(Addresses \cup {Stale})
      <4>1. span_free_list_[p] \in Seq(Addresses \cup {Stale}) BY <1>0, <2>2 DEF TypeOK
      <4>2. QED BY <4>1, <2>3, Cut DEF AtHome
    <3>3. Cardinality(home) = ObjectsNum(b) - allocated_num_[p]
      BY <3>2, <2>3, DistinctCount
    <3>4. objects \cap home = home BY <2>3
    <3> HIDE DEF objects, home
    <3>5. Cardinality(objects \ home) = Cardinality(objects) - Cardinality(objects \cap home)
      BY <3>1, FS_Difference
    <3>6. ObjectsNum(b) \in Nat BY ObjectsCount
    <3>7. Cardinality(objects \ home) = ObjectsNum(b) - (ObjectsNum(b) - allocated_num_[p])
      BY <3>1, <3>3, <3>4, <3>5
    <3>8. allocated_num_[p] \in Nat BY <2>3
    <3>9. QED BY <3>6, <3>7, <3>8
  <2>6. QED BY <2>2, <2>3, <2>4, <2>5
<1>2. ASSUME NEW a \in live
      PROVE  \/ \E b \in Buckets : ObjectOf(a, b)
             \/ BigAt(a) /\ Places(a) = {<<"live", 0, 0, 0>>}
  <2>1. CASE BigAt(a)
    <3>1. <<"live", 0, 0, 0>> \in Places(a) BY OfPlaces
    <3>2. Held(a)
      <4>1. <<"live", 0, 0>> \in Containers /\ a \in Contents(<<"live", 0, 0>>)
        BY Kinds, Seen
      <4>2. QED BY <4>1 DEF Held
    <3>3. Places(a) = {<<"live", 0, 0, 0>>} BY <3>1, <3>2, OnePlace
    <3>4. QED BY <2>1, <3>3
  <2>2. QED BY <2>1, <1>0 DEF KindInv
<1>3. /\ \A t \in Threads, b \in Buckets : \A a \in Elements(free_list_[t][b]) : ObjectOf(a, b)
      /\ \A t \in Threads : \A a \in Elements(batch[t]) : ObjectOf(a, bucket_index[t])
  BY <1>0 DEF KindInv
<1>4. QED BY <1>0, <1>1, <1>2, <1>3 DEF ObjectsAccounted

(* Every object of a span is in exactly one place and allocated_num_ of    *)
(* the span counts those outside: no address is given out twice, and       *)
(* InsertRange returns a span only when all its objects are home.          *)
THEOREM ObjectsStayAccounted == ASSUME ~FreesBig PROVE Spec => []ObjectsAccounted
BY HeapInvariant, Accounted, PTL

LEMMA Serves == IInv => FetchServes
<1> SUFFICES ASSUME IInv PROVE FetchServes OBVIOUS
<1>0. TypeOK /\ SpanInv /\ HomeInv /\ ListInv /\ CallInv BY DEF IInv
<1>1. ASSUME NEW b \in Buckets, NEW j \in DOMAIN span_list_[b], NEW k \in DOMAIN span_list_[b],
             j < k
      PROVE  /\ span_list_[b][j] # span_list_[b][k]
             /\ IsFull(span_list_[b][j]) => IsFull(span_list_[b][k])
  <2>1. PICK s \in Seq(Pages) : s = span_list_[b] BY <1>0 DEF TypeOK
  <2>2. Distinct(s) /\ FullLast(s, Full(b)) BY <2>1, <1>0 DEF ListInv
  <2>3. j \in 1..Len(s) /\ k \in 1..Len(s) BY <2>1
  <2>4. s[j] # s[k] BY <2>2, <2>3, <1>1 DEF Distinct
  <2>5. InClass(s[j], b) /\ InClass(s[k], b) BY <2>1 DEF InClass, Elements
  <2>6. (IsFull(s[j]) <=> s[j] \in Full(b)) /\ (IsFull(s[k]) <=> s[k] \in Full(b))
    BY <2>5, <1>0, HomeFacts
  <2>7. s[j] \in Full(b) => s[k] \in Full(b) BY <2>2, <2>3, <1>1 DEF FullLast
  <2>8. QED BY <2>1, <2>4, <2>6, <2>7
<1>2. FullSpansLast BY <1>1 DEF FullSpansLast
<1>3. \A t \in Threads : ~At(t, "nothing") BY <1>0 DEF CallInv, At
<1>4. QED BY <1>2, <1>3 DEF FetchServes

(* The full spans are last in the list of their class, so RemoveRange, who *)
(* looks at the first one only, never comes back with nothing.             *)
THEOREM FetchAlwaysServes == ASSUME ~FreesBig PROVE Spec => []FetchServes
BY HeapInvariant, Serves, PTL

LEMMA Leaks == IInv => NothingLeaks
<1> SUFFICES ASSUME IInv, live = {}, \A t \in Threads : At(t, "unborn"), NEW p \in Used
             PROVE  FALSE
  BY DEF NothingLeaks
<1>0. TypeOK /\ SpanInv /\ HomeInv /\ KindInv /\ CallInv /\ Disjoint BY DEF IInv
<1>1. PICK b \in Buckets : InClass(p, b) BY <1>0 DEF SpanInv
<1>2. /\ p \in Pages /\ Run(p, ClassPages[b]) \subseteq Pages
      /\ \A c \in Buckets : InClass(p, c) => b = c
  BY <1>0, <1>1, Listed
<1> DEFINE O == Elements(Objects(p, b))
           H == Elements(AtHome(p, b))
<1>3. \E a \in O : a \notin H
  <2>1. /\ ObjectsNum(b) - allocated_num_[p] \in 0..Len(span_free_list_[p])
        /\ ObjectsNum(b) - allocated_num_[p] < ObjectsNum(b)
        /\ Len(AtHome(p, b)) = ObjectsNum(b) - allocated_num_[p]
        /\ Distinct(AtHome(p, b)) /\ H \subseteq O
    BY <1>0, <1>1, HomeFacts
  <2>2. Cardinality(O) = ObjectsNum(b) BY <1>2, ObjectsFacts, DistinctCount
  <2>3. AtHome(p, b) \in Seq(Addresses \cup {Stale})
    <3>1. span_free_list_[p] \in Seq(Addresses \cup {Stale}) BY <1>0, <1>2 DEF TypeOK
    <3>2. QED BY <3>1, <2>1, Cut DEF AtHome
  <2>4. Cardinality(H) = ObjectsNum(b) - allocated_num_[p] BY <2>1, <2>3, DistinctCount
  <2>5. ObjectsNum(b) \in Nat BY ObjectsCount
  <2> HIDE DEF O, H
  <2>6. O # H BY <2>1, <2>2, <2>4, <2>5
  <2>7. QED BY <2>1, <2>6
<1>4. PICK a \in O : a \notin H BY <1>3
<1>5. Held(a) BY <1>0, <1>1, <1>2 DEF KindInv
<1>6. PICK c \in Containers : a \in Contents(c) BY <1>5 DEF Held
<1>7. Elements(<<>>) = {} BY DEF Elements
<1>8. CASE c = <<"live", 0, 0>> BY <1>6, <1>8, Seen
<1>9. ASSUME NEW t \in Threads, NEW d \in Buckets, c = <<"list", t, d>> PROVE FALSE
  <2>1. free_list_[t][d] = <<>> BY <1>0 DEF CallInv, At
  <2>2. QED BY <2>1, <1>6, <1>7, <1>9, Seen
<1>10. ASSUME NEW t \in Threads, c = <<"batch", t, 0>> PROVE FALSE
  <2>1. batch[t] = <<>> BY <1>0 DEF CallInv, At
  <2>2. QED BY <2>1, <1>6, <1>7, <1>10, Seen
<1>11. ASSUME NEW q \in Pages, NEW d \in Buckets, c = <<"home", q, d>> PROVE FALSE
  <2>1. InClass(q, d) /\ a \in Elements(AtHome(q, d)) BY <1>6, <1>11, Seen
  <2>2. a \in Elements(Objects(q, d)) BY <2>1, <1>0 DEF HomeInv
  <2>3. SpanOf(a) = q BY <2>1, <2>2, <1>0, ObjectFacts
  <2>4. SpanOf(a) = p BY <1>0, <1>1, ObjectFacts
  <2>5. d = b BY <2>1, <2>3, <2>4, <1>2
  <2>6. QED BY <2>1, <2>3, <2>4, <2>5, <1>4
<1>12. QED BY <1>6, <1>8, <1>9, <1>10, <1>11, Kinds

(* When the program has freed everything and the caches of all threads are *)
(* cleared, no span is left in the central cache: all pages are back.      *)
THEOREM NothingEverLeaks == ASSUME ~FreesBig PROVE Spec => []NothingLeaks
BY HeapInvariant, Leaks, PTL
=============================================================================
