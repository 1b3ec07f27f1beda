------------------------ MODULE TCPageCache_proofs ------------------------
(***************************************************************************)
(* Proofs about the page heap: the page map leads from every page to its   *)
(* span, the lists hold the free spans, the second search finds what       *)
(* GrowHeap added, and TCPageCache implements PageAllocator, whatever the  *)
(* size of the heap, of the lists, of the system's portions and of the     *)
(* leaves.  First what RoundUp, the leaves and the lists compute, then     *)
(* Carve and MergeIntoSpanList, then the actions.                          *)
(***************************************************************************)
EXTENDS TCPageCache, FiniteSetTheorems, SequenceTheorems, WellFoundedInduction,
        TLAPS

(* Span r is in list l; no span is twice in it. *)
In(r, l) == \E k \in DOMAIN l : l[k] = r
Once(l)  == \A j, k \in DOMAIN l : l[j] = l[k] => j = k

(* The spans that the lists are to hold. *)
Free(s) == s \in spans /\ ~in_use_[s] /\ s # result /\ s # merging

(* What the page map holds can be reached. *)
Mapping == \A p \in AllPages : page_map_[p] # Null => LeafOf(p) \in root_

(* PagesPartitioned without the leaves, while nothing is merged. *)
Partition ==
  at # "cleared" /\ merging = Null =>
    /\ \A p \in AllPages : page_map_[p] # Null <=> p \in mapped
    /\ \A p \in mapped : page_map_[p] \in spans /\ p \in Extent(page_map_[p])
    /\ \A s \in spans : \A p \in Extent(s) : p \in mapped /\ page_map_[p] = s

(* The same during a merge: but for the pages of the span that is merged.  *)
Apart ==
  /\ merging \in spans /\ ~in_use_[merging] /\ result = Null
  /\ pages_num_[merging] >= request
  /\ \A p \in Extent(merging) : p \in mapped /\ LeafOf(p) \in root_
  /\ \A p \in AllPages \ Extent(merging) : page_map_[p] # Null <=> p \in mapped
  /\ \A p \in mapped \ Extent(merging) :
       page_map_[p] \in spans \ {merging} /\ p \in Extent(page_map_[p])
  /\ \A s \in spans \ {merging} : \A p \in Extent(s) :
       p \in mapped \ Extent(merging) /\ page_map_[p] = s

Merge == /\ merging # Null <=> at \in {"merge_prev", "merge_next", "record"}
         /\ merging # Null => Apart

(* What the steps of the merge have found out about the neighbours. *)
NoneBefore == \A r \in spans : Free(r) => Last(r) + 1 # first_page_id_[merging]
NoneBehind == \A r \in spans : Free(r) => Last(merging) + 1 # first_page_id_[r]
Joined == /\ at \in {"merge_next", "record"} => NoneBefore
          /\ at = "record" => NoneBehind

Listing ==
  at # "cleared" =>
    \A i \in Indexes :
      /\ Once(span_list_[i])
      /\ \A s \in Spans :
           In(s, span_list_[i]) <=> Free(s) /\ ListIndex(pages_num_[s]) = i

Separate ==
  \A s, r \in spans : Free(s) /\ Free(r) => Last(s) + 1 # first_page_id_[r]

(* What is known between the steps of AllocateSpan. *)
Calls ==
  /\ at \in {"idle", "cleared"} => request = 0 /\ result = Null
  /\ at \in {"grow", "again"} => request \in 1..MaxRequest /\ result = Null
  /\ at = "again" => Fitting(request) # {}
  /\ at = "found" => /\ result \in spans /\ ~in_use_[result]
                     /\ pages_num_[result] = request
                     /\ request \in 1..MaxRequest
  /\ at # "nullptr"

IInv == /\ TypeOK /\ Mapping /\ Partition /\ Merge /\ Joined
        /\ Listing /\ Separate /\ Calls
-----------------------------------------------------------------------------
LEMMA HasMinimum ==
  ASSUME NEW S \in SUBSET Nat, S # {}
  PROVE  \E i \in S : \A j \in S : i <= j
<1> DEFINE R == {ss \in Nat \X Nat : ss[1] < ss[2]}
<1>1. IsWellFoundedOn(R, Nat)
  BY NatLessThanWellFounded, Zenon DEF OpToRel
<1>2. \A j, i \in Nat : j < i => <<j, i>> \in R
  OBVIOUS
<1> HIDE DEF R
<1>3. PICK i \in S : \A j \in S : ~(<<j, i>> \in R)
  BY <1>1, WFMin, Zenon
<1>4. ASSUME NEW j \in S
      PROVE  i <= j
  <2>1. ~(j < i)
    BY <1>2, <1>3
  <2> QED
    BY <2>1
<1> QED
  BY <1>4

LEMMA Concatenation ==
  ASSUME NEW S, NEW f \in Seq(S), NEW g \in Seq(S)
  PROVE  /\ f \o g \in Seq(S) /\ Len(f \o g) = Len(f) + Len(g)
         /\ \A k \in 1..(Len(f) + Len(g)) :
               (f \o g)[k] = IF k <= Len(f) THEN f[k] ELSE g[k - Len(f)]
OBVIOUS

LEMMA Removal ==
  ASSUME NEW S, NEW l \in Seq(S), NEW s, Once(l)
  PROVE  /\ Ext!RemoveFirst(l, s) \in Seq(S)
         /\ Once(Ext!RemoveFirst(l, s))
         /\ \A r : In(r, Ext!RemoveFirst(l, s)) <=> In(r, l) /\ r # s
<1>1. CASE ~\E i \in 1..Len(l) : l[i] = s
  <2>1. Ext!RemoveFirst(l, s) = l
    BY <1>1 DEF Ext!RemoveFirst
  <2> QED
    BY <2>1, <1>1 DEF In
<1>2. CASE \E i \in 1..Len(l) : l[i] = s
  <2>1. PICK i \in 1..Len(l) : l[i] = s
    BY <1>2
  <2> DEFINE I == {j \in 1..Len(l) : l[j] = s}
  <2>2. I = {i}
    BY <2>1 DEF Once
  <2>3. Ext!Min(I) = i
    BY <2>2 DEF Ext!Min
  <2>4. Ext!SelectInSeq(l, LAMBDA v : v = s) = i
    BY <2>2, <2>3 DEF Ext!SelectInSeq
  <2>5. Ext!RemoveFirst(l, s) = SubSeq(l, 1, i - 1) \o SubSeq(l, i + 1, Len(l))
    BY <1>2, <2>4 DEF Ext!RemoveFirst, Ext!RemoveAt
  <2> DEFINE m == Ext!RemoveFirst(l, s)
  <2>6. /\ m \in Seq(S) /\ Len(m) = Len(l) - 1
        /\ \A k \in 1..Len(m) : m[k] = IF k < i THEN l[k] ELSE l[k + 1]
    <3>1. PICK f, g : f = SubSeq(l, 1, i - 1) /\ g = SubSeq(l, i + 1, Len(l))
      OBVIOUS
    <3>2. f \in Seq(S) /\ Len(f) = i - 1 /\ \A k \in 1..(i - 1) : f[k] = l[k]
      BY <3>1
    <3>3. /\ g \in Seq(S) /\ Len(g) = Len(l) - i
          /\ \A k \in 1..(Len(l) - i) : g[k] = l[i + k]
      BY <3>1
    <3>4. m = f \o g
      BY <2>5, <3>1
    <3> HIDE DEF m
    <3>5. m \in Seq(S) /\ Len(m) = Len(f) + Len(g)
      BY <3>2, <3>3, <3>4, Concatenation
    <3>6. \A k \in 1..(Len(f) + Len(g)) :
            m[k] = IF k <= Len(f) THEN f[k] ELSE g[k - Len(f)]
      BY <3>2, <3>3, <3>4, Concatenation
    <3>7. Len(m) = Len(l) - 1
      BY <3>2, <3>3, <3>5
    <3>8. ASSUME NEW k \in 1..Len(m)
          PROVE  m[k] = IF k < i THEN l[k] ELSE l[k + 1]
      <4>1. CASE k < i
        BY <3>2, <3>3, <3>5, <3>6, <4>1
      <4>2. CASE k >= i
        <5>1. m[k] = g[k - Len(f)] /\ k - Len(f) = k - i + 1
          BY <3>2, <3>3, <3>5, <3>6, <4>2
        <5>2. k - i + 1 \in 1..(Len(l) - i) /\ i + (k - i + 1) = k + 1
          BY <3>7, <4>2
        <5>3. g[k - i + 1] = l[i + (k - i + 1)]
          BY <3>3, <5>2
        <5>4. m[k] = l[k + 1] /\ ~(k < i)
          BY <4>2, <5>1, <5>2, <5>3
        <5> QED
          BY <5>4
      <4> QED
        BY <4>1, <4>2
    <3> QED
      BY <3>5, <3>7, <3>8
  <2> HIDE DEF m
  <2>7. ASSUME NEW j \in DOMAIN m, NEW k \in DOMAIN m, m[j] = m[k]
        PROVE  j = k
    <3>1. PICK a \in DOMAIN l : m[j] = l[a] /\ a = IF j < i THEN j ELSE j + 1
      BY <2>6
    <3>2. PICK b \in DOMAIN l : m[k] = l[b] /\ b = IF k < i THEN k ELSE k + 1
      BY <2>6
    <3>3. a = b
      BY <2>7, <3>1, <3>2 DEF Once
    <3> QED
      BY <2>6, <3>1, <3>2, <3>3
  <2>8. ASSUME NEW r
        PROVE  In(r, m) <=> In(r, l) /\ r # s
    <3>1. ASSUME NEW k \in DOMAIN m, m[k] = r
          PROVE  In(r, l) /\ r # s
      BY <3>1, <2>1, <2>6 DEF In, Once
    <3>2. ASSUME NEW k \in DOMAIN l, l[k] = r, r # s
          PROVE  In(r, m)
      <4>1. k # i
        BY <3>2, <2>1
      <4>2. CASE k < i
        <5>1. k \in DOMAIN m /\ m[k] = r
          BY <3>2, <2>6, <4>2
        <5> QED
          BY <5>1 DEF In
      <4>3. CASE k > i
        <5>1. k - 1 \in DOMAIN m /\ m[k - 1] = r
          BY <3>2, <2>6, <4>3
        <5> QED
          BY <5>1 DEF In
      <4> QED
        BY <4>1, <4>2, <4>3
    <3> QED
      BY <3>1, <3>2 DEF In
  <2> QED
    BY <2>6, <2>7, <2>8 DEF m, Once
<1> QED
  BY <1>1, <1>2
LEMMA Division ==
  ASSUME NEW a \in Nat, NEW m \in Nat \ {0}
  PROVE  /\ a \div m \in Nat
         /\ m * (a \div m) <= a /\ a < m * (a \div m) + m
         /\ a % m = a - m * (a \div m)
OBVIOUS

LEMMA Rounding ==
  ASSUME NEW a \in Nat, NEW m \in Nat \ {0}
  PROVE  RoundUp(a, m) \in Nat /\ RoundUp(a, m) >= a
<1> DEFINE q == (a + m - 1) \div m
<1>1. a + m - 1 \in Nat
  OBVIOUS
<1>2. q \in Nat /\ a + m - 1 < m * q + m
  BY <1>1, Division
<1>3. RoundUp(a, m) = q * m
  BY DEF RoundUp
<1> HIDE DEF q
<1>4. q * m = m * q /\ q * m \in Nat
  BY <1>2
<1> QED
  BY <1>2, <1>3, <1>4

LEMMA Monotonic ==
  ASSUME NEW a \in Nat, NEW b \in Nat, a <= b
  PROVE  LeafOf(a) \in Nat /\ LeafOf(a) <= LeafOf(b)
<1> DEFINE qa == a \div LeafLength
           qb == b \div LeafLength
<1>1. /\ qa \in Nat /\ LeafLength * qa <= a
      /\ qb \in Nat /\ b < LeafLength * qb + LeafLength
  BY Division, PagesAssumption
<1>2. LeafOf(a) = qa /\ LeafOf(b) = qb
  BY DEF LeafOf
<1> HIDE DEF qa, qb
<1>3. LeafLength \in Nat \ {0}
  BY PagesAssumption
<1>4. ASSUME qb + 1 <= qa
      PROVE  LeafLength * (qb + 1) <= LeafLength * qa
  BY <1>1, <1>3, <1>4
<1>5. LeafLength * (qb + 1) = LeafLength * qb + LeafLength
  BY <1>1, <1>3
<1> DEFINE x == LeafLength * qa
           y == LeafLength * qb
           z == LeafLength * (qb + 1)
<1>6. x \in Nat /\ y \in Nat /\ z \in Nat
  BY <1>1, <1>3
<1>7. x <= a /\ b < y + LeafLength /\ z = y + LeafLength /\ (qb + 1 <= qa => z <= x)
  BY <1>1, <1>4, <1>5
<1> HIDE DEF x, y, z
<1> QED
  BY <1>1, <1>2, <1>3, <1>6, <1>7

LEMMA EveryLeaf ==
  ASSUME NEW a \in Nat, NEW n \in Nat, NEW p \in Run(a, n)
  PROVE  LeafOf(p) \in Ensure(a, n)
<1> DEFINE q == p \div LeafLength
           b == LeafLength * q
<1>1. p \in Nat /\ p >= a /\ p < a + n
  BY DEF Run
<1>2. LeafLength \in Nat \ {0}
  BY PagesAssumption
<1>3. q \in Nat /\ b <= p /\ p < b + LeafLength
  BY <1>1, <1>2, Division
<1>4. b \in Nat
  BY <1>2, <1>3
<1>5. b \div LeafLength = q /\ b % LeafLength = 0
  BY <1>2, <1>3
<1>6. LeafOf(p) = q /\ LeafOf(b) = q
  BY <1>5 DEF LeafOf
<1> HIDE DEF q, b
<1>7. CASE b >= a
  <2>1. b \in Run(a, n)
    BY <1>1, <1>2, <1>3, <1>4, <1>7 DEF Run
  <2> QED
    BY <2>1, <1>5, <1>6 DEF Ensure
<1>8. CASE b < a
  <2>1. a \div LeafLength = q
    <3>1. a >= b /\ a < b + LeafLength
      BY <1>1, <1>2, <1>3, <1>4, <1>8
    <3> QED
      BY <3>1, <1>2, <1>3, <1>4 DEF b
  <2>2. a \in Run(a, n)
    BY <1>1 DEF Run
  <2> QED
    BY <2>1, <2>2, <1>6 DEF Ensure, LeafOf
<1> QED
  BY <1>4, <1>7, <1>8

(* What AddToSpanList and TryPop do to the lists. *)
LEMMA ListIndexes ==
  ASSUME NEW n \in Nat \ {0}
  PROVE  ListIndex(n) \in Indexes
BY PagesAssumption DEF ListIndex, Indexes

LEMMA PushFront ==
  ASSUME NEW S, NEW l \in Seq(S), NEW s \in S, Once(l), ~In(s, l)
  PROVE  /\ <<s>> \o l \in Seq(S) /\ Once(<<s>> \o l)
         /\ <<s>> \o l # <<>> /\ Head(<<s>> \o l) = s
         /\ \A r : In(r, <<s>> \o l) <=> In(r, l) \/ r = s
<1>1. PICK m : m = <<s>> \o l
  OBVIOUS
<1>2. /\ m \in Seq(S) /\ Len(m) = Len(l) + 1
      /\ \A k \in 1..(Len(l) + 1) : m[k] = IF k = 1 THEN s ELSE l[k - 1]
  <2>1. <<s>> \in Seq(S) /\ Len(<<s>>) = 1 /\ <<s>>[1] = s
    OBVIOUS
  <2>2. PICK g : g = <<s>>
    OBVIOUS
  <2> QED
    BY <1>1, <2>1, <2>2, Concatenation
<1>3. Once(m)
  <2>1. ASSUME NEW k \in 2..(Len(l) + 1)
        PROVE  k - 1 \in DOMAIN l /\ m[k] = l[k - 1] /\ m[k] # s
    BY <1>2 DEF In
  <2>2. ASSUME NEW j \in DOMAIN m, NEW k \in DOMAIN m, m[j] = m[k]
        PROVE  j = k
    <3>1. CASE j = 1
      BY <2>1, <2>2, <3>1, <1>2
    <3>2. CASE j # 1
      <4>1. k # 1 /\ j \in 2..(Len(l) + 1) /\ k \in 2..(Len(l) + 1)
        BY <2>1, <2>2, <3>2, <1>2
      <4>2. j - 1 = k - 1
        BY <2>1, <2>2, <4>1 DEF Once
      <4> QED
        BY <4>1, <4>2
    <3> QED
      BY <3>1, <3>2
  <2> QED
    BY <2>2 DEF Once
<1>4. ASSUME NEW r
      PROVE  In(r, m) <=> In(r, l) \/ r = s
  <2>1. ASSUME NEW k \in DOMAIN m, m[k] = r
        PROVE  In(r, l) \/ r = s
    <3>1. CASE k = 1
      BY <2>1, <3>1, <1>2
    <3>2. CASE k # 1
      <4>1. k - 1 \in DOMAIN l /\ l[k - 1] = r
        BY <2>1, <3>2, <1>2
      <4> QED
        BY <4>1 DEF In
    <3> QED
      BY <3>1, <3>2
  <2>2. ASSUME NEW k \in DOMAIN l, l[k] = r
        PROVE  In(r, m)
    <3>1. k + 1 \in DOMAIN m /\ m[k + 1] = r
      BY <2>2, <1>2
    <3> QED
      BY <3>1 DEF In
  <2>3. In(s, m)
    <3>1. 1 \in DOMAIN m /\ m[1] = s
      BY <1>2
    <3> QED
      BY <3>1 DEF In
  <2> QED
    BY <2>1, <2>2, <2>3 DEF In
<1>5. m # <<>> /\ Head(m) = s
  BY <1>2
<1> QED
  BY <1>1, <1>2, <1>3, <1>4, <1>5

LEMMA TryPop ==
  ASSUME NEW S, NEW l \in Seq(S), l # <<>>, Once(l)
  PROVE  /\ Tail(l) \in Seq(S) /\ Once(Tail(l)) /\ Head(l) \in S /\ In(Head(l), l)
         /\ \A r : In(r, Tail(l)) <=> In(r, l) /\ r # Head(l)
<1>1. PICK m : m = Tail(l)
  OBVIOUS
<1>2. /\ m \in Seq(S) /\ Len(m) = Len(l) - 1 /\ Len(l) >= 1
      /\ \A k \in 1..(Len(l) - 1) : m[k] = l[k + 1]
      /\ Head(l) = l[1] /\ l[1] \in S
  BY <1>1
<1>3. Once(m)
  <2>1. ASSUME NEW j \in DOMAIN m, NEW k \in DOMAIN m, m[j] = m[k]
        PROVE  j = k
    <3>1. /\ j + 1 \in DOMAIN l /\ k + 1 \in DOMAIN l /\ l[j + 1] = l[k + 1]
          /\ j \in Nat /\ k \in Nat
      BY <2>1, <1>2
    <3>2. j + 1 = k + 1
      BY <3>1 DEF Once
    <3> QED
      BY <3>1, <3>2
  <2> QED
    BY <2>1 DEF Once
<1>4. ASSUME NEW r
      PROVE  In(r, m) <=> In(r, l) /\ r # l[1]
  <2>1. ASSUME NEW k \in DOMAIN m, m[k] = r
        PROVE  In(r, l) /\ r # l[1]
    <3>1. k + 1 \in DOMAIN l /\ l[k + 1] = r /\ k + 1 # 1
      BY <2>1, <1>2
    <3> QED
      BY <3>1, <1>2 DEF In, Once
  <2>2. ASSUME NEW k \in DOMAIN l, l[k] = r, r # l[1]
        PROVE  In(r, m)
    <3>1. k - 1 \in DOMAIN m /\ m[k - 1] = r
      BY <2>2, <1>2
    <3> QED
      BY <3>1 DEF In
  <2> QED
    BY <2>1, <2>2 DEF In
<1>5. In(l[1], l)
  <2>1. 1 \in DOMAIN l
    BY <1>2
  <2> QED
    BY <2>1 DEF In
<1> QED
  BY <1>1, <1>2, <1>3, <1>4, <1>5

LEMMA Adding ==
  ASSUME NEW L \in [Indexes -> Seq(Spans)], NEW s \in Spans, NEW n \in Nat \ {0},
         \A i \in Indexes : Once(L[i]),
         ~In(s, L[ListIndex(n)])
  PROVE  /\ Added(L, s, n) \in [Indexes -> Seq(Spans)]
         /\ \A i \in Indexes :
              /\ Once(Added(L, s, n)[i])
              /\ \A r : In(r, Added(L, s, n)[i]) <=>
                          In(r, L[i]) \/ (r = s /\ i = ListIndex(n))
         /\ Added(L, s, n)[ListIndex(n)] # <<>>
         /\ Head(Added(L, s, n)[ListIndex(n)]) = s
<1>1. PICK x \in Indexes : x = ListIndex(n)
  BY ListIndexes
<1>2. PICK l \in Seq(Spans) : l = <<s>> \o L[x]
  <2>1. L[x] \in Seq(Spans)
    BY <1>1
  <2> QED
    BY <2>1, <1>1, PushFront
<1>3. /\ Once(l) /\ l # <<>> /\ Head(l) = s
      /\ \A r : In(r, l) <=> In(r, L[x]) \/ r = s
  BY <1>1, <1>2, PushFront
<1>4. PICK M : M = Added(L, s, n)
  OBVIOUS
<1>5. M \in [Indexes -> Seq(Spans)] /\ \A i \in Indexes : M[i] = IF i = x THEN l ELSE L[i]
  BY <1>1, <1>2, <1>4 DEF Added
<1>6. ASSUME NEW i \in Indexes
      PROVE  Once(M[i]) /\ \A r : In(r, M[i]) <=> In(r, L[i]) \/ (r = s /\ i = x)
  <2>1. CASE i = x
    BY <2>1, <1>3, <1>5
  <2>2. CASE i # x
    BY <2>2, <1>5
  <2> QED
    BY <2>1, <2>2
<1>7. M[x] # <<>> /\ Head(M[x]) = s
  BY <1>3, <1>5
<1> QED
  BY <1>1, <1>4, <1>5, <1>6, <1>7

LEMMA Popping ==
  ASSUME NEW L \in [Indexes -> Seq(Spans)], NEW i \in Indexes, L[i] # <<>>,
         \A j \in Indexes : Once(L[j]),
         \A j \in Indexes : j # i => ~In(Head(L[i]), L[j])
  PROVE  /\ [L EXCEPT ![i] = Tail(@)] \in [Indexes -> Seq(Spans)]
         /\ \A j \in Indexes :
              /\ Once([L EXCEPT ![i] = Tail(@)][j])
              /\ \A r : In(r, [L EXCEPT ![i] = Tail(@)][j]) <=>
                          In(r, L[j]) /\ r # Head(L[i])
<1>1. PICK l \in Seq(Spans) : l = Tail(L[i])
  <2>1. L[i] \in Seq(Spans)
    OBVIOUS
  <2> QED
    BY <2>1, TryPop
<1>2. PICK s : s = Head(L[i])
  OBVIOUS
<1>3. Once(l) /\ \A r : In(r, l) <=> In(r, L[i]) /\ r # s
  BY <1>1, <1>2, TryPop
<1>4. PICK M : M = [L EXCEPT ![i] = Tail(@)]
  OBVIOUS
<1>5. M \in [Indexes -> Seq(Spans)] /\ \A j \in Indexes : M[j] = IF j = i THEN l ELSE L[j]
  BY <1>1, <1>4
<1>6. ASSUME NEW j \in Indexes
      PROVE  Once(M[j]) /\ \A r : In(r, M[j]) <=> In(r, L[j]) /\ r # s
  <2>1. CASE j = i
    BY <2>1, <1>3, <1>5
  <2>2. CASE j # i
    BY <2>2, <1>2, <1>5
  <2> QED
    BY <2>1, <2>2
<1> QED
  BY <1>2, <1>4, <1>5, <1>6

(* There is always a TCSpan to create: each has a page of its own. *)
LEMMA NewSpanExists ==
  ASSUME TypeOK, Partition, at # "cleared", merging = Null
  PROVE  NewSpan(spans) \in Spans \ spans
<1>1. Spans \ spans # {}
  <2> SUFFICES ASSUME spans = Spans
               PROVE  FALSE
    BY DEF TypeOK
  <2>1. HeapPages \in Nat
    BY PagesAssumption
  <2>2. /\ IsFiniteSet(Spans) /\ Cardinality(Spans) = HeapPages + 1
        /\ IsFiniteSet(Pages) /\ Cardinality(Pages) = HeapPages
    BY <2>1, FS_Interval DEF Spans, Pages
  <2>3. first_page_id_ \in [Spans -> Pages]
    BY <2>1 DEF TypeOK, Pages
  <2>4. PICK x, y \in Spans : x # y /\ first_page_id_[x] = first_page_id_[y]
    <3>1. Cardinality(Pages) < Cardinality(Spans)
      BY <2>1, <2>2
    <3> QED
      BY <2>2, <2>3, <3>1, FS_PigeonHole
  <2>5. /\ first_page_id_[x] \in Int /\ pages_num_[x] \in Nat /\ pages_num_[x] > 0
        /\ first_page_id_[y] \in Int /\ pages_num_[y] \in Nat /\ pages_num_[y] > 0
    BY <2>1 DEF TypeOK
  <2>6. first_page_id_[x] \in Extent(x) /\ first_page_id_[x] \in Extent(y)
    BY <2>4, <2>5 DEF Extent, Run
  <2> QED
    BY <2>4, <2>6 DEF Partition
<1>2. Spans \ spans \in SUBSET Nat
  BY PagesAssumption DEF Spans
<1> QED
  BY <1>1, <1>2, HasMinimum DEF NewSpan, Ext!Min
-----------------------------------------------------------------------------
(* SearchSpanList: the list it takes exists, and the span is free.         *)
LEMMA FittingExists ==
  ASSUME NEW n \in Nat \ {0}, Fitting(n) # {}
  PROVE  /\ Ext!Min(Fitting(n)) \in Indexes
         /\ span_list_[Ext!Min(Fitting(n))] # <<>>
<1>1. Fitting(n) \in SUBSET Nat /\ Fitting(n) \subseteq Indexes
      /\ \A i \in Fitting(n) : span_list_[i] # <<>>
  BY PagesAssumption DEF Fitting, Indexes
<1>2. Ext!Min(Fitting(n)) \in Fitting(n)
  BY <1>1, HasMinimum DEF Ext!Min
<1> QED
  BY <1>1, <1>2

LEMMA FieldTypes ==
  ASSUME TypeOK, NEW s \in spans
  PROVE  /\ first_page_id_[s] \in 1..HeapPages /\ pages_num_[s] \in 1..HeapPages
         /\ s \in Spans /\ s \in Nat /\ s # Null
<1>1. /\ s \in Spans /\ first_page_id_[s] \in 0..HeapPages /\ first_page_id_[s] > 0
      /\ pages_num_[s] \in 0..HeapPages /\ pages_num_[s] > 0
  BY DEF TypeOK
<1>2. HeapPages \in Nat
  BY PagesAssumption
<1> QED
  BY <1>1, <1>2 DEF Spans, Null

(* The pages of two spans are apart. *)
LEMMA Owner ==
  ASSUME TypeOK, Partition, at # "cleared", merging = Null,
         NEW s \in spans, NEW r \in spans, NEW p, p \in Extent(s), p \in Extent(r)
  PROVE  s = r
BY DEF Partition

LEMMA Ends ==
  ASSUME TypeOK, NEW s \in spans
  PROVE  /\ \A p : p \in Extent(s) <=> /\ p \in Int /\ first_page_id_[s] <= p
                                        /\ p < first_page_id_[s] + pages_num_[s]
         /\ first_page_id_[s] \in Extent(s) /\ Last(s) \in Extent(s)
         /\ Last(s) = first_page_id_[s] + pages_num_[s] - 1
<1>1. /\ first_page_id_[s] \in Int /\ first_page_id_[s] >= 1
      /\ pages_num_[s] \in Int /\ pages_num_[s] >= 1
  BY FieldTypes, PagesAssumption
<1> QED
  BY <1>1 DEF Extent, Run, Last

(* L is what is left of the lists when s is taken out of them.             *)
Popped(L, s) ==
  /\ L \in [Indexes -> Seq(Spans)]
  /\ \A i \in Indexes :
       Once(L[i]) /\ \A r : In(r, L[i]) <=> In(r, span_list_[i]) /\ r # s

(* The two ways to cut s in n pages from first and the rest from start.    *)
Parts(s, n, first, start) ==
  \/ /\ first = first_page_id_[s] + pages_num_[s] - n
     /\ start = first_page_id_[s]
  \/ first = first_page_id_[s] /\ start = first_page_id_[s] + n

(* Carve cuts s, whichever end it keeps. *)
LEMMA CutKeeps ==
  ASSUME TypeOK, Mapping, Partition, Listing, Separate, at # "cleared",
         merging = Null, result = Null,
         NEW s \in spans, ~in_use_[s],
         NEW n \in 1..MaxRequest, pages_num_[s] > n,
         NEW L, Popped(L, s), NEW first, NEW start, Parts(s, n, first, start),
         Cut(s, n, L, first, start),
         at' = "found", result' = s, request' = n,
         UNCHANGED <<in_use_, mapped, root_, merging>>
  PROVE  IInv'
<1>1. PICK extra \in Nat : extra = pages_num_[s] - n /\ extra >= 1
  <2>1. pages_num_[s] \in Nat /\ n \in Nat
    BY FieldTypes, PagesAssumption
  <2> QED
    BY <2>1
<1>2. PICK left \in Spans \ spans : left = NewSpan(spans)
  BY NewSpanExists
<1>3. /\ spans' = spans \cup {left} /\ left # s /\ left # Null /\ s \in Spans
      /\ first_page_id_' = [first_page_id_ EXCEPT ![left] = start, ![s] = first]
      /\ pages_num_' = [pages_num_ EXCEPT ![left] = extra, ![s] = n]
      /\ page_map_' = Recorded(page_map_, left, start, extra)
      /\ span_list_' = Added(L, left, extra)
  BY <1>1, <1>2, FieldTypes, PagesAssumption DEF Cut, Spans, Null
<1>4. /\ \A r \in Spans : /\ first_page_id_'[r] = IF r = s THEN first
                                                ELSE IF r = left THEN start
                                                ELSE first_page_id_[r]
                          /\ pages_num_'[r] = IF r = s THEN n
                                              ELSE IF r = left THEN extra
                                              ELSE pages_num_[r]
      /\ \A p \in AllPages :
           page_map_'[p] = IF p \in Run(start, extra) THEN left ELSE page_map_[p]
  BY <1>2, <1>3 DEF TypeOK, Recorded
<1>5. /\ first_page_id_[s] \in 1..HeapPages /\ pages_num_[s] \in 1..HeapPages
      /\ first_page_id_[s] + pages_num_[s] - 1 <= HeapPages
  <2>1. Last(s) \in Pages
    BY Ends DEF Partition, TypeOK
  <2> QED
    BY <2>1, FieldTypes DEF Last, Pages
<1>6. /\ first \in 1..HeapPages /\ start \in 1..HeapPages
      /\ n \in 1..HeapPages /\ extra \in 1..HeapPages /\ HeapPages \in Nat
  <2>1. pages_num_[s] \in Nat /\ first_page_id_[s] \in Nat /\ n \in Nat /\ n >= 1
    BY <1>5, PagesAssumption
  <2> QED
    BY <2>1, <1>1, <1>5, PagesAssumption DEF Parts
<1>7. /\ \A p \in Run(start, extra) : p \in Extent(s) /\ p \notin Run(first, n)
      /\ \A p \in Run(first, n) : p \in Extent(s)
      /\ \A p \in Extent(s) : p \in Run(start, extra) \/ p \in Run(first, n)
  <2>1. PICK f \in Nat, m \in Nat : f = first_page_id_[s] /\ m = pages_num_[s]
    BY <1>5, <1>6
  <2>2. /\ \A p : p \in Run(start, extra) <=> p \in Int /\ start <= p /\ p < start + extra
        /\ \A p : p \in Run(first, n) <=> p \in Int /\ first <= p /\ p < first + n
        /\ start \in Int /\ extra \in Int /\ first \in Int /\ n \in Int
    BY <1>6 DEF Run
  <2>3. \A p : p \in Extent(s) <=> p \in Int /\ f <= p /\ p < f + m
    BY <2>1, Ends
  <2>4. extra = m - n /\ extra >= 1 /\ n >= 1
    BY <2>1, <1>1, <1>6
  <2>5. \/ first = f + m - n /\ start = f
        \/ first = f /\ start = f + n
    BY <2>1 DEF Parts
  <2> QED
    BY <2>2, <2>3, <2>4, <2>5
<1>8. /\ \A r \in spans : r # s => Extent(r)' = Extent(r) /\ Last(r)' = Last(r)
      /\ Extent(s)' = Run(first, n) /\ Extent(left)' = Run(start, extra)
      /\ Last(s)' = first + n - 1 /\ Last(left)' = start + extra - 1
      /\ \A r \in spans : r \in Spans /\ r # left
  <2>1. \A r \in spans : r \in Spans /\ r # left
    BY <1>2 DEF TypeOK
  <2> QED
    BY <2>1, <1>2, <1>3, <1>4 DEF Extent, Last
<1>9. /\ ListIndex(extra) \in Indexes /\ extra \in Nat \ {0}
      /\ ~In(left, L[ListIndex(extra)])
  <2>1. extra \in Nat \ {0}
    BY <1>1
  <2>2. ListIndex(extra) \in Indexes
    BY <2>1, ListIndexes
  <2>3. ~In(left, span_list_[ListIndex(extra)])
    BY <2>2, <1>2 DEF Listing, Free
  <2> QED
    BY <2>1, <2>2, <2>3 DEF Popped
<1>10. TypeOK'
  <2>1. /\ page_map_' \in [AllPages -> Spans \cup {Null}]
        /\ first_page_id_' \in [Spans -> 0..HeapPages]
        /\ pages_num_' \in [Spans -> 0..HeapPages]
    <3>1. page_map_' \in [AllPages -> Spans \cup {Null}]
      BY <1>2, <1>3 DEF TypeOK, Recorded
    <3>2. /\ first \in 0..HeapPages /\ start \in 0..HeapPages
          /\ n \in 0..HeapPages /\ extra \in 0..HeapPages
      BY <1>6
    <3> QED
      BY <3>1, <3>2, <1>2, <1>3 DEF TypeOK
  <2>2. span_list_' \in [Indexes -> Seq(Spans)]
    <3>1. L \in [Indexes -> Seq(Spans)] /\ \A j \in Indexes : Once(L[j])
      BY DEF Popped
    <3> QED
      BY <3>1, <1>9, <1>2, <1>3, Adding
  <2>3. \A r \in spans' : first_page_id_'[r] > 0 /\ pages_num_'[r] > 0
    BY <1>3, <1>4, <1>6, <1>8 DEF TypeOK
  <2>4. /\ spans' \subseteq Spans /\ result' \in spans'
        /\ \A r \in Spans \ spans' : ~in_use_'[r]
    BY <1>2, <1>3 DEF TypeOK
  <2>5. request' \in 0..MaxRequest
    BY PagesAssumption
  <2> QED
    BY <2>1, <2>2, <2>3, <2>4, <2>5 DEF TypeOK
<1>11. Mapping'
  <2>1. ASSUME NEW p \in AllPages, page_map_'[p] # Null
        PROVE  LeafOf(p) \in root_
    <3>1. page_map_[p] # Null
      BY <2>1, <1>4, <1>7, FieldTypes DEF Partition
    <3> QED
      BY <3>1 DEF Mapping
  <2> QED
    BY <2>1 DEF Mapping, LeafOf
<1>12. Partition'
  <2>1. ASSUME NEW p \in AllPages
        PROVE  page_map_'[p] # Null <=> p \in mapped
    <3>1. CASE p \in Run(start, extra)
      BY <3>1, <1>3, <1>4, <1>7 DEF Partition
    <3>2. CASE p \notin Run(start, extra)
      BY <3>2, <1>4 DEF Partition
    <3> QED
      BY <3>1, <3>2
  <2>2. ASSUME NEW p \in mapped
        PROVE  page_map_'[p] \in spans' /\ p \in Extent(page_map_[p])'
    <3>1. p \in AllPages
      BY PagesAssumption DEF TypeOK, Pages, AllPages
    <3>2. CASE p \in Run(start, extra)
      <4>1. page_map_'[p] = left
        BY <3>1, <3>2, <1>4
      <4> QED
        BY <4>1, <3>2, <1>3, <1>8
    <3>3. CASE p \notin Run(start, extra)
      <4>1. PICK r \in spans : r = page_map_[p] /\ page_map_'[p] = r /\ p \in Extent(r)
        BY <3>1, <3>3, <1>4 DEF Partition
      <4>2. p \in Extent(r)'
        BY <4>1, <3>3, <1>7, <1>8
      <4> QED
        BY <4>1, <4>2, <1>3
    <3> QED
      BY <3>2, <3>3
  <2>3. ASSUME NEW r \in spans', NEW p \in Extent(r)'
        PROVE  p \in mapped /\ page_map_'[p] = r
    <3>1. p \in Extent(IF r = left THEN s ELSE r)
      BY <2>3, <1>3, <1>7, <1>8
    <3>2. p \in mapped /\ page_map_[p] = IF r = left THEN s ELSE r
      BY <3>1, <1>3 DEF Partition
    <3>3. p \in AllPages
      BY <3>2, PagesAssumption DEF TypeOK, Pages, AllPages
    <3>4. CASE r = left
      BY <3>2, <3>3, <3>4, <2>3, <1>4, <1>8
    <3>5. CASE r = s
      BY <3>2, <3>3, <3>5, <2>3, <1>3, <1>4, <1>7, <1>8
    <3>6. CASE r # left /\ r # s
      <4>1. p \notin Run(start, extra)
        BY <3>2, <3>6, <1>7 DEF Partition
      <4> QED
        BY <4>1, <3>2, <3>3, <3>6, <1>4
    <3> QED
      BY <3>4, <3>5, <3>6
  <2> QED
    BY <2>1, <2>2, <2>3 DEF Partition
<1>13. /\ \A r \in spans : r # s => (Free(r)' <=> Free(r))
       /\ Free(left)' /\ ~Free(s)' /\ Free(s)
       /\ \A r \in Spans : r \notin spans => r = left \/ ~Free(r)'
  <2>1. ~in_use_[left]
    BY <1>2 DEF TypeOK
  <2>2. \A r \in spans : r # Null
    BY FieldTypes
  <2> QED
    BY <2>1, <2>2, <1>2, <1>3 DEF Free
<1>14. Listing'
  <2>1. ASSUME NEW i \in Indexes
        PROVE  /\ Once(span_list_'[i])
               /\ \A r : In(r, span_list_'[i]) <=>
                    (In(r, span_list_[i]) /\ r # s) \/ (r = left /\ i = ListIndex(extra))
    <3>1. L \in [Indexes -> Seq(Spans)] /\ \A j \in Indexes : Once(L[j])
      BY DEF Popped
    <3>2. /\ Once(Added(L, left, extra)[i])
          /\ \A r : In(r, Added(L, left, extra)[i]) <=>
                       In(r, L[i]) \/ (r = left /\ i = ListIndex(extra))
      <4>1. left \in Spans /\ extra \in Nat \ {0} /\ ~In(left, L[ListIndex(extra)])
        BY <1>9, <1>2
      <4>2. \A j \in Indexes :
              /\ Once(Added(L, left, extra)[j])
              /\ \A r : In(r, Added(L, left, extra)[j]) <=>
                           In(r, L[j]) \/ (r = left /\ j = ListIndex(extra))
        BY <4>1, <3>1, Adding
      <4> QED
        BY <4>2
    <3> QED
      BY <3>2, <1>3 DEF Popped
  <2>2. ASSUME NEW i \in Indexes, NEW r \in Spans
        PROVE  In(r, span_list_'[i]) <=> Free(r)' /\ ListIndex(pages_num_'[r]) = i
    <3>1. In(r, span_list_[i]) <=> Free(r) /\ ListIndex(pages_num_[r]) = i
      BY DEF Listing
    <3>2. CASE r = s
      BY <3>2, <2>1, <1>8, <1>13
    <3>3. CASE r = left
      <4>1. ~In(left, span_list_[i]) /\ left # s
        BY <3>1, <3>3, <1>2, <1>3 DEF Free
      <4>2. pages_num_'[left] = extra
        BY <1>2, <1>3, <1>4
      <4> QED
        BY <4>1, <4>2, <3>3, <2>1, <1>13
    <3>4. CASE r # s /\ r # left
      <4>1. pages_num_'[r] = pages_num_[r]
        BY <3>4, <1>4
      <4>2. Free(r)' <=> Free(r)
        BY <3>4, <1>13 DEF Free
      <4> QED
        BY <4>1, <4>2, <3>1, <3>4, <2>1
    <3> QED
      BY <3>2, <3>3, <3>4
  <2>3. \A i \in Indexes : Once(span_list_[i]') /\ \A r \in Spans :
           In(r, span_list_[i])' <=> Free(r)' /\ ListIndex(pages_num_[r])' = i
    BY <2>1, <2>2 DEF In, ListIndex
  <2> QED
    BY <2>3 DEF Listing, Once
<1>15. /\ first_page_id_[s] \in Int /\ pages_num_[s] \in Int /\ n \in Int /\ extra \in Int
       /\ extra = pages_num_[s] - n /\ n >= 1 /\ extra >= 1
  BY <1>1, <1>5, <1>6
<1>16. \A p : p \in Extent(s) <=>
                p \in Int /\ first_page_id_[s] <= p /\ p < first_page_id_[s] + pages_num_[s]
  BY Ends
<1>17. Separate'
  <2> SUFFICES ASSUME NEW q \in spans', NEW r \in spans', Free(q)', Free(r)',
                      Last(q)' + 1 = first_page_id_'[r]
               PROVE  FALSE
    BY DEF Separate
  <2>1. q # s /\ r # s
    BY <1>13
  <2>2. CASE q # left /\ r # left
    <3>1. q \in spans /\ r \in spans /\ r \in Spans
      BY <2>2, <1>3, <1>8
    <3>2. Free(q) /\ Free(r)
      BY <3>1, <2>1, <1>13
    <3>3. Last(q) + 1 = first_page_id_[r]
      BY <3>1, <2>1, <2>2, <1>4, <1>8
    <3> QED
      BY <3>1, <3>2, <3>3 DEF Separate
  <2>3. CASE q = left /\ r # left
    <3>1. r \in spans /\ r \in Spans /\ first_page_id_[r] = start + extra /\ Free(r)
      <4>1. r \in spans /\ r \in Spans
        BY <2>3, <1>3, <1>8
      <4>2. Last(left)' + 1 = first_page_id_[r]
        BY <4>1, <2>1, <2>3, <1>4
      <4>3. Free(r)
        BY <4>1, <2>1, <1>13
      <4> QED
        BY <4>1, <4>2, <4>3, <1>6, <1>8
    <3>2. start = first_page_id_[s] \/ start = first_page_id_[s] + n
      BY DEF Parts
    <3>3. CASE start = first_page_id_[s]
      <4>1. /\ start + extra \in Int /\ first_page_id_[s] <= start + extra
            /\ start + extra < first_page_id_[s] + pages_num_[s]
        BY <3>3, <1>15
      <4>2. first_page_id_[r] \in Extent(s)
        BY <4>1, <3>1, <1>16
      <4> QED
        BY <4>2, <3>1, <2>1, Ends, Owner
    <3>4. CASE start = first_page_id_[s] + n
      <4>1. Last(s) + 1 = first_page_id_[r]
        <5>1. PICK f \in Int, m \in Int :
                /\ f = first_page_id_[s] /\ m = pages_num_[s]
                /\ extra = m - n /\ start = f + n
          BY <3>4, <1>15
        <5>2. f + m - 1 + 1 = start + extra
          BY <5>1, <1>15
        <5>3. Last(s) + 1 = start + extra
          BY <5>1, <5>2 DEF Last
        <5> QED
          BY <5>3, <3>1
      <4> QED
        BY <4>1, <3>1, <1>13 DEF Separate
    <3> QED
      BY <3>2, <3>3, <3>4
  <2>4. CASE q # left /\ r = left
    <3>1. q \in spans /\ Last(q) + 1 = start /\ Free(q) /\ Last(q) \in Int
      <4>1. q \in spans
        BY <2>4, <1>3
      <4>2. Last(q) \in Int
        BY <4>1, FieldTypes DEF Last
      <4> QED
        BY <4>1, <4>2, <2>1, <2>4, <1>2, <1>3, <1>4, <1>8, <1>13
    <3>2. CASE start = first_page_id_[s]
      BY <3>1, <3>2, <1>13 DEF Separate
    <3>3. start = first_page_id_[s] \/ start = first_page_id_[s] + n
      BY DEF Parts
    <3>4. CASE start = first_page_id_[s] + n
      <4>1. /\ start - 1 \in Int /\ first_page_id_[s] <= start - 1
            /\ start - 1 < first_page_id_[s] + pages_num_[s]
        BY <3>4, <1>15
      <4>2. Last(q) \in Extent(s)
        <5>1. Last(q) = start - 1
          BY <3>1
        <5> QED
          BY <4>1, <5>1, <1>16
      <4> QED
        BY <4>2, <3>1, <2>1, Ends, Owner
    <3> QED
      BY <3>3, <3>2, <3>4
  <2>5. CASE q = left /\ r = left
    <3>1. start + extra - 1 + 1 = start
      BY <2>5, <1>2, <1>3, <1>4, <1>8
    <3> QED
      BY <3>1, <1>6
  <2> QED
    BY <2>2, <2>3, <2>4, <2>5
<1>18. Calls' /\ Merge' /\ Joined'
  BY <1>3, <1>4, FieldTypes DEF Calls, Merge, Joined, TypeOK
<1> QED
  BY <1>10, <1>11, <1>12, <1>14, <1>17, <1>18 DEF IInv

LEMMA CarveKeeps ==
  ASSUME TypeOK, Mapping, Partition, Listing, Separate, at # "cleared",
         merging = Null, result = Null,
         NEW s \in spans, ~in_use_[s], NEW n \in 1..MaxRequest,
         NEW L, Popped(L, s), Carve(s, n, L),
         at' = "found", result' = s, request' = n,
         UNCHANGED <<in_use_, mapped, root_, merging>>
  PROVE  IInv'
<1>1. CASE /\ pages_num_[s] = n /\ span_list_' = L
           /\ UNCHANGED <<page_map_, spans, first_page_id_, pages_num_>>
  <2>1. /\ span_list_' = L /\ page_map_' = page_map_ /\ spans' = spans
        /\ first_page_id_' = first_page_id_ /\ pages_num_' = pages_num_
        /\ in_use_' = in_use_ /\ mapped' = mapped /\ root_' = root_
    BY <1>1
  <2>2. TypeOK'
    <3>1. L \in [Indexes -> Seq(Spans)]
      BY DEF Popped
    <3>2. request' \in 0..MaxRequest
      BY PagesAssumption
    <3> QED
      BY <2>1, <3>1, <3>2 DEF TypeOK
  <2>3. Mapping' /\ Partition'
    BY <2>1 DEF Mapping, Partition, LeafOf, Extent
  <2>4. \A r \in Spans : Free(r)' <=> Free(r) /\ r # s
    BY <2>1, FieldTypes DEF Free
  <2>5. Listing'
    <3>1. ASSUME NEW i \in Indexes
          PROVE  /\ Once(span_list_[i])'
                 /\ \A r \in Spans : In(r, span_list_[i])' <=>
                                       Free(r)' /\ ListIndex(pages_num_[r])' = i
      <4>1. Once(L[i]) /\ \A r : In(r, L[i]) <=> In(r, span_list_[i]) /\ r # s
        BY DEF Popped
      <4>2. \A r \in Spans :
              In(r, span_list_[i]) <=> Free(r) /\ ListIndex(pages_num_[r]) = i
        BY DEF Listing
      <4>3. \A r \in Spans : In(r, L[i]) <=> Free(r)' /\ ListIndex(pages_num_[r]) = i
        BY <4>1, <4>2, <2>4
      <4>4. Once(span_list_'[i]) /\ \A r \in Spans : In(r, span_list_'[i]) <=>
                                       Free(r)' /\ ListIndex(pages_num_'[r]) = i
        BY <4>1, <4>3, <2>1
      <4> QED
        BY <4>4 DEF Once, In, ListIndex
    <3> QED
      BY <3>1 DEF Listing
  <2>6. Separate'
    <3>1. \A q, r \in spans : Free(q)' /\ Free(r)' => Last(q) + 1 # first_page_id_[r]
      BY <2>4 DEF Separate, TypeOK
    <3> QED
      BY <3>1, <2>1 DEF Separate, Last
  <2>7. Calls' /\ Merge' /\ Joined'
    BY <1>1, <2>1 DEF Calls, Merge, Joined
  <2> QED
    BY <2>2, <2>3, <2>5, <2>6, <2>7 DEF IInv
<1>2. CASE /\ pages_num_[s] > n
           /\ Cut(s, n, L, first_page_id_[s] + pages_num_[s] - n, first_page_id_[s])
  BY <1>2, CutKeeps DEF Parts
<1>3. CASE /\ pages_num_[s] > n
           /\ Cut(s, n, L, first_page_id_[s], first_page_id_[s] + n)
  BY <1>3, CutKeeps DEF Parts
<1> QED
  BY <1>1, <1>2, <1>3 DEF Carve

(* The first disjunct of SearchSpanList. *)
Found(n) ==
  /\ Fitting(n) # {}
  /\ LET i == Ext!Min(Fitting(n))
     IN  /\ Carve(Head(span_list_[i]), n, [span_list_ EXCEPT ![i] = Tail(@)])
         /\ result' = Head(span_list_[i])
  /\ at' = "found"

LEMMA HeadIsFree ==
  ASSUME TypeOK, Listing, at # "cleared", NEW i \in Indexes, span_list_[i] # <<>>
  PROVE  /\ Head(span_list_[i]) \in spans /\ ~in_use_[Head(span_list_[i])]
         /\ Popped([span_list_ EXCEPT ![i] = Tail(@)], Head(span_list_[i]))
<1>1. PICK s \in Spans : s = Head(span_list_[i]) /\ In(s, span_list_[i])
  <2>1. span_list_[i] \in Seq(Spans) /\ Once(span_list_[i])
    BY DEF TypeOK, Listing
  <2> QED
    BY <2>1, TryPop
<1>2. Free(s) /\ \A j \in Indexes : j # i => ~In(s, span_list_[j])
  BY <1>1 DEF Listing
<1>3. /\ span_list_ \in [Indexes -> Seq(Spans)]
      /\ \A j \in Indexes : Once(span_list_[j])
  BY DEF TypeOK, Listing
<1>4. Popped([span_list_ EXCEPT ![i] = Tail(@)], s)
  BY <1>1, <1>2, <1>3, Popping DEF Popped
<1> QED
  BY <1>1, <1>2, <1>4 DEF Free

LEMMA FoundKeeps ==
  ASSUME TypeOK, Mapping, Partition, Listing, Separate, at # "cleared",
         merging = Null, result = Null,
         NEW n \in 1..MaxRequest, Found(n), request' = n,
         UNCHANGED <<in_use_, mapped, root_, merging>>
  PROVE  IInv'
<1>1. n \in Nat \ {0}
  BY PagesAssumption
<1>2. PICK i \in Indexes : i = Ext!Min(Fitting(n)) /\ span_list_[i] # <<>>
  BY <1>1, FittingExists DEF Found
<1>3. PICK s \in spans : /\ s = Head(span_list_[i]) /\ ~in_use_[s]
                         /\ Popped([span_list_ EXCEPT ![i] = Tail(@)], s)
  BY <1>2, HeadIsFree
<1>4. Carve(s, n, [span_list_ EXCEPT ![i] = Tail(@)]) /\ result' = s /\ at' = "found"
  BY <1>2, <1>3 DEF Found
<1> QED
  BY <1>3, <1>4, CarveKeeps
-----------------------------------------------------------------------------
(* MergeIntoSpanList.                                                      *)
LEMMA Reached ==
  ASSUME Mapping, NEW p \in AllPages
  PROVE  GetSpan(p) = page_map_[p]
BY DEF Mapping, GetSpan

(* The span that is merged has pages of its own, and there is an entry for *)
(* the page before and the page behind it.                                 *)
LEMMA Working ==
  ASSUME TypeOK, Merge, merging # Null
  PROVE  /\ Apart /\ at # "cleared" /\ merging \in Spans
         /\ HeapPages \in Nat
         /\ first_page_id_[merging] \in Int /\ first_page_id_[merging] >= 1
         /\ pages_num_[merging] \in Int /\ pages_num_[merging] >= 1
         /\ Last(merging) \in Int /\ Last(merging) <= HeapPages
         /\ Last(merging) = first_page_id_[merging] + pages_num_[merging] - 1
         /\ \A p : p \in Extent(merging) <=>
                     p \in Int /\ first_page_id_[merging] <= p /\ p <= Last(merging)
         /\ first_page_id_[merging] - 1 \in AllPages \ Extent(merging)
         /\ Last(merging) + 1 \in AllPages \ Extent(merging)
<1>1. Apart /\ at # "cleared" /\ merging \in spans
  BY DEF Merge, Apart
<1>2. PICK f \in Int, m \in Int : /\ f = first_page_id_[merging] /\ f >= 1
                                  /\ m = pages_num_[merging] /\ m >= 1
  BY <1>1, FieldTypes, PagesAssumption
<1>3. /\ Last(merging) = f + m - 1 /\ Last(merging) \in Extent(merging)
      /\ \A p : p \in Extent(merging) <=> p \in Int /\ f <= p /\ p < f + m
  BY <1>1, <1>2, Ends
<1>4. Last(merging) \in Pages /\ HeapPages \in Nat
  BY <1>1, <1>3, PagesAssumption DEF Apart, TypeOK
<1>5. f + m - 1 \in 1..HeapPages
  BY <1>3, <1>4 DEF Pages
<1>6. f - 1 \in AllPages /\ f + m - 1 + 1 \in AllPages
  BY <1>2, <1>4, <1>5 DEF AllPages
<1>7. \A p : p \in Int /\ f <= p /\ p < f + m <=> p \in Int /\ f <= p /\ p <= f + m - 1
  BY <1>2
<1>8. ~(f <= f - 1) /\ ~(f + m - 1 + 1 < f + m)
  BY <1>2
<1>9. merging \in Spans
  BY <1>1, FieldTypes
<1> QED
  BY <1>1, <1>2, <1>3, <1>4, <1>5, <1>6, <1>7, <1>8, <1>9

(* What MergeIntoSpanList finds at a page that is not of the span itself.  *)
LEMMA Neighbour ==
  ASSUME TypeOK, Mapping, Merge, merging # Null,
         NEW p \in AllPages \ Extent(merging), NEW r, r = FreeAt(p)
  PROVE  /\ r # Null => r \in spans /\ r # merging /\ Free(r) /\ p \in Extent(r)
         /\ r = Null => \A q \in spans : Free(q) => p \notin Extent(q)
<1>1. r = IF page_map_[p] # Null /\ ~in_use_[page_map_[p]] THEN page_map_[p] ELSE Null
  BY Reached DEF FreeAt
<1>2. Apart
  BY DEF Merge
<1>3. ASSUME r # Null
      PROVE  r \in spans /\ r # merging /\ Free(r) /\ p \in Extent(r)
  <2>1. r = page_map_[p] /\ ~in_use_[r]
    BY <1>1, <1>3
  <2>2. r \in spans \ {merging} /\ p \in Extent(r)
    BY <1>2, <1>3, <2>1 DEF Apart
  <2> QED
    BY <1>2, <1>3, <2>1, <2>2 DEF Free, Apart
<1>4. ASSUME r = Null, NEW q \in spans, Free(q), p \in Extent(q)
      PROVE  FALSE
  <2>1. page_map_[p] = q
    BY <1>2, <1>4 DEF Apart, Free
  <2> QED
    BY <2>1, <1>1, <1>4, FieldTypes DEF Free
<1> QED
  BY <1>3, <1>4

(* r, a neighbour, is joined to the span. *)
LEMMA AbsorbKeeps ==
  ASSUME TypeOK, Mapping, Merge, Listing, Separate, merging # Null,
         NEW r \in spans, Free(r), NEW first \in 1..HeapPages, NEW size \in 1..HeapPages,
         size = pages_num_[merging] + pages_num_[r],
         \A p : p \in Run(first, size) <=> p \in Extent(merging) \/ p \in Extent(r),
         NEW page \in Run(first, size), Absorb(r, first, page),
         at' \in {"merge_next", "record"},
         UNCHANGED <<root_, mapped, in_use_, merging, request, result>>
  PROVE  /\ TypeOK' /\ Mapping' /\ Listing' /\ Separate' /\ Apart'
         /\ first_page_id_'[merging] = first /\ Last(merging)' = first + size - 1
         /\ \A q \in spans' : Free(q)' =>
              /\ q \in spans /\ Free(q) /\ q # r /\ q # merging
              /\ first_page_id_'[q] = first_page_id_[q] /\ Last(q)' = Last(q)
<1>1. /\ Apart /\ at # "cleared" /\ merging \in Spans /\ merging \in spans /\ result = Null
      /\ HeapPages \in Nat
  BY Working DEF Apart
<1>2. r \in Spans /\ r # Null /\ r # merging /\ ~in_use_[r] /\ r \in spans
  BY FieldTypes DEF Free
<1>3. /\ spans' = spans \ {r} /\ in_use_' = in_use_ /\ mapped' = mapped /\ root_' = root_
      /\ merging' = merging /\ result' = result /\ request' = request
      /\ first_page_id_' = [first_page_id_ EXCEPT ![r] = 0, ![merging] = first]
      /\ pages_num_' = [pages_num_ EXCEPT ![r] = 0, ![merging] = size]
      /\ page_map_' = [page_map_ EXCEPT ![page] = merging]
      /\ span_list_' = [span_list_ EXCEPT ![ListIndex(pages_num_[r])] =
                                            Ext!RemoveFirst(@, r)]
  <2>1. pages_num_' = [pages_num_ EXCEPT ![r] = 0, ![merging] = pages_num_[merging] + pages_num_[r]]
    BY <1>1, <1>2 DEF Absorb, TypeOK
  <2> QED
    BY <2>1 DEF Absorb
<1>4. /\ first_page_id_'[merging] = first /\ pages_num_'[merging] = size
      /\ \A q \in Spans : q # merging /\ q # r =>
           first_page_id_'[q] = first_page_id_[q] /\ pages_num_'[q] = pages_num_[q]
      /\ \A p \in AllPages : p # page => page_map_'[p] = page_map_[p]
  BY <1>1, <1>2, <1>3 DEF TypeOK
<1>5. /\ Extent(merging)' = Run(first, size) /\ Last(merging)' = first + size - 1
      /\ \A q \in spans' : q # merging =>
           /\ q \in spans /\ q \in Spans /\ q # r
           /\ first_page_id_'[q] = first_page_id_[q] /\ pages_num_'[q] = pages_num_[q]
           /\ Extent(q)' = Extent(q) /\ Last(q)' = Last(q)
  <2>1. \A q \in spans' : q \in spans /\ q \in Spans /\ q # r
    BY <1>3 DEF TypeOK
  <2> QED
    BY <2>1, <1>3, <1>4 DEF Extent, Last
<1>6. /\ \A q : Free(q)' <=> Free(q) /\ q # r
      /\ \A q : Free(q) => q # merging
  BY <1>3 DEF Free
<1>7. /\ \A p \in Run(first, size) : p \in mapped /\ LeafOf(p) \in root_
      /\ mapped \subseteq Pages /\ Pages \subseteq AllPages
  <2>1. \A p \in Extent(r) : p \in mapped /\ page_map_[p] # Null
    BY <1>1, <1>2 DEF Apart
  <2>2. mapped \subseteq Pages /\ Pages \subseteq AllPages
    BY <1>1 DEF TypeOK, Pages, AllPages
  <2>3. \A p \in Extent(r) : LeafOf(p) \in root_
    BY <2>1, <2>2 DEF Mapping
  <2> QED
    BY <1>1, <2>1, <2>2, <2>3 DEF Apart
<1>8. Mapping'
  BY <1>3, <1>4, <1>7 DEF Mapping, LeafOf
<1>9. Apart'
  <2>1. /\ merging' \in spans' /\ ~in_use_'[merging'] /\ result' = Null
        /\ pages_num_'[merging'] >= request'
    <3>1. pages_num_[merging] >= request /\ request \in Int /\ pages_num_[merging] \in Int
      BY <1>1, PagesAssumption DEF Apart, TypeOK
    <3>2. pages_num_[r] \in Int /\ pages_num_[r] >= 0 /\ size \in Int
      BY <1>2, FieldTypes, PagesAssumption
    <3>3. size >= request
      BY <3>1, <3>2
    <3> QED
      BY <1>1, <1>2, <1>3, <1>4, <3>3 DEF Apart
  <2>2. \A p \in Extent(merging)' : p \in mapped' /\ LeafOf(p) \in root_'
    BY <1>3, <1>5, <1>7
  <2>3. ASSUME NEW p \in AllPages \ Run(first, size)
        PROVE  /\ page_map_'[p] = page_map_[p] /\ p \notin Extent(merging)
               /\ p \notin Extent(r)
    BY <2>3, <1>4
  <2>4. \A p \in AllPages \ Extent(merging)' : page_map_'[p] # Null <=> p \in mapped'
    BY <1>1, <1>3, <1>5, <2>3 DEF Apart
  <2>5. ASSUME NEW p \in mapped', p \notin Run(first, size)
        PROVE  page_map_'[p] \in spans' \ {merging'} /\ p \in Extent(page_map_[p])'
    <3>1. p \in mapped /\ p \in AllPages
      BY <1>3, <1>7, <2>5
    <3>2. PICK q \in spans \ {merging} : /\ q = page_map_[p] /\ page_map_'[p] = q
                                         /\ p \in Extent(q)
      BY <1>1, <2>3, <2>5, <3>1 DEF Apart
    <3>3. q # r
      BY <2>3, <2>5, <3>1, <3>2
    <3>4. q \in spans' /\ q # merging /\ p \in Extent(q)'
      BY <1>3, <1>5, <3>2, <3>3
    <3> QED
      BY <1>3, <3>2, <3>4
  <2>6. ASSUME NEW q \in spans', q # merging, NEW p \in Extent(q)'
        PROVE  p \in mapped' /\ p \notin Run(first, size) /\ page_map_'[p] = q
    <3>1. q \in spans /\ q # r /\ p \in Extent(q)
      BY <2>6, <1>5
    <3>2. p \in mapped /\ p \notin Extent(merging) /\ page_map_[p] = q
      BY <1>1, <2>6, <3>1 DEF Apart
    <3>3. p \notin Extent(r)
      BY <1>1, <1>2, <3>1, <3>2 DEF Apart
    <3>4. p \in AllPages
      BY <1>7, <3>2
    <3> QED
      BY <1>3, <1>4, <3>2, <3>3, <3>4
  <2>7. \A p \in mapped' \ Extent(merging)' :
          page_map_'[p] \in spans' \ {merging'} /\ p \in Extent(page_map_[p])'
    BY <1>5, <2>5
  <2>8. \A q \in spans' \ {merging'} : \A p \in Extent(q)' :
          p \in mapped' \ Extent(merging)' /\ page_map_'[p] = q
    BY <1>3, <1>5, <2>6
  <2> QED
    BY <2>1, <2>2, <2>4, <2>7, <2>8 DEF Apart, LeafOf
<1>10. PICK x \in Indexes : x = ListIndex(pages_num_[r])
  <2>1. pages_num_[r] \in Nat \ {0}
    BY <1>2, FieldTypes, PagesAssumption
  <2> QED
    BY <2>1, ListIndexes
<1>11. /\ span_list_' \in [Indexes -> Seq(Spans)]
       /\ \A i \in Indexes :
            /\ Once(span_list_'[i])
            /\ \A q : In(q, span_list_'[i]) <=> In(q, span_list_[i]) /\ ~(q = r /\ i = x)
  <2>1. \A i \in Indexes : span_list_[i] \in Seq(Spans) /\ Once(span_list_[i])
    BY <1>1 DEF TypeOK, Listing
  <2>2. PICK l : l = Ext!RemoveFirst(span_list_[x], r)
    OBVIOUS
  <2>3. /\ l \in Seq(Spans) /\ Once(l) /\ \A q : In(q, l) <=> In(q, span_list_[x]) /\ q # r
    BY <2>1, <2>2, Removal
  <2>4. /\ span_list_' \in [Indexes -> Seq(Spans)]
        /\ \A i \in Indexes : span_list_'[i] = IF i = x THEN l ELSE span_list_[i]
    BY <1>3, <1>10, <2>2, <2>3 DEF TypeOK
  <2>5. ASSUME NEW i \in Indexes
        PROVE  /\ Once(span_list_'[i])
               /\ \A q : In(q, span_list_'[i]) <=> In(q, span_list_[i]) /\ ~(q = r /\ i = x)
    <3>1. CASE i = x
      BY <3>1, <2>3, <2>4
    <3>2. CASE i # x
      BY <3>2, <2>1, <2>4
    <3> QED
      BY <3>1, <3>2
  <2> QED
    BY <2>4, <2>5
<1>12. Listing'
  <2>1. ASSUME NEW i \in Indexes, NEW q \in Spans
        PROVE  In(q, span_list_'[i]) <=> Free(q)' /\ ListIndex(pages_num_'[q]) = i
    <3>1. In(q, span_list_[i]) <=> Free(q) /\ ListIndex(pages_num_[q]) = i
      BY <1>1 DEF Listing
    <3>2. Free(q) /\ q # r => pages_num_'[q] = pages_num_[q]
      BY <1>4, <1>6
    <3> QED
      BY <3>1, <3>2, <1>6, <1>10, <1>11
  <2>2. \A i \in Indexes : Once(span_list_[i]') /\ \A q \in Spans :
           In(q, span_list_[i])' <=> Free(q)' /\ ListIndex(pages_num_[q])' = i
    BY <2>1, <1>11 DEF In, ListIndex
  <2> QED
    BY <2>2 DEF Listing, Once
<1>13. \A q \in spans' : Free(q)' =>
         /\ q \in spans /\ Free(q) /\ q # r /\ q # merging
         /\ first_page_id_'[q] = first_page_id_[q] /\ Last(q)' = Last(q)
  BY <1>5, <1>6
<1>14. Separate'
  BY <1>13 DEF Separate
<1>15. TypeOK'
  <2>1. first \in 0..HeapPages /\ size \in 0..HeapPages /\ 0 \in 0..HeapPages
        /\ first > 0 /\ size > 0
    BY <1>1
  <2>2. /\ first_page_id_' \in [Spans -> 0..HeapPages]
        /\ pages_num_' \in [Spans -> 0..HeapPages]
        /\ page_map_' \in [AllPages -> Spans \cup {Null}]
    BY <1>1, <1>2, <1>3, <2>1 DEF TypeOK
  <2>3. \A q \in spans' : first_page_id_'[q] > 0 /\ pages_num_'[q] > 0
    BY <1>4, <1>5, <2>1 DEF TypeOK
  <2>4. /\ spans' \subseteq Spans /\ merging' \in spans' \cup {Null}
        /\ result' \in spans' \cup {Null}
        /\ \A q \in Spans \ spans' : ~in_use_'[q]
    BY <1>1, <1>2, <1>3 DEF TypeOK
  <2>5. /\ root_' \subseteq LeafOf(0)..LeafOf(HeapPages + 1) /\ mapped' \subseteq Pages
        /\ in_use_' \in [Spans -> BOOLEAN] /\ request' \in 0..MaxRequest
        /\ at' \in {"idle", "grow", "merge_prev", "merge_next", "record", "again", "found",
                    "nullptr", "cleared"}
    BY <1>3 DEF TypeOK
  <2> QED
    BY <2>2, <2>3, <2>4, <2>5, <1>11 DEF TypeOK, LeafOf
<1> QED
  BY <1>4, <1>5, <1>8, <1>9, <1>12, <1>13, <1>14, <1>15

(* No neighbour there: nothing changes but at. *)
LEMMA NothingKeeps ==
  ASSUME TypeOK, Mapping, Merge, Listing, Separate, merging # Null,
         NothingAbsorbed, at' \in {"merge_next", "record"},
         UNCHANGED <<root_, mapped, in_use_, merging, request, result>>
  PROVE  /\ TypeOK' /\ Mapping' /\ Listing' /\ Separate' /\ Apart'
         /\ first_page_id_' = first_page_id_ /\ Last(merging)' = Last(merging)
         /\ \A q \in spans' : Free(q)' => /\ q \in spans /\ Free(q) /\ Last(q)' = Last(q)
                                          /\ first_page_id_'[q] = first_page_id_[q]
<1>1. Apart /\ at # "cleared"
  BY DEF Merge
<1>2. /\ span_list_' = span_list_ /\ spans' = spans /\ first_page_id_' = first_page_id_
      /\ pages_num_' = pages_num_ /\ page_map_' = page_map_
      /\ root_' = root_ /\ mapped' = mapped /\ in_use_' = in_use_ /\ merging' = merging
      /\ request' = request /\ result' = result
  BY DEF NothingAbsorbed
<1>3. TypeOK'
  BY <1>2 DEF TypeOK, LeafOf
<1>4. Mapping' /\ Listing' /\ Separate'
  BY <1>1, <1>2 DEF Mapping, Listing, Separate, LeafOf, Free, Last, In, Once, ListIndex
<1>5. Apart'
  BY <1>1, <1>2 DEF Apart, Extent, LeafOf
<1>6. \A q \in spans' : Free(q)' => /\ q \in spans /\ Free(q) /\ Last(q)' = Last(q)
                                    /\ first_page_id_'[q] = first_page_id_[q]
  BY <1>2 DEF Free, Last
<1> QED
  BY <1>2, <1>3, <1>4, <1>5, <1>6 DEF Last
-----------------------------------------------------------------------------
(* One lemma for every action. *)

LEMMA InitInv ==
  ASSUME Init
  PROVE  IInv
<1>1. TypeOK
  <2>1. /\ span_list_ \in [Indexes -> Seq(Spans)]
        /\ page_map_ \in [AllPages -> Spans \cup {Null}]
        /\ root_ = {} /\ spans = {} /\ mapped = {} /\ at = "idle"
        /\ merging = Null /\ result = Null /\ in_use_ = [s \in Spans |-> FALSE]
    BY DEF Init
  <2>2. 0 \in 0..HeapPages /\ 0 \in 0..MaxRequest
    BY PagesAssumption
  <2>3. /\ first_page_id_ \in [Spans -> 0..HeapPages]
        /\ pages_num_ \in [Spans -> 0..HeapPages] /\ request \in 0..MaxRequest
    BY <2>2 DEF Init
  <2> QED
    BY <2>1, <2>3 DEF TypeOK
<1>2. Mapping /\ Partition /\ Merge /\ Joined /\ Separate /\ Calls
  BY DEF Init, Mapping, Partition, Merge, Joined, Separate, Calls
<1>3. Listing
  <2>1. \A i \in Indexes : span_list_[i] = <<>>
    BY DEF Init
  <2>2. \A s \in Spans : ~Free(s)
    BY DEF Init, Free
  <2>3. Once(<<>>) /\ \A s : ~In(s, <<>>)
    BY DEF Once, In
  <2> QED
    BY <2>1, <2>2, <2>3 DEF Listing
<1> QED
  BY <1>1, <1>2, <1>3 DEF IInv

(* Ensure stays inside the page map that the model has. *)
LEMMA LeavesExist ==
  ASSUME NEW first \in Pages, NEW n \in Nat \ {0}, Run(first, n) \subseteq Pages
  PROVE  /\ Ensure(first - 1, n + 2) \subseteq LeafOf(0)..LeafOf(HeapPages + 1)
         /\ \A p \in Run(first, n) : LeafOf(p) \in Ensure(first - 1, n + 2)
<1>1. /\ HeapPages \in Nat /\ first \in 1..HeapPages /\ first \in Nat
      /\ first - 1 \in Nat /\ n \in Nat /\ n >= 1 /\ n + 2 \in Nat
  BY PagesAssumption DEF Pages
<1>2. \A p : p \in Run(first, n) <=> p \in Int /\ first <= p /\ p < first + n
  BY <1>1 DEF Run
<1>3. \A p : p \in Run(first - 1, n + 2) <=>
                p \in Int /\ first - 1 <= p /\ p < first + n + 1
  <2>1. first - 1 + (n + 2) - 1 = first + n
    BY <1>1
  <2>2. Run(first - 1, n + 2) = (first - 1)..(first + n)
    BY <2>1 DEF Run
  <2> QED
    BY <1>1, <2>2
<1>4. first + n - 1 <= HeapPages
  <2>1. first + n - 1 \in Run(first, n)
    BY <1>1, <1>2
  <2> QED
    BY <2>1 DEF Pages
<1>5. ASSUME NEW p \in Run(first - 1, n + 2)
      PROVE  LeafOf(p) \in LeafOf(0)..LeafOf(HeapPages + 1)
  <2>1. p \in Nat /\ 0 <= p /\ p <= HeapPages + 1 /\ HeapPages + 1 \in Nat
    BY <1>1, <1>3, <1>4
  <2>2. /\ LeafOf(0) \in Nat /\ LeafOf(p) \in Nat /\ LeafOf(0) <= LeafOf(p)
        /\ LeafOf(p) <= LeafOf(HeapPages + 1) /\ LeafOf(HeapPages + 1) \in Nat
    <3>1. LeafOf(0) \in Nat /\ LeafOf(0) <= LeafOf(p)
      BY <2>1, Monotonic
    <3>2. LeafOf(p) \in Nat /\ LeafOf(p) <= LeafOf(HeapPages + 1)
      BY <2>1, Monotonic
    <3>3. LeafOf(HeapPages + 1) \in Nat
      BY <2>1, Monotonic
    <3> QED
      BY <3>1, <3>2, <3>3
  <2> QED
    BY <2>2
<1>6. ASSUME NEW p \in Run(first, n)
      PROVE  LeafOf(p) \in Ensure(first - 1, n + 2)
  <2>1. p \in Run(first - 1, n + 2)
    BY <1>1, <1>2, <1>3
  <2> QED
    BY <1>1, <2>1, EveryLeaf
<1> QED
  BY <1>5, <1>6 DEF Ensure

LEMMA AllocateSpanInv ==
  ASSUME IInv, NEW n \in 1..MaxRequest, AllocateSpan(n)
  PROVE  IInv'
<1>1. /\ at = "idle" /\ at # "cleared" /\ result = Null /\ request' = n
      /\ merging = Null
  BY DEF AllocateSpan, IInv, Calls, Merge
<1>2. UNCHANGED <<in_use_, mapped, root_, merging>>
  BY DEF AllocateSpan
<1>3. CASE Found(n)
  BY <1>1, <1>2, <1>3, FoundKeeps DEF IInv
<1>4. CASE /\ at' = "grow"
           /\ UNCHANGED <<span_list_, page_map_, spans, first_page_id_, pages_num_, result>>
  <2>1. request' \in 0..MaxRequest
    BY <1>1, PagesAssumption
  <2>2. TypeOK'
    BY <1>2, <1>4, <2>1 DEF IInv, TypeOK, LeafOf
  <2>3. Mapping' /\ Partition' /\ Listing' /\ Separate'
    BY <1>1, <1>2, <1>4 DEF IInv, Mapping, Partition, Listing, Separate, LeafOf, Extent,
                            Free, Last, In, Once, ListIndex
  <2>4. Calls' /\ Merge' /\ Joined'
    BY <1>1, <1>2, <1>4 DEF Calls, Merge, Joined
  <2> QED
    BY <2>2, <2>3, <2>4 DEF IInv
<1> QED
  BY <1>3, <1>4 DEF AllocateSpan, SearchSpanList, Found

LEMMA SearchAgainInv ==
  ASSUME IInv, SearchAgain
  PROVE  IInv'
<1>1. /\ at = "again" /\ at # "cleared" /\ result = Null /\ merging = Null
      /\ request \in 1..MaxRequest /\ request' = request /\ Fitting(request) # {}
  BY DEF SearchAgain, IInv, Calls, Merge
<1>2. Found(request) /\ UNCHANGED <<in_use_, mapped, root_, merging>>
  BY <1>1 DEF SearchAgain, SearchSpanList, Found
<1> QED
  BY <1>1, <1>2, FoundKeeps DEF IInv

(* A run of pages that nobody has becomes a span to merge.                 *)
LEMMA NewRunInv ==
  ASSUME IInv, at = "grow", NEW n \in Nat \ {0}, n >= request,
         NEW s \in Spans \ spans, NEW first \in Pages, Run(first, n) \subseteq Pages \ mapped,
         mapped' = mapped \cup Run(first, n),
         root_' = root_ \cup Ensure(first - 1, n + 2),
         spans' = spans \cup {s},
         first_page_id_' = [first_page_id_ EXCEPT ![s] = first],
         pages_num_' = [pages_num_ EXCEPT ![s] = n],
         StartMerge(s),
         UNCHANGED <<span_list_, page_map_, in_use_, request, result>>
  PROVE  IInv'
<1>1. /\ at # "cleared" /\ result = Null /\ merging = Null /\ request \in 1..MaxRequest
      /\ merging' = s /\ at' = "merge_prev" /\ s \in Spans /\ s \notin spans
      /\ ~in_use_[s] /\ s # Null
  BY PagesAssumption DEF IInv, Calls, Merge, TypeOK, StartMerge, Spans, Null
<1>2. /\ span_list_' = span_list_ /\ page_map_' = page_map_ /\ in_use_' = in_use_
      /\ request' = request /\ result' = result
  OBVIOUS
<1>3. /\ first \in 1..HeapPages /\ n \in 1..HeapPages /\ HeapPages \in Nat
  <2>1. /\ HeapPages \in Nat /\ first \in 1..HeapPages /\ n \in Nat /\ n >= 1
    BY PagesAssumption DEF Pages
  <2>2. first + n - 1 \in Run(first, n)
    BY <2>1 DEF Run
  <2>3. first + n - 1 <= HeapPages
    BY <2>2 DEF Pages
  <2> QED
    BY <2>1, <2>3
<1>4. /\ first_page_id_'[s] = first /\ pages_num_'[s] = n
      /\ \A r \in spans : /\ r \in Spans /\ r # s
                          /\ first_page_id_'[r] = first_page_id_[r]
                          /\ pages_num_'[r] = pages_num_[r]
                          /\ Extent(r)' = Extent(r) /\ Last(r)' = Last(r)
      /\ Extent(s)' = Run(first, n)
  BY <1>1 DEF IInv, TypeOK, Extent, Last
<1>5. /\ Run(first, n) \subseteq Pages /\ Pages \subseteq AllPages /\ mapped \subseteq Pages
      /\ Run(first, n) \cap mapped = {}
  BY PagesAssumption DEF Pages, AllPages, IInv, TypeOK
<1>6. TypeOK'
  <2>1. first \in 0..HeapPages /\ n \in 0..HeapPages /\ first > 0 /\ n > 0
    BY <1>3
  <2>2. /\ first_page_id_' \in [Spans -> 0..HeapPages]
        /\ pages_num_' \in [Spans -> 0..HeapPages]
    BY <2>1 DEF IInv, TypeOK
  <2>3. \A r \in spans' : first_page_id_'[r] > 0 /\ pages_num_'[r] > 0
    BY <1>4, <2>1 DEF IInv, TypeOK
  <2>4. root_' \subseteq LeafOf(0)..LeafOf(HeapPages + 1)
    BY <1>5, LeavesExist DEF IInv, TypeOK
  <2>5. /\ spans' \subseteq Spans /\ mapped' \subseteq Pages
        /\ merging' \in spans' \cup {Null} /\ result' \in spans' \cup {Null}
        /\ \A r \in Spans \ spans' : ~in_use_'[r]
    BY <1>1, <1>2, <1>5 DEF IInv, TypeOK
  <2> QED
    BY <1>1, <1>2, <2>2, <2>3, <2>4, <2>5 DEF IInv, TypeOK, LeafOf
<1>7. Mapping'
  BY <1>2 DEF IInv, Mapping, LeafOf
<1>8. \A r : Free(r)' <=> Free(r)
  BY <1>1, <1>2 DEF IInv, Free, TypeOK
<1>9. Apart'
  <2>1. \A p \in Run(first, n) : LeafOf(p) \in root_' /\ p \in mapped'
    BY <1>5, LeavesExist
  <2>2. \A p \in AllPages \ Run(first, n) : page_map_[p] # Null <=> p \in mapped'
    BY <1>1 DEF IInv, Partition
  <2>3. \A p \in mapped' \ Run(first, n) :
          page_map_[p] \in spans' \ {s} /\ p \in Extent(page_map_[p])'
    BY <1>1, <1>4 DEF IInv, Partition
  <2>4. \A r \in spans' \ {s} : \A p \in Extent(r)' :
          p \in mapped' \ Run(first, n) /\ page_map_[p] = r
    BY <1>1, <1>4, <1>5 DEF IInv, Partition
  <2> QED
    BY <1>1, <1>2, <1>4, <2>1, <2>2, <2>3, <2>4 DEF Apart, LeafOf
<1>10. Listing'
  <2>1. \A i \in Indexes : Once(span_list_[i]) /\ \A r \in Spans :
          In(r, span_list_[i]) <=> Free(r) /\ ListIndex(pages_num_[r]) = i
    BY <1>1 DEF IInv, Listing
  <2>2. \A r : Free(r) => pages_num_'[r] = pages_num_[r]
    BY <1>4 DEF Free
  <2>3. \A i \in Indexes : Once(span_list_[i])' /\ \A r \in Spans :
          In(r, span_list_[i])' <=> Free(r)' /\ ListIndex(pages_num_[r])' = i
    BY <2>1, <2>2, <1>2, <1>8 DEF Once, In, ListIndex
  <2> QED
    BY <2>3 DEF Listing
<1>11. Separate'
  <2>1. \A r \in spans' : Free(r)' => /\ r \in spans /\ Free(r) /\ Last(r)' = Last(r)
                                      /\ first_page_id_'[r] = first_page_id_[r]
    BY <1>4, <1>8 DEF Free
  <2> QED
    BY <2>1 DEF IInv, Separate
<1>12. Partition' /\ Merge' /\ Joined' /\ Calls'
  BY <1>1, <1>9 DEF Partition, Merge, Joined, Calls
<1> QED
  BY <1>6, <1>7, <1>10, <1>11, <1>12 DEF IInv

LEMMA GrowHeapInv ==
  ASSUME IInv, GrowHeap
  PROVE  IInv'
<1>1. /\ at = "grow" /\ at # "cleared" /\ result = Null /\ request \in 1..MaxRequest
      /\ merging = Null /\ in_use_' = in_use_ /\ result' = result
      /\ span_list_' = span_list_ /\ page_map_' = page_map_
  BY DEF GrowHeap, IInv, Calls, Merge
<1>2. PICK n \in Nat \ {0} : n = RoundUp(request, MinGrow) /\ n >= request
  <2>1. request \in Nat /\ request >= 1
    BY <1>1, PagesAssumption
  <2> QED
    BY <2>1, Rounding, PagesAssumption
<1>3. PICK s \in Spans \ spans : s = NewSpan(spans)
  BY <1>1, NewSpanExists DEF IInv
<1>4. CASE \E first \in Pages :
             /\ Run(first, n) \subseteq Pages \ mapped
             /\ mapped' = mapped \cup Run(first, n)
             /\ root_' = root_ \cup Ensure(first - 1, n + 2)
             /\ spans' = spans \cup {s}
             /\ first_page_id_' = [first_page_id_ EXCEPT ![s] = first]
             /\ pages_num_' = [pages_num_ EXCEPT ![s] = n]
             /\ StartMerge(s)
             /\ UNCHANGED request
  BY <1>1, <1>2, <1>4, NewRunInv
<1>5. ASSUME at' = "idle", request' = 0, merging' = merging,
             root_ \subseteq root_', root_' \subseteq LeafOf(0)..LeafOf(HeapPages + 1),
             UNCHANGED <<mapped, spans, first_page_id_, pages_num_>>
      PROVE  IInv'
  <2>1. request' \in 0..MaxRequest
    BY <1>5, PagesAssumption
  <2>2. TypeOK'
    BY <1>1, <1>5, <2>1 DEF IInv, TypeOK, LeafOf
  <2>3. Mapping'
    BY <1>1, <1>5 DEF IInv, Mapping, LeafOf
  <2>4. Partition' /\ Listing' /\ Separate'
    BY <1>1, <1>5 DEF IInv, Partition, Listing, Separate, Extent, Free, Last, In, Once,
                      ListIndex
  <2>5. Calls' /\ Merge' /\ Joined'
    BY <1>1, <1>5 DEF Calls, Merge, Joined
  <2> QED
    BY <2>2, <2>3, <2>4, <2>5 DEF IInv
<1>6. CASE /\ at' = "idle" /\ request' = 0 /\ UNCHANGED merging /\ UNCHANGED root_
           /\ UNCHANGED <<mapped, spans, first_page_id_, pages_num_>>
  BY <1>5, <1>6 DEF IInv, TypeOK
<1>7. CASE /\ at' = "idle" /\ request' = 0 /\ UNCHANGED merging
           /\ \E first \in Pages, leaf \in LeafOf(0)..LeafOf(HeapPages + 1) :
                /\ Run(first, n) \subseteq Pages \ mapped
                /\ root_' = root_ \cup {l \in Ensure(first - 1, n + 2) : l <= leaf}
           /\ UNCHANGED <<mapped, spans, first_page_id_, pages_num_>>
  <2>1. PICK first \in Pages, leaf \in LeafOf(0)..LeafOf(HeapPages + 1) :
          /\ Run(first, n) \subseteq Pages
          /\ root_' = root_ \cup {l \in Ensure(first - 1, n + 2) : l <= leaf}
    BY <1>7
  <2>2. root_ \subseteq root_' /\ root_' \subseteq LeafOf(0)..LeafOf(HeapPages + 1)
    BY <2>1, LeavesExist DEF IInv, TypeOK
  <2> QED
    BY <1>5, <1>7, <2>2
<1> QED
  BY <1>2, <1>3, <1>4, <1>6, <1>7 DEF GrowHeap

LEMMA SetInUseInv ==
  ASSUME IInv, SetInUse
  PROVE  IInv'
<1>1. /\ at = "found" /\ at' = "idle" /\ request' = 0 /\ result' = Null
      /\ in_use_' = [in_use_ EXCEPT ![result] = TRUE]
      /\ span_list_' = span_list_ /\ root_' = root_ /\ page_map_' = page_map_
      /\ spans' = spans /\ first_page_id_' = first_page_id_
      /\ pages_num_' = pages_num_ /\ mapped' = mapped
      /\ result \in spans /\ ~in_use_[result] /\ result \in Spans
      /\ merging = Null /\ merging' = merging
  BY DEF SetInUse, IInv, Calls, Merge, TypeOK
<1>2. \A r \in Spans : in_use_'[r] <=> in_use_[r] \/ r = result
  BY <1>1 DEF IInv, TypeOK
<1>3. \A r \in Spans : Free(r)' <=> Free(r)
  <2>1. \A r \in Spans : r # Null
    BY PagesAssumption DEF Spans, Null
  <2> QED
    BY <1>1, <1>2, <2>1 DEF Free
<1>4. TypeOK'
  <2>1. in_use_' \in [Spans -> BOOLEAN] /\ \A r \in Spans \ spans : ~in_use_'[r]
    BY <1>1, <1>2 DEF IInv, TypeOK
  <2>2. request' \in 0..MaxRequest
    BY <1>1, PagesAssumption
  <2> QED
    BY <1>1, <2>1, <2>2 DEF IInv, TypeOK, LeafOf
<1>5. Mapping' /\ Partition'
  BY <1>1 DEF IInv, Mapping, Partition, LeafOf, Extent
<1>6. Listing'
  <2>1. \A i \in Indexes : Once(span_list_[i]) /\ \A r \in Spans :
          In(r, span_list_[i]) <=> Free(r)' /\ ListIndex(pages_num_[r]) = i
    BY <1>1, <1>3 DEF IInv, Listing
  <2>2. \A i \in Indexes : Once(span_list_[i])' /\ \A r \in Spans :
          In(r, span_list_[i])' <=> Free(r)' /\ ListIndex(pages_num_[r])' = i
    BY <1>1, <2>1 DEF Once, In, ListIndex
  <2> QED
    BY <2>2 DEF Listing
<1>7. Separate'
  <2>1. \A q, r \in spans : Free(q)' /\ Free(r)' => Last(q) + 1 # first_page_id_[r]
    BY <1>3 DEF IInv, TypeOK, Separate
  <2> QED
    BY <1>1, <2>1 DEF Separate, Last
<1>8. Calls' /\ Merge' /\ Joined'
  BY <1>1 DEF Calls, Merge, Joined
<1> QED
  BY <1>4, <1>5, <1>6, <1>7, <1>8 DEF IInv

(* A span that was in use becomes the span to merge.                       *)
LEMMA DeallocateSpanInv ==
  ASSUME IInv, NEW s \in Spans, DeallocateSpan(s)
  PROVE  IInv'
<1>1. /\ at = "idle" /\ at # "cleared" /\ result = Null /\ request = 0 /\ merging = Null
      /\ s \in spans /\ in_use_[s] /\ s # Null
      /\ in_use_' = [in_use_ EXCEPT ![s] = FALSE]
      /\ at' = "merge_prev" /\ merging' = s
      /\ span_list_' = span_list_ /\ page_map_' = page_map_ /\ spans' = spans
      /\ first_page_id_' = first_page_id_ /\ pages_num_' = pages_num_
      /\ mapped' = mapped /\ root_' = root_ /\ request' = request /\ result' = result
  BY PagesAssumption DEF DeallocateSpan, StartMerge, IInv, Calls, Merge, Spans, Null
<1>2. /\ in_use_' \in [Spans -> BOOLEAN]
      /\ \A r \in Spans : in_use_'[r] <=> in_use_[r] /\ r # s
  BY <1>1 DEF IInv, TypeOK
<1>3. \A r \in spans : Free(r)' <=> Free(r)
  BY <1>1, <1>2, FieldTypes DEF IInv, Free
<1>4. TypeOK'
  BY <1>1, <1>2 DEF IInv, TypeOK, LeafOf
<1>5. Mapping'
  BY <1>1 DEF IInv, Mapping, LeafOf
<1>6. Apart'
  <2>1. mapped \subseteq AllPages
    BY PagesAssumption DEF IInv, TypeOK, Pages, AllPages
  <2>2. \A p \in Extent(s) : p \in mapped /\ page_map_[p] = s /\ LeafOf(p) \in root_
    BY <1>1, <2>1 DEF IInv, Partition, Mapping
  <2>3. \A p \in mapped \ Extent(s) :
          page_map_[p] \in spans \ {s} /\ p \in Extent(page_map_[p])
    BY <1>1 DEF IInv, Partition
  <2>4. \A r \in spans \ {s} : \A p \in Extent(r) :
          p \in mapped \ Extent(s) /\ page_map_[p] = r
    BY <1>1, <2>2 DEF IInv, Partition
  <2>5. \A p \in AllPages : page_map_[p] # Null <=> p \in mapped
    BY <1>1 DEF IInv, Partition
  <2>6. pages_num_[s] >= request
    BY <1>1, FieldTypes, PagesAssumption DEF IInv
  <2> QED
    BY <1>1, <1>2, <2>2, <2>3, <2>4, <2>5, <2>6 DEF Apart, Extent, LeafOf
<1>7. Listing'
  <2>1. \A i \in Indexes : Once(span_list_[i]) /\ \A r \in Spans :
          In(r, span_list_[i]) <=> Free(r) /\ ListIndex(pages_num_[r]) = i
    BY <1>1 DEF IInv, Listing
  <2>2. \A r \in Spans : Free(r)' <=> Free(r)
    BY <1>1, <1>3 DEF Free
  <2>3. \A i \in Indexes : Once(span_list_[i])' /\ \A r \in Spans :
          In(r, span_list_[i])' <=> Free(r)' /\ ListIndex(pages_num_[r])' = i
    BY <2>1, <2>2, <1>1 DEF Once, In, ListIndex
  <2> QED
    BY <2>3 DEF Listing
<1>8. Separate'
  BY <1>1, <1>3 DEF IInv, Separate, Last
<1>9. Partition' /\ Merge' /\ Joined' /\ Calls'
  BY <1>1, <1>6 DEF Partition, Merge, Joined, Calls
<1> QED
  BY <1>4, <1>5, <1>7, <1>8, <1>9 DEF IInv

LEMMA MergePreviousInv ==
  ASSUME IInv, MergePrevious
  PROVE  IInv'
<1>1. /\ at = "merge_prev" /\ at' = "merge_next" /\ merging # Null
      /\ UNCHANGED <<root_, mapped, in_use_, merging, request, result>>
  BY DEF MergePrevious, IInv, Merge
<1>2. PICK f, l, n, prev : /\ f = first_page_id_[merging] /\ l = Last(merging)
                           /\ n = pages_num_[merging] /\ prev = FreeAt(f - 1)
  OBVIOUS
<1>3. /\ f \in Int /\ f >= 1 /\ n \in Int /\ n >= 1 /\ l \in Int /\ l = f + n - 1
      /\ l <= HeapPages /\ HeapPages \in Nat
      /\ \A p : p \in Extent(merging) <=> p \in Int /\ f <= p /\ p <= l
      /\ f - 1 \in AllPages \ Extent(merging)
  BY <1>1, <1>2, Working DEF IInv
<1>4. Partition' /\ Calls' /\ (NoneBefore' => Joined')
  BY <1>1 DEF Partition, Calls, Joined
<1>5. CASE prev # Null
  <2>1. prev \in spans /\ prev # merging /\ Free(prev) /\ f - 1 \in Extent(prev)
    BY <1>1, <1>2, <1>3, <1>5, Neighbour DEF IInv
  <2>2. PICK g \in Int, m \in Int : /\ g = first_page_id_[prev] /\ m = pages_num_[prev]
                                    /\ g >= 1 /\ m >= 1
    BY <2>1, FieldTypes, PagesAssumption DEF IInv
  <2>3. \A p : p \in Extent(prev) <=> p \in Int /\ g <= p /\ p < g + m
    BY <2>1, <2>2, Ends DEF IInv
  <2>4. g + m = f
    <3>1. f \notin Extent(prev)
      <4>1. f \in Extent(merging)
        BY <1>3
      <4> QED
        BY <1>1, <2>1, <4>1 DEF IInv, Merge, Apart
    <3> QED
      BY <3>1, <2>1, <2>3, <2>2, <1>3
  <2>5. PICK size \in 1..HeapPages : size = n + m
    BY <2>2, <2>4, <1>3
  <2>6. /\ g \in 1..HeapPages /\ g \in Run(g, size)
        /\ \A p : p \in Run(g, size) <=> p \in Extent(merging) \/ p \in Extent(prev)
        /\ g + size - 1 = l
    <3>1. /\ size \in Int /\ size = n + m /\ size >= 1 /\ g + size - 1 = l
          /\ g <= HeapPages
      BY <2>2, <2>4, <2>5, <1>3
    <3>2. \A p : p \in Run(g, size) <=> p \in Int /\ g <= p /\ p <= l
      BY <3>1, <2>2 DEF Run
    <3>3. \A p \in Int : g <= p /\ p <= l <=> (f <= p /\ p <= l) \/ (g <= p /\ p < g + m)
      BY <2>2, <2>4, <1>3
    <3> QED
      BY <3>1, <3>2, <3>3, <2>2, <2>3, <1>3
  <2>7. Absorb(prev, g, g)
    <3>1. f - m = g
      BY <2>2, <2>4, <1>3
    <3> QED
      BY <3>1, <1>2, <1>5, <2>2 DEF MergePrevious
  <2>8. /\ TypeOK' /\ Mapping' /\ Listing' /\ Separate' /\ Apart'
        /\ first_page_id_'[merging] = g
        /\ \A q \in spans' : Free(q)' => q \in spans /\ Free(q) /\ Last(q)' = Last(q)
    BY <1>1, <1>2, <2>1, <2>2, <2>5, <2>6, <2>7, AbsorbKeeps DEF IInv
  <2>9. NoneBefore'
    <3>1. ASSUME NEW q \in spans', Free(q)', Last(q)' + 1 = g
          PROVE  FALSE
      BY <2>1, <2>2, <2>8, <3>1 DEF IInv, Separate
    <3> QED
      BY <1>1, <2>8, <3>1 DEF NoneBefore
  <2> QED
    BY <1>1, <1>4, <2>8, <2>9 DEF IInv, Merge
<1>6. CASE prev = Null
  <2>1. NothingAbsorbed
    BY <1>2, <1>6 DEF MergePrevious
  <2>2. /\ TypeOK' /\ Mapping' /\ Listing' /\ Separate' /\ Apart'
        /\ first_page_id_' = first_page_id_
        /\ \A q \in spans' : Free(q)' => q \in spans /\ Free(q) /\ Last(q)' = Last(q)
    BY <1>1, <2>1, NothingKeeps DEF IInv
  <2>3. NoneBefore'
    <3>1. ASSUME NEW q \in spans, Free(q), Last(q) + 1 = f
          PROVE  FALSE
      <4>1. Last(q) \in Int /\ Last(q) \in Extent(q)
        BY FieldTypes, Ends, PagesAssumption DEF IInv, Last
      <4>2. Last(q) = f - 1
        BY <3>1, <4>1, <1>3
      <4> QED
        BY <1>1, <1>2, <1>3, <1>6, <3>1, <4>1, <4>2, Neighbour DEF IInv
    <3> QED
      BY <1>1, <1>2, <2>2, <3>1 DEF NoneBefore
  <2> QED
    BY <1>1, <1>4, <2>2, <2>3 DEF IInv, Merge
<1> QED
  BY <1>5, <1>6

LEMMA MergeNextInv ==
  ASSUME IInv, MergeNext
  PROVE  IInv'
<1>1. /\ at = "merge_next" /\ at' = "record" /\ merging # Null /\ NoneBefore
      /\ UNCHANGED <<root_, mapped, in_use_, merging, request, result>>
  BY DEF MergeNext, IInv, Merge, Joined
<1>2. PICK f, l, n, next : /\ f = first_page_id_[merging] /\ l = Last(merging)
                           /\ n = pages_num_[merging] /\ next = FreeAt(l + 1)
  OBVIOUS
<1>3. /\ f \in Int /\ f >= 1 /\ n \in Int /\ n >= 1 /\ l \in Int /\ l = f + n - 1
      /\ l <= HeapPages /\ HeapPages \in Nat
      /\ \A p : p \in Extent(merging) <=> p \in Int /\ f <= p /\ p <= l
      /\ l + 1 \in AllPages \ Extent(merging)
  BY <1>1, <1>2, Working DEF IInv
<1>4. Partition' /\ Calls' /\ (NoneBefore' /\ NoneBehind' => Joined')
  BY <1>1 DEF Partition, Calls, Joined
<1>5. CASE next # Null
  <2>1. next \in spans /\ next # merging /\ Free(next) /\ l + 1 \in Extent(next)
    BY <1>1, <1>2, <1>3, <1>5, Neighbour DEF IInv
  <2>2. PICK g \in Int, m \in Int : /\ g = first_page_id_[next] /\ m = pages_num_[next]
                                    /\ g >= 1 /\ m >= 1
    BY <2>1, FieldTypes, PagesAssumption DEF IInv
  <2>3. /\ \A p : p \in Extent(next) <=> p \in Int /\ g <= p /\ p < g + m
        /\ Last(next) = g + m - 1 /\ Last(next) \in Extent(next)
    BY <2>1, <2>2, Ends DEF IInv
  <2>4. g = l + 1 /\ g + m - 1 <= HeapPages
    <3>1. l \notin Extent(next)
      <4>1. l \in Extent(merging)
        BY <1>3
      <4> QED
        BY <1>1, <2>1, <4>1 DEF IInv, Merge, Apart
    <3>2. Last(next) \in Pages
      BY <1>1, <2>1, <2>3 DEF IInv, Merge, Apart, TypeOK
    <3> QED
      BY <3>1, <3>2, <2>1, <2>3, <2>2, <1>3 DEF Pages
  <2>5. PICK size \in 1..HeapPages : size = n + m
    BY <2>2, <2>4, <1>3
  <2>6. /\ f \in 1..HeapPages /\ l + m \in Run(f, size) /\ l + m = g + m - 1
        /\ \A p : p \in Run(f, size) <=> p \in Extent(merging) \/ p \in Extent(next)
        /\ f + size - 1 = g + m - 1
    <3>1. /\ size \in Int /\ size = n + m /\ size >= 1 /\ f + size - 1 = l + m
          /\ f <= HeapPages /\ l + m = g + m - 1 /\ f <= l + m
      BY <2>2, <2>4, <2>5, <1>3
    <3>2. \A p : p \in Run(f, size) <=> p \in Int /\ f <= p /\ p <= l + m
      BY <3>1, <1>3 DEF Run
    <3>3. \A p \in Int : f <= p /\ p <= l + m <=> (f <= p /\ p <= l) \/ (g <= p /\ p < g + m)
      BY <2>2, <2>4, <1>3
    <3>4. l + m \in Int
      BY <1>3, <2>2
    <3> QED
      BY <3>1, <3>2, <3>3, <3>4, <2>2, <2>3, <1>3
  <2>7. Absorb(next, f, l + m)
    BY <1>2, <1>5, <2>2 DEF MergeNext
  <2>8. /\ TypeOK' /\ Mapping' /\ Listing' /\ Separate' /\ Apart'
        /\ first_page_id_'[merging] = f /\ Last(merging)' = f + size - 1
        /\ \A q \in spans' : Free(q)' =>
             /\ q \in spans /\ Free(q) /\ Last(q)' = Last(q)
             /\ first_page_id_'[q] = first_page_id_[q]
    BY <1>1, <1>2, <2>1, <2>2, <2>5, <2>6, <2>7, AbsorbKeeps DEF IInv
  <2>9. NoneBefore'
    BY <1>1, <1>2, <2>8 DEF NoneBefore
  <2>10. NoneBehind'
    <3>1. Last(merging)' = Last(next)
      BY <2>3, <2>6, <2>8
    <3>2. ASSUME NEW q \in spans', Free(q)', Last(next) + 1 = first_page_id_'[q]
          PROVE  FALSE
      BY <2>1, <2>8, <3>2 DEF IInv, Separate
    <3> QED
      BY <3>1, <3>2 DEF NoneBehind
  <2> QED
    BY <1>1, <1>4, <2>8, <2>9, <2>10 DEF IInv, Merge
<1>6. CASE next = Null
  <2>1. NothingAbsorbed
    BY <1>2, <1>6 DEF MergeNext
  <2>2. /\ TypeOK' /\ Mapping' /\ Listing' /\ Separate' /\ Apart'
        /\ first_page_id_' = first_page_id_ /\ Last(merging)' = Last(merging)
        /\ \A q \in spans' : Free(q)' =>
             /\ q \in spans /\ Free(q) /\ Last(q)' = Last(q)
             /\ first_page_id_'[q] = first_page_id_[q]
    BY <1>1, <2>1, NothingKeeps DEF IInv
  <2>3. NoneBefore'
    BY <1>1, <2>2 DEF NoneBefore
  <2>4. NoneBehind'
    <3>1. ASSUME NEW q \in spans, Free(q), l + 1 = first_page_id_[q]
          PROVE  FALSE
      <4>1. l + 1 \in Extent(q)
        BY <3>1, Ends DEF IInv
      <4> QED
        BY <1>1, <1>2, <1>3, <1>6, <3>1, <4>1, Neighbour DEF IInv
    <3> QED
      BY <1>2, <2>2, <3>1 DEF NoneBehind
  <2> QED
    BY <1>1, <1>4, <2>2, <2>3, <2>4 DEF IInv, Merge
<1> QED
  BY <1>5, <1>6

(* RecordSpan and AddToSpanList: the map and the lists are whole again.    *)
LEMMA RecordMergedInv ==
  ASSUME IInv, RecordMerged
  PROVE  IInv'
<1>1. PICK s, f, n : /\ s = merging /\ f = first_page_id_[s] /\ n = pages_num_[s]
  OBVIOUS
<1>2. /\ at = "record" /\ s # Null /\ NoneBefore /\ NoneBehind /\ Apart
      /\ at' = IF request # 0 THEN "again" ELSE "idle"
      /\ page_map_' = Recorded(page_map_, s, f, n)
      /\ span_list_' = Added(span_list_, s, n)
      /\ merging' = Null /\ spans' = spans /\ first_page_id_' = first_page_id_
      /\ pages_num_' = pages_num_ /\ in_use_' = in_use_ /\ root_' = root_
      /\ mapped' = mapped /\ request' = request /\ result' = result
  BY <1>1 DEF RecordMerged, IInv, Merge, Joined, spanVars
<1>3. /\ s \in spans /\ s \in Spans /\ ~in_use_[s] /\ result = Null /\ n >= request
      /\ n \in Nat \ {0} /\ Extent(s) = Run(f, n) /\ at # "cleared"
  <2>1. n \in Nat \ {0}
    BY <1>1, <1>2, FieldTypes, PagesAssumption DEF Apart, IInv
  <2> QED
    BY <1>1, <1>2, <2>1, FieldTypes DEF Apart, IInv, Extent
<1>4. /\ mapped \subseteq Pages /\ Pages \subseteq AllPages
  BY PagesAssumption DEF IInv, TypeOK, Pages, AllPages
<1>5. \A p \in AllPages : page_map_'[p] = IF p \in Extent(s) THEN s ELSE page_map_[p]
  BY <1>2, <1>3 DEF Recorded
<1>6. Mapping'
  BY <1>1, <1>2, <1>5 DEF IInv, Mapping, Apart, LeafOf
<1>7. Partition'
  <2>1. \A p \in AllPages : page_map_'[p] # Null <=> p \in mapped
    BY <1>1, <1>2, <1>5 DEF Apart
  <2>2. \A p \in mapped : page_map_'[p] \in spans /\ p \in Extent(page_map_'[p])
    BY <1>1, <1>2, <1>3, <1>4, <1>5 DEF Apart
  <2>3. \A r \in spans : \A p \in Extent(r) : p \in mapped /\ page_map_'[p] = r
    BY <1>1, <1>2, <1>3, <1>4, <1>5 DEF Apart
  <2> QED
    BY <1>2, <2>1, <2>2, <2>3 DEF Partition, Extent
<1>8. /\ \A r : Free(r)' <=> Free(r) \/ r = s
      /\ ~Free(s)
  BY <1>1, <1>2, <1>3 DEF Free
<1>9. ListIndex(n) \in Indexes /\ ~In(s, span_list_[ListIndex(n)])
  <2>1. ListIndex(n) \in Indexes
    BY <1>3, ListIndexes
  <2> QED
    BY <1>3, <1>8, <2>1 DEF IInv, Listing
<1>10. /\ span_list_' \in [Indexes -> Seq(Spans)]
       /\ \A i \in Indexes :
            /\ Once(span_list_'[i])
            /\ \A r : In(r, span_list_'[i]) <=>
                        In(r, span_list_[i]) \/ (r = s /\ i = ListIndex(n))
       /\ span_list_'[ListIndex(n)] # <<>> /\ Head(span_list_'[ListIndex(n)]) = s
  <2>1. span_list_ \in [Indexes -> Seq(Spans)] /\ \A i \in Indexes : Once(span_list_[i])
    BY <1>3 DEF IInv, TypeOK, Listing
  <2>2. /\ Added(span_list_, s, n) \in [Indexes -> Seq(Spans)]
        /\ \A i \in Indexes :
             /\ Once(Added(span_list_, s, n)[i])
             /\ \A r : In(r, Added(span_list_, s, n)[i]) <=>
                         In(r, span_list_[i]) \/ (r = s /\ i = ListIndex(n))
        /\ Added(span_list_, s, n)[ListIndex(n)] # <<>>
        /\ Head(Added(span_list_, s, n)[ListIndex(n)]) = s
    BY <2>1, <1>3, <1>9, Adding
  <2> QED
    BY <2>2, <1>2
<1>11. Listing'
  <2>1. ASSUME NEW i \in Indexes, NEW r \in Spans
        PROVE  In(r, span_list_'[i]) <=> Free(r)' /\ ListIndex(pages_num_[r]) = i
    <3>1. In(r, span_list_[i]) <=> Free(r) /\ ListIndex(pages_num_[r]) = i
      BY <1>3 DEF IInv, Listing
    <3> QED
      BY <3>1, <1>1, <1>8, <1>10
  <2>2. \A i \in Indexes : Once(span_list_[i]') /\ \A r \in Spans :
           In(r, span_list_[i])' <=> Free(r)' /\ ListIndex(pages_num_[r])' = i
    BY <1>2, <2>1, <1>10 DEF In, ListIndex
  <2> QED
    BY <2>2 DEF Listing, Once
<1>12. Separate'
  <2>1. ASSUME NEW q \in spans, NEW r \in spans, Free(q)', Free(r)'
        PROVE  Last(q) + 1 # first_page_id_[r]
    <3>1. CASE q # s /\ r # s
      BY <2>1, <3>1, <1>8 DEF IInv, Separate
    <3>2. CASE q = s /\ r # s
      BY <2>1, <3>2, <1>1, <1>2, <1>8 DEF NoneBehind
    <3>3. CASE q # s /\ r = s
      BY <2>1, <3>3, <1>1, <1>2, <1>8 DEF NoneBefore
    <3>4. CASE q = s /\ r = s
      <4>1. f \in Int /\ Last(s) = f + n - 1
        BY <1>1, <1>3, FieldTypes DEF IInv, Last
      <4> QED
        BY <3>4, <4>1, <1>1, <1>3
    <3> QED
      BY <3>1, <3>2, <3>3, <3>4
  <2> QED
    BY <2>1, <1>2 DEF Separate, Last
<1>13. TypeOK'
  <2>1. page_map_' \in [AllPages -> Spans \cup {Null}]
    BY <1>2, <1>3 DEF IInv, TypeOK, Recorded
  <2> QED
    BY <2>1, <1>2, <1>10 DEF IInv, TypeOK, LeafOf
<1>14. request # 0 => Fitting(request)' # {}
  <2> SUFFICES ASSUME request # 0
               PROVE  Fitting(request)' # {}
    OBVIOUS
  <2>1. request \in 1..MaxRequest /\ request \in Nat /\ request >= 1
    BY PagesAssumption DEF IInv, TypeOK
  <2>2. CASE n > MaxPages
    <3>1. ListIndex(n) = MaxPages + 1
      BY <2>2 DEF ListIndex
    <3>2. MaxPages + 1 \in Fitting(request)'
      BY <1>1, <1>2, <1>3, <1>10, <3>1 DEF Fitting
    <3> QED
      BY <3>2
  <2>3. CASE ~(n > MaxPages)
    <3>1. ListIndex(n) = n /\ n \in request..MaxPages
      BY <1>3, <2>1, <2>3, PagesAssumption DEF ListIndex
    <3>2. n \in Fitting(request)'
      BY <1>2, <1>10, <3>1 DEF Fitting
    <3> QED
      BY <3>2
  <2> QED
    BY <2>2, <2>3
<1>15. Calls' /\ Merge' /\ Joined'
  <2>1. request # 0 => request \in 1..MaxRequest
    BY DEF IInv, TypeOK
  <2>2. CASE request # 0
    BY <1>2, <1>3, <1>14, <2>1, <2>2 DEF Calls, Merge, Joined, Fitting
  <2>3. CASE request = 0
    BY <1>2, <1>3, <2>3 DEF Calls, Merge, Joined
  <2> QED
    BY <2>2, <2>3
<1> QED
  BY <1>6, <1>7, <1>11, <1>12, <1>13, <1>15 DEF IInv

LEMMA ClearInv ==
  ASSUME IInv, Clear
  PROVE  IInv'
<1>1. /\ at = "idle" /\ at' = "cleared" /\ root_' = {}
      /\ span_list_' = [i \in Indexes |-> <<>>]
      /\ page_map_' = [p \in AllPages |-> Null] /\ mapped' \subseteq mapped
      /\ spans' = spans /\ first_page_id_' = first_page_id_
      /\ pages_num_' = pages_num_ /\ in_use_' = in_use_
      /\ request' = request /\ result' = result /\ merging' = merging
      /\ merging = Null
  BY DEF Clear, spanVars, IInv, Merge
<1>2. TypeOK'
  <2>1. span_list_' \in [Indexes -> Seq(Spans)]
    BY <1>1
  <2>2. page_map_' \in [AllPages -> Spans \cup {Null}]
    BY <1>1
  <2> QED
    BY <1>1, <2>1, <2>2 DEF IInv, TypeOK, LeafOf
<1>3. Mapping' /\ Partition' /\ Merge' /\ Joined' /\ Listing' /\ Calls'
  BY <1>1 DEF IInv, Mapping, Partition, Merge, Joined, Listing, Calls
<1>4. Separate'
  BY <1>1 DEF IInv, Separate, Free, Last
<1> QED
  BY <1>2, <1>3, <1>4 DEF IInv

LEMMA StutterInv ==
  ASSUME IInv, UNCHANGED vars
  PROVE  IInv'
<1>1. /\ span_list_' = span_list_ /\ root_' = root_ /\ page_map_' = page_map_
      /\ spans' = spans /\ first_page_id_' = first_page_id_
      /\ pages_num_' = pages_num_ /\ in_use_' = in_use_ /\ mapped' = mapped
      /\ at' = at /\ merging' = merging /\ request' = request /\ result' = result
  BY DEF vars, spanVars, callVars
<1>2. TypeOK'
  BY <1>1 DEF IInv, TypeOK, LeafOf
<1>3. Mapping' /\ Partition' /\ Listing' /\ Separate' /\ Calls'
  BY <1>1 DEF IInv, Mapping, Partition, Listing, Separate, Calls, LeafOf, Extent, Free,
              Last, In, Once, ListIndex, Fitting
<1>4. Merge' /\ Joined'
  BY <1>1 DEF IInv, Merge, Apart, Joined, NoneBefore, NoneBehind, LeafOf, Extent, Free, Last
<1> QED
  BY <1>2, <1>3, <1>4 DEF IInv

(* The invariant that carries all the others. *)
THEOREM Invariance == Spec => []IInv
<1>1. Init => IInv
  BY InitInv
<1>2. IInv /\ [Next]_vars => IInv'
  <2> SUFFICES ASSUME IInv, [Next]_vars
               PROVE  IInv'
    OBVIOUS
  <2>1. CASE \E n \in 1..MaxRequest : AllocateSpan(n)
    BY <2>1, AllocateSpanInv
  <2>2. CASE GrowHeap
    BY <2>2, GrowHeapInv
  <2>3. CASE SearchAgain
    BY <2>3, SearchAgainInv
  <2>4. CASE SetInUse
    BY <2>4, SetInUseInv
  <2>5. CASE \E s \in Spans : DeallocateSpan(s)
    BY <2>5, DeallocateSpanInv
  <2>6. CASE MergePrevious
    BY <2>6, MergePreviousInv
  <2>7. CASE MergeNext
    BY <2>7, MergeNextInv
  <2>8. CASE RecordMerged
    BY <2>8, RecordMergedInv
  <2>9. CASE Clear
    BY <2>9, ClearInv
  <2>10. CASE Terminated
    BY <2>10, StutterInv DEF Terminated
  <2>11. CASE UNCHANGED vars
    BY <2>11, StutterInv
  <2> QED
    BY <2>1, <2>2, <2>3, <2>4, <2>5, <2>6, <2>7, <2>8, <2>9, <2>10, <2>11 DEF Next
<1> QED
  BY <1>1, <1>2, PTL DEF Spec

-----------------------------------------------------------------------------
(* The properties. *)

LEMMA Leads ==
  ASSUME IInv
  PROVE  PagesPartitioned
<1>1. ASSUME NEW p \in AllPages
      PROVE  GetSpan(p) = page_map_[p]
  BY Reached DEF IInv
<1>2. mapped \subseteq AllPages
  BY PagesAssumption DEF IInv, TypeOK, Pages, AllPages
<1>3. ASSUME at # "cleared"
      PROVE  /\ \A p \in AllPages \ Merged : GetSpan(p) # Null <=> p \in mapped
             /\ \A p \in mapped \ Merged :
                  GetSpan(p) \in spans /\ p \in Extent(GetSpan(p))
             /\ \A s \in spans \ {merging} : \A p \in Extent(s) :
                  p \in mapped \ Merged /\ GetSpan(p) = s
  <2>1. CASE merging = Null
    BY <1>1, <1>2, <1>3, <2>1 DEF IInv, Partition, Merged
  <2>2. CASE merging # Null
    BY <1>1, <1>2, <2>2 DEF IInv, Merge, Apart, Merged
  <2> QED
    BY <2>1, <2>2
<1>4. ASSUME NEW s \in spans, in_use_[s]
      PROVE  s # merging
  <2>1. s # Null
    BY FieldTypes DEF IInv
  <2> QED
    BY <1>4, <2>1 DEF IInv, Merge, Apart
<1> QED
  BY <1>3, <1>4 DEF IInv, PagesPartitioned

(* In every state, also in the middle of a merge, the page map leads from  *)
(* the pages of a span in use to that span, which is all that              *)
(* MapObjectToSpan asks it without the lock; and but for the pages that    *)
(* are being merged every page belongs to one span, to which the map       *)
(* leads: for any heap, any kMaxPages, any leaves.                         *)
THEOREM PagesHaveTheirSpan == Spec => []PagesPartitioned
<1>1. IInv => PagesPartitioned
  BY Leads
<1> QED
  BY <1>1, Invariance, PTL

LEMMA CountOfOnce ==
  ASSUME NEW S, NEW l \in Seq(S), Once(l), NEW s
  PROVE  Cardinality({k \in DOMAIN l : l[k] = s}) = IF In(s, l) THEN 1 ELSE 0
<1>1. CASE In(s, l)
  <2>1. PICK j \in DOMAIN l : l[j] = s
    BY <1>1 DEF In
  <2>2. {k \in DOMAIN l : l[k] = s} = {j}
    BY <2>1 DEF Once
  <2> QED
    BY <1>1, <2>2, FS_Singleton
<1>2. CASE ~In(s, l)
  <2>1. {k \in DOMAIN l : l[k] = s} = {}
    BY <1>2 DEF In
  <2> QED
    BY <1>2, <2>1, FS_EmptySet
<1> QED
  BY <1>1, <1>2

(* The free lists hold each free span once, by its size, and free spans    *)
(* are never neighbours, whatever Carve cuts and MergeIntoSpanList joins.  *)
THEOREM ListsHoldFreeSpans == Spec => []FreeSpansListed
<1>1. ASSUME IInv
      PROVE  FreeSpansListed
  <2>1. ASSUME at # "cleared", NEW s \in Spans, NEW i \in Indexes
        PROVE  Listed(s, i) =
                 IF /\ s \in spans /\ ~in_use_[s] /\ s \notin {result, merging}
                    /\ IF i > MaxPages THEN pages_num_[s] > MaxPages
                                       ELSE pages_num_[s] = i
                 THEN 1 ELSE 0
    <3>1. span_list_[i] \in Seq(Spans) /\ Once(span_list_[i])
      BY <1>1, <2>1 DEF IInv, TypeOK, Listing
    <3>2. Listed(s, i) = IF In(s, span_list_[i]) THEN 1 ELSE 0
      BY <3>1, CountOfOnce DEF Listed
    <3>3. In(s, span_list_[i]) <=> Free(s) /\ ListIndex(pages_num_[s]) = i
      BY <1>1, <2>1 DEF IInv, Listing
    <3>4. pages_num_[s] \in 0..HeapPages /\ i \in 1..(MaxPages + 1)
      BY <1>1 DEF IInv, TypeOK, Indexes
    <3>5. ListIndex(pages_num_[s]) = i <=>
            IF i > MaxPages THEN pages_num_[s] > MaxPages ELSE pages_num_[s] = i
      BY <3>4, PagesAssumption DEF ListIndex
    <3> QED
      BY <3>2, <3>3, <3>5 DEF Free
  <2>2. ASSUME NEW s \in spans, NEW r \in spans
        PROVE  ~(/\ ~in_use_[s] /\ ~in_use_[r] /\ {s, r} \cap {result, merging} = {}
                 /\ Last(s) + 1 = first_page_id_[r])
    BY <1>1 DEF IInv, Separate, Free
  <2> QED
    BY <2>1, <2>2 DEF FreeSpansListed
<1> QED
  BY <1>1, Invariance, PTL

(* AllocateSpan's second search never comes back with nullptr.             *)
THEOREM SecondSearchServes == Spec => []GrownHeapServes
<1>1. IInv => GrownHeapServes
  BY DEF IInv, Calls, GrownHeapServes
<1> QED
  BY <1>1, Invariance, PTL

-----------------------------------------------------------------------------
(* The page heap implements PageAllocator. *)

(* The runs that callers have. *)
Held == {<<first_page_id_[s], pages_num_[s]>> : s \in {r \in spans : in_use_[r]}}

(* No step of AllocateSpan touches a span in use. *)
LEMMA HeldStays ==
  ASSUME \A s \in Spans : in_use_'[s] <=> in_use_[s],
         TypeOK, spans' \subseteq Spans,
         \A s \in Spans : in_use_[s] => (s \in spans' <=> s \in spans),
         \A s \in Spans : in_use_[s] => /\ first_page_id_'[s] = first_page_id_[s]
                                        /\ pages_num_'[s] = pages_num_[s]
  PROVE  Held' = Held
<1>1. spans \subseteq Spans
  BY DEF TypeOK
<1> QED
  BY <1>1 DEF Held

LEMMA CarveStays ==
  ASSUME IInv, at # "cleared", merging = Null, NEW s \in spans, ~in_use_[s], NEW n, NEW L,
         Carve(s, n, L), in_use_' = in_use_, spans' \subseteq Spans
  PROVE  Held' = Held
<1>1. CASE UNCHANGED <<spans, first_page_id_, pages_num_>>
  BY <1>1 DEF Held
<1>2. ASSUME NEW first, NEW start, Cut(s, n, L, first, start)
      PROVE  Held' = Held
  <2>1. PICK left \in Spans \ spans : left = NewSpan(spans)
    BY NewSpanExists DEF IInv
  <2>2. /\ spans' = spans \cup {left}
        /\ first_page_id_' = [first_page_id_ EXCEPT ![left] = start, ![s] = first]
        /\ pages_num_' = [pages_num_ EXCEPT ![left] = pages_num_[s] - n, ![s] = n]
    BY <1>2, <2>1 DEF Cut
  <2>3. ~in_use_[left] /\ TypeOK
    BY <2>1 DEF IInv, TypeOK
  <2>4. \A r \in Spans : in_use_[r] => r # left /\ r # s
    BY <2>3
  <2>5. \A r \in Spans : in_use_[r] => /\ r \in spans' <=> r \in spans
                                       /\ first_page_id_'[r] = first_page_id_[r]
                                       /\ pages_num_'[r] = pages_num_[r]
    BY <2>1, <2>2, <2>3, <2>4 DEF TypeOK
  <2> QED
    BY <2>3, <2>5, HeldStays
<1> QED
  BY <1>1, <1>2 DEF Carve

LEMMA FoundStays ==
  ASSUME IInv, IInv', at # "cleared", merging = Null, NEW n \in 1..MaxRequest, Found(n),
         in_use_' = in_use_
  PROVE  Held' = Held
<1>1. n \in Nat \ {0}
  BY PagesAssumption
<1>2. PICK i \in Indexes : i = Ext!Min(Fitting(n)) /\ span_list_[i] # <<>>
  BY <1>1, FittingExists DEF Found
<1>3. PICK s \in spans : s = Head(span_list_[i]) /\ ~in_use_[s]
  BY <1>2, HeadIsFree DEF IInv
<1>4. Carve(s, n, [span_list_ EXCEPT ![i] = Tail(@)])
  BY <1>2, <1>3 DEF Found
<1>5. spans' \subseteq Spans
  BY DEF IInv, TypeOK
<1> QED
  BY <1>3, <1>4, <1>5, CarveStays

(* A merge deletes and changes only spans that nobody uses. *)
LEMMA MergeStays ==
  ASSUME IInv, MergePrevious \/ MergeNext \/ RecordMerged
  PROVE  Held' = Held /\ request' = request
<1>1. /\ merging # Null /\ in_use_' = in_use_ /\ request' = request /\ TypeOK
      /\ merging \in Spans /\ ~in_use_[merging]
  <2>1. merging # Null
    BY DEF IInv, Merge, MergePrevious, MergeNext, RecordMerged
  <2> QED
    BY <2>1, FieldTypes DEF IInv, Merge, Apart, MergePrevious, MergeNext, RecordMerged, spanVars
<1>2. CASE UNCHANGED <<spans, first_page_id_, pages_num_>>
  BY <1>1, <1>2 DEF Held
<1>3. ASSUME NEW p \in AllPages \ Extent(merging), FreeAt(p) # Null,
             NEW first, NEW page, Absorb(FreeAt(p), first, page)
      PROVE  Held' = Held
  <2>1. PICK r \in spans : r = FreeAt(p) /\ ~in_use_[r] /\ r \in Spans
    BY <1>1, <1>3, Neighbour, FieldTypes DEF IInv, Free
  <2>2. /\ spans' = spans \ {r}
        /\ first_page_id_' = [first_page_id_ EXCEPT ![r] = 0, ![merging] = first]
        /\ \A q \in Spans : q # r /\ q # merging => pages_num_'[q] = pages_num_[q]
    BY <1>1, <1>3, <2>1 DEF Absorb, TypeOK
  <2>3. spans' \subseteq Spans
    BY <1>1, <2>2 DEF TypeOK
  <2>4. \A q \in Spans : in_use_[q] => /\ q \in spans' <=> q \in spans
                                       /\ first_page_id_'[q] = first_page_id_[q]
                                       /\ pages_num_'[q] = pages_num_[q]
    BY <1>1, <2>1, <2>2 DEF TypeOK
  <2> QED
    BY <1>1, <2>3, <2>4, HeldStays
<1>4. /\ first_page_id_[merging] - 1 \in AllPages \ Extent(merging)
      /\ Last(merging) + 1 \in AllPages \ Extent(merging)
  BY <1>1, Working DEF IInv
<1>5. CASE MergePrevious
  BY <1>1, <1>2, <1>3, <1>4, <1>5 DEF MergePrevious, NothingAbsorbed
<1>6. CASE MergeNext
  BY <1>1, <1>2, <1>3, <1>4, <1>6 DEF MergeNext, NothingAbsorbed
<1>7. CASE RecordMerged
  BY <1>1, <1>2, <1>7 DEF RecordMerged, spanVars
<1> QED
  BY <1>5, <1>6, <1>7

-----------------------------------------------------------------------------
LEMMA InitRefines ==
  ASSUME Init
  PROVE  Service!Init
<1>1. request = 0 /\ Held = {}
  BY DEF Init, Held
<1> QED
  BY <1>1 DEF Service!Init, Held

LEMMA Stutters ==
  ASSUME request' = request, Held' = Held
  PROVE  [Service!Next]_(Service!pvars)
BY DEF Service!pvars, Held

LEMMA GrowHeapRefines ==
  ASSUME IInv, IInv', GrowHeap
  PROVE  [Service!Next]_(Service!pvars)
<1>1. /\ at = "grow" /\ at # "cleared" /\ merging = Null /\ request \in 1..MaxRequest
      /\ in_use_' = in_use_
  BY DEF GrowHeap, IInv, Calls, Merge
<1>2. PICK s \in Spans \ spans : s = NewSpan(spans)
  BY <1>1, NewSpanExists DEF IInv
<1>3. ASSUME NEW first, NEW n, request' = request, spans' = spans \cup {s},
             first_page_id_' = [first_page_id_ EXCEPT ![s] = first],
             pages_num_' = [pages_num_ EXCEPT ![s] = n]
      PROVE  [Service!Next]_(Service!pvars)
  <2>1. ~in_use_[s]
    BY <1>2 DEF IInv, TypeOK
  <2>2. \A r \in Spans : in_use_[r] => /\ r \in spans' <=> r \in spans
                                       /\ first_page_id_'[r] = first_page_id_[r]
                                       /\ pages_num_'[r] = pages_num_[r]
    BY <1>2, <1>3, <2>1 DEF IInv, TypeOK
  <2>3. Held' = Held
    BY <1>1, <2>2, HeldStays DEF IInv, TypeOK
  <2> QED
    BY <1>3, <2>3, Stutters
<1>4. ASSUME request' = 0, UNCHANGED <<spans, first_page_id_, pages_num_>>
      PROVE  [Service!Next]_(Service!pvars)
  <2>1. request # 0
    BY <1>1
  <2>2. Held' = Held
    BY <1>1, <1>4 DEF Held
  <2>3. Service!Refuse
    BY <1>4, <2>1, <2>2 DEF Service!Refuse, Held
  <2> QED
    BY <2>3 DEF Service!Next
<1> QED
  BY <1>2, <1>3, <1>4 DEF GrowHeap

LEMMA SetInUseRefines ==
  ASSUME IInv, SetInUse
  PROVE  [Service!Next]_(Service!pvars)
<1>1. /\ request' = 0 /\ in_use_' = [in_use_ EXCEPT ![result] = TRUE]
      /\ spans' = spans /\ first_page_id_' = first_page_id_ /\ pages_num_' = pages_num_
      /\ result \in spans /\ ~in_use_[result] /\ result \in Spans /\ at # "cleared"
      /\ pages_num_[result] = request /\ request \in 1..MaxRequest
      /\ merging = Null
  BY DEF SetInUse, IInv, Calls, Merge, TypeOK
<1>2. PICK first \in Pages : first = first_page_id_[result]
  BY <1>1, FieldTypes DEF IInv, Pages
<1>3. Service!PagesOf(<<first, request>>) = Extent(result)
  BY <1>1, <1>2 DEF Service!PagesOf, Extent, Run
<1>4. Extent(result) \subseteq 1..HeapPages
  BY <1>1 DEF IInv, Partition, TypeOK, Pages
<1>5. ASSUME NEW run \in Held
      PROVE  Service!PagesOf(run) \cap Service!PagesOf(<<first, request>>) = {}
  <2>1. PICK s \in spans : in_use_[s] /\ run = <<first_page_id_[s], pages_num_[s]>>
    BY DEF Held
  <2>2. Service!PagesOf(run) = Extent(s)
    BY <2>1 DEF Service!PagesOf, Extent, Run
  <2>3. s # result
    BY <1>1, <2>1
  <2>4. Extent(s) \cap Extent(result) = {}
    BY <1>1, <2>3 DEF IInv, Partition
  <2> QED
    BY <1>3, <2>2, <2>4
<1>6. Held' = Held \cup {<<first, request>>}
  <2>1. \A s \in spans : in_use_'[s] <=> in_use_[s] \/ s = result
    BY <1>1 DEF IInv, TypeOK
  <2> QED
    BY <1>1, <1>2, <2>1 DEF Held
<1>7. Service!Grant(first)
  BY <1>1, <1>3, <1>4, <1>5, <1>6 DEF Service!Grant, Held
<1> QED
  BY <1>2, <1>7 DEF Service!Next, Pages

LEMMA DeallocateSpanRefines ==
  ASSUME IInv, IInv', NEW s \in Spans, DeallocateSpan(s)
  PROVE  [Service!Next]_(Service!pvars)
<1>1. /\ at # "cleared" /\ merging = Null /\ request = 0 /\ request' = request
      /\ s \in spans /\ in_use_[s]
      /\ in_use_' = [in_use_ EXCEPT ![s] = FALSE]
  BY DEF DeallocateSpan, IInv, Calls, Merge
<1>2. /\ spans' = spans /\ first_page_id_' = first_page_id_
      /\ pages_num_' = pages_num_
  BY DEF DeallocateSpan
<1>3. PICK run : run = <<first_page_id_[s], pages_num_[s]>>
  OBVIOUS
<1>4. run \in Held
  BY <1>1, <1>3 DEF Held
<1>5. \A r \in spans : r # s => <<first_page_id_[r], pages_num_[r]>> # run
  <2> SUFFICES ASSUME NEW r \in spans, r # s,
                      <<first_page_id_[r], pages_num_[r]>> = run
               PROVE  FALSE
    OBVIOUS
  <2>1. first_page_id_[r] = first_page_id_[s]
    BY <1>3
  <2>2. first_page_id_[r] \in Extent(r) /\ first_page_id_[s] \in Extent(s)
    BY <1>1, Ends DEF IInv
  <2> QED
    BY <1>1, <2>1, <2>2, Owner DEF IInv
<1>6. Held' = Held \ {run}
  <2>1. /\ \A r \in Spans : in_use_'[r] <=> in_use_[r] /\ r # s
        /\ spans \subseteq Spans /\ spans' \subseteq Spans
    BY <1>1 DEF IInv, TypeOK
  <2>2. ASSUME NEW h \in Held'
        PROVE  h \in Held /\ h # run
    <3>1. PICK r \in spans' : in_use_'[r] /\ h = <<first_page_id_'[r], pages_num_'[r]>>
      BY DEF Held
    <3>2. r \in spans /\ r # s /\ in_use_[r] /\ h = <<first_page_id_[r], pages_num_[r]>>
      BY <2>1, <3>1, <1>2
    <3> QED
      BY <3>2, <1>5 DEF Held
  <2>3. ASSUME NEW h \in Held, h # run
        PROVE  h \in Held'
    <3>1. PICK r \in spans : in_use_[r] /\ h = <<first_page_id_[r], pages_num_[r]>>
      BY DEF Held
    <3>2. r # s
      BY <2>3, <3>1, <1>3
    <3>3. r \in spans' /\ in_use_'[r] /\ h = <<first_page_id_'[r], pages_num_'[r]>>
      BY <2>1, <3>1, <3>2, <1>2
    <3> QED
      BY <3>3 DEF Held
  <2> QED
    BY <2>2, <2>3
<1>7. Service!GiveBack(run)
  BY <1>1, <1>4, <1>6 DEF Service!GiveBack, Held
<1> QED
  BY <1>4, <1>7 DEF Service!Next, Held

(* Callers get as many pages as they asked for, which nobody else has, and *)
(* keep them until they give them back: TCPageCache implements             *)
(* PageAllocator.                                                          *)
THEOREM PageCacheImplements == Spec => ImplementsPageAllocator
<1>1. Init => Service!Init
  BY InitRefines
<1>2. IInv /\ IInv' /\ [Next]_vars => [Service!Next]_(Service!pvars)
  <2> SUFFICES ASSUME IInv, IInv', [Next]_vars
               PROVE  [Service!Next]_(Service!pvars)
    OBVIOUS
  <2>1. ASSUME NEW n \in 1..MaxRequest, AllocateSpan(n)
        PROVE  [Service!Next]_(Service!pvars)
    <3>1. /\ request = 0 /\ request' = n /\ in_use_' = in_use_ /\ at = "idle"
          /\ at # "cleared" /\ merging = Null
      BY <2>1 DEF AllocateSpan, IInv, Calls, Merge
    <3>2. Held' = Held
      <4>1. CASE Found(n)
        BY <3>1, <4>1, FoundStays
      <4>2. CASE UNCHANGED <<spans, first_page_id_, pages_num_>>
        BY <3>1, <4>2 DEF Held
      <4> QED
        BY <2>1, <4>1, <4>2 DEF AllocateSpan, SearchSpanList, Found
    <3>3. Service!Ask(n)
      BY <3>1, <3>2 DEF Service!Ask, Held
    <3> QED
      BY <3>3 DEF Service!Next
  <2>2. CASE GrowHeap
    BY <2>2, GrowHeapRefines
  <2>3. CASE SearchAgain
    <3>1. /\ request' = request /\ in_use_' = in_use_ /\ at # "cleared"
          /\ request \in 1..MaxRequest /\ Fitting(request) # {} /\ merging = Null
      BY <2>3 DEF SearchAgain, IInv, Calls, Merge
    <3>2. Found(request)
      BY <2>3, <3>1 DEF SearchAgain, SearchSpanList, Found
    <3>3. Held' = Held
      BY <3>1, <3>2, FoundStays
    <3> QED
      BY <3>1, <3>3, Stutters
  <2>4. CASE SetInUse
    BY <2>4, SetInUseRefines
  <2>5. ASSUME NEW s \in Spans, DeallocateSpan(s)
        PROVE  [Service!Next]_(Service!pvars)
    BY <2>5, DeallocateSpanRefines
  <2>6. CASE MergePrevious \/ MergeNext \/ RecordMerged
    BY <2>6, MergeStays, Stutters
  <2>7. CASE Clear
    BY <2>7, Stutters DEF Clear, spanVars, Held
  <2>8. CASE Terminated \/ UNCHANGED vars
    BY <2>8, Stutters DEF Terminated, vars, spanVars, callVars, Held
  <2> QED
    BY <2>1, <2>2, <2>3, <2>4, <2>5, <2>6, <2>7, <2>8 DEF Next
<1>3. Init /\ [][Next]_vars /\ []IInv => Service!Spec
  BY <1>1, <1>2, PTL DEF Service!Spec
<1> QED
  BY <1>3, Invariance, PTL DEF Spec, ImplementsPageAllocator
=============================================================================
