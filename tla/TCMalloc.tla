------------------------------ MODULE TCMalloc ------------------------------
(***************************************************************************)
(* Core/Memory: TCThreadCache and TCCentralCache between the functions     *)
(* TCMalloc and TCFree of MallocTC and the page heap.  Each thread has a   *)
(* list of free objects per size class; it fetches objects from a span of  *)
(* the central cache and hands surplus ones back, under the lock of the    *)
(* class.  The page heap is the PageAllocator that TCPageCache implements: *)
(* AllocateSpan gives any free run of pages, and a span in use is known by *)
(* its first page.  Addresses count in units, PageUnits of them in a page. *)
(***************************************************************************)
EXTENDS Integers, Sequences, FiniteSets

CONSTANTS Threads, Null,
          HeapPages,     (* the pages the system can give are 1..HeapPages *)
          PageUnits,     (* kPageSize                                      *)
          ClassSize,     (* class_to_size_, by bucket 1, 2, ...            *)
          ClassPages,    (* pages_num_                                     *)
          MoveNum,       (* move_num_                                      *)
          MaxDynamic,    (* kMaxDynamicFreeListLength                      *)
          MaxOverages,   (* kMaxOverages                                   *)
          MinAlignment, DefaultAlignment, ForceMinSize,  (* MEMORY_...     *)
          Sizes,         (* the sizes the program asks for                 *)
          FreesBig,      (* whether it frees objects above kMaxSize        *)
          FreesNull      (* and calls an operator delete with nullptr      *)

Buckets == DOMAIN ClassSize
MaxSize == ClassSize[Len(ClassSize)]     (* kMaxSize *)
Pages   == 1..HeapPages
Addresses == PageUnits..(PageUnits * (HeapPages + 1) - 1)
Stale   == -1                            (* an address from an earlier life *)

ASSUME TablesAssumption ==
  /\ Null \notin Threads
  /\ HeapPages \in Nat \ {0} /\ PageUnits \in Nat \ {0}
  /\ ClassSize \in Seq(Nat \ {0}) /\ ClassSize # <<>>
  /\ ClassPages \in [Buckets -> Nat \ {0}] /\ MoveNum \in [Buckets -> Nat \ {0}]
  /\ \A b \in Buckets : ClassPages[b] * PageUnits >= ClassSize[b]
  /\ \A b, c \in Buckets : b < c => ClassSize[b] < ClassSize[c]
  /\ MaxDynamic \in Nat /\ \A b \in Buckets : MaxDynamic >= MoveNum[b]
  /\ MinAlignment \in Nat \ {0} /\ DefaultAlignment \in Nat \ {0} /\ ForceMinSize \in Nat
  /\ MaxOverages \in Nat /\ Sizes \subseteq Nat /\ {FreesBig, FreesNull} \subseteq BOOLEAN

VARIABLES
  free_list_,        (* free_list_[t][b]: objects cached by t              *)
  max_length_, overages_length_,   (* of that list                         *)
  span_list_,        (* span_list_[b]: spans of the central cache          *)
  lock_,             (* lock_[b]: owner of the lock of span_list_[b]       *)
  pages_num_,        (* pages_num_[p]: size of the span in use at p, or 0  *)
  object_size_, allocated_num_,    (* the fields of that span              *)
  span_free_list_,   (* and its free_list_                                 *)
  live,              (* the addresses the program has                      *)
  pc,                (* where each thread is                               *)
  bucket_index,      (* the size class it is busy with                     *)
  batch              (* the objects InsertRange still has to insert        *)

cacheVars == <<free_list_, max_length_, overages_length_>>
centralVars == <<span_list_, lock_>>
spanVars == <<pages_num_, object_size_, allocated_num_, span_free_list_>>
callVars == <<bucket_index, batch>>
vars == <<cacheVars, centralVars, spanVars, live, pc, callVars>>

At(t, l)      == pc[t] = l
Goto(t, l)    == pc' = [pc EXCEPT ![t] = l]
Smaller(a, b) == IF a < b THEN a ELSE b
Front(s, k)   == SubSeq(s, 1, k)
Without(s, k) == SubSeq(s, k + 1, Len(s))
Elements(s)   == {s[k] : k \in DOMAIN s}

PageOf(a)   == a \div PageUnits
Run(p, n)   == p..(p + n - 1)
Used        == {p \in Pages : pages_num_[p] > 0}
(* MapObjectToSpan *)
SpanOf(a)   == CHOOSE p \in Used : PageOf(a) \in Run(p, pages_num_[p])
(* GetSizeToClass: the smallest class that holds the size; 0 goes to 1.    *)
ClassOf(n)  == CHOOSE b \in Buckets : /\ ClassSize[b] >= n
                                      /\ \A c \in 1..(b - 1) : ClassSize[c] < n
Capacity(p) == (pages_num_[p] * PageUnits) \div object_size_[p]
IsFull(p)   == allocated_num_[p] = Capacity(p)
ObjectsNum(b) == (ClassPages[b] * PageUnits) \div ClassSize[b]
Objects(p, b) == [k \in 1..ObjectsNum(b) |-> p * PageUnits + (k - 1) * ClassSize[b]]

IsBig(a)  == \A b \in Buckets : SpanOf(a) \notin Elements(span_list_[b])

Init ==
  /\ free_list_ = [t \in Threads |-> [b \in Buckets |-> <<>>]]
  /\ max_length_ = [t \in Threads |-> [b \in Buckets |-> 1]]
  /\ overages_length_ = [t \in Threads |-> [b \in Buckets |-> 0]]
  /\ span_list_ = [b \in Buckets |-> <<>>] /\ lock_ = [b \in Buckets |-> Null]
  /\ pages_num_ = [p \in Pages |-> 0] /\ object_size_ = [p \in Pages |-> 0]
  /\ allocated_num_ = [p \in Pages |-> 0]
  /\ span_free_list_ = [p \in Pages |-> <<>>]
  /\ live = {}
  /\ pc = [t \in Threads |-> "unborn"]
  /\ bucket_index = [t \in Threads |-> 1] /\ batch = [t \in Threads |-> <<>>]
-----------------------------------------------------------------------------
(* The page heap, as PageAllocator promises. *)

FreeRuns(n) == {p \in Pages : /\ Run(p, n) \subseteq Pages
                              /\ \A q \in Used : Run(q, pages_num_[q]) \cap Run(p, n) = {}}

DeallocateSpan(p) ==
  /\ pages_num_' = [pages_num_ EXCEPT ![p] = 0]
  /\ object_size_' = [object_size_ EXCEPT ![p] = 0]
  /\ allocated_num_' = [allocated_num_ EXCEPT ![p] = 0]
  /\ span_free_list_' = [span_free_list_ EXCEPT ![p] = <<>>]
-----------------------------------------------------------------------------
(* The operators new, MallocTC::TCMalloc and TCThreadCache::Allocate *)

(* Every operator new asks for one byte at least, with the default         *)
(* alignment, and Malloc rounds that up to the alignment.                  *)
Request(n)   == IF n = 0 THEN 1 ELSE n
Alignment(n) == IF n < ForceMinSize THEN MinAlignment ELSE DefaultAlignment
Asked ==
  LET rounded(n) == ((n + Alignment(n) - 1) \div Alignment(n)) * Alignment(n)
  IN  {rounded(Request(n)) : n \in Sizes}

(* ThreadLocalMemory: CreateThreadLocalCache. *)
Start(t) ==
  /\ At(t, "unborn") /\ Goto(t, "idle")
  /\ UNCHANGED <<cacheVars, centralVars, spanVars, live, callVars>>

AllocateCached(t, n) ==
  LET b == ClassOf(n)
  IN  /\ At(t, "idle") /\ n <= MaxSize
      /\ free_list_[t][b] # <<>>
      /\ free_list_' = [free_list_ EXCEPT ![t][b] = Tail(@)]
      /\ live' = live \cup {Head(free_list_[t][b])}
      /\ UNCHANGED <<max_length_, overages_length_, centralVars, spanVars, pc, callVars>>

(* AllocBig never sets object_size_: a new TCSpan has 0 there, one that    *)
(* has served a size class before still has the size of that class.        *)
AllocBig(t, n) ==
  LET pages == (n + PageUnits - 1) \div PageUnits
  IN  /\ At(t, "idle") /\ n > MaxSize
      /\ \/ \E p \in FreeRuns(pages) :
              /\ pages_num_' = [pages_num_ EXCEPT ![p] = pages]
              /\ \E s \in {0} \cup Elements(ClassSize) :
                   object_size_' = [object_size_ EXCEPT ![p] = s]
              /\ live' = live \cup {p * PageUnits}
              /\ UNCHANGED pc
         \/ Goto(t, "nullptr") /\ UNCHANGED <<pages_num_, object_size_, live>>
      /\ UNCHANGED <<cacheVars, centralVars, allocated_num_, span_free_list_, callVars>>
-----------------------------------------------------------------------------
(* TCThreadCache::FetchFromCentralCache and TCCentralCache::RemoveRange *)

(* A list may grow by one below the batch size and by a batch above it.    *)
Grown(length, b) ==
  IF length < MoveNum[b] THEN length + 1
  ELSE LET longer == Smaller(length + MoveNum[b], MaxDynamic)
       IN  longer - (longer % MoveNum[b])

PutBack(list, p, full) == IF full THEN Append(list, p) ELSE <<p>> \o list

(* Pop up to move_num of the free objects of span p, put it back into what *)
(* is left of its list and unlock; the thread returns the first object and *)
(* keeps the others.                                                       *)
PopObjects(t, b, p, list, allocated, free) ==
  LET capacity == ObjectsNum(b)
      move_num == Smaller(MoveNum[b], max_length_[t][b])
      k        == Smaller(move_num, capacity - allocated)
  IN  /\ span_free_list_' = [span_free_list_ EXCEPT ![p] = Without(free, k)]
      /\ allocated_num_' = [allocated_num_ EXCEPT ![p] = allocated + k]
      /\ span_list_' = [span_list_ EXCEPT ![b] = PutBack(list, p, allocated + k = capacity)]
      /\ lock_' = [lock_ EXCEPT ![b] = Null]
      /\ live' = live \cup Elements(Front(free, Smaller(1, k)))
      /\ free_list_' = [free_list_ EXCEPT ![t][b] = SubSeq(free, 2, k) \o @]
      /\ max_length_' = [max_length_ EXCEPT ![t][b] = IF k = 0 THEN @ ELSE Grown(@, b)]
      /\ Goto(t, IF k = 0 THEN "nothing" ELSE "idle")

(* Mutant: any span will do. *)
HasSpan(b) == span_list_[b] # <<>>

HasFreeSpan(b) == span_list_[b] # <<>> /\ ~IsFull(Head(span_list_[b]))

(* The list of the thread is empty: lock the class, use its first span.    *)
RemoveRange(t, n) ==
  LET b == ClassOf(n)
      p == Head(span_list_[b])
  IN  /\ At(t, "idle") /\ n <= MaxSize
      /\ free_list_[t][b] = <<>> /\ lock_[b] = Null /\ HasFreeSpan(b)
      /\ PopObjects(t, b, p, Tail(span_list_[b]), allocated_num_[p], span_free_list_[p])
      /\ UNCHANGED <<overages_length_, pages_num_, object_size_, callVars>>

(* No span of the class has a free object. *)
RemoveRangeFull(t, n) ==
  LET b == ClassOf(n)
  IN  /\ At(t, "idle") /\ n <= MaxSize
      /\ free_list_[t][b] = <<>> /\ lock_[b] = Null /\ ~HasFreeSpan(b)
      /\ lock_' = [lock_ EXCEPT ![b] = t]
      /\ bucket_index' = [bucket_index EXCEPT ![t] = b]
      /\ Goto(t, "new")
      /\ UNCHANGED <<cacheVars, span_list_, spanVars, live, batch>>

(* AllocateSpan, SetObjectSize, the InitializePush loop and the rest of    *)
(* RemoveRange.  The free_list_ of a span that was used before is not      *)
(* reset: the new objects are pushed on top of what is left in it.  The    *)
(* result of AllocateSpan is used without a test for nullptr.              *)
NewSpan(t) ==
  LET b == bucket_index[t]
  IN  /\ At(t, "new")
      /\ \/ \E p \in FreeRuns(ClassPages[b]) :
              /\ pages_num_' = [pages_num_ EXCEPT ![p] = ClassPages[b]]
              /\ object_size_' = [object_size_ EXCEPT ![p] = ClassSize[b]]
              /\ PopObjects(t, b, p, span_list_[b], 0, Objects(p, b) \o <<Stale>>)
              /\ bucket_index' = [bucket_index EXCEPT ![t] = 1]
         \/ /\ Goto(t, "nullptr")
            /\ UNCHANGED <<free_list_, max_length_, centralVars, spanVars, live, bucket_index>>
      /\ UNCHANGED <<overages_length_, batch>>
-----------------------------------------------------------------------------
(* MallocTC::TCFree and TCThreadCache::Deallocate *)

(* TCFree reads the object size from the span of the address and pushes    *)
(* the object; when the list reaches its maximum, ListTooLong takes a      *)
(* batch from its front for the central cache.  object_size_ is never more *)
(* than kMaxSize, so the branch of TCFree that calls FreeBig is dead.      *)
Free(t, a) ==
  LET b    == ClassOf(object_size_[SpanOf(a)])
      list == <<a>> \o free_list_[t][b]
      k    == Smaller(MoveNum[b], Len(list))
  IN  /\ At(t, "idle") /\ a \in live /\ (FreesBig \/ ~IsBig(a))
      /\ live' = live \ {a}
      /\ \/ /\ Len(list) < max_length_[t][b]
            /\ free_list_' = [free_list_ EXCEPT ![t][b] = list]
            /\ UNCHANGED <<pc, bucket_index, batch>>
         \/ /\ Len(list) >= max_length_[t][b] /\ Goto(t, "insert")
            /\ free_list_' = [free_list_ EXCEPT ![t][b] = Without(list, k)]
            /\ batch' = [batch EXCEPT ![t] = Front(list, k)]
            /\ bucket_index' = [bucket_index EXCEPT ![t] = b]
      /\ UNCHANGED <<max_length_, overages_length_, centralVars, spanVars>>

(* Every operator delete is Free.  TCFree does not test for nullptr, but   *)
(* uses the span of page 0, which there is not.                            *)
Delete(t) ==
  \/ \E a \in live : Free(t, a)
  \/ /\ At(t, "idle") /\ FreesNull /\ Goto(t, "nullptr")
     /\ UNCHANGED <<cacheVars, centralVars, spanVars, live, callVars>>
-----------------------------------------------------------------------------
(* TCCentralCache::InsertRange, called by ListTooLong and by Clear *)

(* The rest of ListTooLong adapts the maximum.  Line 95 reads the overages *)
(* of the first list of the thread, whatever the class.                    *)
AdaptMaximum(t, b) ==
  LET over == overages_length_[t][1] + 1
  IN  \/ /\ max_length_[t][b] < MoveNum[b]
         /\ max_length_' = [max_length_ EXCEPT ![t][b] = @ + 1]
         /\ UNCHANGED overages_length_
      \/ /\ max_length_[t][b] = MoveNum[b]
         /\ UNCHANGED <<max_length_, overages_length_>>
      \/ /\ max_length_[t][b] > MoveNum[b] /\ over <= MaxOverages
         /\ overages_length_' = [overages_length_ EXCEPT ![t][b] = over]
         /\ UNCHANGED max_length_
      \/ /\ max_length_[t][b] > MoveNum[b] /\ over > MaxOverages
         /\ overages_length_' = [overages_length_ EXCEPT ![t][b] = 0]
         /\ max_length_' = [max_length_ EXCEPT ![t][b] = @ - MoveNum[b]]

(* Mutant: a span goes back although one object is still outside. *)
ReturnEarly(a, p, b, others) ==
  \/ /\ allocated_num_[p] <= 2
     /\ span_list_' = [span_list_ EXCEPT ![b] = others] /\ DeallocateSpan(p)
  \/ /\ allocated_num_[p] > 2
     /\ span_list_' = [span_list_ EXCEPT ![b] = <<p>> \o others]
     /\ span_free_list_' = [span_free_list_ EXCEPT ![p] = <<a>> \o @]
     /\ allocated_num_' = [allocated_num_ EXCEPT ![p] = @ - 1]
     /\ UNCHANGED <<pages_num_, object_size_>>

(* Push a into its span p, which was taken out of the list: it goes to the *)
(* front of the others or, with all its objects home, to the page heap.    *)
PushObject(a, p, b, others) ==
  \/ /\ allocated_num_[p] = 1
     /\ span_list_' = [span_list_ EXCEPT ![b] = others] /\ DeallocateSpan(p)
  \/ /\ allocated_num_[p] # 1
     /\ span_list_' = [span_list_ EXCEPT ![b] = <<p>> \o others]
     /\ span_free_list_' = [span_free_list_ EXCEPT ![p] = <<a>> \o @]
     /\ allocated_num_' = [allocated_num_ EXCEPT ![p] = @ - 1]
     /\ UNCHANGED <<pages_num_, object_size_>>

(* The list without span p.                                                *)
Unlinked(list, p) == LET k == CHOOSE j \in DOMAIN list : list[j] = p
                     IN  Front(list, k - 1) \o Without(list, k)

(* One object.  The class is locked before the first one and unlocked      *)
(* after the last; other classes use the page heap in between.             *)
InsertObject(t) ==
  LET b == bucket_index[t]
      a == Head(batch[t])
      p == SpanOf(a)
  IN  /\ pc[t] \in {"insert", "drain"} /\ lock_[b] \in {Null, t}
      /\ PushObject(a, p, b, Unlinked(span_list_[b], p))
      /\ batch' = [batch EXCEPT ![t] = Tail(@)]
      /\ \/ /\ Len(batch[t]) > 1
            /\ lock_' = [lock_ EXCEPT ![b] = t]
            /\ UNCHANGED <<pc, bucket_index, max_length_, overages_length_>>
         \/ /\ Len(batch[t]) = 1
            /\ lock_' = [lock_ EXCEPT ![b] = Null]
            /\ bucket_index' = [bucket_index EXCEPT ![t] = 1]
            /\ \/ At(t, "insert") /\ Goto(t, "idle") /\ AdaptMaximum(t, b)
               \/ /\ At(t, "drain") /\ Goto(t, "clear")
                  /\ UNCHANGED <<max_length_, overages_length_>>
      /\ UNCHANGED <<free_list_, live>>
-----------------------------------------------------------------------------
(* TCThreadCache::Clear, when the thread ends *)

Finish(t) ==
  /\ At(t, "idle") /\ Goto(t, "clear")
  /\ UNCHANGED <<cacheVars, centralVars, spanVars, live, callVars>>

(* Mutant: leaves one object behind. *)
LongLists(t) == {b \in Buckets : Len(free_list_[t][b]) > 1}

Unreleased(t) == {b \in Buckets : free_list_[t][b] # <<>>}

(* ReleaseToCentralCache of whole lists, in batches and in the order of    *)
(* the classes; then the cache is deleted.                                 *)
Clear(t) ==
  /\ At(t, "clear")
  /\ \/ \E b \in Unreleased(t) :
          LET k == Smaller(MoveNum[b], Len(free_list_[t][b]))
          IN  /\ \A c \in Unreleased(t) : b <= c
              /\ bucket_index' = [bucket_index EXCEPT ![t] = b] /\ Goto(t, "drain")
              /\ batch' = [batch EXCEPT ![t] = Front(free_list_[t][b], k)]
              /\ free_list_' = [free_list_ EXCEPT ![t][b] = Without(@, k)]
              /\ UNCHANGED <<max_length_, overages_length_>>
     \/ /\ Unreleased(t) = {} /\ Goto(t, "unborn")
        /\ free_list_' = [free_list_ EXCEPT ![t] = [b \in Buckets |-> <<>>]]
        /\ max_length_' = [max_length_ EXCEPT ![t] = [b \in Buckets |-> 1]]
        /\ overages_length_' = [overages_length_ EXCEPT ![t] = [b \in Buckets |-> 0]]
        /\ UNCHANGED <<bucket_index, batch>>
  /\ UNCHANGED <<centralVars, spanVars, live>>
-----------------------------------------------------------------------------
(* A thread at "nullptr" has used the null span: the process ends. *)
Crashed == \E t \in Threads : At(t, "nullptr")

Step(t) == \/ Start(t) \/ NewSpan(t) \/ InsertObject(t) \/ Finish(t) \/ Clear(t)
           \/ \E n \in Asked : \/ AllocateCached(t, n) \/ AllocBig(t, n)
                               \/ RemoveRange(t, n) \/ RemoveRangeFull(t, n)
           \/ Delete(t)

Next == \/ ~Crashed /\ \E t \in Threads : Step(t)
        \/ Crashed /\ UNCHANGED vars

Spec == Init /\ [][Next]_vars
-----------------------------------------------------------------------------
PcValues == {"unborn", "idle", "new", "nullptr", "nothing", "insert", "drain", "clear"}

(* Every variable has its type; the maximum of a list is at least one and  *)
(* at most MaxDynamic.                                                     *)
TypeOK ==
  /\ free_list_ \in [Threads -> [Buckets -> Seq(Addresses)]]
  /\ max_length_ \in [Threads -> [Buckets -> 1..MaxDynamic]]
  /\ overages_length_ \in [Threads -> [Buckets -> 0..MaxOverages]]
  /\ span_list_ \in [Buckets -> Seq(Pages)]
  /\ lock_ \in [Buckets -> Threads \cup {Null}]
  /\ pages_num_ \in [Pages -> 0..HeapPages]
  /\ object_size_ \in [Pages -> 0..MaxSize]
  /\ allocated_num_ \in [Pages -> Nat]
  /\ span_free_list_ \in [Pages -> Seq(Addresses \cup {Stale})]
  /\ live \subseteq Addresses
  /\ pc \in [Threads -> PcValues]
  /\ bucket_index \in [Threads -> Buckets] /\ batch \in [Threads -> Seq(Addresses)]

InClass(p, b)   == p \in Elements(span_list_[b])
ObjectOf(a, b)  == \E p \in Pages : InClass(p, b) /\ a \in Elements(Objects(p, b))
Positions(s, a) == {k \in DOMAIN s : s[k] = a}
(* Big objects are alone in a span that no list holds.                     *)
BigAt(a)        == \E p \in Used : a = p * PageUnits /\ \A b \in Buckets : ~InClass(p, b)
(* The objects of a span that are not allocated.                           *)
Home(p)         == Front(span_free_list_[p], Capacity(p) - allocated_num_[p])

(* Where address a is: with the program, with a thread or in its span.     *)
Places(a) ==
  {<<"live", 0, 0, 0>> : x \in live \cap {a}}
  \cup (UNION {{<<"list", t, b, k>> : k \in Positions(free_list_[t][b], a)} :
                  t \in Threads, b \in Buckets})
  \cup (UNION {{<<"batch", t, 0, k>> : k \in Positions(batch[t], a)} : t \in Threads})
  \cup (UNION {{<<"home", p, b, k>> : k \in IF InClass(p, b) THEN Positions(Home(p), a) ELSE {}} :
                  p \in Pages, b \in Buckets})

(* Every object of a span of a size class is in exactly one place, with    *)
(* the program, in one thread's list or batch, or in the span, and         *)
(* allocated_num_ counts the ones outside; what threads hold are objects   *)
(* of such spans.  So no two live objects overlap, none lies in pages that *)
(* went back to the page heap (InsertRange), and the rest of an earlier    *)
(* free_list_ below the objects is never reached (RemoveRange).  The types *)
(* and bounds of all lists hold along with it.                             *)
ObjectsAccounted ==
  /\ TypeOK
  /\ \A b \in Buckets : \A p \in Elements(span_list_[b]) :
       LET objects == Elements(Objects(p, b))
           home    == Elements(Home(p))
       IN  /\ pages_num_[p] = ClassPages[b] /\ object_size_[p] = ClassSize[b]
           /\ \A a \in objects : \E x \in Places(a) : Places(a) = {x}
           /\ home \subseteq objects
           /\ allocated_num_[p] = Cardinality(objects \ home)
  /\ \A t \in Threads : /\ \A b \in Buckets : \A a \in Elements(free_list_[t][b]) : ObjectOf(a, b)
                        /\ \A a \in Elements(batch[t]) : ObjectOf(a, bucket_index[t])
  /\ \A a \in live : \/ \E b \in Buckets : ObjectOf(a, b)
                     \/ BigAt(a) /\ Places(a) = {<<"live", 0, 0, 0>>}

(* In the list of a class the spans with free objects come first, so that  *)
(* RemoveRange may look at the first one only, and all are different.      *)
FullSpansLast ==
  \A b \in Buckets : \A j, k \in DOMAIN span_list_[b] :
    j < k => /\ span_list_[b][j] # span_list_[b][k]
             /\ IsFull(span_list_[b][j]) => IsFull(span_list_[b][k])

(* RemoveRange brings at least one object: Allocate returns nullptr only   *)
(* when the page heap does (TCThreadCache.cpp, lines 66-70), for the full  *)
(* spans are last.                                                         *)
FetchServes == FullSpansLast /\ \A t \in Threads : ~At(t, "nothing")

(* When the program has freed everything and all threads have ended, every *)
(* page is back in the page heap: no span is forgotten in a list, and      *)
(* none waits for an object that a thread took with it (Clear).            *)
NothingLeaks ==
  live = {} /\ (\A t \in Threads : At(t, "unborn")) => Used = {}

(* Whichever object is freed next, TCFree passes a size of at least one to *)
(* IndexOfSizeToClass: the assertion in TCSizeMap.h, line 34.              *)
FreedSizeIsPositive == \A a \in live : object_size_[SpanOf(a)] >= 1
=============================================================================
