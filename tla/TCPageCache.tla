---------------------------- MODULE TCPageCache ----------------------------
(***************************************************************************)
(* Core/Memory/TCPageCache.cpp: the page heap of the allocator.  It hands  *)
(* out spans (runs of pages), cuts them from bigger ones, asks the system  *)
(* for more, and merges a span that comes back with its free neighbours.   *)
(* AllocateSpan and DeallocateSpan hold page_cache_lock_ throughout;       *)
(* MapObjectToSpan reads page_map_ without it, in any of these states: a   *)
(* merge has a step for every span that it deletes, and the map leads to   *)
(* deleted spans until the last of them.  Carve is one step: it deletes    *)
(* nothing and writes no entry but those of the free span it cuts.         *)
(* A TCSpan is a number; 0 is nullptr.  The locks of the page map itself   *)
(* are inside these steps.                                                 *)
(***************************************************************************)
EXTENDS Integers, Sequences, FiniteSets

Ext == INSTANCE SequencesExt

CONSTANTS HeapPages,   (* the pages the system can give are 1..HeapPages   *)
          MaxPages,    (* kMaxPages                                        *)
          MinGrow,     (* kMinSystemMalloc, in pages                       *)
          MaxRequest,  (* the biggest request                              *)
          LeafLength   (* kLeafLength of the page map                      *)

ASSUME PagesAssumption ==
  /\ HeapPages \in Nat \ {0} /\ MaxPages \in Nat \ {0}
  /\ MinGrow \in Nat \ {0} /\ MaxRequest \in Nat \ {0} /\ LeafLength \in Nat \ {0}

Pages   == 1..HeapPages
AllPages == 0..(HeapPages + 1)     (* page_id - 1 and page_id + n are read *)
Spans   == 1..(HeapPages + 1)
Indexes == 1..(MaxPages + 1)       (* span_list_[i - 1] of the code        *)
Null    == 0

VARIABLES
  span_list_,      (* span_list_[i]: the free spans of i pages, front      *)
                   (* first; the last list has the spans of more pages     *)
  root_,           (* the leaves of the page map that exist                *)
  page_map_,       (* page_map_[p]: what they hold for page p              *)
  spans,           (* the TCSpan objects that exist                        *)
  first_page_id_, pages_num_, in_use_,   (* the fields of each TCSpan      *)
  mapped,          (* the pages the process has from the system            *)
  at,              (* where the holder of page_cache_lock_ is              *)
  merging,         (* the span MergeIntoSpanList is merging, or nullptr    *)
  request,         (* pages_num of the running AllocateSpan, else 0        *)
  result           (* the span it has found                                *)

spanVars == <<spans, first_page_id_, pages_num_, in_use_>>
callVars == <<at, merging, request, result>>
vars == <<span_list_, root_, page_map_, spanVars, mapped, callVars>>

(* Mutant: the heap always grows by the minimum. *)
RoundOnce(n, m) == m

Run(first, n)  == first..(first + n - 1)
Extent(s)      == Run(first_page_id_[s], pages_num_[s])
Last(s)        == first_page_id_[s] + pages_num_[s] - 1
RoundUp(n, m) == ((n + m - 1) \div m) * m
NewSpan(used)  == Ext!Min(Spans \ used)

Init ==
  /\ span_list_ = [i \in Indexes |-> <<>>]
  /\ root_ = {} /\ page_map_ = [p \in AllPages |-> Null]
  /\ spans = {}
  /\ first_page_id_ = [s \in Spans |-> 0] /\ pages_num_ = [s \in Spans |-> 0]
  /\ in_use_ = [s \in Spans |-> FALSE]
  /\ mapped = {}
  /\ at = "idle" /\ merging = Null /\ request = 0 /\ result = Null
-----------------------------------------------------------------------------
(* The page map: a root of leaves, each for LeafLength pages.              *)

LeafOf(p) == p \div LeafLength

GetSpan(p) == IF LeafOf(p) \in root_ THEN page_map_[p] ELSE Null

(* The leaves Ensure makes sure of: that of start, and every one that      *)
(* begins on the way.                                                      *)
Ensure(start, n) ==
  {LeafOf(p) : p \in {q \in Run(start, n) : q = start \/ q % LeafLength = 0}}
-----------------------------------------------------------------------------
(* AddToSpanList, RecordSpan, MergeIntoSpanList and Carve *)

ListIndex(n) == IF n > MaxPages THEN MaxPages + 1 ELSE n

Added(lists, s, n) == [lists EXCEPT ![ListIndex(n)] = <<s>> \o @]

(* Mutant: writes only the two ends of the span. *)
RecordedEnds(map, s, first, n) ==
  [p \in AllPages |-> IF p \in {first, first + n - 1} THEN s ELSE map[p]]

Recorded(map, s, first, n) ==
  [p \in AllPages |-> IF p \in Run(first, n) THEN s ELSE map[p]]

(* The span of page p, if MergeIntoSpanList may take it, else nullptr.     *)
FreeAt(p) == IF GetSpan(p) # Null /\ ~in_use_[GetSpan(p)] THEN GetSpan(p) ELSE Null

StartMerge(s) == merging' = s /\ at' = "merge_prev"

(* r, a free neighbour of the span that is merged, is taken out of its     *)
(* list and deleted; its pages become those of the other, which begins at  *)
(* first, and the entry of one page is written.                            *)
Absorb(r, first, page) ==
  /\ span_list_' = [span_list_ EXCEPT ![ListIndex(pages_num_[r])] = Ext!RemoveFirst(@, r)]
  /\ spans' = spans \ {r}
  /\ first_page_id_' = [first_page_id_ EXCEPT ![r] = 0, ![merging] = first]
  /\ pages_num_' = [pages_num_ EXCEPT ![r] = 0, ![merging] = @ + pages_num_[r]]
  /\ page_map_' = [page_map_ EXCEPT ![page] = merging]

NothingAbsorbed ==
  UNCHANGED <<span_list_, spans, first_page_id_, pages_num_, page_map_>>

MergePrevious ==
  LET prev  == FreeAt(first_page_id_[merging] - 1)
      start == first_page_id_[merging] - pages_num_[prev]
  IN  /\ at = "merge_prev" /\ at' = "merge_next"
      /\ \/ prev # Null /\ Absorb(prev, start, start)
         \/ prev = Null /\ NothingAbsorbed
      /\ UNCHANGED <<root_, mapped, in_use_, merging, request, result>>

(* Mutant: does not look at the page behind. *)
MergeNextNot == /\ at = "merge_next" /\ at' = "record"
                /\ NothingAbsorbed
                /\ UNCHANGED <<root_, mapped, in_use_, merging, request, result>>

MergeNext ==
  LET next == FreeAt(Last(merging) + 1)
  IN  /\ at = "merge_next" /\ at' = "record"
      /\ \/ next # Null /\ Absorb(next, first_page_id_[merging], Last(merging) + pages_num_[next])
         \/ next = Null /\ NothingAbsorbed
      /\ UNCHANGED <<root_, mapped, in_use_, merging, request, result>>

(* RecordSpan and AddToSpanList; GrowHeap goes back to AllocateSpan, and   *)
(* DeallocateSpan is done.                                                 *)
RecordMerged ==
  /\ at = "record" /\ at' = IF request # 0 THEN "again" ELSE "idle"
  /\ page_map_' = Recorded(page_map_, merging, first_page_id_[merging], pages_num_[merging])
  /\ span_list_' = Added(span_list_, merging, pages_num_[merging])
  /\ merging' = Null
  /\ UNCHANGED <<spanVars, root_, mapped, request, result>>
-----------------------------------------------------------------------------
(* s, just popped from its list, becomes the n pages from first; the other *)
(* pages, from start, become a new span.                                   *)
Cut(s, n, lists, first, start) ==
  LET left  == NewSpan(spans)
      extra == pages_num_[s] - n
  IN  /\ spans' = spans \cup {left}
      /\ first_page_id_' = [first_page_id_ EXCEPT ![left] = start, ![s] = first]
      /\ pages_num_' = [pages_num_ EXCEPT ![left] = extra, ![s] = n]
      /\ page_map_' = Recorded(page_map_, left, start, extra)
      /\ span_list_' = Added(lists, left, extra)

(* Only the page behind s is known to the page map. *)
KeepEnd(s) == /\ GetSpan(first_page_id_[s] - 1) = Null
              /\ GetSpan(Last(s) + 1) # Null

(* Mutant: the span that keeps the end of the run is not moved. *)
CarveUnmoved(s, n, lists) ==
  \/ /\ pages_num_[s] = n /\ span_list_' = lists
     /\ UNCHANGED <<page_map_, spans, first_page_id_, pages_num_>>
  \/ /\ pages_num_[s] > n
     /\ Cut(s, n, lists, first_page_id_[s],
            IF KeepEnd(s) THEN first_page_id_[s] ELSE first_page_id_[s] + n)

Carve(s, n, lists) ==
  \/ /\ pages_num_[s] = n /\ span_list_' = lists
     /\ UNCHANGED <<page_map_, spans, first_page_id_, pages_num_>>
  \/ /\ pages_num_[s] > n /\ KeepEnd(s)
     /\ Cut(s, n, lists, first_page_id_[s] + pages_num_[s] - n, first_page_id_[s])
  \/ /\ pages_num_[s] > n /\ ~KeepEnd(s)
     /\ Cut(s, n, lists, first_page_id_[s], first_page_id_[s] + n)

(* The list SearchSpanList takes the first span of; AllocLarge looks at    *)
(* the last list, and only at its first span.                              *)
Fitting(n) == {i \in n..MaxPages : span_list_[i] # <<>>}
              \cup {i \in {MaxPages + 1} : /\ span_list_[i] # <<>>
                                           /\ pages_num_[Head(span_list_[i])] >= n}

(* SearchSpanList(n): the outcome is a span, or nullptr and the next step. *)
SearchSpanList(n, otherwise) ==
  \/ /\ Fitting(n) # {}
     /\ LET i == Ext!Min(Fitting(n))
        IN  /\ Carve(Head(span_list_[i]), n, [span_list_ EXCEPT ![i] = Tail(@)])
            /\ result' = Head(span_list_[i])
     /\ at' = "found"
  \/ /\ Fitting(n) = {}
     /\ at' = otherwise
     /\ UNCHANGED <<span_list_, page_map_, spans, first_page_id_, pages_num_, result>>

AllocateSpan(n) ==
  /\ at = "idle" /\ request' = n
  /\ SearchSpanList(n, "grow")
  /\ UNCHANGED <<in_use_, mapped, root_, merging>>

(* The system maps a multiple of MinGrow pages somewhere, or refuses; so   *)
(* may Ensure, which then leaves the first of the leaves behind while the  *)
(* pages are released at once.  A new leaf is zeroed: MergeIntoSpanList    *)
(* finds nothing in it.                                                    *)
GrowHeap ==
  LET n == RoundUp(request, MinGrow)
      s == NewSpan(spans)
  IN  /\ at = "grow"
      /\ \/ \E first \in Pages :
              /\ Run(first, n) \subseteq Pages \ mapped
              /\ mapped' = mapped \cup Run(first, n)
              /\ root_' = root_ \cup Ensure(first - 1, n + 2)
              /\ spans' = spans \cup {s}
              /\ first_page_id_' = [first_page_id_ EXCEPT ![s] = first]
              /\ pages_num_' = [pages_num_ EXCEPT ![s] = n]
              /\ StartMerge(s)
              /\ UNCHANGED request
         \/ /\ at' = "idle" /\ request' = 0 /\ UNCHANGED merging
            /\ \/ UNCHANGED root_
               \/ \E first \in Pages, leaf \in LeafOf(0)..LeafOf(HeapPages + 1) :
                    /\ Run(first, n) \subseteq Pages \ mapped
                    /\ root_' = root_ \cup {l \in Ensure(first - 1, n + 2) : l <= leaf}
            /\ UNCHANGED <<mapped, spans, first_page_id_, pages_num_>>
      /\ UNCHANGED <<span_list_, page_map_, in_use_, result>>

SearchAgain ==
  /\ at = "again"
  /\ SearchSpanList(request, "nullptr")
  /\ UNCHANGED <<in_use_, mapped, root_, merging, request>>

SetInUse ==
  /\ at = "found" /\ at' = "idle"
  /\ in_use_' = [in_use_ EXCEPT ![result] = TRUE]
  /\ request' = 0 /\ result' = Null
  /\ UNCHANGED <<span_list_, root_, page_map_, spans, first_page_id_, pages_num_, mapped,
                 merging>>

(* Called only for a span that AllocateSpan returned and not twice. *)
DeallocateSpan(s) ==
  /\ at = "idle" /\ s \in spans /\ in_use_[s]
  /\ in_use_' = [in_use_ EXCEPT ![s] = FALSE]
  /\ StartMerge(s)
  /\ UNCHANGED <<span_list_, page_map_, spans, first_page_id_, pages_num_, mapped, root_,
                 request, result>>

(* TCGlobals::Exit: the free spans go back to the system.  The spans that  *)
(* are still in use stay mapped.                                           *)
Clear ==
  /\ at = "idle" /\ at' = "cleared"
  /\ mapped' = mapped \ UNION {Extent(s) : s \in UNION {
                   {span_list_[i][k] : k \in DOMAIN span_list_[i]} : i \in Indexes}}
  /\ span_list_' = [i \in Indexes |-> <<>>]
  /\ root_' = {} /\ page_map_' = [p \in AllPages |-> Null]
  /\ UNCHANGED <<spanVars, merging, request, result>>

Terminated == at = "cleared" /\ UNCHANGED vars

Next == \/ \E n \in 1..MaxRequest : AllocateSpan(n)
        \/ GrowHeap \/ SearchAgain \/ SetInUse
        \/ \E s \in Spans : DeallocateSpan(s)
        \/ MergePrevious \/ MergeNext \/ RecordMerged
        \/ Clear \/ Terminated

Spec == Init /\ [][Next]_vars
-----------------------------------------------------------------------------
(* Every variable has its type, and a span has at least one page. *)
TypeOK ==
  /\ span_list_ \in [Indexes -> Seq(Spans)]
  /\ root_ \subseteq LeafOf(0)..LeafOf(HeapPages + 1)
  /\ page_map_ \in [AllPages -> Spans \cup {Null}]
  /\ spans \subseteq Spans
  /\ first_page_id_ \in [Spans -> 0..HeapPages]
  /\ pages_num_ \in [Spans -> 0..HeapPages]
  /\ in_use_ \in [Spans -> BOOLEAN]
  /\ \A s \in spans : first_page_id_[s] > 0 /\ pages_num_[s] > 0
  /\ \A s \in Spans \ spans : ~in_use_[s]
  /\ mapped \subseteq Pages
  /\ at \in {"idle", "grow", "merge_prev", "merge_next", "record", "again", "found",
             "nullptr", "cleared"}
  /\ request \in 0..MaxRequest
  /\ merging \in spans \cup {Null} /\ result \in spans \cup {Null}

(* The pages of the span MergeIntoSpanList is working on.                  *)
Merged == IF merging = Null THEN {} ELSE Extent(merging)

(* In every state, also between the steps of a merge, the page map leads   *)
(* from each page of a span in use to that span: MapObjectToSpan, which    *)
(* does not take page_cache_lock_, is right for every object of such a     *)
(* span.  And where no merge is at work each page from the system belongs  *)
(* to one TCSpan, which exists and to which the map leads (Carve,          *)
(* MergeIntoSpanList, RecordSpan, and Ensure: no SetSpan lacks its leaf).  *)
(* The entries of the pages that are merged lead to spans already deleted, *)
(* or nowhere, until RecordSpan: nothing is said of a reader without the   *)
(* lock who asks for a free page.  Types are kept too.                     *)
PagesPartitioned ==
  /\ TypeOK
  /\ at # "cleared" =>
      /\ \A s \in spans : in_use_[s] => \A p \in Extent(s) : GetSpan(p) = s
      /\ \A p \in AllPages \ Merged : GetSpan(p) # Null <=> p \in mapped
      /\ \A p \in mapped \ Merged : GetSpan(p) \in spans /\ p \in Extent(GetSpan(p))
      /\ \A s \in spans \ {merging} : \A p \in Extent(s) :
           p \in mapped \ Merged /\ GetSpan(p) = s

(* How often span s is in list i. *)
Listed(s, i) == Cardinality({k \in DOMAIN span_list_[i] : span_list_[i][k] = s})

(* A free span is in the list of its own size, once, and in no other:      *)
(* SearchSpanList takes the first span of a list and does not look at its  *)
(* size.  A span in use, just taken out by SearchSpanList, or about to be  *)
(* merged, is in none.  And two free spans are never neighbours, but for   *)
(* those a merge has still to join: the heap does not fall to pieces       *)
(* (MergeIntoSpanList after DeallocateSpan and GrowHeap, Carve).           *)
FreeSpansListed ==
  /\ at # "cleared" =>
       \A s \in Spans, i \in Indexes :
         Listed(s, i) =
           IF /\ s \in spans /\ ~in_use_[s] /\ s \notin {result, merging}
              /\ IF i > MaxPages THEN pages_num_[s] > MaxPages ELSE pages_num_[s] = i
           THEN 1 ELSE 0
  /\ \A s, r \in spans : ~(/\ ~in_use_[s] /\ ~in_use_[r]
                           /\ {s, r} \cap {result, merging} = {}
                           /\ Last(s) + 1 = first_page_id_[r])

(* After GrowHeap the second SearchSpanList finds a span: line 41 uses its *)
(* result without a test, and AllocLarge looks at one span only.           *)
GrownHeapServes == at # "nullptr"

Service == INSTANCE PageAllocator WITH
  held <- {<<first_page_id_[s], pages_num_[s]>> : s \in {r \in spans : in_use_[r]}}

(* Callers get as many pages as they asked for, no page twice, and keep    *)
(* them until they give them back.                                         *)
ImplementsPageAllocator == Service!Spec
=============================================================================
