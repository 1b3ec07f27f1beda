CONSTANTS
  HeapPages = 6
  MaxPages = 2
  MinGrow = 3
  MaxRequest = 4
  LeafLength = 3
SPECIFICATION Spec
INVARIANTS PagesPartitioned FreeSpansListed GrownHeapServes
PROPERTIES ImplementsPageAllocator
