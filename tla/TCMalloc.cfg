CONSTANTS
  t1 = t1  t2 = t2
  Threads = {t1, t2}
  Null = Null
  HeapPages = 2
  PageUnits = 2
  ClassSize <- Units
  ClassPages <- OnePage
  MoveNum <- Two
  MaxDynamic = 4
  MaxOverages = 1
  MinAlignment = 1
  DefaultAlignment = 2
  ForceMinSize = 2
  Sizes = {0, 1, 2, 3}
  FreesBig = FALSE
  FreesNull = TRUE
SPECIFICATION Spec
SYMMETRY Symmetry
INVARIANTS ObjectsAccounted FetchServes NothingLeaks SizeMapServes
