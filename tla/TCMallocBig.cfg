CONSTANTS
  t1 = t1  t2 = t2
  Threads = {t1}
  Null = Null
  HeapPages = 2
  PageUnits = 2
  ClassSize <- Units
  ClassPages <- OnePage
  MoveNum <- Two
  MaxDynamic = 4
  MaxOverages = 1
  MinAlignment = 1
  DefaultAlignment = 2
  ForceMinSize = 2
  Sizes = {0, 3}
  FreesBig = TRUE
  FreesNull = FALSE
SPECIFICATION Spec
INVARIANTS FreedSizeIsPositive
