CONSTANTS
  Users = {u1, u2}
  Slots = {s1, s2}
  Temp = Temp
  Tasks = {t1, t2}
  CreateFails = {t2}
  Null = Null
SPECIFICATION FairSpec
INVARIANTS ObjectsOwned ThreadSeesItsId
PROPERTY CallsReturn
CHECK_DEADLOCK FALSE
