CONSTANTS
  w1 = w1  w2 = w2  w3 = w3
  Tasks = {w1, w2, w3}
  MaxPrimary = 3
  s1 = s1  s2 = s2
  Slots = {s1, s2}
  Owner = Owner
  Configs <- Pools
  SizeModulus = 16
SPECIFICATION FairSpec
INVARIANTS NobodyUsesDeletedThread
PROPERTIES ImplementsTaskService EveryTaskRuns ExitReturns
CHECK_DEADLOCK FALSE
