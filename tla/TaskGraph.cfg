CONSTANTS
  a = a  b = b  c = c  d = d
  Elements = {a, b, c, d}
  Workers = {1, 2}
  Main = 0
  Configs <- Pipelines
  Controls = {"kCancel", "kYield", "kNormal"}
  DependModulus = 5
SPECIFICATION FairSpec
INVARIANTS DependenciesFirst StartedOnce QuietAfterRun EveryElementRuns
PROPERTIES ProcessEnds
CHECK_DEADLOCK FALSE
