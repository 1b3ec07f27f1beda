CONSTANTS
  Size = 4
  Configs <- Graphs
  DependModulus = 16
SPECIFICATION MCSpec
INVARIANTS ScheduleIsEarliest DependenciesFirst RunsAreComplete MaxParaIsWidth InverseIsInverse ProductsAgree
CHECK_DEADLOCK FALSE
