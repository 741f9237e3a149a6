CONSTANTS
  Procs = {"main", "solver", "helper"}
  Root = "main"
  Ancestors <- MCAncestors
  Capacity = 2
SPECIFICATION Spec
CHECK_DEADLOCK FALSE
INVARIANTS NothingLost
PROPERTIES TidyReturns
