SPECIFICATION Spec
CONSTANTS
  N = 3
  MaxJobs = 2
  Blocks <- MCBlocks
  BlockOf <- MCBlockOf
  Vcs <- MCVcs
INVARIANTS SuccessMeansVerified WrongNeverHidden OwnArguments EveryUnitReported
PROPERTY Terminates
CHECK_DEADLOCK FALSE
