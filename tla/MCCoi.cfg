CONSTANTS
  Ctx <- MCCtx
  Formulas = {}
  Vars <- MCVars
  Boundary <- MCBoundary
  WitnessVars = {}
  FV <- MCFV
SPECIFICATION Spec
CHECK_DEADLOCK FALSE
INVARIANT ReturnsTheCone
PROPERTY Terminates
