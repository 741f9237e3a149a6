CONSTANTS
  Ctx <- MCCtx
  Formulas <- MCFormulas
  Vars <- MCVars
  Boundary <- MCBoundary
  WitnessVars <- MCWitnessVars
  FV <- MCFV
  Classes = {"uf"}
  NoClass = "plain"
  DisableMinMisses = 1
  Asg <- MCAsg
  Sem <- MCSem
  Scalars <- MCScalars
  Trivial <- MCTrivial
  Class <- MCClass
  Goals <- MCGoals
  NoWitness = NoWitness
  GcFactor = 1
  SmallSlice = 1
  CegarIters = 2
  CegarBatch = 1
  HasTactic = TRUE
  Routing = TRUE
  Collects <- MCCollects
SPECIFICATION Spec
CHECK_DEADLOCK FALSE
INVARIANTS VerdictSound BookkeepingMatchesSolvers LearnedFollow
           ResidentBounded EveryDisjunctAccounted TollBounded
PROPERTIES ImplementsVerdict Terminates
