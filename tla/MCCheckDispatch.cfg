CONSTANTS
  Asg <- MCAsg
  NoWitness = NoWitness
  Scripts <- MCScripts
  Steps <- MCSteps
SPECIFICATION Spec
CHECK_DEADLOCK FALSE
INVARIANTS ModelMatchesVerdict ModelIsGenuine
PROPERTIES ImplementsVerdict Answers
