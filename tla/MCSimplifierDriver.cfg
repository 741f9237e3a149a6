SPECIFICATION Spec
CONSTANT Pipelines <- MCPipelines
INVARIANTS OutputMatchesReport NoPassAfterDeadline UnparsedOnlyWithoutWork
PROPERTY Terminates
CHECK_DEADLOCK FALSE
