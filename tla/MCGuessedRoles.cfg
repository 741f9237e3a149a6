SPECIFICATION ReportedSpec
CONSTANTS
  P = 29
  TsMax = 6
  Byte = 2
  Dumps <- MCDumps
  ClusterCap = 8
  BaseValues <- MCBaseValues
  Followed <- MCFollowed
  Steps <- MCSteps
  RowIds <- MCRowIds
  Scenes <- EncScenes
  Worlds <- MCWorlds
  Limbs <- MCLimbs
  Bytes <- MCBytes
INVARIANT ReportsTrue
CHECK_DEADLOCK FALSE
