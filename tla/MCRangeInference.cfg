SPECIFICATION EncSpec
CONSTANTS
  Scenes <- EncScenes
  Worlds <- MCWorlds
  Limbs <- MCLimbs
  Bytes <- MCBytes
INVARIANT RangesFollow
CHECK_DEADLOCK FALSE
