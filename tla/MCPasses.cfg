SPECIFICATION Spec
CONSTANTS
  EagerApps = 1
  P = 5
  Idx = {0, 1}
  Values <- MCValues
  Depths <- MCDepths
  Naming <- MCNaming
  Limbs = {0, 1}
  OrSmallCap = 3
  ScopeGroup = {"y"}
  ByteMax = 3
  Columns = {"c", "d", "b_b0", "b_b1", "b_c", "b_dv", "b_d0", "b_d1", "b_m0", "b_m1"}
  Jobs <- MCJobs
INVARIANT Declared
INVARIANT ModelsKept
INVARIANT NoModelAdded
INVARIANT KnownBoundsHold
INVARIANT Grounded
CHECK_DEADLOCK FALSE
