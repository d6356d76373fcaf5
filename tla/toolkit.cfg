SPECIFICATION MCSpec
CONSTANTS
  a = a
  b = b
  t1 = t1
  t2 = t2
  Names = {a, b}
  Threads = {t1, t2}
  Orders <- MCOrders
  Batch <- MCBatch
  MaxTools = 1
  MaxRegistrations = 2
  BurstCapacity = 1
  Interval = 2
  MaxTime = 2
  MaxPending = 2
  MaxOthers = 1
  Reporters = {"body", "child"}
  MaxProgress = 2
  Caps = {1, 2}
  MaxReports = 2
  TypedDicts <- MCTypedDicts
  MaxIssues = 3
  MaxDepth = 3
  MaxNodes = 7
  MaxBytes = 9
SYMMETRY ThreadSymmetry
CHECK_DEADLOCK FALSE
INVARIANTS
  ControlsFollowRegistration
  RateBounded
  ContractIsEnforced
  RefusalsAreExact
  ProgressInOrder
PROPERTIES
  BatchIsFaithful
  RegistryIsGuarded
