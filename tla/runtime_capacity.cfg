SPECIFICATION Spec
CONSTANTS
  c1 = c1
  c2 = c2
  c3 = c3
  async_tool = async_tool
  sync_tool = sync_tool
  Calls <- ThreeCalls
  Tools <- BothTools
  ToolOf <- Mixed
  SyncTools = {sync_tool}
  Bulkhead <- OneSlot
  Burst <- SyncBurst
  ProtectedTools = {sync_tool}
  MaxConcurrency = 1
  MaxPending = 2
  Policies = {TRUE}
  StubbornPolicy = TRUE
  ProgressCalls = {}
  CancellableCalls = {}
  MayClose = FALSE
  MaxTime = 1
  FailureThreshold = 1
  RecoveryTimeout = 1
SYMMETRY SyncSymmetry
INVARIANTS
  PermitsConserved
  ProbeConserved
PROPERTIES
  ImplementsExecutor
