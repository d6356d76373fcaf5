SPECIFICATION Spec
CONSTANTS
  c1 = c1
  c2 = c2
  c3 = c3
  async_tool = async_tool
  sync_tool = sync_tool
  Calls <- TwoCalls
  Tools <- BothTools
  ToolOf <- Mixed
  SyncTools = {sync_tool}
  Bulkhead <- OneSlot
  Burst <- NoLimit
  ProtectedTools <- BothTools
  MaxConcurrency = 2
  MaxPending = 2
  Policies = {FALSE, TRUE}
  StubbornPolicy = FALSE
  ProgressCalls = {c1}
  CancellableCalls <- TwoCalls
  MayClose = TRUE
  MaxTime = 1
  FailureThreshold = 1
  RecoveryTimeout = 1
INVARIANTS
  MetricsConserved
  ReturnedIsSettled
PROPERTIES
  CircuitHearsFirst
