SPECIFICATION Spec
CONSTANTS
  c1 = c1
  c2 = c2
  c3 = c3
  async_tool = async_tool
  sync_tool = sync_tool
  Calls <- TwoCalls
  Tools <- BothTools
  ToolOf <- Mixed
  SyncTools = {sync_tool}
  Bulkhead <- NoLimit
  Burst <- NoLimit
  ProtectedTools = {}
  MaxConcurrency = 1
  MaxPending = 2
  Policies = {FALSE}
  StubbornPolicy = FALSE
  ProgressCalls = {}
  CancellableCalls <- TwoCalls
  MayClose = FALSE
  MaxTime = 0
  FailureThreshold = 1
  RecoveryTimeout = 1
INVARIANTS
  FailureIsAResult
