SPECIFICATION FairSpec
CONSTANTS
  c1 = c1
  c2 = c2
  c3 = c3
  async_tool = async_tool
  sync_tool = sync_tool
  Calls <- TwoCalls
  Tools <- BothTools
  ToolOf <- Mixed
  SyncTools = {sync_tool}
  Bulkhead <- OneSlot
  Burst <- NoLimit
  ProtectedTools = {}
  MaxConcurrency = 1
  MaxPending = 2
  Policies = {TRUE}
  StubbornPolicy = FALSE
  ProgressCalls = {c1}
  CancellableCalls <- TwoCalls
  MayClose = TRUE
  MaxTime = 0
  FailureThreshold = 1
  RecoveryTimeout = 1
PROPERTIES
  EveryCallReturns
  CapacityRecovers
