SPECIFICATION FairSpec
CONSTANTS
  s1 = s1
  s2 = s2
  a1 = a1
  Invocations <- MCInvocations
  SyncInvocations <- MCSync
  FailureThreshold = 2
  RecoveryTimeout = 1
  MaxTime = 2
  ResetGenerations = {1, 2, 3}
INVARIANTS
  ExactlyOneProbe
  ChargedOnce
PROPERTIES
  FullRecovery
  LateOutcomesIgnored
  ShieldedDependency
  ImplementsContract
  HalfOpenResolves
