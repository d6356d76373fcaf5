SPECIFICATION Spec
CONSTANTS
  w1 = w1
  Tasks <- MCTasks
  Waiters <- MCWaiters
  MaxTasks = 2
  RequestedTTLs = {0, 3}
  DefaultTTL = 1
  MaxTTL = 1
  MaxTime = 2
CHECK_DEADLOCK FALSE
PROPERTIES
  CloseJoinsAll
