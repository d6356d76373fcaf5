SPECIFICATION ApplicationsSpec
CONSTANTS
  c1 = c1
  c2 = c2
  c3 = c3
  s1 = s1
  s2 = s2
  r1 = r1
  r2 = r2
  r3 = r3
  Null = Null
  ReserveCalls <- MCCalls
  Servers <- MCServers
  Writers <- MCServers
  Arguments <- MCArguments
  Sku = "cable"
  Stock = 3
  MaxQuantity = 2
  MaxRequests = 2
  MaxCrashes = 1
  Nobody = Nobody
  Callers = {c1, c2}
  Keys <- MCKeys
  Asks <- MCAsks
  Attempts = 2
  Tasks = {s1, s2}
  Topics = {"broadcast"}
  Handlers = {"h1", "h2"}
  Agents = {"a1"}
  Reentrant = {"h2"}
  MaxHistory = 2
  MaxMessages = 3
  SharedKeys = {"k1"}
  TTLs = {0, 1, 2}
  MaxHistoryPerAgent = 2
  MaxMemoryPerAgent = 2
  MaxAge = 2
  MaxTime = 3
  MaxEntries = 4
  Calls = {c1, c2}
  MaxPaths = 2
  MaxDepth = 2
  Threshold = 7
  MaxParts = 3
  Scores = {5, 7, 9}
SYMMETRY Symmetry
CHECK_DEADLOCK FALSE
INVARIANTS
  StockConserved
  CacheIsScoped
  AnswerIsAccounted
  MessagesInOrder
  NothingStale
  BestPathWins
PROPERTIES
  ImplementsLedger
