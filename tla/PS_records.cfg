\* Two tenants that fill both windows; the feed with two calls and two
\* restarts; the mirror with two changes or refused orders; the ledger with JSON
\* files, crashes and failed saves; two trading wallets, with JSON files and
\* hosted, with two requests at a time, and a crash or a write that fails.
SPECIFICATION PartsSpec
CONSTANTS
  x1 = x1
  x2 = x2
  x3 = x3
  w1 = w1
  w2 = w2
  k1 = k1
  k2 = k2
  Tenants = {a, b}
  BurstLimit = 2
  BurstWindow = 2
  SustainedLimit = 3
  SustainedWindow = 4
  MaxConcurrentPerTenant = 2
  MaxRequests = 4
  Callers = {c1, c2}
  Trades = {x1, x2, x3}
  KeyOf <- RecordKeys
  SideOf <- RecordSides
  MaxRows = 2
  MaxTime = 3
  MaxRestarts = 2
  Ids = {w1, w2}
  PrivateKeys = {k1, k2}
  Addresses = {x}
  Earlier <- JustOne
  Hosted = FALSE
  AtomicStorage = FALSE
  Events = {"crash", "save", "setting"}
  MaxPending = 2
  MaxEdits = 2
  MaxFaults = 1
  Assets <- Outcomes
  Price <- Costs
  Resolved = {}
  Portfolios <- Whales
  StartHolding <- OwnShares
  StartCash = 800
  Weights = {0, 50, 100, 175}
  Disturbances = {"change", "fetch", "refuse"}
  MaxEvents = 2
INVARIANTS
  TypeOK
  WindowsRespected
  FeedKept
  MirrorSettles
  KeyKept
  AssignmentsResolve
  SignsForItself
PROPERTIES
  ImplementsPool
  NeverUnblocked
CHECK_DEADLOCK FALSE
