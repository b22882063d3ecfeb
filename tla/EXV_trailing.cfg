\* Hosted: two tenants share the managers, which sync with one at a time.
SPECIFICATION Spec
CONSTANTS
  l1 = l1
  s1 = s1
  k1 = k1
  Tenants = {t1, t2}
  Hosted = TRUE
  AtomicStorage = TRUE
  Tokens = {k1}
  Prices = {10, 30, 40}
  Ladders = {l1}
  Stops = {s1}
  TokenOf <- OneToken
  Plan <- TwoSteps
  Shares <- FourUnits
  Entry <- EntryAt
  InitialStop <- FloorAt
  Trail <- TrailBy
  LockThreshold <- LockAfter
  Earlier = {{s1, l1}}
  Ticks = {i1}
  Events = {}
  MaxBusy = 1
  MaxRestarts = 0
  MaxEdits = 0
INVARIANTS
  StopNeverLowered
CHECK_DEADLOCK FALSE
