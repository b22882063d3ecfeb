\* JSON files: saves that load, fail or overlap, other settings, a crash.
SPECIFICATION OneTenantSpec
CONSTANTS
  l1 = l1
  s1 = s1
  k1 = k1
  Tenants = {t1}
  Hosted = FALSE
  AtomicStorage = FALSE
  Tokens = {k1}
  Prices = {10, 30, 40}
  Ladders = {l1}
  Stops = {s1}
  TokenOf <- OneToken
  Plan <- TwoSteps
  Shares <- FourUnits
  Entry <- EntryAt
  InitialStop <- FloorAt
  Trail <- TrailBy
  LockThreshold <- LockAfter
  Earlier = {{l1}, {s1}}
  Ticks = {i1, i2}
  Events = {"trade", "fetch", "lost", "save", "other", "crash",
            "monitor"}
  MaxBusy = 0
  MaxRestarts = 1
  MaxEdits = 1
SYMMETRY TickSymmetry
INVARIANTS
  TypeOK
  RecordedSales
  StopNeverLowered
  StopTriggersOnce
CHECK_DEADLOCK FALSE
