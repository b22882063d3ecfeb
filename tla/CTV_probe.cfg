\* An order of a trading wallet the reconciliation does not look at.
SPECIFICATION Spec
CONSTANTS
  c1 = c1
  c2 = c2
  p1 = p1
  w1 = w1
  w2 = w2
  t1 = t1
  t2 = t2
  x1 = x1
  x2 = x2
  Cycles = {c1}
  FirstCycle = c1
  Positions = {p1}
  Wallets = {w1, w2}
  Targets = {t1, t2}
  TxHashes = {x1, x2}
  Trades <- BuysOfTwo
  TargetsOf <- SecondTarget
  NoRepeat = {w1}
  PeriodOf <- TwoTicks
  SafetyMinimum = 1
  TxTTL = 2
  KeyTTL = 1
  RateLimited = {}
  Windows = {}
  WindowLength <- NoWindow
  WindowMax <- NoWindow
  BookProbe = t1
  SizeProbe = t1
  AtomicStorage = TRUE
  DatabaseFlag = TRUE
  Events = {}
  RetentionAge = 1
  RetentionRows = 2
  MaxTime = 3
  MaxOrders = 3
  Holding = 0
  IndexLag = FALSE
INVARIANTS
  LiveOrderLedgered
