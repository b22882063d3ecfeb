\* Two overlapping cycles, two trading wallets, a wallet with rate limits, lost
\* answers.
SPECIFICATION Spec
CONSTANTS
  c1 = c1
  c2 = c2
  p1 = p1
  w1 = w1
  w2 = w2
  t1 = t1
  t2 = t2
  x1 = x1
  x2 = x2
  Cycles = {c1, c2}
  FirstCycle = c1
  Positions = {p1}
  Wallets = {w1, w2}
  Targets = {t1, t2}
  TxHashes = {x1, x2}
  Trades <- SameFill
  TargetsOf <- TwoTargets
  NoRepeat = {w1}
  PeriodOf <- TwoTicks
  SafetyMinimum = 1
  TxTTL = 1
  KeyTTL = 0
  RateLimited = {w2}
  Windows <- HourDay
  WindowLength <- Lengths
  WindowMax <- Maxima
  BookProbe = t1
  SizeProbe = t1
  AtomicStorage = TRUE
  DatabaseFlag = TRUE
  Events = {"reinitialize", "lost", "clear", "retention"}
  RetentionAge = 1
  RetentionRows = 2
  MaxTime = 1
  MaxOrders = 1
  Holding = 0
  IndexLag = FALSE
INVARIANTS
  InFlightExclusive
  TxCopiedOnce
  RateLimitFanOut
