\* SQLite: delays, failed reads and a switch of the wallet while cycles run.
SPECIFICATION FairSpec
CONSTANTS
  Addresses = {a}
  Cycles = {c1, c2}
  Requests = {r}
  PageSize = 1
  MaxPages = 2
  Fallback = 2
  AtomicStorage = TRUE
  Events = {"delay", "fetch", "unlikely", "load"}
  Edits = {"switch"}
  MaxFills = 2
  MaxTime = 3
INVARIANTS
  TypeOK
  DeliveredOnce
PROPERTIES
  CursorForward
  CursorSkipsNothing
  CursorCatchesUp
CHECK_DEADLOCK FALSE
