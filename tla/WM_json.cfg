\* JSON files: crashes, failed saves, a second monitor and the other routes.  The cursor
\* may go back, but it passes over nothing.
SPECIFICATION Spec
CONSTANTS
  Addresses = {a}
  Cycles = {c1, c2}
  Requests = {r}
  PageSize = 1
  MaxPages = 2
  Fallback = 2
  AtomicStorage = FALSE
  Events = {"save", "crash", "reinitialize"}
  Edits = {"add", "remove", "edit"}
  MaxFills = 2
  MaxTime = 1
PROPERTIES
  CursorSkipsNothing
SYMMETRY CycleSymmetry
CHECK_DEADLOCK FALSE
