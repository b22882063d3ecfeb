\* A chain of five blocks and one fill, nodes that lag, polls and refreshes that
\* fail; two tenants of the bot, with one request at a time besides the start of
\* the process, in every configuration.
SPECIFICATION PartsSpec
CONSTANTS
  Txs = {x1}
  Chunk = 1
  Overlap = 2
  Lookback = 2
  Lag = 2
  Refreshes = {r1, r2}
  MaxBlock = 5
  MaxFailures = 1
  Tenants = {t1, t2}
  Modes = {"json", "sqlite", "hosted"}
  Calls = {c1}
  Events = {"reinitialize", "fail"}
  MaxEdits = 2
  MaxReinits = 1
INVARIANTS
  RunsAsPreferred
  NoFillSkipped
PROPERTIES
  PublicationGrows
  FillsPublished
  ComesToLife
CHECK_DEADLOCK FALSE
