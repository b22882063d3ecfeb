\* A request for the value of the tracked wallet may fail.
SPECIFICATION MirrorSpec
CONSTANTS
  yes = yes
  no = no
  Assets = {yes, no}
  Price <- Costs
  Resolved = {}
  Portfolios <- Whales
  StartHolding <- OwnShares
  StartCash = 800
  Weights = {50, 100}
  Disturbances = {"fetch"}
  MaxEvents = 1
INVARIANT
  SellsOnlySurplus
CHECK_DEADLOCK FALSE
