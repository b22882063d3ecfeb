\* Two evaluators of the policy and two changes; the exit rules, the
\* redemption of winnings, with two requests and one run at a time, and the limiter
\* with the bounds of MCTrading.
SPECIFICATION PartsSpec
CONSTANTS
  t1 = t1
  t2 = t2
  t3 = t3
  req1 = req1
  req2 = req2
  mkt = mkt
  Evaluators = {web, worker}
  Inputs <- ThreeInputs
  Configs <- AnyOrder
  MaxChanges = 2
  Conditions = {mkt}
  NegRisk = {}
  Holding <- TwoAndOne
  MinRedeemValue = 1
  Runs = {r1}
  Calls = {req1, req2}
  MaxEdits = 1
  MaxFailures = 1
  MaxTotal = 3
INVARIANTS
  HistoryExplains
  RecoveredWasPaid
  NoRequestForgotten
PROPERTIES
  PolicySettles
  WinningsRedeemed
  StopFires
  StepRetried
  RequestsAnswered
CHECK_DEADLOCK FALSE
