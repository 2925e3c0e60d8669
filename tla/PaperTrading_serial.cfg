SPECIFICATION SerialSpec
CONSTANTS
  Requests = {r1}
  NoRequest = none
  pf = pf
  s = s
  Portfolios = {pf}
  Stocks = {s}
  Proposals <- SerialProposals
  Intents <- SerialIntents
  StartingCash = 12
  FillPrices = {2, 3}
  FeePerShare = 1
  MaxHolding = 3
  MaxAge = 0
  Disturbances = {"halt", "crash"}
  MaxTime = 1
  MaxDecisions = 4
CHECK_DEADLOCK FALSE
INVARIANTS
  NoDoubleFill
  HeldIsMonitored
  HaltStopsFills
PROPERTIES
  LedgerSpec
