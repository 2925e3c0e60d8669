SPECIFICATION Spec
CONSTANTS
  Requests = {r1, r2}
  NoRequest = none
  pf = pf
  s = s
  Portfolios = {pf}
  Stocks = {s}
  Proposals <- MCProposals
  Intents <- MCIntents
  StartingCash = 5
  FillPrices = {2}
  FeePerShare = 1
  MaxHolding = 2
  MaxAge = 0
  Disturbances = {}
  MaxTime = 0
  MaxDecisions = 6
CHECK_DEADLOCK FALSE
INVARIANTS
  NoDoubleFill
