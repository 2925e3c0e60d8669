SPECIFICATION FairSpec
CONSTANTS
  Requests = {r1, r2}
  NoRequest = none
  pf = pf
  s = s
  Portfolios = {pf}
  Stocks = {s}
  Proposals <- MCProposals
  Intents <- MCIntents
  StartingCash = 5
  FillPrices = {2}
  FeePerShare = 1
  MaxHolding = 2
  MaxAge = 0
  Disturbances = {"crash"}
  MaxTime = 0
  MaxDecisions = 5
CHECK_DEADLOCK FALSE
INVARIANTS
  AnswersAgree
  RecheckSeesCommittedCash
  FillsAreRechecked
  CashNeverNegative
PROPERTIES
  OnlyFillsMoveTheLedger
  RequestsAreAnswered
