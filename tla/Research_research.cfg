SPECIFICATION Spec
CONSTANTS
  None = None
  p1 = p1
  p2 = p2
  s1 = s1
  Procs = {p1, p2}
  Stocks <- MCStocks
  Plan <- MCPlan
  Reads <- MCReads
  Fragile = {"news"}
  Payloads <- MCPayloads
  Licensed <- MCLicensed
  Orchestrator <- MCOrchestrator
  Stored <- MCStored
  Questions <- MCQuestions
  Embeds = {TRUE, FALSE}
  Near <- MCNear
  Window = 1
  Recent = 1
  Lookback = 1
  MaxAge = 0
  MaxClock = 2
  MaxJobs = 3
  MaxChanges = 1
SYMMETRY Workers
INVARIANTS
  ReplayReproduces
  StoriesCountOnce
  RankingSeesRefresh
  BetterIsNeverWorse
CHECK_DEADLOCK FALSE
