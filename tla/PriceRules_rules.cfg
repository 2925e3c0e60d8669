SPECIFICATION FairSpec
CONSTANTS
  Checks = {c1}
  Clients = {k1}
  Users = {u1}
  Bars <- MCBars
  Conditions = {"price_above"}
  Thresholds = {11}
  Deletes = TRUE
  Edits = TRUE
  None = None
  Expired = Expired
  Everyone = Everyone
  MaxRules = 2
  MaxIds = 1
  MaxSessions = 3
  MaxEdits = 1
CHECK_DEADLOCK FALSE
INVARIANTS
  OncePerCrossing
PROPERTIES
  FiringIsAlerted
  CrossingIsNoticed
