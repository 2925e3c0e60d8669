SPECIFICATION FairSpec
CONSTANTS
  Monitors = {m1, m2}
  Marks = {1, 2}
  Stances = {"NEGATIVE_TILT"}
  Plans <- MCPlans
  MinToPush = 1
  MaxQty = 1
  MaxTheses = 2
  MaxDays = 1
  MaxSurprises = 1
INVARIANTS
  EventsAreTold
  HeldIsWatched
PROPERTIES
  StopIsNoticed
CHECK_DEADLOCK FALSE
