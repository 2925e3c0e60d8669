SPECIFICATION Spec
CONSTANTS
  Requests = {r1}
  Horizons = {20}
  Validations <- MCValidations
  Overridable = {"survivorship"}
  AutoDisable = TRUE
  MaxUnknownDays = 1
  MaxTime = 2
  MaxModels = 2
  MaxRuns = 5
CHECK_DEADLOCK FALSE
INVARIANTS
  ActiveIsValidated
  FailedIsOut
  UnknownIsBounded
PROPERTIES
  NoSilentHandOver
