CONSTANTS
  Handlers = {h1, h2}
  Keys = {k1}
  NoKey = NoKey
  Outcomes <- Accepted
  Retries = 1
  MaxIntents = 1
  MaxCharges = 2
  FailingTries = {}
  MaxCrashes = 0
SPECIFICATION Spec
INVARIANTS
  ChargedOnce
CHECK_DEADLOCK FALSE
