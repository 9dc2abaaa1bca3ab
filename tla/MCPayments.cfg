CONSTANTS
  Handlers = {h1, h2}
  Keys = {k1, k2}
  NoKey = NoKey
  Outcomes <- AnyOutcome
  Retries = 1
  MaxIntents = 2
  MaxCharges = 3
  FailingTries = {0}
  MaxCrashes = 1
SPECIFICATION Spec
SYMMETRY HandlersAlike
INVARIANTS
  OneIntentPerKey
  MoneyIsAccounted
  UndisturbedIsSound
PROPERTIES
  FinalStatus
\* The bounds end it: every intent final and every reference used.
CHECK_DEADLOCK FALSE
