CONSTANTS
  Placer = place
  Cancels = {cancel1}
  Ships = {ship1, ship2}
  Ticks = {tick1, tick2}
  Faults <- AllFaults
  Nobody = Nobody
SPECIFICATION FairSpec
INVARIANTS
  ConfirmedIsPaid
  FailedIsUndone
  OneShipment
PROPERTIES
  StatusesMoveForward
  WorkIsFinished
\* An order that nobody has to do anything about any more.
CHECK_DEADLOCK FALSE
