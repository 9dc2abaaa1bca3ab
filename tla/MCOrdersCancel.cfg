CONSTANTS
  Placer = place
  Cancels = {cancel1}
  Ships = {}
  Ticks = {}
  Faults <- NoFaults
  Nobody = Nobody
SPECIFICATION Spec
INVARIANTS
  CancelCompensates
CHECK_DEADLOCK FALSE
