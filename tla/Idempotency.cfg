\* Three callers: one that runs, one that waits, one that comes late.
CONSTANTS
  Callers = {c1, c2, c3}
  Nobody = Nobody
  MaxFaults = 2
  MaxCrashes = 1
  MaxExpiries = 1
SPECIFICATION FairSpec
INVARIANTS
  OneAtATime
  LockIsGivenBack
  NoRerunAfterAnswer
PROPERTIES
  CallsReturn
\* Every call has been answered.
CHECK_DEADLOCK FALSE
