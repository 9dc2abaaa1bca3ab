CONSTANTS
  Posts = {p1}
  Runs = {s1, s2}
  Refs = {r1}
  NoRef = NoRef
  Nobody = Nobody
  Amounts <- OneAmount
  LastDay = 1
  MaxCrashes = 0
SPECIFICATION Spec
INVARIANTS
  CollectedOnce
CHECK_DEADLOCK FALSE
