CONSTANTS
  Posts = {p1, p2, p3}
  Runs = {s1, s2}
  Refs = {r1}
  NoRef = NoRef
  Nobody = Nobody
  Amounts <- ChargeAndRefund
  LastDay = 2
  MaxCrashes = 1
SYMMETRY Alike
SPECIFICATION Spec
INVARIANTS
  PostingIsIdempotent
  NothingLeftOut
  CollectedTwiceOnlyIfContended
\* Every request has been answered.
CHECK_DEADLOCK FALSE
