CONSTANTS
  Warehouses = {1, 2}
  Products = {1}
  Clients = {c1, c2}
  Ticks = {k1, k2}
  SecondTick = k2
  NoTx = NoTx
  InitStock <- UnevenStock
  Demands <- LargeOrSmall
  Deltas <- Three
  ClientOps <- NoRelease
  MaxRes = 3
  MaxAdjusts = 1
  MaxCrashes = 0
  MaxPerTick = 1
SPECIFICATION LiveSpec
PROPERTIES
  TransactionsEnd
  ExpiredAreReleased
\* Clients owe no request: with every reservation released the system may stop.
CHECK_DEADLOCK FALSE
