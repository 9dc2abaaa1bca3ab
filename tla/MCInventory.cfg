CONSTANTS
  Warehouses = {1, 2}
  Products = {1}
  Clients = {c1, c2}
  Ticks = {k1}
  NoTx = NoTx
  InitStock <- SplitStock
  Demands <- OneToThree
  Deltas <- UpAndDown
  ClientOps <- AllOps
  MaxRes = 2
  MaxAdjusts = 1
  MaxCrashes = 1
  MaxPerTick = 2
SPECIFICATION Spec
INVARIANTS
  TypeOK
  StockNonNegative
  MovementsMatchCommits
  BooksAgree
PROPERTIES
  ReservedWithinOnHand
  LedgerIsKept
  RequestsAreAtomic
