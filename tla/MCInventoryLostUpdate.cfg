CONSTANTS
  Warehouses = {1}
  Products = {1}
  Clients = {c1, c2}
  Ticks = {}
  NoTx = NoTx
  InitStock <- AmpleStock
  Demands <- OneOfEach
  Deltas <- NoDelta
  ClientOps <- AllOps
  MaxRes = 2
  MaxAdjusts = 0
  MaxCrashes = 0
  MaxPerTick = 1
SPECIFICATION Spec
PROPERTIES
  CommitDecrementsStock
