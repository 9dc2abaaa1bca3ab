\* Two changes: a second one meets what the first has left behind.
CONSTANTS
  Readers = {r1}
  Writers = {w1, w2}
  usd = usd
  eur = eur
  PriceChunks <- TwoChunks
  Foreign = {eur}
  Product = Product
  MaxChanges = 2
  MaxFaults = 1
SPECIFICATION FairSpec
INVARIANTS
  TypeOK
  StaleIsExcused
PROPERTIES
  PricesSettle
