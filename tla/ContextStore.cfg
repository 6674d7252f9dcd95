\* Two processes that begin up to three operations on two nodes.
CONSTANTS
  Stores = {p, q}
  Names = {a, b}
  list = list
  tuple = tuple
  text = text
  Contents <- MCContents
  Json <- MCJson
  Nothing = Nothing
  MaxOps = 3
SPECIFICATION FairSpec
INVARIANTS StoreInv LastWriteStored SoleStoreAgrees
PROPERTY EveryOperationEnds
