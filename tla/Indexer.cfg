SPECIFICATION IndexerSpec
CONSTANTS
  Feed <- MCFeed
  Spoilt <- MCSpoilt
  Pools = {"P", "p", "q"}
  NormPool <- MCNormPool
  ChainIds = {"arc", "base"}
  Nows = {4, 7, 9}
  SnapshotWindow = 3
  MaxAge = 2
  Observed <- MCObserved
INVARIANTS
  CursorsMatchEvents
  SnapshotForgetsDelivery
PROPERTIES
  GoodPrefixIsIngested
