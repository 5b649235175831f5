SPECIFICATION Spec
CHECK_DEADLOCK FALSE
CONSTANTS
  Unstated = Unstated
  Spellings = {"usdc", "token", "pool", "npm", "mint"}
  Addresses = {"usdc", "token", "pool", "npm", "mint"}
  Canonical <- MCCanonical
  NormPool <- MCNormPool
  Goals <- MCGoals
  Logs <- MCLogs
  Now = 100
  Window = 50
  MaxDataAge = 6
  PoolAges <- MCPoolAges
  Chains = {"arc", "other"}
  ObservedFees <- MCObservedFees
  Haircuts = {0, 2000, 10001}
  Usdc = 10
  SupportedChain = "arc"
  Fortnight = 50
  MaxCalls = 2
INVARIANTS
  OneNetEverywhere
  CapFitsBesideReserve
  GateAgreesWithPlan
  LedgerTakesTheEntry
