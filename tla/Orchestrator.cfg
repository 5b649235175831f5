SPECIFICATION Spec
CONSTANTS
  NAgents = 2
  Wallets = {"w"}
  WalletOf <- MCWalletOf
  HotReserve <- MCHotReserve
  MaxPark <- MCMaxPark
  MinRoute <- MCMinRoute
  Funds <- MCFunds
  Statuses = {"IDLE", "PRE_TRADE", "EXECUTING"}
  Ticks = {t1, t2}
  t1 = t1
  t2 = t2
  MaxLate = 1
SYMMETRY TickSymmetry
INVARIANTS OneTransactionPerWallet InformedParkKeepsReserve InformedTxSucceeds
