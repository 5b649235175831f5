SPECIFICATION Spec
CONSTANTS
  Recalls = {"first", "again", "last"}
  Amount <- MCAmount
  Fees = {0, 1}
  Vault0 = 3
  Source0 = 1
CHECK_DEADLOCK FALSE
INVARIANTS MoneyStaysWhereItStopped CompleteIsPaid AloneNeverReverts
