SPECIFICATION Spec
CONSTANTS
  Jobs = {j1}
  Accounts = {a1}
  AccountOf <- MCAccountOf
  NoJob = NoJob
  MaxAttempts = 3
  MaxTime = 1
  TimeoutsCarryHash = FALSE
  ConfirmedMeansExecuted = FALSE
  BareConfirmsOwn = TRUE
CHECK_DEADLOCK FALSE
INVARIANT NeverBlindlyResubmitted
