SPECIFICATION FairSpec
CONSTANTS
  Jobs = {j1, j2}
  Accounts = {a1}
  AccountOf <- MCAccountOf
  NoJob = NoJob
  MaxAttempts = 2
  MaxTime = 1
  TimeoutsCarryHash = FALSE
  ConfirmedMeansExecuted = TRUE
  BareConfirmsOwn = TRUE
CHECK_DEADLOCK FALSE
INVARIANTS NeverBlindlyResubmitted OneLiveJobUnlessRevoked LockHolderIsUnsettled VerdictsMatchTheChain
PROPERTIES SubmittedJobSettles ImplementsOnceOnly
