SPECIFICATION FairSpec
CONSTANTS
  Calls = {c1, c2}
  Gap = 1
  Timeout = 2
  Threshold = 0
  MaxAccelerate = 1
  Poll = 1
CHECK_DEADLOCK FALSE
INVARIANTS BlindOnlyToReplacements
PROPERTIES ImplementsPromise SpacedUnlessRaced EveryCallEnds
