SPECIFICATION Spec
CONSTANTS
  Callers = {c1, c2}
  c1 = c1
  c2 = c2
  Amounts = {1, 2}
  Liquid0 = 0
  Vault0 = 4
  MaxRecalls = 1
  Hour = 2
  MaxClock = 2
  MaxCalls = 4
  MaxLate = 1
SYMMETRY CallerSymmetry
CHECK_DEADLOCK FALSE
INVARIANTS TypeOK OvershootIsBounded
