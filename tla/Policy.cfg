SPECIFICATION PolicySpec
CONSTANTS
  Spellings = {"usdc", "weth", "WETH", "pool"}
  Addresses = {"usdc", "weth", "pool"}
  Canonical <- MCCanonical
  Policies <- MCPolicies
  ProposedActions <- MCActions
INVARIANTS
  WithinApproval
  ReserveSurvives
