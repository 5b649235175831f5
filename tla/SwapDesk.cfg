SPECIFICATION FairSpec
CONSTANTS
  Spellings = {"usdc", "tkn", "router"}
  Addresses = {"usdc", "tkn", "router"}
  Canonical <- MCCanonical
  Tokens = {"usdc", "tkn"}
  Refs = {"$TKN", "0xTKN", "USDC", "$ELSE"}
  Named <- MCNamed
  Unknown = "unknown"
  Usdc = "usdc"
  Decimals <- MCDecimals
  UsdcDecimals = 1
  DefaultSlippageBps = 100
  Texts = {"sell", "chat"}
  Read <- MCRead
  Prices <- MCPrices
  Typed = {"sell", "chat"}
  Sends <- MCSends
  Policies = {"active", "paused"}
  Terms <- MCTerms
  NoPolicy = "none"
  Router = "router"
  QuoteLife = 1
  QuotedAge = 0
  UsdcAtomic = 10
  DaySeconds = 24
  AnswerText = "chat"
  MaxDedupeKeys = 1
  MaxMessages = 3
  MaxDeliveries = 4
  MaxOffers = 2
  MaxVersion = 2
  MaxTime = 1
  MaxRestarts = 1
  MaxFailures = 1
CHECK_DEADLOCK FALSE
INVARIANTS SettledAtMostOnce OwnerApprovedThisOffer SettledWithinLiveLimits OfferStaysAnswerable
PROPERTIES DecisionIsFinal ApprovalIsAnswered
