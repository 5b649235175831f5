SPECIFICATION FairSpec
CONSTANTS
  NAgents = 1
  MaxTrades = 2
  MaxTicks = 2
  MaxLoops = 3
  LogCap = 3
  ReviewTicks = 1
  ReviewEvery = 2
  ScoreBatch = 1
  MinScored = 1
  Signals = {"EMERGENCY"}
  MaxPosts = 3
CHECK_DEADLOCK FALSE
INVARIANTS OneChainEach OneLoopUnlessCrossed SuggestionsAreRare
PROPERTIES TradesComeToRest
