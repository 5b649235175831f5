------------------------------ MODULE MCPolicy ------------------------------
(* PolicyAmendments on policies that differ in every kind of field.        *)
EXTENDS PolicyAmendments, TLC

MCCanonical == [s \in Spellings |-> IF s = "WETH" THEN "weth" ELSE s]

Base == [c \in Caps |->
           CASE c \in {"maxQuoteAge", "maxDataAge"} -> 30
             [] c = "maxTokenExposureBps" -> 5000
             [] OTHER -> 5]

MCPolicies ==
  {[cap |-> [Base EXCEPT !["capitalBudget"] = b, !["maxPositionBps"] = m,
                         !["maxSlippageBps"] = s],
    reserve |-> r,
    list |-> [l \in Lists |-> IF l = "allowedTokens" THEN ts ELSE {"pool"}],
    allow |-> al, automated |-> FALSE, paused |-> pa] :
     b \in {401, 500}, m \in {1000, 2500}, s \in {50, 100}, r \in {300, 375},
     ts \in {{"usdc", "weth"}, {"usdc", "WETH"}, {"usdc"}},
     al \in {{"ENTER"}, {"ENTER", "SWAP"}}, pa \in BOOLEAN}

MCActions ==
  {[type |-> t,
    touches |-> [l \in Lists |-> IF l = "allowedTokens" THEN ts ELSE {"pool"}],
    measure |-> [c \in MeasuredCaps |->
                   IF c = "maxSlippageBps" THEN s ELSE 5],
    notional |-> n] :
     t \in {"ENTER", "SWAP"}, ts \in {{"usdc"}, {"usdc", "weth"}},
     s \in {50, 100}, n \in {-1, 40, 41, 50, 100, 125, 126}}
=============================================================================
