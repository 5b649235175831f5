----------------------------- MODULE MCSwapDesk -----------------------------
(* SwapDesk with some of the four texts below, SwapDesk.cfg with a sale    *)
(* and a chat.  Time counts minutes: a quote lives for one.  USDC has one  *)
(* decimal here and TKN two.                                               *)
EXTENDS SwapDesk, Screener, TLC

MCCanonical == [s \in Spellings |-> s]

MCPolicy(position, paused) ==
  [cap |-> [c \in Caps |->
              CASE c = "capitalBudget" -> 500
                [] c = "maxPositionBps" -> position
                [] c \in {"maxQuoteAge", "maxDataAge"} -> 1
                [] OTHER -> 100],
   reserve |-> 100,
   list |-> [l \in Lists |-> IF l = "allowedTokens"
                             THEN {"usdc", "tkn"} ELSE {Router}],
   allow |-> {"SWAP"}, automated |-> FALSE, paused |-> paused]

MCTerms == [p \in Policies |->
              CASE p = "active" -> MCPolicy(1000, FALSE)
                [] p = "paused" -> MCPolicy(1000, TRUE)]

MCNamed == [r \in Refs |-> CASE r = "$TKN" -> "tkn" [] r = "0xTKN" -> "tkn"
                             [] r = "USDC" -> "usdc" [] OTHER -> "unknown"]
MCDecimals == [t \in Tokens |-> IF t = "usdc" THEN 1 ELSE 2]

Four == [digits |-> 4, places |-> 0]

(* BUY $4 OF TKN; SELL 4 TKN 0.5% slippage; BUY 4 OF a token nobody        *)
(* verified; and a text that orders nothing.                               *)
MCReadings ==
  LET said == [verb |-> "none", usdc |-> <<>>, bare |-> <<>>, legs |-> <<>>,
               refs |-> <<>>, slippage |-> <<>>] IN
  "buy"   :> [said EXCEPT !.verb = "buy", !.usdc = <<Four>>,
                          !.refs = <<"$TKN">>] @@
  "sell"  :> [said EXCEPT !.verb = "sell", !.bare = <<Four>>,
                          !.refs = <<"0xTKN", "$TKN">>, !.slippage = <<50>>] @@
  "vague" :> [said EXCEPT !.verb = "buy", !.bare = <<Four>>,
                          !.refs = <<"$ELSE">>] @@
  "chat"  :> said
MCRead == [t \in Texts |-> MCReadings[t]]

MCPrices == {[quotedOut |-> 40, gas |-> 1, coversGas |-> TRUE]}

MCSends == {<<"owner", "text">>, <<"owner", "approve">>, <<"owner", "reject">>,
            <<"other", "approve">>}

-----------------------------------------------------------------------------
(* The screen beside it: tokens that each filter may refuse, or not, with  *)
(* equal and different values to sort by.                                  *)
ScreenNow == 100
MCToken(address, symbol, deployedAt) ==
  [address |-> address, wellFormed |-> TRUE, symbol |-> symbol,
   deferred |-> FALSE, isCreatorLocked |-> FALSE, deployedAt |-> deployedAt]

MCUniverses ==
  LET a == MCToken("0xa", 1, 0)   b == MCToken("0xb", 2, 80)
      c == MCToken("0xc", 1, 99)  d == MCToken("0xd", 3, 101) IN
  {<<a, b, c>>, <<c, b, a>>, <<a, d, b>>, <<a, c, [b EXCEPT !.symbol = 1]>>,
   <<[a EXCEPT !.deferred = TRUE], b>>, <<[b EXCEPT !.wellFormed = FALSE], c>>,
   <<a, [c EXCEPT !.isCreatorLocked = TRUE]>>, <<d>>, <<>>}

MCMetrics ==
  LET x == [liquidity |-> 120, volume |-> 30, fees |-> 3, holders |-> 60,
            dataAge |-> 10] IN
  {"0xa" :> x @@ "0xb" :> [x EXCEPT !.volume = v, !.fees = 4]
              @@ "0xc" :> [x EXCEPT !.liquidity = l, !.dataAge = g]
              @@ "0xd" :> x : v \in {30, 31}, l \in {0, 121}, g \in {10, 301}}
  \cup {"0xa" :> [x EXCEPT !.holders = -1] @@ "0xc" :> x}

MCRequests ==
  LET Amount(n) == <<[figure |-> [digits |-> n, scale |-> 10], multiple |-> 1]>>
      Days(n) == <<[figure |-> [digits |-> n, scale |-> 1], days |-> 1,
                    over |-> 24]>> IN
  {[liquidity |-> l, volume |-> v, holders |-> h, older |-> o, younger |-> y,
    sorted |-> s, top |-> n] :
     l \in {<<>>, Amount(9), Amount(121)}, v \in {<<>>, Amount(31)},
     h \in {<<>>, <<60>>}, o \in {<<>>, Days(20)}, y \in {<<>>, Days(30)},
     s \in {{}, {"fees"}, {"newest", "liquidity"}, {"newest", "fees"}},
     n \in {<<>>, <<0>>, <<2>>}}

(* Whatever a text asks for, the rows shown are the best of those that     *)
(* pass, in order (skillsScreener.ts, screen.ts).                          *)
ASSUME ScreensShowTheBest ==
  \A x \in MCRequests, u \in MCUniverses, m \in MCMetrics :
    ShowsTheBest(u, m, parseScreenParams(x), ScreenNow)

=============================================================================
