------------------------------- MODULE Planner -------------------------------
(***************************************************************************)
(* The agent of services/agent/src: the goal that it reads from a text     *)
(* (goals.ts) and the deterministic plan over candidates (planner.ts).     *)
(* Pure operators.  A text is a sequence of items: a word, an amount in    *)
(* dollars or in usdc, a percentage in basis points or a bare number; the  *)
(* space within a word is an underscore.  Unstated is the code's null.     *)
(***************************************************************************)
EXTENDS Integers, FiniteSets, Sequences

CONSTANT Unstated

GOAL_MODES == {"Calm", "Balanced", "Aggressive", "Custom"}
DRAFT_DEFAULTS ==
  [mode \in GOAL_MODES |->
     CASE mode = "Calm"       -> [maxPositionBps |-> 500,  reserveBps |-> 5000]
       [] mode = "Aggressive" -> [maxPositionBps |-> 2000, reserveBps |-> 1000]
       [] OTHER               -> [maxPositionBps |-> 1000, reserveBps |-> 3000]]

(* The fields of a GoalDraft that its owner may leave unstated.            *)
Nullable == {"budget", "reserveBps", "maxPositionBps"}

(* Every question that parseGoal asks; only the first one blocks the flow. *)
questions(draft) ==
  {field \in Nullable : draft[field] = Unstated}
  \cup (IF draft.tokens = {} THEN {"tokens"} ELSE {})
  \cup (IF ~draft.avoid /\ ~draft.ask THEN {"newPools"} ELSE {})

Has(text, words)   == \E i \in DOMAIN text : text[i].word \in words
FirstOf(text, P(_)) == CHOOSE i \in DOMAIN text :
                         P(text[i]) /\ \A j \in 1..(i - 1) : ~P(text[j])
Then(text, w, later) == \E i, j \in DOMAIN text :
                          i < j /\ text[i].word = w /\ text[j].word \in later

(* The first amount with a marker; but the first number of the text takes  *)
(* the dollar sign of an amount that follows it for its own.               *)
parseUsdcAmount(text) ==
  LET Marked(item)  == item.word \in {"dollars", "usdcs"}
      Numeral(item) == item.word \in {"dollars", "usdcs", "percent", "number"}
      i == FirstOf(text, Numeral)
      taken == text[i].word = "number" /\ text[i + 1].word = "dollars"
  IN IF Has(text, {"dollars", "usdcs"})
     THEN text[IF taken THEN i ELSE FirstOf(text, Marked)].n
     ELSE Unstated

(* The first percentage near the first place of a keyword, whatever word   *)
(* it belongs to; the twelve characters on either side are an item each.   *)
parsePercentBps(text, keywords) ==
  LET Percent(item) == item.word = "percent"
      Near(k) == LET Is(item) == item.word = keywords[k]
                     i == FirstOf(text, Is)
                 IN  IF Has(text, {keywords[k]})
                     THEN SubSeq(text, IF i = 1 THEN 1 ELSE i - 1,
                                 IF i = Len(text) THEN i ELSE i + 1)
                     ELSE <<>>
      hits == {k \in DOMAIN keywords : Has(Near(k), {"percent"})}
  IN IF hits = {} THEN Unstated
     ELSE LET near == Near(CHOOSE k \in hits : \A h \in hits : k <= h)
          IN  near[FirstOf(near, Percent)].n

parseGoal(text) ==
  [mode   |-> CASE Has(text, {"aggressive"}) -> "Aggressive"
                [] ~Has(text, {"aggressive"})
                   /\ Has(text, {"calm", "conservative", "cautious"}) -> "Calm"
                [] OTHER -> IF Has(text, {"custom"}) THEN "Custom"
                                                     ELSE "Balanced",
   budget         |-> parseUsdcAmount(text),
   reserveBps     |-> parsePercentBps(text,
     <<"reserve", "in_usdc", "keep", "hold_back", "cash">>),
   maxPositionBps |-> parsePercentBps(text,
     <<"per_position", "position_to", "any_one_position", "each_position",
       "limit">>),
   tokens |-> {t \in {"usdc", "weth", "eth", "wbtc", "btc"} : Has(text, {t})}
              \cup (IF Has(text, {"usdcs"}) THEN {"usdc"} ELSE {}),
   avoid  |-> Then(text, "avoid", {"new", "launch"})
              \/ Then(text, "exclude", {"new"}),
   ask    |-> Then(text, "ask", {"me", "new", "swap", "pool"})
              \/ Then(text, "before", {"new", "swap"})]

-----------------------------------------------------------------------------
(* An EXIT is always allowed, whatever allowExitSwap says.                 *)
actionAllowed(caps, action, isNew) ==
  CASE action = "ENTER"        -> isNew => caps.allowNewPoolEntry
    [] action = "RANGE_CHANGE" -> caps.allowRangeChange
    [] action = "COLLECT"      -> caps.allowFeeCollection
    [] action = "EXIT"         -> TRUE

WithinCaps(c, caps) ==
  /\ c.quoteAge \in 0..caps.maxQuoteAge /\ c.dataAge \in 0..caps.maxDataAge
  /\ c.slippage <= caps.maxSlippage /\ c.priceImpact <= caps.maxPriceImpact
  /\ c.gas <= caps.maxGas /\ c.amount >= 0
  /\ c.action = "ENTER" => c.amount \in 1..caps.maxPosition

pessimisticFees(c) == (c.observedFees * (10000 - c.feeHaircut)) \div 10000

mutPlannedNet(c) == pessimisticFees(c) - c.gas
plannedNet(c) == pessimisticFees(c) - c.gas - c.swapCost

Proposed(c, caps) ==
  /\ c.eligible
  /\ actionAllowed(caps, c.action, c.pool \in caps.newPools)
  /\ WithinCaps(c, caps)
  /\ plannedNet(c) > 0

(* The proposals, of which the first is one with the best net.             *)
plan(candidates, caps) ==
  IF caps.paused THEN {} ELSE {c \in candidates : Proposed(c, caps)}

=============================================================================
