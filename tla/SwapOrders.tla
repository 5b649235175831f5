----------------------------- MODULE SwapOrders -----------------------------
(***************************************************************************)
(* What the swap desk (services/chat/src/skillsSwap.ts) makes of a text:   *)
(* the swap it asks for (parseSwap), its tokens and exact amount (the      *)
(* skill's handler), the quote of the router adapter (swapRouter.ts) and   *)
(* the action that the policy judges.  Pure operators.                     *)
(*                                                                         *)
(* A text is the record of what the parser's patterns find in it, each     *)
(* find a sequence that is empty when there is none.  A token is named by  *)
(* its verified address.  The chain and the well-formedness of addresses   *)
(* are settled by the configuration and left out.                          *)
(***************************************************************************)
EXTENDS Policy, Sequences

CONSTANTS
  Tokens,             (* the verified tokens                               *)
  Refs,               (* words and addresses that a text may name          *)
  Named,              (* the token whose symbol or address a word is       *)
  Unknown,            (* no token of the verified map                      *)
  Usdc,               (* the token whose symbol is USDC                    *)
  Decimals,           (* of each token                                     *)
  UsdcDecimals,       (* 6                                                 *)
  DefaultSlippageBps,
  Texts,              (* the texts considered                              *)
  Read,               (* what the patterns find in each                    *)
  Prices,             (* what the quote source may answer                  *)
  QuotedAge,          (* the constant ages of a quote: 5 and 10 seconds    *)
  Router              (* deps.router: pool, contract and selector          *)

(* A plain decimal: 40.5 is [digits |-> 405, places |-> 1].                *)
Written == [digits : Nat, places : Nat]

Text == [verb     : {"buy", "sell", "swap", "none"},
         usdc     : Seq(Written),   (* $40.5 or 40.5 USDC                  *)
         bare     : Seq(Written),   (* 40.5 TKN                            *)
         legs     : Seq(Refs),      (* A for B                             *)
         refs     : Seq(Refs),      (* $SYM, address, "of SYM", any word   *)
         slippage : Seq(Nat)]       (* in basis points                     *)

PriceQuote == [quotedOut : Int, gas : Int, coversGas : BOOLEAN]

ASSUME OrdersAssumption ==
  /\ Tokens \subseteq Spellings /\ Unknown \notin Tokens
  /\ Named \in [Refs -> Tokens \cup {Unknown}]
  /\ Decimals \in [Tokens -> 0..36] /\ UsdcDecimals \in 0..36
  /\ DefaultSlippageBps \in Nat /\ QuotedAge \in Nat
  /\ Texts = DOMAIN Read /\ \A t \in Texts : Read[t] \in Text
  /\ Prices \subseteq PriceQuote

-----------------------------------------------------------------------------
(* parseAmount: a USDC amount is taken before a bare one.                  *)
parseAmount(x) == x.usdc \o x.bare

(* parseSwap answers null on any other text.                               *)
swapIntentMatches(t) ==
  LET x == Read[t] IN
  /\ x.verb # "none"
  /\ parseAmount(x) # <<>>
  /\ IF x.verb = "swap" THEN Len(x.legs) = 2 ELSE x.refs # <<>>

parseSwap(t) ==
  LET x == Read[t] IN
  [side     |-> x.verb,
   amount   |-> Head(parseAmount(x)),
   isUsdc   |-> x.usdc # <<>>,
   refs     |-> IF x.verb = "swap" THEN x.legs ELSE <<Head(x.refs)>>,
   slippageBps |-> Head(Append(x.slippage, DefaultSlippageBps))]

findVerified(ref) == Named[ref]

-----------------------------------------------------------------------------
(* The handler's resolution: tokens, then the amount in atomic units.      *)
TokenIn(s)  == IF s.side = "buy" THEN Usdc ELSE findVerified(s.refs[1])
TokenOut(s) == CASE s.side = "buy"  -> findVerified(s.refs[1])
                 [] s.side = "sell" -> Usdc
                 [] s.side = "swap" -> findVerified(s.refs[2])

(* A buy's amount, and any written in dollars, is read at USDC's decimals. *)
AmountDecimals(s) == IF s.side = "buy" \/ s.isUsdc THEN UsdcDecimals
                                                   ELSE Decimals[TokenIn(s)]

toAtomic(a, decimals) == a.digits * 10 ^ (decimals - a.places)

AmountIn(s) == toAtomic(s.amount, AmountDecimals(s))

(* Unknown tokens, excess decimals and a zero amount are replied to.       *)
Resolvable(t) ==
  /\ swapIntentMatches(t)
  /\ LET s == parseSwap(t) IN
     /\ {TokenIn(s), TokenOut(s)} \subseteq Tokens
     /\ s.amount.places <= AmountDecimals(s)
     /\ s.amount.digits > 0

-----------------------------------------------------------------------------
(* quoteSwap does not throw and simulateSwap does not answer HOLD.         *)
checkSwapCompatible(s) == TokenIn(s) # TokenOut(s)

Quotable(t, price) ==
  LET s == parseSwap(t) IN
  /\ isValidBps(s.slippageBps)
  /\ price.quotedOut > 0
  /\ price.gas >= 0
  /\ checkSwapCompatible(s)
  /\ price.coversGas

minReceivedAfterSlippage(amount, bps) == (amount * (10000 - bps)) \div 10000

MinOut(t, price) == minReceivedAfterSlippage(price.quotedOut,
                                             parseSwap(t).slippageBps)

(* The notional given to the gate: the USDC leg of a buy or a sale.        *)
Notional(t, price) ==
  LET s == parseSwap(t) IN
  IF TokenIn(s) = Usdc THEN AmountIn(s) ELSE price.quotedOut

(* toPolicyActionShape: the action that both gates check.                  *)
Shape(t, price) ==
  LET s == parseSwap(t) IN
  [type     |-> "SWAP",
   touches  |-> [l \in Lists |-> IF l = "allowedTokens"
                                 THEN {TokenIn(s), TokenOut(s)} ELSE {Router}],
   measure  |-> [c \in MeasuredCaps |->
                   CASE c = "maxSlippageBps"    -> s.slippageBps
                     [] c = "maxGasPerAction"   -> price.gas
                     [] c = "maxPriceImpactBps" -> 100
                     [] OTHER                   -> QuotedAge],
   notional |-> Notional(t, price)]

=============================================================================
