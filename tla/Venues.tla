------------------------------- MODULE Venues -------------------------------
(***************************************************************************)
(* The venue adapter of packages/venues/src: the arithmetic of math.ts,    *)
(* the Uniswap V3 adapter (compatibility, quote, simulation and the shape  *)
(* of an action), the eligibility screen and the classification of pools   *)
(* that come from ACTFUN launches.  Pure operators.                        *)
(*                                                                         *)
(* A pool is what these functions look at: its venue, its chain, whether   *)
(* its addresses and its fee tier are well formed, and its flags.  That a  *)
(* function throws is a record or a predicate of its own.                  *)
(***************************************************************************)
EXTENDS Integers

CONSTANTS
  SupportedChain,    (* SUPPORTED_CHAIN_IDS                                *)
  Fortnight          (* the fourteen days of history                       *)

VenueKinds  == {"uniswap-v3", "uniswap-v4", "aerodrome", "swap-router"}
Deferred    == {"feeOnTransfer", "rebasing"}
PoolFlags   == Deferred \cup {"creatorLocked", "publicMint", "addressOk",
                              "tokensOk", "feeTierOk"}
PoolInfo    == [venue : VenueKinds, chain : {SupportedChain, "other"},
                flags : SUBSET PoolFlags]

-----------------------------------------------------------------------------
(* math.ts: floors, so that a cap never rounds up past itself.             *)
BPS_DENOMINATOR == 10000
ValidBps(bps) == bps \in 0..BPS_DENOMINATOR

minReceivedAfterSlippage(amount, slippage) ==
  (amount * (BPS_DENOMINATOR - slippage)) \div BPS_DENOMINATOR

pessimisticFeeEstimate(observed, haircut) ==
  (observed * (BPS_DENOMINATOR - haircut)) \div BPS_DENOMINATOR

netAfterCosts(fees, gas, swapCost) == fees - gas - swapCost

-----------------------------------------------------------------------------
(* uniswapV3.ts.                                                           *)
checkPoolCompatible(pool) ==
  /\ pool.venue = "uniswap-v3" /\ pool.chain = SupportedChain
  /\ {"addressOk", "tokensOk", "feeTierOk", "publicMint"} \subseteq pool.flags
  /\ pool.flags \cap (Deferred \cup {"creatorLocked"}) = {}

(* The constructor throws for any other chain.                             *)
Constructible(chain) == chain = SupportedChain

V3_ACTIONS == {"ENTER", "RANGE_CHANGE", "COLLECT", "EXIT"}

(* Whether quote returns; every other request throws.                      *)
Quotable(req) ==
  /\ req.action \in V3_ACTIONS
  /\ ValidBps(req.slippage) /\ ValidBps(req.priceImpact)
  /\ req.amount >= 0
  /\ req.action = "ENTER" => req.amount > 0
  /\ req.gas >= 0 /\ req.swapCost >= 0
  /\ req.quoteAge >= 0 /\ req.dataAge >= 0
  /\ checkPoolCompatible(req.pool)

quote(req) ==
  [action |-> req.action, amount |-> req.amount,
   minReceived |-> minReceivedAfterSlippage(req.amount, req.slippage),
   gas |-> req.gas, swapCost |-> req.swapCost,
   slippage |-> req.slippage, priceImpact |-> req.priceImpact,
   quoteAge |-> req.quoteAge, dataAge |-> req.dataAge]

Simulable(observed, haircut) == ValidBps(haircut) /\ observed >= 0

simulate(q, observed, haircut) ==
  LET fees == pessimisticFeeEstimate(observed, haircut)
      net  == netAfterCosts(fees, q.gas, q.swapCost)
      uncollectable == q.action = "COLLECT" /\ q.amount = 0 /\ fees <= q.gas
  IN [fees |-> fees, net |-> net,
      decision |-> IF uncollectable \/ net <= 0 THEN "HOLD" ELSE "PROCEED"]

(* The shape that the policy gate is asked about: the touched tokens, pool,*)
(* contract and selector are the caller's, the rest is the quote's.        *)
toPolicyActionShape(q, touches, caps) ==
  [type |-> q.action, touches |-> touches, notional |-> q.amount,
   measure |-> [c \in caps |->
      CASE c = "maxSlippageBps"    -> q.slippage
        [] c = "maxPriceImpactBps" -> q.priceImpact
        [] c = "maxGasPerAction"   -> q.gas
        [] c = "maxQuoteAge"       -> q.quoteAge
        [] c = "maxDataAge"        -> q.dataAge]]

-----------------------------------------------------------------------------
(* eligibility.ts: the reasons to refuse, as a conjunction of their        *)
(* negations; poolAge is -1 if unknown.                                    *)
Structural(pool, snap) ==
  /\ pool.venue = "uniswap-v3" /\ pool.chain = snap.chain
  /\ {"addressOk", "publicMint"} \subseteq pool.flags
  /\ "creatorLocked" \notin pool.flags

Evidenced(snap, bars, poolAge) ==
  /\ snap.window >= Fortnight
  /\ snap.volume >= bars.volume /\ snap.liquidity >= bars.liquidity
  /\ poolAge # -1 /\ poolAge >= Fortnight
  /\ snap.dataAge >= 0 /\ snap.fees >= 0

screenPool(pool, snap, bars, poolAge) ==
  /\ Structural(pool, snap)
  /\ pool.flags \cap Deferred = {}
  /\ Evidenced(snap, bars, poolAge)

-----------------------------------------------------------------------------
(* actfun.ts: a launch trades on its bonding curve and may graduate.       *)
Launch == [curve : BOOLEAN, locked : BOOLEAN, publicMint : BOOLEAN,
           venue : VenueKinds, standardFee : BOOLEAN]

classifyActfunPool(l) ==
  CASE l.curve                         -> "bonding-curve"
    [] ~l.curve /\ (l.locked \/ ~l.publicMint) -> "creator-locked-graduation-lp"
    [] ~l.curve /\ ~l.locked /\ l.publicMint /\
       l.venue \notin {"uniswap-v3", "uniswap-v4"} -> "unknown"
    [] OTHER                           -> "graduated-public-pool"

floatCandidate(l) == classifyActfunPool(l) = "graduated-public-pool"

IsV3Candidate(l) == ~l.locked /\ l.publicMint /\ l.standardFee

(* The pool that actfunGraduationToV3PoolCandidate makes of a launch; it   *)
(* is not told whether the launch still trades on its curve or graduated   *)
(* elsewhere than on V3.                                                   *)
actfunGraduationToV3PoolCandidate(chain) ==
  [venue |-> "uniswap-v3", chain |-> chain,
   flags |-> {"publicMint", "addressOk", "tokensOk", "feeTierOk"}]

=============================================================================
