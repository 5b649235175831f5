----------------------------- MODULE ManagedFlow -----------------------------
(***************************************************************************)
(* The managed LP flow of services/e2e/src/flow.ts: from a goal to a       *)
(* draft, a validated policy, a snapshot, the screen, a quote, a plan, the *)
(* policy gate, an executor job and a ledger report.  runManagedLpOnce is  *)
(* one step per stage; a caller calls it again and again with the same     *)
(* idempotency key.                                                        *)
(*                                                                         *)
(* The submitter is external: it answers, with a hash or with an empty     *)
(* one, or throws, a timeout or anything else, before or after it has      *)
(* broadcast.  Usdc is the number of base units in one USDC; the flow      *)
(* builds the policy, pool and gas itself.                                 *)
(***************************************************************************)
EXTENDS Policy, Planner, Accounting, PoolSnapshot, Sequences

CONSTANTS
  Goals,           (* the texts of the user's goals                        *)
  Logs,            (* the indexer's events after ingestEvents              *)
  Now, Window, MaxDataAge,
  PoolAges, Chains, ObservedFees, Haircuts,   (* the other inputs          *)
  Usdc, SupportedChain, Fortnight,
  MaxCalls         (* bound on the calls                                   *)

Venue == INSTANCE Venues

ASSUME FlowAssumption ==
  /\ Usdc \in Nat \ {0} /\ MaxCalls \in Nat /\ Unstated \notin Nat
  /\ Goals \subseteq Seq([word : STRING, n : Nat])
  /\ Logs \subseteq Seq([key : Nat, pool : STRING, chain : STRING, block : Nat,
                        time : Nat, liquidity : Int, volume : Nat, fees : Nat])
  /\ Now \in Int /\ MaxDataAge \in Int
  /\ ObservedFees \subseteq Int /\ Haircuts \subseteq Int

VARIABLES
  stage,         (* the stage that runs next, or "done"                    *)
  call,          (* what the call has worked out so far; its report after  *)
  outcome,       (* of the last call                                       *)
  broadcasts,    (* transactions that the submitter sent                   *)
  calls

vars   == <<stage, call, outcome, broadcasts, calls>>
counts == <<broadcasts, calls>>

Nothing == [none |-> TRUE]

Init ==
  /\ stage = "done" /\ call = Nothing /\ outcome = "none"
  /\ broadcasts = 0 /\ calls = 0

End(result) == /\ stage' = "done" /\ outcome' = result
               /\ call' = Nothing /\ UNCHANGED counts
Go(next)    == stage' = next /\ UNCHANGED <<outcome, counts>>

-----------------------------------------------------------------------------
(* A call starts from nothing: the store of its job is its own.            *)
Begin(goal, chain) ==
  /\ stage = "done" /\ calls < MaxCalls
  /\ calls' = calls + 1 /\ stage' = "goal" /\ outcome' = "none"
  /\ call' = [draft |-> parseGoal(goal), chain |-> chain]
  /\ UNCHANGED broadcasts

NeedsAmount ==
  /\ stage = "goal" /\ "budget" \in questions(call.draft)
  /\ End("NEEDS_INPUT")

stated(field) == IF call.draft[field] = Unstated
                 THEN DRAFT_DEFAULTS[call.draft.mode][field]
                 ELSE call.draft[field]

(* Asking first keeps the entry open; only a bare avoidance closes it.     *)
allowNewPoolEntry(draft) == draft.ask \/ ~draft.avoid

Larger(a, b) == IF a > b THEN a ELSE b

policyOf ==
  LET budget == call.draft.budget IN
  [cap |-> [c \in Caps |->
      CASE c = "capitalBudget"        -> budget
        [] c = "maxPositionBps"       -> stated("maxPositionBps")
        [] c = "maxTokenExposureBps"  -> Larger(stated("maxPositionBps"), 5000)
        [] c = "maxSlippageBps"       -> 50
        [] c = "maxPriceImpactBps"    -> 100
        [] c = "maxGasPerAction"      -> Usdc
        [] c = "dailyExecutionBudget" -> 5 * Usdc
        [] c = "maxActionsPerDay"     -> 5
        [] c = "maxQuoteAge"          -> 30
        [] c = "maxDataAge"           -> MaxDataAge],
   reserve   |-> applyBps(budget, stated("reserveBps")),
   list      |-> [l \in Lists |->
      CASE l = "allowedTokens"    -> {"usdc", "token"}
        [] l = "allowedPools"     -> {"pool"}
        [] l = "allowedContracts" -> {"npm"}
        [] l = "allowedSelectors" -> {"mint"}],
   allow     |-> {"RANGE_CHANGE", "COLLECT", "EXIT"} \cup
                 (IF allowNewPoolEntry(call.draft) THEN {"ENTER"} ELSE {}),
   automated |-> FALSE, paused |-> FALSE]

PolicyRefused ==
  /\ stage = "goal" /\ call.draft.budget # Unstated
  /\ ~(validatePolicy(policyOf) /\ call.chain = SupportedChain)
  /\ End("NEEDS_INPUT")

PolicyAccepted ==
  /\ stage = "goal" /\ call.draft.budget # Unstated
  /\ validatePolicy(policyOf) /\ call.chain = SupportedChain
  /\ call' = [draft |-> call.draft, chain |-> call.chain, policy |-> policyOf]
  /\ Go("snapshot")

-----------------------------------------------------------------------------
snapshotOf(log) ==
  LET s == Snapshot(log, "pool", Now, Window, MaxDataAge) IN
  [chain |-> call.chain, window |-> Window, volume |-> s.volume, fees |-> s.fees,
   liquidity |-> s.liquidity, dataAge |-> s.dataAge, stale |-> s.stale]

IngestThrows ==
  /\ stage = "snapshot"
  /\ End("THROWN")

StaleHold(log) ==
  /\ stage = "snapshot" /\ snapshotOf(log).stale
  /\ End("HOLD")

Observe(log) ==
  /\ stage = "snapshot" /\ ~snapshotOf(log).stale
  /\ call' = [draft |-> call.draft, chain |-> call.chain,
              policy |-> call.policy, snap |-> snapshotOf(log)]
  /\ Go("screen")

(* The pool is taken for a plain public one; only its address is given.    *)
poolOf == [venue |-> "uniswap-v3", chain |-> call.chain,
           flags |-> {"addressOk", "tokensOk", "feeTierOk", "publicMint"}]
bars   == [volume |-> 1000 * Usdc, liquidity |-> 1000]

Ineligible(poolAge) ==
  /\ stage = "screen" /\ ~Venue!screenPool(poolOf, call.snap, bars, poolAge)
  /\ End("HOLD")

Eligible(poolAge) ==
  /\ stage = "screen" /\ Venue!screenPool(poolOf, call.snap, bars, poolAge)
  /\ UNCHANGED call /\ Go("size")

-----------------------------------------------------------------------------
(* Never more than what the reserve leaves of the budget.                  *)
amount == LET headroom == call.draft.budget - call.policy.reserve
              cap      == maxPositionAtomic(call.policy)
          IN  IF cap > headroom THEN headroom ELSE cap

Unaffordable ==
  /\ stage = "size" /\ amount <= 0
  /\ End("HOLD")

request == [action |-> "ENTER", pool |-> poolOf, amount |-> amount,
            slippage |-> 30, priceImpact |-> 50,
            gas |-> Usdc \div 2, swapCost |-> Usdc \div 5,
            quoteAge |-> 5, dataAge |-> call.snap.dataAge]

(* The adapter, its quote or its simulation throws, of a haircut or fees   *)
(* that are none say: the call rejects.                                    *)
Throws(observed, haircut) ==
  /\ stage = "size" /\ amount > 0
  /\ ~(/\ Venue!Constructible(call.chain) /\ Venue!Quotable(request)
       /\ Venue!Simulable(observed, haircut))
  /\ End("THROWN")

candidate(observed, haircut) ==
  [pool |-> "pool", action |-> "ENTER", eligible |-> TRUE, amount |-> amount,
   slippage |-> 30, priceImpact |-> 50, gas |-> Usdc \div 2,
   swapCost |-> Usdc \div 5, quoteAge |-> 5, dataAge |-> call.snap.dataAge,
   observedFees |-> observed, feeHaircut |-> haircut]

(* No pool is new to the planner.                                          *)
plannerCaps ==
  [paused |-> FALSE, maxPosition |-> maxPositionAtomic(call.policy),
   maxSlippage |-> 50, maxPriceImpact |-> 100, maxGas |-> Usdc,
   maxQuoteAge |-> 30, maxDataAge |-> MaxDataAge,
   allowNewPoolEntry |-> allowNewPoolEntry(call.draft),
   allowRangeChange |-> TRUE, allowFeeCollection |-> TRUE, newPools |-> {}]

Plan(observed, haircut) ==
  LET q   == Venue!quote(request)
      sim == Venue!simulate(q, observed, haircut)
      c   == candidate(observed, haircut)
  IN /\ stage = "size" /\ amount > 0
     /\ Venue!Constructible(call.chain)
     /\ Venue!Quotable(request) /\ Venue!Simulable(observed, haircut)
     /\ call' = [draft |-> call.draft, chain |-> call.chain,
                 policy |-> call.policy, snap |-> call.snap, quote |-> q,
                 sim |-> sim, proposed |-> plan({c}, plannerCaps) # {},
                 plannedNet |-> plannedNet(c)]
     /\ Go("decide")

Hold ==
  /\ stage = "decide" /\ (~call.proposed \/ call.sim.decision = "HOLD")
  /\ End("HOLD")

Decide ==
  /\ stage = "decide" /\ call.proposed /\ call.sim.decision = "PROCEED"
  /\ UNCHANGED call /\ Go("gate")

-----------------------------------------------------------------------------
actionShape ==
  Venue!toPolicyActionShape(call.quote, call.policy.list, MeasuredCaps)

Blocked ==
  /\ stage = "gate" /\ ~checkAction(call.policy, actionShape)
  /\ End("BLOCKED")

(* The job is created, approved and gated again by submitJob, with the     *)
(* same policy and the same ages, before the submitter is awaited.         *)
Submit ==
  /\ stage = "gate" /\ checkAction(call.policy, actionShape)
  /\ UNCHANGED call /\ Go("submitted")

Answer(jobState, sent) ==
  /\ stage = "submitted" /\ stage' = "done" /\ outcome' = "BLOCKED"
  /\ broadcasts' = broadcasts + sent
  /\ call' = [jobState |-> jobState] /\ UNCHANGED calls

(* Any error but a timeout fails the job, also one after the broadcast.    *)
SubmitFails == \E sent \in {0, 1} : Answer("FAILED", sent)

(* The job is left to be reconciled, and its store is dropped.             *)
SubmitTimesOut == \E sent \in {0, 1} : Answer("RECONCILIATION_REQUIRED", sent)

(* An empty hash is no hash to the flow.                                   *)
AnsweredWithoutHash == Answer("SUBMITTED", 1)

-----------------------------------------------------------------------------
(* The ledger of an executed call: the deposit of the whole budget, and    *)
(* the simulated fees and costs.                                           *)
Flow(id, at, kind, n) == [id |-> id, time |-> at, kind |-> kind, amount |-> n]
flows ==
  {Flow("dep1", Now, "deposit", call.draft.budget),
   Flow("fee1", Now + 1, "fee_collected", call.sim.fees),
   Flow("gas1", Now + 1, "gas", call.quote.gas),
   Flow("sw1", Now + 1, "swap_cost", call.quote.swapCost)}

reportOf == buildReport(0, call.draft.budget + call.sim.net, flows, call.draft.budget)

(* confirmJob is given a receipt that says success.  That the ledger never *)
(* throws here is LedgerTakesTheEntry.                                     *)
Executed ==
  /\ stage = "submitted" /\ validateFlows(flows, Now, Now + 2)
  /\ stage' = "done" /\ outcome' = "EXECUTED"
  /\ broadcasts' = broadcasts + 1
  /\ call' = [draft |-> call.draft, quote |-> call.quote, sim |-> call.sim,
              report |-> reportOf]
  /\ UNCHANGED calls

Next ==
  \/ \E g \in Goals, c \in Chains : Begin(g, c)
  \/ NeedsAmount \/ PolicyRefused \/ PolicyAccepted
  \/ IngestThrows
  \/ \E log \in Logs : StaleHold(log) \/ Observe(log)
  \/ \E age \in PoolAges : Ineligible(age) \/ Eligible(age)
  \/ Unaffordable
  \/ \E f \in ObservedFees, h \in Haircuts : Throws(f, h) \/ Plan(f, h)
  \/ Hold \/ Decide \/ Blocked \/ Submit
  \/ SubmitFails \/ SubmitTimesOut \/ AnsweredWithoutHash
  \/ Executed

Spec == Init /\ [][Next]_vars

-----------------------------------------------------------------------------
(* plan, simulate and buildReport each work out the net of an entry, from  *)
(* the quote, from the candidate and from the ledger: the plan proposes    *)
(* exactly what the simulation finds worth its costs, and what is reported *)
(* as the result is that net, each cost counted once.                      *)
OneNetEverywhere ==
  /\ stage \in {"decide", "gate", "submitted"} =>
       /\ call.plannedNet = call.sim.net
       /\ call.proposed <=> call.sim.decision = "PROCEED"
  /\ outcome = "EXECUTED" =>
       LET r == call.report IN
       /\ r.net = call.sim.net /\ r.net > 0
       /\ r.net = r.components["fee_collected"] - r.components["gas"]
                    - r.components["swap_cost"]
       /\ r.holdPnl = 0

(* validatePolicy (validate.ts:72-76) and the sizing of the flow           *)
(* (flow.ts:255-258) divide the same budget: under an accepted policy the  *)
(* position cap always fits beside the reserve, so the size is the cap,    *)
(* and no call is unaffordable unless its cap rounds down to nothing.      *)
CapFitsBesideReserve ==
  stage \in {"size", "decide", "gate", "submitted"} =>
    /\ amount = maxPositionAtomic(call.policy) /\ amount >= 0
    /\ call.draft.budget - amount >= call.policy.reserve

(* The gate is asked after the size, the screen, the quote and the plan    *)
(* have each applied caps of their own (flow.ts:255-315): what they let    *)
(* through, it lets through too, at the very edge of a cap as well.  The   *)
(* one thing it refuses is a new entry that the goal has closed.           *)
GateAgreesWithPlan ==
  stage = "gate" =>
    (checkAction(call.policy, actionShape) <=> (call.draft.ask \/ ~call.draft.avoid))

(* buildReport throws on flows that validateFlows refuses                  *)
(* (accounting.ts:143-144), which is after the broadcast: the call would   *)
(* reject, and nothing would tell of the transaction.  Whatever is sent to *)
(* the submitter has flows that the ledger takes.                          *)
LedgerTakesTheEntry ==
  stage = "submitted" => validateFlows(flows, Now, Now + 2)

-----------------------------------------------------------------------------
(* What a comment says, and the code does not keep.                        *)

(* "Idempotency key dedupes retries" (executor.ts:10): the calls, all with *)
(* one key, broadcast once.                                                *)
OneBroadcastPerKey == broadcasts <= 1

=============================================================================
