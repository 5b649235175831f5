------------------------------- MODULE Policy -------------------------------
(***************************************************************************)
(* The policy contract of packages/policy/src: which policies are legal    *)
(* (validatePolicy), which actions a policy permits (compilePermissions    *)
(* and checkAction) and which change of policy gives the agent more power  *)
(* (authorityIncreased).  Pure operators: nothing here has a state.        *)
(*                                                                         *)
(* A policy's numeric caps are a function from their names, its four       *)
(* allowlists a function from theirs, its five allow-flags the set of      *)
(* action types they enable.  A Result is TRUE when it has no violation.   *)
(* Fields that none of these functions compares (ids, the account, the     *)
(* chain, mode, effectiveAt and expiresAt, cooldownSeconds) are left out.  *)
(***************************************************************************)
EXTENDS Integers

CONSTANTS
  Spellings,   (* addresses and selectors as they are written              *)
  Addresses,   (* what a spelling denotes                                  *)
  Canonical    (* trim, lower case and, for a selector, the 0x prefix      *)

ASSUME SpellingAssumption == Canonical \in [Spellings -> Addresses]

ActionTypes == {"ENTER", "RANGE_CHANGE", "COLLECT", "EXIT", "SWAP"}

(* Caps that an action's own measure is compared with, and the others.     *)
MeasuredCaps == {"maxSlippageBps", "maxPriceImpactBps", "maxGasPerAction",
                 "maxQuoteAge", "maxDataAge"}
Ages == {"maxQuoteAge", "maxDataAge"}
Caps == MeasuredCaps \cup
        {"capitalBudget", "maxPositionBps", "maxTokenExposureBps",
         "dailyExecutionBudget", "maxActionsPerDay"}
BPS_FIELDS == {"maxPositionBps", "maxTokenExposureBps", "maxSlippageBps",
               "maxPriceImpactBps"}
Lists == {"allowedTokens", "allowedPools", "allowedContracts",
          "allowedSelectors"}

PolicyRecord == [cap       : [Caps -> Nat],
                 reserve   : Nat,
                 list      : [Lists -> SUBSET Spellings],
                 allow     : SUBSET ActionTypes,
                 automated : BOOLEAN,
                 paused    : BOOLEAN]

(* touches[l] is the pool, the contract, the selector or the tokens.       *)
ProposedAction == [type     : ActionTypes,
                   touches  : [Lists -> SUBSET Spellings],
                   measure  : [MeasuredCaps -> Int],
                   notional : Int]

(* Floor division: a cap never rounds up past itself.                      *)
applyBps(amount, bps) == (amount * bps) \div 10000

isValidBps(bps) == bps \in 0..10000

norm(entries) == {Canonical[e] : e \in entries}

maxPositionAtomic(p) == applyBps(p.cap["capitalBudget"],
                                 p.cap["maxPositionBps"])

(* What an action may put into one position.                               *)
mutWithinPosition(p, a) ==
  a.type \in {"ENTER", "SWAP"} => a.notional < maxPositionAtomic(p)
WithinPosition(p, a) ==
  a.type \in {"ENTER", "SWAP"} => a.notional <= maxPositionAtomic(p)

(* The gates of checkAction behind the pause.                              *)
PassesGates(p, a) ==
  /\ \A c \in MeasuredCaps : a.measure[c] <= p.cap[c]
  /\ \A c \in Ages : a.measure[c] >= 0
  /\ a.type \in p.allow
  /\ \A l \in Lists : norm(a.touches[l]) \subseteq norm(p.list[l])
  /\ a.notional >= 0
  /\ WithinPosition(p, a)

checkAction(p, a) == ~p.paused /\ PassesGates(p, a)

(* The budget holds the reserve and one position of the largest size.      *)
mutFitsBudget(p) == p.reserve <= p.cap["capitalBudget"]
FitsBudget(p) ==
  /\ p.reserve <= p.cap["capitalBudget"]
  /\ maxPositionAtomic(p) + p.reserve <= p.cap["capitalBudget"]

validatePolicy(p) ==
  /\ \A c \in BPS_FIELDS : isValidBps(p.cap[c])
  /\ p.cap["capitalBudget"] > 0
  /\ \A c \in Ages : p.cap[c] > 0
  /\ FitsBudget(p)
  /\ p.cap["maxPositionBps"] <= p.cap["maxTokenExposureBps"]
  /\ p.cap["maxActionsPerDay"] > 0 =>
       p.cap["maxGasPerAction"] <= p.cap["dailyExecutionBudget"]
  /\ ~p.automated

(* Entries are compared as written, so a respelling counts as an addition. *)
mutAddedEntries(prev, next) == \E e \in prev : e \notin next
addedEntries(prev, next) == \E e \in next : e \notin prev

authorityIncreased(prev, next) ==
  \/ \E c \in Caps : next.cap[c] > prev.cap[c]
  \/ next.reserve < prev.reserve
  \/ \E l \in Lists : addedEntries(prev.list[l], next.list[l])
  \/ \E t \in ActionTypes : t \in next.allow /\ t \notin prev.allow
  \/ ~prev.automated /\ next.automated

=============================================================================
