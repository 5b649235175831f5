----------------------------- MODULE Accounting -----------------------------
(***************************************************************************)
(* The ledger report of packages/accounting/src/accounting.ts: cash flows  *)
(* and the net result of a window.  Pure operators over a set              *)
(* of flows; amounts are in base units.                                    *)
(***************************************************************************)
EXTENDS Integers, FiniteSets, FiniteSetsExt

FLOW_KINDS == {"deposit", "withdrawal", "fee_collected", "gas", "swap_cost",
               "service_fee", "service_fee_outside"}

sumKind(flows, kinds) ==
  MapThenSumSet(LAMBDA f : f.amount, {f \in flows : f.kind \in kinds})

mutInWindow(t, windowStart, windowEnd) == windowStart < t /\ t <= windowEnd
InWindow(t, windowStart, windowEnd) == windowStart <= t /\ t <= windowEnd

(* No two flows with one id, none negative, none outside the window, of    *)
(* which both ends are inside.                                             *)
validateFlows(flows, windowStart, windowEnd) ==
  /\ \A f, g \in flows : f.id = g.id => f = g
  /\ \A f \in flows : /\ f.amount >= 0 /\ f.kind \in FLOW_KINDS
                      /\ InWindow(f.time, windowStart, windowEnd)

(* Costs that the ending value reflects are not subtracted again.          *)
computeNetPnl(starting, ending, flows) ==
  ending + sumKind(flows, {"withdrawal"}) - sumKind(flows, {"deposit"}) - starting

componentBreakdown(flows) ==
  [kind \in FLOW_KINDS \ {"deposit", "withdrawal"} |-> sumKind(flows, {kind})]

buildReport(starting, ending, flows, holdEnd) ==
  [deposits    |-> sumKind(flows, {"deposit"}),
   withdrawals |-> sumKind(flows, {"withdrawal"}),
   net         |-> computeNetPnl(starting, ending, flows),
   components  |-> componentBreakdown(flows),
   holdPnl     |-> computeNetPnl(starting, holdEnd, flows)]

=============================================================================
