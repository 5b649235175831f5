---------------------------- MODULE PoolSnapshot ----------------------------
(***************************************************************************)
(* The reads of services/indexer/src/indexer.ts: the windowed snapshot of  *)
(* a pool and the reconciliation of a position, pure operators over a log  *)
(* of events in the order in which the Map has them.                       *)
(***************************************************************************)
EXTENDS Integers, Sequences, FiniteSetsExt

CONSTANT NormPool   (* normPool: trim and lower case                       *)

(* opts.chainId only labels the snapshot: the events are chosen by pool.   *)

InPool(log, pool) == {i \in DOMAIN log : NormPool[log[i].pool] = NormPool[pool]}

SumOf(log, field, is) == MapThenSumSet(LAMBDA i : log[i][field], is)

(* Never a negative depth.                                                 *)
Depth(log, pool) ==
  LET sum == SumOf(log, "liquidity", InPool(log, pool))
  IN  IF sum < 0 THEN 0 ELSE sum

(* The first inserted of those with the newest timestamp, 0 if none.       *)
Newest(log, pool) ==
  LET is == InPool(log, pool)
      newest == {i \in is : \A j \in is : log[j].time <= log[i].time}
  IN  IF is = {} THEN 0 ELSE Min(newest)

Snapshot(log, pool, now, window, maxAge) ==
  LET recent == {i \in InPool(log, pool) : log[i].time >= now - window}
      newest == Newest(log, pool)
      age    == IF newest = 0 THEN maxAge + 1
                ELSE IF log[newest].time > now THEN 0
                ELSE now - log[newest].time
  IN [liquidity |-> Depth(log, pool),
      volume    |-> SumOf(log, "volume", recent),
      fees      |-> SumOf(log, "fees", recent),
      block     |-> IF newest = 0 THEN 0 ELSE log[newest].block,
      dataAge   |-> age,
      stale     |-> age > maxAge]

reconcileLiquidity(log, pool, observed) == Depth(log, pool) = observed

=============================================================================
