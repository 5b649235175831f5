----------------------------- MODULE IndexerFeed -----------------------------
(***************************************************************************)
(* What the indexer promises to those who read it, whatever the provider   *)
(* delivers, in which order and how often.                                 *)
(***************************************************************************)
EXTENDS Indexer, SequencesExt

CONSTANTS Nows, SnapshotWindow, MaxAge,  (* when and how snapshots are taken       *)
          Observed                       (* depths that a position may be read at  *)

-----------------------------------------------------------------------------
EventsOf(p) == {e \in Ingested : NormPool[e.pool] = p}

(* Every variable has its type; a bad event is never among the ingested.   *)
TypeOK ==
  /\ events \in Seq(Feed)
  /\ cursors \in [Keys -> [lastBlock : Int, lastTimestamp : Nat, eventCount : Nat]]
  /\ poolChain \in [Keys -> ChainIds \cup {NoChain}]
  /\ chainId \in ChainIds \cup {NoChain}
  /\ todo \subseteq Feed \cup Spoilt

(* ingestEvents, lines 83-105: however batches are cut, repeated, reordered *)
(* or stopped by a bad event, the cursor of a pool counts each of its      *)
(* events once and stands at their highest block.                          *)
CursorsMatchEvents ==
  \A p \in Keys :
    /\ cursors[p].eventCount = Cardinality(EventsOf(p))
    /\ \A e \in EventsOf(p) : e.block <= cursors[p].lastBlock
    /\ EventsOf(p) # {} => \E e \in EventsOf(p) : e.block = cursors[p].lastBlock

FeedDepth(pool) ==
  LET sum == MapThenSumSet(LAMBDA e : e.liquidity,
                           {e \in Feed : NormPool[e.pool] = NormPool[pool]})
  IN  IF sum > 0 THEN sum ELSE 0

(* "Deterministic" (line 4): a snapshot taken between batches says of the  *)
(* same events the same, in whatever order and however often they came: it *)
(* is that of an indexer that got them once, in any other order.  Only the *)
(* block of two events with one timestamp depends on which came first, and *)
(* it is a block of an event with that timestamp all the same.  And once a *)
(* pool's events are all in, a position reconciles with their depth only.  *)
SnapshotForgetsDelivery ==
  todo = {} =>
    \A order \in SetToSeqs(Ingested), pool \in Pools, now \in Nows :
      LET taken == Snapshot(events, pool, now, SnapshotWindow, MaxAge)
          other == Snapshot(order, pool, now, SnapshotWindow, MaxAge)
      IN /\ [taken EXCEPT !.block = 0] = [other EXCEPT !.block = 0]
         /\ taken.block # other.block =>
              \E e, f \in EventsOf(NormPool[pool]) :
                 e.block = taken.block /\ f.block = other.block /\ e.time = f.time
         /\ {e \in Feed : NormPool[e.pool] = NormPool[pool]} \subseteq Ingested =>
              \A depth \in Observed :
                reconcileLiquidity(events, pool, depth) <=> depth = FeedDepth(pool)

(* Lines 77-81: a batch that throws has ingested exactly what it had put   *)
(* before the bad event: an event of a batch is ingested in the end unless *)
(* a bad one comes before it.                                              *)
GoodPrefixIsIngested ==
  \A e \in Feed :
    (e \in todo /\ \A f \in todo : Bad(f) => Before(e, f)) ~> Seen(e)

=============================================================================
