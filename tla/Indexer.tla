------------------------------- MODULE Indexer -------------------------------
(***************************************************************************)
(* The market indexer of services/indexer/src/indexer.ts: batches of pool  *)
(* events, deduplicated by key, a cursor per pool, and the windowed        *)
(* snapshot that the eligibility screen and the gates rest on.             *)
(*                                                                         *)
(* ingestEvents is synchronous; its loop is one step per event here, so    *)
(* that a bad event stops it where it does, and nothing else happens while *)
(* events are to do.  The provider is external: it delivers any subset of  *)
(* its feed, again and in any order, and may deliver a spoilt version of   *)
(* an event first and the good one later.  A key twice in one batch is the *)
(* same as in two.                                                         *)
(***************************************************************************)
EXTENDS Integers, Sequences, FiniteSets, PoolSnapshot

CONSTANTS
  Feed,       (* the events of the provider                                *)
  Spoilt,     (* versions of them that do not validate                     *)
  Pools,      (* pools as they are written                                 *)
  ChainIds

Event == [key : Nat, pool : Pools, chain : ChainIds, block : Int, time : Int,
          liquidity : Int, volume : Int, fees : Int]

(* Where ingestEvents throws.                                              *)
Bad(e) == e.block < 0 \/ e.time < 0 \/ e.volume < 0 \/ e.fees < 0

ASSUME IndexerAssumption ==
  /\ Feed \subseteq Event /\ Spoilt \subseteq Event
  /\ \A e \in Feed : ~Bad(e)
  /\ \A e \in Spoilt : Bad(e)
  /\ NormPool \in [Pools -> Pools]

VARIABLES
  events,      (* state.events, a Map, in the order of insertion           *)
  cursors,     (* by normalised pool                                       *)
  poolChain,   (* the chain that a pool was first seen on                  *)
  chainId,     (* the chain and                                            *)
  todo         (* the events still to do of the batch being ingested       *)

indexerVars == <<events, cursors, poolChain, chainId, todo>>

NoCursor == [lastBlock |-> -1, lastTimestamp |-> 0, eventCount |-> 0]
NoChain  == "none"
Keys     == {NormPool[p] : p \in Pools}

InitIndexer ==
  /\ events = <<>> /\ todo = {} /\ chainId = NoChain
  /\ cursors = [p \in Keys |-> NoCursor]
  /\ poolChain = [p \in Keys |-> NoChain]

Ingested == {events[i] : i \in DOMAIN events}
Seen(e)  == \E f \in Ingested : f.key = e.key

-----------------------------------------------------------------------------
Deliver(batch, chain) ==
  /\ todo = {} /\ batch # {}
  /\ \A e \in batch : e.chain = chain
  /\ todo' = batch /\ chainId' = chain
  /\ UNCHANGED <<events, cursors, poolChain>>

(* The batch is sorted by block, then by timestamp.                        *)
Before(e, f) == \/ e.block < f.block
                \/ e.block = f.block /\ e.time < f.time
IsNext(e) == e \in todo /\ \A f \in todo : ~Before(f, e)

mutThrow(e) ==
  /\ e \in todo /\ Bad(e)
  /\ todo' = {}
  /\ UNCHANGED <<events, cursors, poolChain, chainId>>
Throw(e) ==
  /\ IsNext(e) /\ Bad(e)
  /\ todo' = {}
  /\ UNCHANGED <<events, cursors, poolChain, chainId>>

Duplicate(e) ==
  /\ IsNext(e) /\ ~Bad(e) /\ Seen(e)
  /\ todo' = todo \ {e}
  /\ UNCHANGED <<events, cursors, poolChain, chainId>>

(* A late event is counted and does not move the cursor.                   *)
mutAdvanced(cur, e) ==
  [lastBlock |-> e.block, lastTimestamp |-> e.time,
   eventCount |-> cur.eventCount + 1]
Advanced(cur, e) ==
  IF e.block > cur.lastBlock
  THEN [lastBlock     |-> e.block,
        lastTimestamp |-> IF e.time > cur.lastTimestamp THEN e.time
                          ELSE cur.lastTimestamp,
        eventCount    |-> cur.eventCount + 1]
  ELSE [cur EXCEPT !.eventCount = @ + 1]

mutIngest(e) ==
  LET p == NormPool[e.pool] IN
  /\ IsNext(e) /\ ~Bad(e) /\ Len(events) <= Cardinality(Feed)
  /\ events' = Append(events, e)
  /\ cursors' = [cursors EXCEPT ![p] = Advanced(@, e)]
  /\ poolChain' = [poolChain EXCEPT ![p] = IF @ = NoChain THEN chainId ELSE @]
  /\ todo' = todo \ {e}
  /\ UNCHANGED chainId
Ingest(e) ==
  LET p == NormPool[e.pool] IN
  /\ IsNext(e) /\ ~Bad(e) /\ ~Seen(e)
  /\ events' = Append(events, e)
  /\ cursors' = [cursors EXCEPT ![p] = Advanced(@, e)]
  /\ poolChain' = [poolChain EXCEPT ![p] = IF @ = NoChain THEN chainId ELSE @]
  /\ todo' = todo \ {e}
  /\ UNCHANGED chainId

Step == \E e \in todo : Throw(e) \/ Duplicate(e) \/ Ingest(e)

NextIndexer ==
  \/ \E batch \in SUBSET (Feed \cup Spoilt), chain \in ChainIds :
       Deliver(batch, chain)
  \/ Step

(* The loop runs to its end: it is synchronous.                            *)
IndexerSpec == InitIndexer /\ [][NextIndexer]_indexerVars /\ WF_indexerVars(Step)

=============================================================================
