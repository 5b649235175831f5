------------------------- MODULE OrchestratorProofs -------------------------
(***************************************************************************)
(* Proofs about Orchestrator, for any number of agents, wallets and ticks. *)
(* The inductive invariant adds to the types and to the exclusion per      *)
(* wallet what each tick relies on while its action is informed (Reliable).*)
(***************************************************************************)
EXTENDS Orchestrator, TLAPS

Places == InTransaction \cup {"off", "refresh", "turn", "over"}

LateTx == [kind : {"approve", "park", "withdraw"}, amount : Nat]

(* The types, with what TypeOK leaves out of them.                         *)
ChainTypes ==
  /\ liquid \in [Wallets -> Nat] /\ vault \in [Wallets -> Nat]
  /\ allowance \in [Wallets -> Nat]
  /\ \A w \in Wallets : liquid[w] + vault[w] = Funds[w]
  /\ late \in [Wallets -> SUBSET LateTx]

AgentTypes ==
  /\ status \in [Agents -> AgentStatus]
  /\ seenLiquid \in [Agents -> Nat] /\ seenParked \in [Agents -> Nat]
  /\ fresh \in [Agents -> BOOLEAN] /\ cooling \in [Agents -> BOOLEAN]

ReadTypes ==
  /\ unread \in [Ticks -> SUBSET Wallets]
  /\ readLiquid \in [Ticks -> [Wallets -> Nat \cup {NotRead}]]
  /\ readVault \in [Ticks -> [Wallets -> Nat \cup {NotRead}]]

Op == [amount : Nat, informed : BOOLEAN]

TickTypes ==
  /\ executing \subseteq Wallets
  /\ pc \in [Ticks -> Places]
  /\ turn \in [Ticks -> Agents]
  /\ op \in [Ticks -> Op]

Types == ChainTypes /\ AgentTypes /\ ReadTypes /\ TickTypes

USE DEF Agents

-----------------------------------------------------------------------------
(* The arithmetic of a park.                                               *)

(* What may be parked is liquid; and what is worth parking leaves the hot  *)
(* reserve, and keeps the park ratio to half a unit.                       *)
LEMMA ParkableFits ==
  ASSUME NEW a \in Agents, NEW l \in Nat, NEW p \in Nat
  PROVE  /\ Parkable(a, l, p) \in 0..l
         /\ ParkableHundredths(a, l, p) >= 100 * MinRoute[a] =>
              /\ 100 * (l - Parkable(a, l, p)) >= HotReserve[a] * (l + p)
              /\ 100 * (p + Parkable(a, l, p)) <= MaxPark[a] * (l + p) + 50
<1> DEFINE h == HotReserve[a] * (l + p)
           m == MaxPark[a] * (l + p)
           x == ParkableHundredths(a, l, p)
           q == Parkable(a, l, p)
<1>1. /\ HotReserve[a] \in Nat /\ MaxPark[a] \in Nat
      /\ MinRoute[a] \in Nat /\ MinRoute[a] >= 3
  <2>1. HotReserve[a] \in 0..100 /\ MaxPark[a] \in 0..100
    BY OrchestratorAssumption
  <2>2. MinRoute[a] \in Nat \ 0..2
    BY OrchestratorAssumption
  <2> QED BY <2>1, <2>2
<1>2. h \in Nat /\ m \in Nat
  BY <1>1
<1>3. (85 - HotReserve[a]) * (l + p) = 85 * (l + p) - h
  BY <1>1
<1>4. x = LargerOf(0, SmallerOf(LargerOf(0, 85 * (l + p) - h), m) - 100 * p)
  BY <1>3 DEF ParkableHundredths
<1>5. q = (x + 50) \div 100
  BY DEF Parkable
<1> HIDE DEF h, m, x, q
<1>6. x \in Nat /\ (x <= 85 * l \/ x = 0)
  BY <1>2, <1>4 DEF LargerOf, SmallerOf
<1>7. x >= 300 => x + 100 * p <= 85 * (l + p) - h /\ x + 100 * p <= m
  BY <1>2, <1>4 DEF LargerOf, SmallerOf
<1>8. q \in Nat /\ 100 * q <= x + 50
  BY <1>5, <1>6
<1>9. q \in 0..l
  BY <1>6, <1>8
<1>10. ASSUME x >= 100 * MinRoute[a]
       PROVE  100 * (l - q) >= h /\ 100 * (p + q) <= m + 50
  <2>1. x >= 300
    BY <1>1, <1>6, <1>10
  <2>2. 85 * (l + p) >= 300 + h
    BY <1>2, <1>6, <1>7, <2>1
  <2>3. l + p >= 4
    BY <1>2, <2>2
  <2>4. 100 * q + 100 * p <= 85 * (l + p) - h + 50
    BY <1>2, <1>6, <1>7, <1>8, <2>1
  <2>5. 100 * (l - q) >= h
    BY <1>2, <1>8, <2>3, <2>4
  <2>6. 100 * (p + q) <= m + 50
    BY <1>2, <1>6, <1>7, <1>8, <2>1
  <2> QED BY <2>5, <2>6
<1>11. /\ Parkable(a, l, p) \in 0..l
       /\ ParkableHundredths(a, l, p) >= 100 * MinRoute[a] =>
            /\ 100 * (l - Parkable(a, l, p)) >= h
            /\ 100 * (p + Parkable(a, l, p)) <= m + 50
  BY <1>9, <1>10 DEF x, q
<1> QED BY <1>11, Zenon DEF h, m

-----------------------------------------------------------------------------
(* The types.                                                              *)

(* Init puts every variable in its type.                                   *)
LEMMA TypesInit == Init => Types
<1> SUFFICES ASSUME Init PROVE Types
  OBVIOUS
<1> USE OrchestratorAssumption DEF Init
<1>1. ChainTypes
  BY DEF ChainTypes
<1>2. AgentTypes
  <2>1. "IDLE" \in AgentStatus
    BY DEF AgentStatus
  <2> QED BY <2>1 DEF AgentTypes
<1>3. ReadTypes
  BY DEF ReadTypes
<1>4. TickTypes
  <2>1. "off" \in Places /\ 1 \in Agents
    BY DEF Places
  <2>2. NoOp \in Op
    BY DEF NoOp, Op
  <2> QED BY <2>1, <2>2 DEF TickTypes
<1> QED BY <1>1, <1>2, <1>3, <1>4 DEF Types

(* What a step leaves alone keeps its type.                                *)
LEMMA Untouched ==
  /\ ChainTypes /\ UNCHANGED chain => ChainTypes'
  /\ AgentTypes /\ UNCHANGED <<status, agents>> => AgentTypes'
  /\ ReadTypes /\ UNCHANGED reads => ReadTypes'
  /\ TickTypes /\ UNCHANGED <<executing, pc, turn, op>> => TickTypes'
<1>1. ChainTypes /\ UNCHANGED chain => ChainTypes'
  BY DEF ChainTypes, chain
<1>2. AgentTypes /\ UNCHANGED <<status, agents>> => AgentTypes'
  BY DEF AgentTypes, agents
<1>3. ReadTypes /\ UNCHANGED reads => ReadTypes'
  BY DEF ReadTypes, reads
<1>4. TickTypes /\ UNCHANGED <<executing, pc, turn, op>> => TickTypes'
  BY DEF TickTypes
<1> QED BY <1>1, <1>2, <1>3, <1>4

(* The wallet that a tick processes is one of the wallets.                 *)
LEMMA WalletType ==
  ASSUME TickTypes, NEW t \in Ticks PROVE Wallet(t) \in Wallets
BY OrchestratorAssumption DEF TickTypes, Wallet

(* Advance and Release keep the types of the ticks.                        *)
LEMMA AdvanceTypes ==
  ASSUME TickTypes, NEW t \in Ticks, Advance(t),
         Release(t) \/ UNCHANGED executing
  PROVE  TickTypes'
<1>1. {"turn", "over"} \subseteq Places
  BY DEF Places
<1>2. NoOp \in Op
  BY DEF NoOp, Op
<1>3. turn[t] \in 1..NAgents /\ NAgents \in Nat \ {0}
  BY OrchestratorAssumption DEF TickTypes
<1>4. 1 \in Agents /\ (turn[t] = NAgents \/ turn[t] + 1 \in Agents)
  BY <1>3
<1> QED BY <1>1, <1>2, <1>4 DEF TickTypes, Advance, Release

(* Uninform keeps every operation an operation.                            *)
LEMMA UninformType ==
  ASSUME NEW f \in [Ticks -> Op], NEW w
  PROVE  Uninform(w, f) \in [Ticks -> Op]
BY DEF Uninform, Op

(* Writing one cell of a table of ticks and wallets keeps its type.         *)
LEMMA CellType ==
  ASSUME NEW S, NEW f \in [Ticks -> [Wallets -> S]], NEW t \in Ticks,
         NEW w \in Wallets, NEW v \in S
  PROVE  [f EXCEPT ![t][w] = v] \in [Ticks -> [Wallets -> S]]
<1>1. [f[t] EXCEPT ![w] = v] \in [Wallets -> S]
  OBVIOUS
<1> QED BY <1>1

(* The steps of refreshBalances keep the types.                            *)
LEMMA RefreshTypes ==
  ASSUME Types, NEW t \in Ticks, Refresh(t) PROVE Types'
<1> USE DEF Types
<1>1. CASE StartTick(t)
  <2>1. ReadTypes'
    BY <1>1 DEF StartTick, ReadTypes
  <2>2. TickTypes'
    <3>1. "refresh" \in Places /\ 1 \in Agents
      BY OrchestratorAssumption DEF Places
    <3> QED BY <1>1, <3>1 DEF StartTick, TickTypes
  <2> QED BY <1>1, <2>1, <2>2, Untouched DEF StartTick
<1>2. CASE ProcessAgents(t)
  <2>1. TickTypes'
    BY <1>2 DEF ProcessAgents, TickTypes, Places
  <2> QED BY <1>2, <2>1, Untouched DEF ProcessAgents
<1>3. ASSUME NEW w \in Wallets, ReadLiquid(t, w) \/ ReadVault(t, w) PROVE Types'
  <2>1. liquid[w] \in Nat /\ vault[w] \in Nat
    BY DEF ChainTypes
  <2>2. ReadTypes'
    <3>1. CASE ReadLiquid(t, w)
      <4>1. readLiquid' \in [Ticks -> [Wallets -> Nat \cup {NotRead}]]
        BY <2>1, <3>1, CellType DEF ReadLiquid, ReadTypes
      <4> QED BY <3>1, <4>1 DEF ReadLiquid, ReadTypes
    <3>2. CASE ReadVault(t, w)
      <4>1. readVault' \in [Ticks -> [Wallets -> Nat \cup {NotRead}]]
        BY <2>1, <3>2, CellType DEF ReadVault, ReadTypes
      <4> QED BY <3>2, <4>1 DEF ReadVault, ReadTypes
    <3> QED BY <1>3, <3>1, <3>2
  <2> QED BY <1>3, <2>2, Untouched DEF ReadLiquid, ReadVault
<1>4. ASSUME NEW w \in Wallets, Stamp(t, w) \/ RefreshFails(t, w) PROVE Types'
  <2>1. ReadTypes'
    <3>1. EndRefresh(t, w)
      BY <1>4 DEF Stamp, RefreshFails
    <3>2. /\ readLiquid' \in [Ticks -> [Wallets -> Nat \cup {NotRead}]]
          /\ readVault' \in [Ticks -> [Wallets -> Nat \cup {NotRead}]]
      BY <3>1, CellType DEF EndRefresh, ReadTypes
    <3> QED BY <3>1, <3>2 DEF EndRefresh, ReadTypes
  <2>2. AgentTypes'
    <3>1. CASE Stamp(t, w)
      <4>1. readLiquid[t][w] \in Nat /\ readVault[t][w] \in Nat
        BY <3>1 DEF Stamp, ReadTypes
      <4> QED BY <3>1, <4>1 DEF Stamp, EndRefresh, AgentTypes
    <3>2. CASE RefreshFails(t, w)
      BY <3>2 DEF RefreshFails, EndRefresh, AgentTypes
    <3> QED BY <1>4, <3>1, <3>2
  <2> QED BY <1>4, <2>1, <2>2, Untouched DEF Stamp, RefreshFails, EndRefresh
<1> QED BY <1>1, <1>2, <1>3, <1>4 DEF Refresh


(* The steps of processAgent up to its first await keep the types.         *)
LEMMA ProcessTypes ==
  ASSUME Types, NEW t \in Ticks, Process(t) PROVE Types'
<1> USE DEF Types
<1>1. Wallet(t) \in Wallets
  BY WalletType
<1>2. CASE Hold(t)
  <2>1. TickTypes'
    BY <1>2, AdvanceTypes DEF Hold
  <2> QED BY <1>2, <2>1, Untouched DEF Hold
<1>3. CASE StartPark(t)
  <2>1. /\ turn[t] \in Agents
        /\ seenLiquid[turn[t]] \in Nat /\ seenParked[turn[t]] \in Nat
    BY DEF TickTypes, AgentTypes
  <2>2. Parkable(turn[t], seenLiquid[turn[t]], seenParked[turn[t]])
          \in 0..seenLiquid[turn[t]]
    BY <2>1, ParkableFits, Zenon
  <2>3. op' \in [Ticks -> Op]
    BY <1>3, <2>1, <2>2 DEF StartPark, TickTypes, Op
  <2>4. TickTypes'
    BY <1>1, <1>3, <2>3 DEF StartPark, TickTypes, Places, InTransaction
  <2> QED BY <1>3, <2>4, Untouched DEF StartPark
<1>4. CASE StartWithdraw(t)
  <2>1. turn[t] \in Agents /\ seenParked[turn[t]] \in Nat
    BY DEF TickTypes, AgentTypes
  <2>2. op' \in [Ticks -> Op]
    BY <1>4, <2>1 DEF StartWithdraw, TickTypes, Op
  <2>3. TickTypes'
    BY <1>1, <1>4, <2>2 DEF StartWithdraw, TickTypes, Places, InTransaction
  <2> QED BY <1>4, <2>3, Untouched DEF StartWithdraw
<1> QED BY <1>2, <1>3, <1>4 DEF Process

(* A park or a withdrawal that lands moves money and makes none.           *)
LEMMA ParkTypes ==
  ASSUME ChainTypes, NEW w \in Wallets, NEW n \in Nat,
         \/ ParkSucceeds(w, n) /\ Park(w, n)
         \/ n <= vault[w] /\ Withdraw(w, n)
  PROVE  /\ liquid' \in [Wallets -> Nat] /\ vault' \in [Wallets -> Nat]
         /\ allowance' \in [Wallets -> Nat]
         /\ \A v \in Wallets : liquid'[v] + vault'[v] = Funds[v]
<1>1. /\ liquid[w] \in Nat /\ vault[w] \in Nat /\ allowance[w] \in Nat
      /\ Funds[w] \in Nat /\ liquid[w] + vault[w] = Funds[w]
  BY OrchestratorAssumption DEF ChainTypes
<1>2. CASE ParkSucceeds(w, n) /\ Park(w, n)
  <2>1. liquid[w] - n \in Nat /\ allowance[w] - n \in Nat
    BY <1>1, <1>2 DEF ParkSucceeds
  <2>2. (liquid[w] - n) + (vault[w] + n) = Funds[w]
    BY <1>1
  <2> QED BY <1>1, <1>2, <2>1, <2>2 DEF Park, ChainTypes
<1>3. CASE n <= vault[w] /\ Withdraw(w, n)
  <2>1. vault[w] - n \in Nat
    BY <1>1, <1>3
  <2>2. (liquid[w] + n) + (vault[w] - n) = Funds[w]
    BY <1>1
  <2> QED BY <1>1, <1>3, <2>1, <2>2 DEF Withdraw, ChainTypes
<1> QED BY <1>2, <1>3

(* Steps inside a transaction that go on to another place of it.           *)
LEMMA MoveTypes ==
  ASSUME TickTypes, NEW t \in Ticks, NEW p \in Places,
         pc' = [pc EXCEPT ![t] = p], op' \in [Ticks -> Op],
         UNCHANGED <<executing, turn>>
  PROVE  TickTypes'
BY DEF TickTypes

(* The steps of executePark and executeWithdraw keep the types.            *)
LEMMA ExecuteTypes ==
  ASSUME Types, NEW t \in Ticks, Execute(t) PROVE Types'
<1> USE DEF Types
<1>1. Wallet(t) \in Wallets
  BY WalletType
<1>2. /\ op \in [Ticks -> Op] /\ op[t] \in Op /\ op[t].amount \in Nat
      /\ turn[t] \in Agents
  BY DEF TickTypes, Op
<1>3. /\ liquid[Wallet(t)] \in Nat /\ vault[Wallet(t)] \in Nat
      /\ seenParked[turn[t]] \in Nat
  BY <1>1, <1>2 DEF ChainTypes, AgentTypes
<1>4. InTransaction \subseteq Places
  BY DEF Places
<1>5. CASE ApproveLands(t)
  <2>1. ChainTypes'
    BY <1>1, <1>2, <1>5 DEF ApproveLands, ChainTypes
  <2>2. TickTypes'
    <3>1. "park" \in Places
      BY <1>4 DEF InTransaction
    <3> QED BY <1>2, <1>5, <3>1, MoveTypes DEF ApproveLands
  <2> QED BY <1>5, <2>1, <2>2, Untouched DEF ApproveLands
<1>6. CASE ParkLands(t)
  <2>1. ChainTypes'
    <3>1. /\ liquid' \in [Wallets -> Nat] /\ vault' \in [Wallets -> Nat]
          /\ allowance' \in [Wallets -> Nat]
          /\ \A v \in Wallets : liquid'[v] + vault'[v] = Funds[v]
      BY <1>1, <1>2, <1>6, ParkTypes DEF ParkLands
    <3> QED BY <1>6, <3>1 DEF ParkLands, ChainTypes
  <2>2. TickTypes'
    <3>1. "parked" \in Places
      BY <1>4 DEF InTransaction
    <3>2. op' \in [Ticks -> Op]
      BY <1>2, <1>6, UninformType DEF ParkLands
    <3> QED BY <1>6, <3>1, <3>2, MoveTypes DEF ParkLands
  <2> QED BY <1>6, <2>1, <2>2, Untouched DEF ParkLands
<1>7. CASE ParkConfirmed(t)
  <2>1. AgentTypes'
    BY <1>2, <1>3, <1>7 DEF ParkConfirmed, AgentTypes
  <2>2. TickTypes'
    <3>1. "readback" \in Places
      BY <1>4 DEF InTransaction
    <3> QED BY <1>2, <1>7, <3>1, MoveTypes DEF ParkConfirmed
  <2> QED BY <1>7, <2>1, <2>2, Untouched DEF ParkConfirmed
<1>8. CASE Preflight(t)
  <2>1. AgentTypes'
    BY <1>2, <1>3, <1>8 DEF Preflight, AgentTypes
  <2>2. TickTypes'
    <3>1. CASE vault[Wallet(t)] = 0
      BY <1>8, <3>1, AdvanceTypes DEF Preflight
    <3>2. CASE vault[Wallet(t)] # 0
      <4>1. SmallerOf(op[t].amount, vault[Wallet(t)]) \in Nat
        BY <1>2, <1>3 DEF SmallerOf
      <4>2. op' \in [Ticks -> Op]
        <5>1. op' = [op EXCEPT ![t] =
                [amount   |-> SmallerOf(op[t].amount, vault[Wallet(t)]),
                 informed |-> TRUE]]
          BY <1>2, <1>8, <3>2 DEF Preflight
        <5> QED BY <1>2, <4>1, <5>1 DEF Op
      <4>3. "withdraw" \in Places
        BY <1>4 DEF InTransaction
      <4> QED BY <1>8, <3>2, <4>2, <4>3, MoveTypes DEF Preflight
    <3> QED BY <3>1, <3>2
  <2> QED BY <1>8, <2>1, <2>2, Untouched DEF Preflight
<1>9. CASE PreflightFails(t)
  <2>1. TickTypes'
    <3>1. CASE seenParked[turn[t]] = 0
      BY <1>9, <3>1, AdvanceTypes DEF PreflightFails
    <3>2. CASE seenParked[turn[t]] # 0
      <4>1. SmallerOf(op[t].amount, seenParked[turn[t]]) \in Nat
        BY <1>2, <1>3 DEF SmallerOf
      <4>2. op' \in [Ticks -> Op]
        BY <1>2, <1>9, <3>2, <4>1 DEF PreflightFails, Op
      <4>3. "withdraw" \in Places
        BY <1>4 DEF InTransaction
      <4> QED BY <1>9, <3>2, <4>2, <4>3, MoveTypes DEF PreflightFails
    <3> QED BY <3>1, <3>2
  <2> QED BY <1>9, <2>1, Untouched DEF PreflightFails
<1>10. CASE WithdrawLands(t)
  <2>1. ChainTypes'
    <3>1. /\ liquid' \in [Wallets -> Nat] /\ vault' \in [Wallets -> Nat]
          /\ allowance' \in [Wallets -> Nat]
          /\ \A v \in Wallets : liquid'[v] + vault'[v] = Funds[v]
      BY <1>1, <1>2, <1>10, ParkTypes DEF WithdrawLands
    <3> QED BY <1>10, <3>1 DEF WithdrawLands, ChainTypes
  <2>2. TickTypes'
    <3>1. "withdrawn" \in Places
      BY <1>4 DEF InTransaction
    <3>2. op' \in [Ticks -> Op]
      BY <1>2, <1>10, UninformType DEF WithdrawLands
    <3> QED BY <1>10, <3>1, <3>2, MoveTypes DEF WithdrawLands
  <2> QED BY <1>10, <2>1, <2>2, Untouched DEF WithdrawLands
<1>11. CASE WithdrawConfirmed(t)
  <2>1. AgentTypes'
    <3>1. LargerOf(0, seenParked[turn[t]] - op[t].amount) \in Nat
      BY <1>2, <1>3 DEF LargerOf
    <3> QED BY <1>2, <1>11, <3>1 DEF WithdrawConfirmed, AgentTypes
  <2>2. TickTypes'
    <3>1. "readback" \in Places
      BY <1>4 DEF InTransaction
    <3> QED BY <1>2, <1>11, <3>1, MoveTypes DEF WithdrawConfirmed
  <2> QED BY <1>11, <2>1, <2>2, Untouched DEF WithdrawConfirmed
<1>12. CASE ReadBack(t)
  <2>1. AgentTypes'
    BY <1>2, <1>3, <1>12 DEF ReadBack, AgentTypes
  <2>2. TickTypes'
    BY <1>12, AdvanceTypes DEF ReadBack
  <2> QED BY <1>12, <2>1, <2>2, Untouched DEF ReadBack
<1>13. CASE TxFails(t)
  <2>1. TickTypes'
    BY <1>13, AdvanceTypes DEF TxFails
  <2> QED BY <1>13, <2>1, Untouched DEF TxFails
<1>14. CASE TxTimesOut(t)
  <2>1. ChainTypes'
    <3>1. [kind |-> pc[t], amount |-> op[t].amount] \in LateTx
      BY <1>2, <1>14 DEF TxTimesOut, LateTx
    <3> QED BY <1>1, <1>14, <3>1 DEF TxTimesOut, ChainTypes
  <2>2. TickTypes'
    BY <1>14, AdvanceTypes DEF TxTimesOut
  <2> QED BY <1>14, <2>1, <2>2, Untouched DEF TxTimesOut
<1> QED BY <1>5, <1>6, <1>7, <1>8, <1>9, <1>10, <1>11, <1>12, <1>13, <1>14
        DEF Execute

(* Transactions that land late, or never, keep the types.                  *)
LEMMA LateTypes ==
  ASSUME Types, NEW w \in Wallets, LateLands(w) \/ LateDrops(w) PROVE Types'
<1> USE DEF Types
<1>1. CASE LateLands(w)
  <2>1. PICK tx \in late[w] :
          /\ late' = [late EXCEPT ![w] = @ \ {tx}]
          /\ \/ ParkSucceeds(w, tx.amount) /\ Park(w, tx.amount)
             \/ tx.amount <= vault[w] /\ Withdraw(w, tx.amount)
             \/ /\ allowance' = [allowance EXCEPT ![w] = tx.amount]
                /\ UNCHANGED <<liquid, vault>>
          /\ op' = Uninform(w, op)
          /\ UNCHANGED <<status, agents, executing, pc, reads, turn>>
    BY <1>1 DEF LateLands
  <2>2. tx \in LateTx /\ tx.amount \in Nat
    BY DEF ChainTypes, LateTx
  <2>3. /\ liquid' \in [Wallets -> Nat] /\ vault' \in [Wallets -> Nat]
        /\ allowance' \in [Wallets -> Nat]
        /\ \A v \in Wallets : liquid'[v] + vault'[v] = Funds[v]
    <3>1. CASE \/ ParkSucceeds(w, tx.amount) /\ Park(w, tx.amount)
               \/ tx.amount <= vault[w] /\ Withdraw(w, tx.amount)
      BY <2>2, <3>1, ParkTypes
    <3>2. CASE /\ allowance' = [allowance EXCEPT ![w] = tx.amount]
               /\ UNCHANGED <<liquid, vault>>
      BY <2>2, <3>2 DEF ChainTypes
    <3> QED BY <2>1, <3>1, <3>2
  <2>4. ChainTypes'
    <3>1. late' \in [Wallets -> SUBSET LateTx]
      BY <2>1 DEF ChainTypes
    <3> QED BY <2>3, <3>1 DEF ChainTypes
  <2>5. TickTypes'
    <3>1. op' \in [Ticks -> Op]
      BY <2>1, UninformType DEF TickTypes
    <3> QED BY <2>1, <3>1 DEF TickTypes
  <2> QED BY <2>1, <2>4, <2>5, Untouched
<1>2. CASE LateDrops(w)
  <2>1. ChainTypes'
    BY <1>2 DEF LateDrops, ChainTypes
  <2> QED BY <1>2, <2>1, Untouched DEF LateDrops
<1> QED BY <1>1, <1>2

(* Every step keeps the types.                                             *)
LEMMA TypesStep ==
  ASSUME Types, [Next]_vars PROVE Types'
<1> USE DEF Types
<1>1. ASSUME NEW a \in Agents, NEW s \in Statuses, Signal(a, s) PROVE Types'
  <2>1. AgentTypes'
    <3>1. s \in AgentStatus
      BY OrchestratorAssumption
    <3> QED BY <1>1, <3>1 DEF Signal, AgentTypes, agents
  <2> QED BY <1>1, <2>1, Untouched DEF Signal
<1>2. ASSUME NEW a \in Agents, CooldownEnds(a) PROVE Types'
  <2>1. AgentTypes'
    BY <1>2 DEF CooldownEnds, AgentTypes
  <2> QED BY <1>2, <2>1, Untouched DEF CooldownEnds
<1>3. ASSUME NEW t \in Ticks, Refresh(t) \/ Process(t) \/ Execute(t)
      PROVE  Types'
  BY <1>3, RefreshTypes, ProcessTypes, ExecuteTypes
<1>4. ASSUME NEW w \in Wallets, LateLands(w) \/ LateDrops(w) PROVE Types'
  BY <1>4, LateTypes
<1>5. CASE UNCHANGED vars
  BY <1>5, Untouched DEF vars
<1> QED BY <1>1, <1>2, <1>3, <1>4, <1>5 DEF Next

(* Every state of the loop is well typed, and the chain keeps the money of *)
(* every wallet: nothing parked is lost, no balance goes below zero.       *)
THEOREM TypeCorrect == Spec => []TypeOK
<1>1. Types => TypeOK
  <2> SUFFICES ASSUME Types PROVE TypeOK
    OBVIOUS
  <2>1. ASSUME NEW w \in Wallets
        PROVE  /\ liquid[w] \in 0..Funds[w] /\ vault[w] \in 0..Funds[w]
               /\ liquid[w] + vault[w] = Funds[w]
               /\ allowance[w] \in Nat
               /\ late[w] \subseteq LateTx
    BY OrchestratorAssumption DEF Types, ChainTypes
  <2> QED BY <2>1 DEF Types, AgentTypes, ReadTypes, TickTypes, TypeOK, LateTx,
                      Places, Op
<1> QED BY <1>1, TypesInit, TypesStep, PTL DEF Spec

-----------------------------------------------------------------------------
(* The exclusion per wallet.                                               *)

Busy(t) == pc[t] \in InTransaction

(* What a step does to the place of a tick, as the exclusion sees it.      *)
OthersStay(t) ==
  \A u \in Ticks \ {t} : pc'[u] = pc[u] /\ turn'[u] = turn[u]

Stays(t) ==
  /\ OthersStay(t) /\ UNCHANGED executing
  /\ Busy(t) <=> Busy(t)'
  /\ Busy(t) => turn'[t] = turn[t]

Enters(t) ==
  /\ OthersStay(t) /\ ~Busy(t) /\ Busy(t)' /\ turn'[t] = turn[t]
  /\ Wallet(t) \notin executing /\ executing' = executing \cup {Wallet(t)}

Leaves(t) ==
  /\ OthersStay(t) /\ Busy(t) /\ ~Busy(t)' /\ Release(t)

(* The exclusion survives each kind of step.                               *)
LEMMA ExclusionKept ==
  ASSUME OneTransactionPerWallet, NEW t \in Ticks,
         Stays(t) \/ Enters(t) \/ Leaves(t)
  PROVE  OneTransactionPerWallet'
<1> DEFINE Held == {Wallet(u) : u \in {x \in Ticks : Busy(x)}}
<1>1. /\ \A x, u \in Ticks : Busy(x) /\ Busy(u) /\ x # u => Wallet(x) # Wallet(u)
      /\ executing = Held
  BY DEF OneTransactionPerWallet, Busy
<1>2. SUFFICES /\ \A x, u \in Ticks :
                    Busy(x)' /\ Busy(u)' /\ x # u => Wallet(x)' # Wallet(u)'
               /\ executing' = Held'
  BY DEF OneTransactionPerWallet, Busy
<1>3. \A u \in Ticks \ {t} :
        (Busy(u)' <=> Busy(u)) /\ Wallet(u)' = Wallet(u)
  BY DEF Stays, Enters, Leaves, OthersStay, Busy, Wallet
<1>4. CASE Stays(t)
  <2>1. Busy(t)' <=> Busy(t)
    BY <1>4 DEF Stays
  <2>2. Busy(t) => Wallet(t)' = Wallet(t)
    BY <1>4 DEF Stays, Wallet
  <2>3. executing' = executing
    BY <1>4 DEF Stays
  <2> HIDE DEF Held
  <2>4. Held' = Held
    BY <1>3, <2>1, <2>2 DEF Held
  <2> QED BY <1>1, <1>3, <2>1, <2>2, <2>3, <2>4
<1>5. CASE Enters(t)
  <2>1. ~Busy(t) /\ Busy(t)' /\ Wallet(t)' = Wallet(t)
    BY <1>5 DEF Enters, Wallet
  <2>2. Wallet(t) \notin executing /\ executing' = executing \cup {Wallet(t)}
    BY <1>5 DEF Enters
  <2>3. \A u \in Ticks : Busy(u) => Wallet(u) # Wallet(t)
    BY <1>1, <2>2
  <2>4. Held' = Held \cup {Wallet(t)}
    BY <1>3, <2>1
  <2> QED BY <1>1, <1>3, <2>1, <2>2, <2>3, <2>4
<1>6. CASE Leaves(t)
  <2>1. Busy(t) /\ ~Busy(t)' /\ executing' = executing \ {Wallet(t)}
    BY <1>6 DEF Leaves, Release
  <2>2. \A u \in Ticks \ {t} : Busy(u) => Wallet(u) # Wallet(t)
    BY <1>1, <2>1
  <2>3. Held' = Held \ {Wallet(t)}
    BY <1>3, <2>1, <2>2
  <2> QED BY <1>1, <1>3, <2>1, <2>3
<1> QED BY <1>4, <1>5, <1>6

(* Advance leaves the transaction of the tick, and no other tick's.        *)
LEMMA AdvanceLeaves ==
  ASSUME TickTypes, NEW t \in Ticks, Advance(t)
  PROVE  OthersStay(t) /\ ~Busy(t)'
<1>1. pc'[t] \in {"turn", "over"}
  BY DEF Advance, TickTypes
<1>2. OthersStay(t)
  BY DEF Advance, TickTypes, OthersStay
<1> QED BY <1>1, <1>2 DEF Busy, InTransaction

(* A tick that moves to another place stays, as far as it is in the same   *)
(* transaction or still in none.                                           *)
LEMMA MoveStays ==
  ASSUME TickTypes, NEW t \in Ticks, NEW p, pc' = [pc EXCEPT ![t] = p],
         UNCHANGED <<executing, turn>>, Busy(t) <=> p \in InTransaction
  PROVE  Stays(t)
<1>1. pc'[t] = p /\ OthersStay(t)
  BY DEF TickTypes, OthersStay
<1> QED BY <1>1 DEF Stays, Busy

(* Every step of a tick stays in, enters or leaves a transaction.          *)
LEMMA TickMoves ==
  ASSUME Types, NEW t \in Ticks, Refresh(t) \/ Process(t) \/ Execute(t)
  PROVE  Stays(t) \/ Enters(t) \/ Leaves(t)
<1> USE DEF Types
<1>1. CASE UNCHANGED <<executing, pc, turn>>
  BY <1>1 DEF Stays, OthersStay, Busy
<1>2. CASE StartTick(t)
  <2>1. ~Busy(t) /\ pc'[t] = "refresh" /\ OthersStay(t)
    BY <1>2 DEF StartTick, TickTypes, OthersStay, Busy, InTransaction
  <2> QED BY <1>2, <2>1 DEF StartTick, Stays, Busy, InTransaction
<1>3. CASE ProcessAgents(t)
  <2>1. ~Busy(t) /\ "turn" \notin InTransaction
    BY <1>3 DEF ProcessAgents, Busy, InTransaction
  <2> QED BY <1>3, <2>1, MoveStays DEF ProcessAgents
<1>4. CASE Hold(t)
  <2>1. ~Busy(t)
    BY <1>4 DEF Hold, Busy, InTransaction
  <2> QED BY <1>4, <2>1, AdvanceLeaves DEF Hold, Stays
<1>5. CASE StartPark(t) \/ StartWithdraw(t)
  <2>1. ~Busy(t) /\ Wallet(t) \notin executing
    BY <1>5 DEF StartPark, StartWithdraw, WalletFree, Busy, InTransaction
  <2>2. /\ executing' = executing \cup {Wallet(t)} /\ turn' = turn
        /\ pc'[t] \in {"approve", "preflight"} /\ OthersStay(t)
    BY <1>5 DEF StartPark, StartWithdraw, TickTypes, OthersStay
  <2>3. Busy(t)'
    BY <2>2 DEF Busy, InTransaction
  <2> QED BY <2>1, <2>2, <2>3 DEF Enters
<1>6. CASE \/ ApproveLands(t) \/ ParkLands(t) \/ ParkConfirmed(t)
           \/ WithdrawLands(t) \/ WithdrawConfirmed(t)
  <2>1. PICK p \in {"park", "parked", "readback", "withdrawn"} :
          pc' = [pc EXCEPT ![t] = p]
    BY <1>6 DEF ApproveLands, ParkLands, ParkConfirmed, WithdrawLands,
                WithdrawConfirmed
  <2>2. Busy(t) /\ p \in InTransaction
    BY <1>6 DEF ApproveLands, ParkLands, ParkConfirmed, WithdrawLands,
                WithdrawConfirmed, Busy, InTransaction
  <2>3. UNCHANGED <<executing, turn>>
    BY <1>6 DEF ApproveLands, ParkLands, ParkConfirmed, WithdrawLands,
                WithdrawConfirmed
  <2> QED BY <2>1, <2>2, <2>3, MoveStays
<1>7. CASE Preflight(t) \/ PreflightFails(t)
  <2>1. Busy(t) /\ "withdraw" \in InTransaction
    BY <1>7 DEF Preflight, PreflightFails, Busy, InTransaction
  <2>2. \/ Advance(t) /\ Release(t)
        \/ pc' = [pc EXCEPT ![t] = "withdraw"] /\ UNCHANGED <<executing, turn>>
    BY <1>7 DEF Preflight, PreflightFails
  <2> QED BY <2>1, <2>2, AdvanceLeaves, MoveStays DEF Leaves
<1>8. CASE ReadBack(t) \/ TxFails(t) \/ TxTimesOut(t)
  <2>1. Busy(t)
    BY <1>8 DEF ReadBack, TxFails, TxTimesOut, Busy, InTransaction
  <2>2. Advance(t) /\ Release(t)
    BY <1>8 DEF ReadBack, TxFails, TxTimesOut
  <2> QED BY <2>1, <2>2, AdvanceLeaves DEF Leaves
<1>9. ASSUME NEW w \in Wallets,
             \/ ReadLiquid(t, w) \/ ReadVault(t, w)
             \/ Stamp(t, w) \/ RefreshFails(t, w)
      PROVE  UNCHANGED <<executing, pc, turn>>
  BY <1>9 DEF ReadLiquid, ReadVault, Stamp, RefreshFails, EndRefresh
<1> QED BY <1>1, <1>2, <1>3, <1>4, <1>5, <1>6, <1>7, <1>8, <1>9
        DEF Refresh, Process, Execute

(* The wallet guard (lines 53-57, 258-279): with any number of overlapping *)
(* ticks and agents per wallet, no two are in a transaction on one wallet, *)
(* and _executingWallets holds exactly the wallets with one.               *)
THEOREM WalletExclusion == Spec => []OneTransactionPerWallet
<1>1. Init => OneTransactionPerWallet
  <2> SUFFICES ASSUME Init PROVE OneTransactionPerWallet
    OBVIOUS
  <2>1. \A t \in Ticks : pc[t] \notin InTransaction
    BY DEF Init, InTransaction
  <2> QED BY <2>1 DEF Init, OneTransactionPerWallet
<1>2. Types /\ OneTransactionPerWallet /\ [Next]_vars
        => OneTransactionPerWallet'
  <2> SUFFICES ASSUME Types, OneTransactionPerWallet, [Next]_vars
               PROVE  OneTransactionPerWallet'
    OBVIOUS
  <2>1. CASE UNCHANGED <<executing, pc, turn>>
    BY <2>1 DEF OneTransactionPerWallet, Wallet
  <2>2. ASSUME NEW t \in Ticks, Refresh(t) \/ Process(t) \/ Execute(t)
        PROVE  OneTransactionPerWallet'
    BY <2>2, TickMoves, ExclusionKept
  <2>3. ASSUME \/ \E a \in Agents, s \in Statuses : Signal(a, s)
               \/ \E a \in Agents : CooldownEnds(a)
               \/ \E w \in Wallets : LateLands(w) \/ LateDrops(w)
               \/ UNCHANGED vars
        PROVE  UNCHANGED <<executing, pc, turn>>
    BY <2>3 DEF Signal, CooldownEnds, LateLands, LateDrops, vars
  <2> QED BY <2>1, <2>2, <2>3 DEF Next
<1> QED BY <1>1, <1>2, TypesInit, TypesStep, PTL DEF Spec

-----------------------------------------------------------------------------
(* What a tick relies on while its action is informed.                     *)

(* To park n from w now leaves agent a its hot reserve and its park ratio. *)
Sound(a, w, n) ==
  /\ n <= liquid[w]
  /\ 100 * (liquid[w] - n) >= HotReserve[a] * Funds[w]
  /\ 100 * (vault[w] + n) <= MaxPark[a] * Funds[w] + 50

Kept(a, w) ==
  /\ 100 * liquid[w] >= HotReserve[a] * Funds[w]
  /\ 100 * vault[w] <= MaxPark[a] * Funds[w] + 50

Reliable(t) ==
  op[t].informed =>
    LET w == Wallet(t) IN
    /\ pc[t] # "preflight"
    /\ pc[t] \in {"approve", "park"} => Sound(turn[t], w, op[t].amount)
    /\ pc[t] = "park" => allowance[w] = op[t].amount
    /\ pc[t] = "parked" => Kept(turn[t], w)
    /\ pc[t] = "withdraw" => op[t].amount <= vault[w]

(* A tick that keeps its place relies on its wallet only.                  *)
LEMMA Elsewhere ==
  ASSUME NEW t \in Ticks, Reliable(t),
         pc'[t] = pc[t], turn'[t] = turn[t], op'[t] = op[t],
         LET w == Wallet(t)
         IN  /\ liquid'[w] = liquid[w] /\ vault'[w] = vault[w]
             /\ allowance'[w] = allowance[w] \/ ~Busy(t)
  PROVE  Reliable(t)'
<1>1. Wallet(t)' = Wallet(t)
  BY DEF Wallet
<1>2. CASE Busy(t)
  BY <1>1, <1>2 DEF Reliable, Sound, Kept
<1>3. CASE ~Busy(t)
  BY <1>1, <1>3 DEF Reliable, Busy, InTransaction
<1> QED BY <1>2, <1>3

(* A tick outside its transaction relies on nothing.                       *)
LEMMA Carefree ==
  ASSUME NEW t \in Ticks, ~Busy(t)' \/ pc'[t] \in {"withdrawn", "readback"}
  PROVE  Reliable(t)'
BY DEF Reliable, Busy, InTransaction

(* Landing on w makes every other tick on w uninformed, and the ticks on   *)
(* other wallets see nothing of it.                                        *)
LEMMA LandsElsewhere ==
  ASSUME Types, NEW w \in Wallets, NEW u \in Ticks, Reliable(u),
         pc'[u] = pc[u], turn'[u] = turn[u], op'[u] = Uninform(w, op)[u],
         \A v \in Wallets \ {w} :
           liquid'[v] = liquid[v] /\ vault'[v] = vault[v] /\ allowance'[v] = allowance[v]
  PROVE  Reliable(u)'
<1>1. op[u] \in Op /\ Wallet(u) \in Wallets
  BY WalletType DEF Types, TickTypes
<1>2. CASE Wallet(u) = w
  <2>1. ~op'[u].informed
    BY <1>1, <1>2 DEF Uninform, Op
  <2> QED BY <2>1 DEF Reliable
<1>3. CASE Wallet(u) # w
  <2>1. op'[u] = op[u]
    BY <1>3 DEF Uninform
  <2> QED BY <1>1, <1>3, <2>1, Elsewhere
<1> QED BY <1>2, <1>3

(* A park or a withdrawal touches one wallet.                              *)
LEMMA ParkIsLocal ==
  ASSUME ChainTypes, NEW w \in Wallets, NEW n \in Nat, Park(w, n) \/ Withdraw(w, n)
  PROVE  \A v \in Wallets \ {w} :
           liquid'[v] = liquid[v] /\ vault'[v] = vault[v] /\ allowance'[v] = allowance[v]
BY DEF ChainTypes, Park, Withdraw

Quiet(t) ==
  \/ Refresh(t) \/ Process(t) \/ Preflight(t) \/ PreflightFails(t)
  \/ ParkConfirmed(t) \/ WithdrawConfirmed(t)
  \/ ReadBack(t) \/ TxFails(t) \/ TxTimesOut(t)

(* The steps of a tick that leave balances, deposits and allowances alone. *)
LEMMA QuietReliable ==
  ASSUME Types, NEW t \in Ticks, Reliable(t),
         UNCHANGED <<liquid, vault, allowance>>, Quiet(t)
  PROVE  Reliable(t)'
<1> USE DEF Types
<1>1. /\ Wallet(t) \in Wallets /\ turn[t] \in Agents /\ op[t] \in Op
      /\ op[t].amount \in Nat /\ op \in [Ticks -> Op]
  BY WalletType DEF TickTypes, Op
<1>2. CASE UNCHANGED <<pc, turn, op>>
  BY <1>2, Elsewhere
<1>3. CASE ~Busy(t)' \/ pc'[t] \in {"withdrawn", "readback"}
  BY <1>3, Carefree
<1>4. CASE StartPark(t)
  <2> DEFINE a == turn[t]
             w == Wallet(t)
             n == Parkable(a, seenLiquid[a], seenParked[a])
  <2>1. /\ pc'[t] = "approve" /\ turn' = turn /\ op'[t].amount = n
        /\ op'[t].informed => seenLiquid[a] = liquid[w] /\ seenParked[a] = vault[w]
        /\ ParkableHundredths(a, seenLiquid[a], seenParked[a]) >= 100 * MinRoute[a]
    BY <1>1, <1>4 DEF StartPark, TickTypes, MayPark
  <2>2. /\ liquid[w] \in Nat /\ vault[w] \in Nat
        /\ liquid[w] + vault[w] = Funds[w]
    BY <1>1 DEF ChainTypes
  <2>3. ASSUME op'[t].informed PROVE Sound(a, w, n)
    <3>1. /\ n = Parkable(a, liquid[w], vault[w])
          /\ ParkableHundredths(a, liquid[w], vault[w]) >= 100 * MinRoute[a]
      BY <2>1, <2>3
    <3>2. /\ n \in 0..liquid[w]
          /\ 100 * (liquid[w] - n) >= HotReserve[a] * (liquid[w] + vault[w])
          /\ 100 * (vault[w] + n) <= MaxPark[a] * (liquid[w] + vault[w]) + 50
      BY <1>1, <2>2, <3>1, ParkableFits, Zenon
    <3>3. n <= liquid[w]
      <4>1. liquid[w] \in Nat /\ n \in 0..liquid[w]
        BY <2>2, <3>2
      <4> HIDE DEF n
      <4> QED BY <4>1
    <3> HIDE DEF n
    <3> QED BY <2>2, <3>2, <3>3 DEF Sound
  <2>4. Wallet(t)' = w
    BY <2>1 DEF Wallet
  <2> HIDE DEF n
  <2> QED BY <2>1, <2>3, <2>4 DEF Reliable, Sound
<1>5. CASE StartWithdraw(t)
  <2>1. ~op'[t].informed
    BY <1>1, <1>5 DEF StartWithdraw
  <2> QED BY <2>1 DEF Reliable
<1>6. CASE Preflight(t) /\ pc'[t] = "withdraw"
  <2>1. vault[Wallet(t)] \in Nat
    BY <1>1 DEF ChainTypes
  <2>2. vault[Wallet(t)] # 0
    BY <1>6 DEF Preflight, Advance, TickTypes
  <2>3. /\ op'[t].amount = SmallerOf(op[t].amount, vault[Wallet(t)])
        /\ turn' = turn
    BY <1>1, <1>6, <2>2 DEF Preflight
  <2>4. op'[t].amount <= vault[Wallet(t)]
    BY <1>1, <2>1, <2>3 DEF SmallerOf
  <2>5. Wallet(t)' = Wallet(t)
    BY <2>3 DEF Wallet
  <2> QED BY <1>6, <2>4, <2>5 DEF Reliable
<1>7. CASE PreflightFails(t) /\ pc'[t] = "withdraw"
  <2>1. ~op[t].informed
    BY <1>7 DEF PreflightFails, Reliable
  <2>2. seenParked[turn[t]] # 0
    BY <1>7 DEF PreflightFails, Advance, TickTypes
  <2>3. op'[t].informed = op[t].informed
    BY <1>1, <1>7, <2>2 DEF PreflightFails, Op
  <2> QED BY <2>1, <2>3 DEF Reliable
<1>8. CASE Advance(t)
  BY <1>8, AdvanceLeaves, Carefree
<1>9. CASE StartTick(t) \/ ProcessAgents(t)
  <2>1. pc'[t] \in {"refresh", "turn"}
    BY <1>9 DEF StartTick, ProcessAgents, TickTypes
  <2> QED BY <2>1, Carefree DEF Busy, InTransaction
<1>10. CASE ParkConfirmed(t) \/ WithdrawConfirmed(t)
  <2>1. pc'[t] = "readback"
    BY <1>10 DEF ParkConfirmed, WithdrawConfirmed, TickTypes
  <2> QED BY <2>1, Carefree
<1>11. ASSUME NEW w \in Wallets,
              \/ ReadLiquid(t, w) \/ ReadVault(t, w)
              \/ Stamp(t, w) \/ RefreshFails(t, w)
       PROVE  UNCHANGED <<pc, turn, op>>
  BY <1>11 DEF ReadLiquid, ReadVault, Stamp, RefreshFails, EndRefresh
<1>12. Preflight(t) \/ PreflightFails(t) => Advance(t) \/ pc'[t] = "withdraw"
  BY DEF Preflight, PreflightFails, TickTypes
<1>13. Hold(t) \/ ReadBack(t) \/ TxFails(t) \/ TxTimesOut(t) => Advance(t)
  BY DEF Hold, ReadBack, TxFails, TxTimesOut
<1> QED BY <1>2, <1>4, <1>5, <1>6, <1>7, <1>8, <1>9, <1>10, <1>11, <1>12,
           <1>13 DEF Quiet, Refresh, Process

(* The steps of t leave the place of every other tick alone, but that what *)
(* lands makes them uninformed.                                            *)
LEMMA OthersUntouched ==
  ASSUME Types, NEW t \in Ticks, Quiet(t) \/ ApproveLands(t)
  PROVE  \A u \in Ticks \ {t} :
           pc'[u] = pc[u] /\ turn'[u] = turn[u] /\ op'[u] = op[u]
<1> USE DEF Types, TickTypes
<1>1. ASSUME NEW w \in Wallets,
             \/ ReadLiquid(t, w) \/ ReadVault(t, w)
             \/ Stamp(t, w) \/ RefreshFails(t, w)
      PROVE  UNCHANGED <<pc, turn, op>>
  BY <1>1 DEF ReadLiquid, ReadVault, Stamp, RefreshFails, EndRefresh
<1>2. CASE Refresh(t)
  BY <1>1, <1>2 DEF Refresh, StartTick, ProcessAgents
<1>3. CASE Advance(t)
  BY <1>3 DEF Advance
<1>4. CASE StartPark(t) \/ StartWithdraw(t)
  BY <1>4 DEF StartPark, StartWithdraw
<1>5. CASE Preflight(t) \/ PreflightFails(t)
  BY <1>3, <1>5 DEF Preflight, PreflightFails
<1>6. CASE ApproveLands(t) \/ ParkConfirmed(t) \/ WithdrawConfirmed(t)
  BY <1>6 DEF ApproveLands, ParkConfirmed, WithdrawConfirmed
<1>7. Hold(t) \/ ReadBack(t) \/ TxFails(t) \/ TxTimesOut(t) => Advance(t)
  BY DEF Hold, ReadBack, TxFails, TxTimesOut
<1> QED BY <1>2, <1>3, <1>4, <1>5, <1>6, <1>7 DEF Quiet, Process

(* Every step keeps what the informed ticks rely on.                       *)
LEMMA ReliableStep ==
  ASSUME Types, OneTransactionPerWallet, \A u \in Ticks : Reliable(u),
         [Next]_vars
  PROVE  \A u \in Ticks : Reliable(u)'
<1> USE DEF Types
<1>1. CASE UNCHANGED <<liquid, vault, allowance, pc, turn, op>>
  BY <1>1, Elsewhere
<1>2. ASSUME NEW t \in Ticks, Quiet(t) PROVE \A u \in Ticks : Reliable(u)'
  <2>1. UNCHANGED <<liquid, vault, allowance>>
    BY <1>2 DEF Quiet, Refresh, Process, StartTick, ProcessAgents, ReadLiquid,
         ReadVault, Stamp, RefreshFails, EndRefresh, Hold, StartPark,
         StartWithdraw, Preflight, PreflightFails, ParkConfirmed,
         WithdrawConfirmed, ReadBack, TxFails, TxTimesOut, chain
  <2>2. Reliable(t)'
    BY <1>2, <2>1, QuietReliable
  <2>3. ASSUME NEW u \in Ticks \ {t} PROVE Reliable(u)'
    BY <1>2, <2>1, OthersUntouched, Elsewhere
  <2> QED BY <2>2, <2>3
<1>3. ASSUME NEW t \in Ticks, ApproveLands(t)
      PROVE  \A u \in Ticks : Reliable(u)'
  <2>1. /\ Busy(t) /\ pc[t] = "approve" /\ pc'[t] = "park" /\ turn' = turn
        /\ op' = op /\ liquid' = liquid /\ vault' = vault
        /\ allowance' = [allowance EXCEPT ![Wallet(t)] = op[t].amount]
    BY <1>3 DEF ApproveLands, TickTypes, Busy, InTransaction
  <2>2. Reliable(t)'
    <3>1. Wallet(t)' = Wallet(t) /\ Wallet(t) \in Wallets
      BY <2>1, WalletType DEF Wallet
    <3>2. allowance'[Wallet(t)] = op[t].amount
      BY <2>1, <3>1 DEF ChainTypes
    <3> QED BY <2>1, <3>1, <3>2 DEF Reliable, Sound
  <2>3. ASSUME NEW u \in Ticks \ {t} PROVE Reliable(u)'
    <3>1. Busy(u) => Wallet(u) # Wallet(t)
      BY <2>1 DEF OneTransactionPerWallet, Busy
    <3>2. pc'[u] = pc[u] /\ turn'[u] = turn[u] /\ op'[u] = op[u]
      BY <1>3, OthersUntouched
    <3>3. Wallet(u) \in Wallets /\ Wallet(t) \in Wallets
      BY WalletType
    <3>4. allowance'[Wallet(u)] = allowance[Wallet(u)] \/ ~Busy(u)
      BY <2>1, <3>1, <3>3 DEF ChainTypes
    <3> QED BY <2>1, <3>2, <3>4, Elsewhere
  <2> QED BY <2>2, <2>3
<1>4. ASSUME NEW t \in Ticks, ParkLands(t) \/ WithdrawLands(t)
      PROVE  \A u \in Ticks : Reliable(u)'
  <2> DEFINE w == Wallet(t)
             n == op[t].amount
  <2>1. w \in Wallets /\ n \in Nat
    BY WalletType DEF TickTypes, Op
  <2>2. \A v \in Wallets \ {w} :
          /\ liquid'[v] = liquid[v] /\ vault'[v] = vault[v]
          /\ allowance'[v] = allowance[v]
    BY <1>4, <2>1, ParkIsLocal DEF ParkLands, WithdrawLands
  <2>3. turn' = turn /\ op' = [Uninform(w, op) EXCEPT ![t] = op[t]]
    BY <1>4 DEF ParkLands, WithdrawLands
  <2>4. ASSUME NEW u \in Ticks \ {t} PROVE Reliable(u)'
    <3>1. pc'[u] = pc[u]
      BY <1>4 DEF ParkLands, WithdrawLands, TickTypes
    <3>2. op'[u] = Uninform(w, op)[u]
      BY <2>3 DEF Uninform
    <3> QED BY <2>1, <2>2, <2>3, <3>1, <3>2, LandsElsewhere
  <2>5. Reliable(t)'
    <3>1. CASE WithdrawLands(t)
      <4>1. pc'[t] = "withdrawn"
        BY <3>1 DEF WithdrawLands, TickTypes
      <4> QED BY <4>1, Carefree
    <3>2. CASE ParkLands(t)
      <4>1. /\ pc[t] = "park" /\ pc'[t] = "parked" /\ op'[t] = op[t]
            /\ Wallet(t)' = w /\ turn'[t] = turn[t]
        BY <2>3, <3>2 DEF ParkLands, TickTypes, Wallet, Uninform
      <4>2. liquid'[w] = liquid[w] - n /\ vault'[w] = vault[w] + n
        BY <2>1, <3>2 DEF ParkLands, Park, ChainTypes
      <4>3. op[t].informed => Sound(turn[t], w, n)
        BY <4>1 DEF Reliable
      <4> QED BY <4>1, <4>2, <4>3 DEF Reliable, Sound, Kept
    <3> QED BY <1>4, <3>1, <3>2
  <2> QED BY <2>4, <2>5
<1>5. ASSUME NEW w \in Wallets, LateLands(w)
      PROVE  \A u \in Ticks : Reliable(u)'
  <2>1. UNCHANGED <<pc, turn>> /\ op' = Uninform(w, op)
    BY <1>5 DEF LateLands
  <2>2. PICK tx \in late[w] :
          \/ Park(w, tx.amount) \/ Withdraw(w, tx.amount)
          \/ /\ allowance' = [allowance EXCEPT ![w] = tx.amount]
             /\ UNCHANGED <<liquid, vault>>
    BY <1>5 DEF LateLands
  <2>3. tx.amount \in Nat
    BY DEF ChainTypes, LateTx
  <2>4. \A v \in Wallets \ {w} :
          /\ liquid'[v] = liquid[v] /\ vault'[v] = vault[v]
          /\ allowance'[v] = allowance[v]
    BY <2>2, <2>3, ParkIsLocal DEF ChainTypes
  <2> QED BY <2>1, <2>4, LandsElsewhere
<1>6. ASSUME \/ \E a \in Agents, s \in Statuses : Signal(a, s)
             \/ \E a \in Agents : CooldownEnds(a)
             \/ \E w \in Wallets : LateDrops(w)
             \/ UNCHANGED vars
      PROVE  UNCHANGED <<liquid, vault, allowance, pc, turn, op>>
  BY <1>6 DEF Signal, CooldownEnds, LateDrops, vars, chain
<1> QED BY <1>1, <1>2, <1>3, <1>4, <1>5, <1>6 DEF Next, Execute, Quiet

(* The invariant of the loop.                                              *)
Inv == Types /\ OneTransactionPerWallet /\ \A t \in Ticks : Reliable(t)

(* Types and exclusion carry it: none of the three is inductive alone but    *)
(* the types.                                                              *)
LEMMA Invariant == Spec => []Inv
<1>1. Init => \A t \in Ticks : Reliable(t)
  BY DEF Init, NoOp, Reliable
<1>2. Inv /\ [Next]_vars => (\A t \in Ticks : Reliable(t))'
  BY ReliableStep DEF Inv
<1>3. Spec => []Types
  BY TypesInit, TypesStep, PTL DEF Spec
<1> QED BY <1>1, <1>2, <1>3, WalletExclusion, PTL DEF Spec, Inv

(* A park decided on true balances, with nothing landing in between, keeps *)
(* the hot reserve and the park ratio (PolicyEngine.ts 26-47), whatever    *)
(* the ratios of the agents and the money of the wallets.                  *)
THEOREM ParkKeepsReserve == Spec => []InformedParkKeepsReserve
<1>1. Inv => InformedParkKeepsReserve
  BY DEF Inv, Reliable, Kept, InformedParkKeepsReserve
<1> QED BY <1>1, Invariant, PTL

(* The preflight of executeWithdraw and the wallet guard are enough: an    *)
(* informed withdrawal is covered by the deposit, an informed park by the  *)
(* allowance that the same tick approved and by the liquid balance.        *)
THEOREM TxSucceeds == Spec => []InformedTxSucceeds
<1>1. Inv => InformedTxSucceeds
  <2> SUFFICES ASSUME Inv, NEW t \in Ticks, op[t].informed
               PROVE  /\ pc[t] = "withdraw" => op[t].amount <= vault[Wallet(t)]
                      /\ pc[t] = "park" => ParkSucceeds(Wallet(t), op[t].amount)
    BY DEF InformedTxSucceeds
  <2>1. /\ pc[t] = "withdraw" => op[t].amount <= vault[Wallet(t)]
        /\ pc[t] = "park" => /\ op[t].amount <= liquid[Wallet(t)]
                             /\ allowance[Wallet(t)] = op[t].amount
    BY DEF Inv, Reliable, Sound
  <2>2. op[t].amount \in Nat
    BY DEF Inv, Types, TickTypes, Op
  <2> QED BY <2>1, <2>2 DEF ParkSucceeds
<1> QED BY <1>1, Invariant, PTL

=============================================================================
