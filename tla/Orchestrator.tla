---------------------------- MODULE Orchestrator ----------------------------
(***************************************************************************)
(* The yield loop of dashboard/src/lib/float/Orchestrator.ts with the      *)
(* rules of PolicyEngine.ts.  A tick refreshes the balances of every       *)
(* wallet, then takes the agents in turn; one that parks or withdraws      *)
(* awaits each of its transactions.  setInterval does not wait for a tick  *)
(* to end, so ticks overlap.  Agents may share a wallet.                   *)
(*                                                                         *)
(* The vault, the token and the confirmation by the adapter are external:  *)
(* a transaction lands, fails, or times out and may land later, in the     *)
(* order of the wallet's nonces.  Traders signal their status at any time  *)
(* and move no money (TradeSimulator moves none).  The parkability score   *)
(* is any score, as the market and the clocks that it depends on are.      *)
(***************************************************************************)
EXTENDS Integers, FiniteSets

CONSTANTS
  NAgents,      (* agents are 1..NAgents, in the order of this.agents      *)
  Wallets,
  WalletOf,
  HotReserve,   (* minHotReserveRatio of each agent, in percent            *)
  MaxPark,      (* maxParkRatio of each agent, in percent                  *)
  MinRoute,     (* minRouteAmount of each agent, in units of money         *)
  Funds,        (* the money of each wallet, liquid and parked             *)
  Statuses,     (* the statuses that traders signal                        *)
  Ticks,        (* bound on the ticks of the loop: one name each           *)
  MaxLate       (* bound on timed-out transactions of a wallet             *)

Agents == 1..NAgents

AgentStatus == {"ACTIVE", "IDLE", "WATCHING", "PRE_TRADE", "EXECUTING",
                "COOLDOWN", "PAUSED", "EMERGENCY"}

(* The presets of types.ts: percentages, and minRouteAmount in tenths of   *)
(* a USDC.  Their cooldowns and thresholds are left to CooldownEnds and to *)
(* the score.                                                              *)
STRATEGY_PRESETS ==
  [aggressive   |-> [hotReserve |-> 40, maxPark |-> 75, minRoute |-> 5],
   balanced     |-> [hotReserve |-> 35, maxPark |-> 55, minRoute |-> 10],
   conservative |-> [hotReserve |-> 55, maxPark |-> 30, minRoute |-> 20]]

ASSUME OrchestratorAssumption ==
  /\ NAgents \in Nat \ {0} /\ MaxLate \in Nat
  /\ WalletOf \in [Agents -> Wallets]
  /\ HotReserve \in [Agents -> 0..100] /\ MaxPark \in [Agents -> 0..100]
  /\ MinRoute \in [Agents -> Nat \ 0..2] /\ Funds \in [Wallets -> Nat]
  /\ Statuses \subseteq AgentStatus

VARIABLES
  liquid, vault, allowance,   (* the chain: per wallet                     *)
  late,        (* per wallet, timed-out transactions still pending         *)
  status,      (* of each agent, as signalled                              *)
  seenLiquid, seenParked,     (* agent.liquidBalance, agent.parkedBalance  *)
  fresh,       (* agent.balanceFresh                                       *)
  cooling,     (* the agent acted within its cooldown                      *)
  executing,   (* _executingWallets                                        *)
  pc,          (* where each tick is                                       *)
  unread,      (* the wallets each tick has still to refresh               *)
  readLiquid, readVault,      (* what a refresh has read so far            *)
  turn,        (* the agent each tick is processing                        *)
  op           (* the action each tick is executing                        *)

chain  == <<liquid, vault, allowance, late>>
agents == <<seenLiquid, seenParked, fresh, cooling>>
reads  == <<unread, readLiquid, readVault>>
vars   == <<chain, status, agents, executing, pc, reads, turn, op>>

NotRead == -1
NoOp == [amount |-> 0, informed |-> FALSE]

SmallerOf(a, b) == IF a < b THEN a ELSE b
LargerOf(a, b)  == IF a > b THEN a ELSE b

-----------------------------------------------------------------------------
(* PolicyEngine.ts.                                                        *)

CanPark    == {"IDLE", "WATCHING", "COOLDOWN", "PAUSED"}
MustRecall == {"PRE_TRADE", "EMERGENCY"}

(* calculateCapitalStatus: parkableAmount in hundredths of a base unit,    *)
(* with the warm reserve of 15%; the score rounds it to base units.        *)
mutParkableHundredths(a, l, p) ==
  LET total == l + p
  IN LargerOf(0, LargerOf((85 - HotReserve[a]) * total, MaxPark[a] * total)
                   - 100 * p)
ParkableHundredths(a, l, p) ==
  LET total == l + p
      idle  == LargerOf(0, (85 - HotReserve[a]) * total)
  IN LargerOf(0, SmallerOf(idle, MaxPark[a] * total) - 100 * p)

Parkable(a, l, p) == (ParkableHundredths(a, l, p) + 50) \div 100

(* calculateParkabilityScore for some score: the actions it may choose.    *)
MayPark(a) ==
  /\ status[a] \in CanPark
  /\ ParkableHundredths(a, seenLiquid[a], seenParked[a]) >= 100 * MinRoute[a]

MayWithdraw(a) ==
  /\ status[a] \in CanPark \cup MustRecall
  /\ seenParked[a] > 0

MayHold(a) == ~(status[a] \in MustRecall /\ seenParked[a] > 0)

-----------------------------------------------------------------------------
Init ==
  /\ liquid = Funds
  /\ vault = [w \in Wallets |-> 0] /\ allowance = [w \in Wallets |-> 0]
  /\ late = [w \in Wallets |-> {}]
  /\ status = [a \in Agents |-> "IDLE"]
  /\ seenLiquid = [a \in Agents |-> 0] /\ seenParked = [a \in Agents |-> 0]
  /\ fresh = [a \in Agents |-> FALSE] /\ cooling = [a \in Agents |-> FALSE]
  /\ executing = {}
  /\ pc = [t \in Ticks |-> "off"] /\ unread = [t \in Ticks |-> {}]
  /\ readLiquid = [t \in Ticks |-> [w \in Wallets |-> NotRead]]
  /\ readVault = [t \in Ticks |-> [w \in Wallets |-> NotRead]]
  /\ turn = [t \in Ticks |-> 1] /\ op = [t \in Ticks |-> NoOp]

(* The wallet of the agent that tick t is processing.                      *)
Wallet(t) == WalletOf[turn[t]]

Signal(a, s) ==
  /\ status[a] # s
  /\ status' = [status EXCEPT ![a] = s]
  /\ UNCHANGED <<chain, agents, executing, pc, reads, turn, op>>

CooldownEnds(a) ==
  /\ cooling[a]
  /\ cooling' = [cooling EXCEPT ![a] = FALSE]
  /\ UNCHANGED <<chain, status, seenLiquid, seenParked, fresh, executing, pc,
                 reads, turn, op>>

-----------------------------------------------------------------------------
(* refreshBalances: the two reads of a wallet are concurrent.              *)

StartTick(t) ==
  /\ pc[t] = "off"
  /\ pc' = [pc EXCEPT ![t] = "refresh"]
  /\ unread' = [unread EXCEPT ![t] = Wallets]
  /\ turn' = [turn EXCEPT ![t] = 1]
  /\ UNCHANGED <<chain, status, agents, executing, readLiquid, readVault, op>>

ReadLiquid(t, w) ==
  /\ w \in unread[t] /\ readLiquid[t][w] = NotRead
  /\ readLiquid' = [readLiquid EXCEPT ![t][w] = liquid[w]]
  /\ UNCHANGED <<chain, status, agents, executing, pc, unread, readVault,
                 turn, op>>

ReadVault(t, w) ==
  /\ w \in unread[t] /\ readVault[t][w] = NotRead
  /\ readVault' = [readVault EXCEPT ![t][w] = vault[w]]
  /\ UNCHANGED <<chain, status, agents, executing, pc, unread, readLiquid,
                 turn, op>>

EndRefresh(t, w) ==
  /\ unread' = [unread EXCEPT ![t] = @ \ {w}]
  /\ readLiquid' = [readLiquid EXCEPT ![t][w] = NotRead]
  /\ readVault' = [readVault EXCEPT ![t][w] = NotRead]
  /\ UNCHANGED <<chain, status, cooling, executing, pc, turn, op>>

Stamp(t, w) ==
  /\ w \in unread[t]
  /\ readLiquid[t][w] # NotRead /\ readVault[t][w] # NotRead
  /\ seenLiquid' = [a \in Agents |-> IF WalletOf[a] = w THEN readLiquid[t][w]
                                     ELSE seenLiquid[a]]
  /\ seenParked' = [a \in Agents |-> IF WalletOf[a] = w THEN readVault[t][w]
                                     ELSE seenParked[a]]
  /\ fresh' = [a \in Agents |-> WalletOf[a] = w \/ fresh[a]]
  /\ EndRefresh(t, w)

RefreshFails(t, w) ==
  /\ w \in unread[t]
  /\ fresh' = [a \in Agents |-> WalletOf[a] # w /\ fresh[a]]
  /\ UNCHANGED <<seenLiquid, seenParked>>
  /\ EndRefresh(t, w)

ProcessAgents(t) ==
  /\ pc[t] = "refresh" /\ unread[t] = {}
  /\ pc' = [pc EXCEPT ![t] = "turn"]
  /\ UNCHANGED <<chain, status, agents, executing, reads, turn, op>>

-----------------------------------------------------------------------------
(* processAgent, up to its first await.                                    *)

(* The loop goes on to the next agent, or the tick ends.                   *)
Advance(t) ==
  /\ pc' = [pc EXCEPT ![t] = IF turn[t] = NAgents THEN "over" ELSE "turn"]
  /\ turn' = [turn EXCEPT ![t] = IF @ = NAgents THEN 1 ELSE @ + 1]
  /\ op' = [op EXCEPT ![t] = NoOp]

mutWalletFree(w) == TRUE
WalletFree(w) == w \notin executing

(* HOLD, whatever the reason: the balances are stale (or have grown old),  *)
(* the cooldown or the wallet guard, or the assessment.                    *)
Hold(t) ==
  /\ pc[t] = "turn"
  /\ \/ ~fresh[turn[t]] \/ ~WalletFree(Wallet(t)) \/ MayHold(turn[t])
  /\ Advance(t)
  /\ UNCHANGED <<chain, status, agents, executing, reads>>

StartPark(t) ==
  LET a == turn[t] IN
  /\ pc[t] = "turn" /\ fresh[a] /\ MayPark(a) /\ ~cooling[a]
  /\ WalletFree(Wallet(t))
  /\ executing' = executing \cup {Wallet(t)}
  /\ pc' = [pc EXCEPT ![t] = "approve"]
  /\ op' = [op EXCEPT ![t] =
       [amount   |-> Parkable(a, seenLiquid[a], seenParked[a]),
        informed |-> /\ seenLiquid[a] = liquid[Wallet(t)]
                     /\ seenParked[a] = vault[Wallet(t)]]]
  /\ UNCHANGED <<chain, status, agents, reads, turn>>

StartWithdraw(t) ==
  LET a == turn[t] IN
  /\ pc[t] = "turn" /\ fresh[a] /\ MayWithdraw(a)
  /\ WalletFree(Wallet(t))
  /\ executing' = executing \cup {Wallet(t)}
  /\ pc' = [pc EXCEPT ![t] = "preflight"]
  /\ op' = [op EXCEPT ![t] = [amount |-> seenParked[a], informed |-> FALSE]]
  /\ UNCHANGED <<chain, status, agents, reads, turn>>

-----------------------------------------------------------------------------
(* executePark and executeWithdraw, one await at a time.                   *)

mutRelease(t) == executing' = {}
Release(t) == executing' = executing \ {Wallet(t)}

(* The nonce order: nothing lands past a pending transaction.              *)
NoneAhead(w) == late[w] = {}

(* What lands on w makes the other actions on w uninformed.                *)
Uninform(w, ops) ==
  [t \in Ticks |-> IF Wallet(t) = w THEN [ops[t] EXCEPT !.informed = FALSE]
                                    ELSE ops[t]]

ApproveLands(t) ==
  /\ pc[t] = "approve" /\ NoneAhead(Wallet(t))
  /\ allowance' = [allowance EXCEPT ![Wallet(t)] = op[t].amount]
  /\ pc' = [pc EXCEPT ![t] = "park"]
  /\ UNCHANGED <<liquid, vault, late, status, agents, executing, reads, turn,
                 op>>

ParkSucceeds(w, amount) == amount <= allowance[w] /\ amount <= liquid[w]

Park(w, amount) ==
  /\ liquid' = [liquid EXCEPT ![w] = @ - amount]
  /\ vault' = [vault EXCEPT ![w] = @ + amount]
  /\ allowance' = [allowance EXCEPT ![w] = @ - amount]

Withdraw(w, amount) ==
  /\ liquid' = [liquid EXCEPT ![w] = @ + amount]
  /\ vault' = [vault EXCEPT ![w] = @ - amount]
  /\ UNCHANGED allowance

ParkLands(t) ==
  /\ pc[t] = "park" /\ NoneAhead(Wallet(t))
  /\ ParkSucceeds(Wallet(t), op[t].amount)
  /\ Park(Wallet(t), op[t].amount)
  /\ pc' = [pc EXCEPT ![t] = "parked"]
  /\ op' = [Uninform(Wallet(t), op) EXCEPT ![t] = op[t]]
  /\ UNCHANGED <<late, status, agents, executing, reads, turn>>

(* After the confirmation; the read of the new balance comes next.         *)
ParkConfirmed(t) ==
  /\ pc[t] = "parked"
  /\ seenParked' = [seenParked EXCEPT ![turn[t]] = @ + op[t].amount]
  /\ cooling' = [cooling EXCEPT ![turn[t]] = TRUE]
  /\ pc' = [pc EXCEPT ![t] = "readback"]
  /\ UNCHANGED <<chain, status, seenLiquid, fresh, executing, reads, turn, op>>

(* The preflight read of the deposit, or the cache if the RPC fails.       *)
mutPreflight(t) ==
  /\ pc[t] = "preflight"
  /\ op' = [op EXCEPT ![t].informed = TRUE]
  /\ pc' = [pc EXCEPT ![t] = "withdraw"]
  /\ UNCHANGED <<chain, status, agents, executing, reads, turn>>
Preflight(t) ==
  LET deposit == vault[Wallet(t)] IN
  /\ pc[t] = "preflight"
  /\ seenParked' = [seenParked EXCEPT ![turn[t]] = deposit]
  /\ IF deposit = 0
     THEN Advance(t) /\ Release(t)
     ELSE /\ op' = [op EXCEPT ![t] = [amount |-> SmallerOf(@.amount, deposit),
                                      informed |-> TRUE]]
          /\ pc' = [pc EXCEPT ![t] = "withdraw"]
          /\ UNCHANGED <<executing, turn>>
  /\ UNCHANGED <<chain, status, seenLiquid, fresh, cooling, reads>>

PreflightFails(t) ==
  /\ pc[t] = "preflight"
  /\ IF seenParked[turn[t]] = 0
     THEN Advance(t) /\ Release(t)
     ELSE /\ op' = [op EXCEPT ![t].amount = SmallerOf(@, seenParked[turn[t]])]
          /\ pc' = [pc EXCEPT ![t] = "withdraw"]
          /\ UNCHANGED <<executing, turn>>
  /\ UNCHANGED <<chain, status, agents, reads>>

WithdrawLands(t) ==
  /\ pc[t] = "withdraw" /\ NoneAhead(Wallet(t))
  /\ op[t].amount <= vault[Wallet(t)]
  /\ Withdraw(Wallet(t), op[t].amount)
  /\ pc' = [pc EXCEPT ![t] = "withdrawn"]
  /\ op' = [Uninform(Wallet(t), op) EXCEPT ![t] = op[t]]
  /\ UNCHANGED <<late, status, agents, executing, reads, turn>>

WithdrawConfirmed(t) ==
  /\ pc[t] = "withdrawn"
  /\ seenParked' =
       [seenParked EXCEPT ![turn[t]] = LargerOf(0, @ - op[t].amount)]
  /\ cooling' = [cooling EXCEPT ![turn[t]] = TRUE]
  /\ pc' = [pc EXCEPT ![t] = "readback"]
  /\ UNCHANGED <<chain, status, seenLiquid, fresh, executing, reads, turn, op>>

(* getUSDCBalance answers, or throws and the action is logged as failed.   *)
ReadBack(t) ==
  /\ pc[t] = "readback"
  /\ seenLiquid' \in {[seenLiquid EXCEPT ![turn[t]] = liquid[Wallet(t)]],
                      seenLiquid}
  /\ Release(t) /\ Advance(t)
  /\ UNCHANGED <<chain, status, seenParked, fresh, cooling, reads>>

(* executeContract throws: refused, reverted, or the poll timed out.       *)
TxFails(t) ==
  /\ pc[t] \in {"approve", "park", "withdraw"}
  /\ Release(t) /\ Advance(t)
  /\ UNCHANGED <<chain, status, agents, reads>>

TxTimesOut(t) ==
  /\ pc[t] \in {"approve", "park", "withdraw"}
  /\ Cardinality(late[Wallet(t)]) < MaxLate
  /\ late' = [late EXCEPT ![Wallet(t)] =
                @ \cup {[kind |-> pc[t], amount |-> op[t].amount]}]
  /\ Release(t) /\ Advance(t)
  /\ UNCHANGED <<liquid, vault, allowance, status, agents, reads>>

LateLands(w) ==
  \E tx \in late[w] :
    /\ late' = [late EXCEPT ![w] = @ \ {tx}]
    /\ \/ /\ tx.kind = "park" /\ ParkSucceeds(w, tx.amount)
          /\ Park(w, tx.amount)
       \/ /\ tx.kind = "withdraw" /\ tx.amount <= vault[w]
          /\ Withdraw(w, tx.amount)
       \/ /\ tx.kind = "approve"
          /\ allowance' = [allowance EXCEPT ![w] = tx.amount]
          /\ UNCHANGED <<liquid, vault>>
    /\ op' = Uninform(w, op)
    /\ UNCHANGED <<status, agents, executing, pc, reads, turn>>

LateDrops(w) ==
  \E tx \in late[w] :
    /\ late' = [late EXCEPT ![w] = @ \ {tx}]
    /\ UNCHANGED <<liquid, vault, allowance, status, agents, executing, pc,
                   reads, turn, op>>

-----------------------------------------------------------------------------
Refresh(t) ==
  \/ StartTick(t) \/ ProcessAgents(t)
  \/ \E w \in Wallets : \/ ReadLiquid(t, w) \/ ReadVault(t, w)
                        \/ Stamp(t, w) \/ RefreshFails(t, w)

Process(t) == Hold(t) \/ StartPark(t) \/ StartWithdraw(t)

Execute(t) ==
  \/ ApproveLands(t) \/ ParkLands(t) \/ ParkConfirmed(t)
  \/ Preflight(t) \/ PreflightFails(t) \/ WithdrawLands(t)
  \/ WithdrawConfirmed(t) \/ ReadBack(t) \/ TxFails(t) \/ TxTimesOut(t)

Next ==
  \/ \E a \in Agents, s \in Statuses : Signal(a, s)
  \/ \E a \in Agents : CooldownEnds(a)
  \/ \E t \in Ticks : Refresh(t) \/ Process(t) \/ Execute(t)
  \/ \E w \in Wallets : LateLands(w) \/ LateDrops(w)

Spec == Init /\ [][Next]_vars

-----------------------------------------------------------------------------
InTransaction == {"approve", "park", "parked", "preflight", "withdraw",
                  "withdrawn", "readback"}

(* Every variable has its type; no balance, deposit or allowance is ever   *)
(* negative or more than the money of its wallet.                          *)
TypeOK ==
  /\ \A w \in Wallets :
       /\ liquid[w] \in 0..Funds[w] /\ vault[w] \in 0..Funds[w]
       /\ liquid[w] + vault[w] = Funds[w]
       /\ allowance[w] \in Nat
       /\ late[w] \subseteq [kind : {"approve", "park", "withdraw"}, amount : Nat]
  /\ status \in [Agents -> AgentStatus]
  /\ seenLiquid \in [Agents -> Nat] /\ seenParked \in [Agents -> Nat]
  /\ fresh \in [Agents -> BOOLEAN] /\ cooling \in [Agents -> BOOLEAN]
  /\ executing \subseteq Wallets
  /\ pc \in [Ticks -> InTransaction \cup {"off", "refresh", "turn", "over"}]
  /\ unread \in [Ticks -> SUBSET Wallets]
  /\ turn \in [Ticks -> Agents]
  /\ op \in [Ticks -> [amount : Nat, informed : BOOLEAN]]

(* "prevent concurrent CLI calls / nonce collisions" (lines 53-57): of all *)
(* overlapping ticks, at most one is in a transaction on a wallet, and     *)
(* exactly then the wallet is in _executingWallets.                        *)
OneTransactionPerWallet ==
  /\ \A t, u \in Ticks :
       pc[t] \in InTransaction /\ pc[u] \in InTransaction /\ t # u =>
         Wallet(t) # Wallet(u)
  /\ executing = {Wallet(t) : t \in {u \in Ticks : pc[u] \in InTransaction}}

(* A park computed from balances that were true, with nothing landing in   *)
(* between, leaves the agent's hot reserve and respects its park ratio,    *)
(* which the rounding to base units may exceed by half a unit.             *)
InformedParkKeepsReserve ==
  \A t \in Ticks :
    LET w == Wallet(t)
        a == turn[t] IN
    pc[t] = "parked" /\ op[t].informed =>
      /\ 100 * liquid[w] >= HotReserve[a] * Funds[w]
      /\ 100 * vault[w] <= MaxPark[a] * Funds[w] + 50

(* The vault never refuses a withdrawal whose preflight read the deposit,  *)
(* nor the token a park that was informed, unless a transaction given up   *)
(* as timed out lands in between (the preflight and the wallet guard).     *)
InformedTxSucceeds ==
  \A t \in Ticks :
    /\ pc[t] = "withdraw" /\ op[t].informed =>
         op[t].amount <= vault[Wallet(t)]
    /\ pc[t] = "park" /\ op[t].informed =>
         ParkSucceeds(Wallet(t), op[t].amount)

-----------------------------------------------------------------------------
(* What a comment says, and the code does not keep.                        *)

(* "Never park more than this %" (types.ts:23), whatever the balances were *)
(* that the park was computed from: the code reads them once in a tick, in *)
(* two calls (lines 124-137), and other ticks and late transactions move   *)
(* them meanwhile.                                                         *)
ParkRatioIsKept ==
  \A t \in Ticks :
    pc[t] = "parked" =>
      100 * vault[Wallet(t)] <= MaxPark[turn[t]] * Funds[Wallet(t)] + 50

=============================================================================
