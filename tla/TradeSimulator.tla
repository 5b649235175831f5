---------------------------- MODULE TradeSimulator ----------------------------
(***************************************************************************)
(* dashboard/src/lib/float/TradeSimulator.ts: each trader trades now and   *)
(* then.  A timer starts executeTrade, which signals PRE_TRADE, polls for  *)
(* its capital until a deadline, signals EXECUTING, COOLDOWN and IDLE, and *)
(* arms the timer of the next trade.  The owner may trigger a trade, stop  *)
(* the simulator and start it again, whatever is in progress.              *)
(*                                                                         *)
(* timers maps an agent to its last timer.  A timer that scheduleNextTrade *)
(* overwrites there while it runs is out of the reach of clearTimeout.     *)
(* The two reads before the first poll await nothing but themselves, so    *)
(* they are one step with the signal.                                      *)
(***************************************************************************)
EXTENDS Traders, FiniteSets

CONSTANT MaxTrades   (* bound on the trades in progress *)
Trades == 1..MaxTrades    (* their names: the least free is taken *)

VARIABLES
  simulating,   (* TradeSimulator.running                                  *)
  armed,        (* how many timers of each agent run                       *)
  held,         (* whether the one in timers does                          *)
  trade         (* the trades in progress                                  *)

simulator == <<simulating, armed, held, trade>>

NoTrade == [agent |-> 0, at |-> "off"]
TradesOf(a) == {t \in Trades : trade[t].at # "off" /\ trade[t].agent = a}

InitSimulator ==
  /\ simulating = FALSE
  /\ armed = [a \in Agents |-> 0] /\ held = [a \in Agents |-> FALSE]
  /\ trade = [t \in Trades |-> NoTrade]

(* scheduleNextTrade. *)
ScheduleNextTrade(agents) ==
  /\ armed' = [a \in Agents |-> armed[a] + IF a \in agents THEN 1 ELSE 0]
  /\ held' = [a \in Agents |-> held[a] \/ a \in agents]

StartSimulator ==
  IF simulating
  THEN UNCHANGED simulator
  ELSE /\ simulating' = TRUE
       /\ ScheduleNextTrade(Agents)
       /\ UNCHANGED trade

mutStopSimulator ==
  /\ simulating' = FALSE
  /\ UNCHANGED <<armed, held, trade>>
StopSimulator ==
  /\ simulating' = FALSE
  /\ armed' = [a \in Agents |-> armed[a] - IF held[a] THEN 1 ELSE 0]
  /\ held' = [a \in Agents |-> FALSE]
  /\ UNCHANGED trade

-----------------------------------------------------------------------------
(* executeTrade. *)

BeginTrade(t, a) ==
  /\ trade[t].at = "off" /\ \A u \in 1..(t - 1) : trade[u].at # "off"
  /\ trade' = [trade EXCEPT ![t] = [agent |-> a, at |-> "waiting"]]
  /\ Signal(a, "PRE_TRADE")

(* A timer fires: the one that timers holds, or one it has lost.           *)
TimerFires(t, a) ==
  /\ \/ held[a] /\ held' = [held EXCEPT ![a] = FALSE]
     \/ armed[a] > (IF held[a] THEN 1 ELSE 0) /\ UNCHANGED held
  /\ armed' = [armed EXCEPT ![a] = @ - 1]
  /\ IF simulating THEN BeginTrade(t, a) ELSE UNCHANGED <<trade, status>>
  /\ UNCHANGED <<simulating, parked>>

(* A poll finds nothing parked or enough that is not, or the last one does *)
(* not.                                                                    *)
StopsWaiting(t) ==
  /\ trade[t].at = "waiting"
  /\ trade' = [trade EXCEPT ![t].at = "executing"]
  /\ Signal(trade[t].agent, "EXECUTING")
  /\ UNCHANGED <<simulating, armed, held, parked>>

Cools(t) ==
  /\ trade[t].at = "executing"
  /\ trade' = [trade EXCEPT ![t].at = "cooling"]
  /\ Signal(trade[t].agent, "COOLDOWN")
  /\ UNCHANGED <<simulating, armed, held, parked>>

mutEndTrade(t) ==
  /\ trade[t].at = "cooling"
  /\ trade' = [trade EXCEPT ![t] = NoTrade]
  /\ IF simulating
     THEN Signal(trade[t].agent, "IDLE") /\ ScheduleNextTrade({trade[t].agent})
     ELSE UNCHANGED <<armed, held, status>>
  /\ UNCHANGED <<simulating, parked>>
EndTrade(t) ==
  /\ trade[t].at = "cooling"
  /\ trade' = [trade EXCEPT ![t] = NoTrade]
  /\ Signal(trade[t].agent, "IDLE")
  /\ IF simulating
     THEN ScheduleNextTrade({trade[t].agent})
     ELSE UNCHANGED <<armed, held>>
  /\ UNCHANGED <<simulating, parked>>

(* triggerRandomTrade: the timer of the agent is cleared, not its trades.  *)
TriggerTrade(t, a) ==
  /\ armed' = [armed EXCEPT ![a] = @ - IF held[a] THEN 1 ELSE 0]
  /\ held' = [held EXCEPT ![a] = FALSE]
  /\ BeginTrade(t, a)

TradeStep(t) == StopsWaiting(t) \/ Cools(t) \/ EndTrade(t)
=============================================================================
