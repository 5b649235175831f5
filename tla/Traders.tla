-------------------------------- MODULE Traders --------------------------------
(***************************************************************************)
(* What the trade simulator and the yield loop of the dashboard share:     *)
(* the agents that getOrCreateOrchestrator registers, the status each has  *)
(* signalled and whether any of its money is parked.                       *)
(***************************************************************************)
EXTENDS Integers

CONSTANT NAgents
Agents == 1..NAgents      (* in the order of this.agents *)

VARIABLES status, parked

InitTraders ==
  /\ status = [a \in Agents |-> "IDLE"]
  /\ parked = [a \in Agents |-> FALSE]

(* STATE_PERMISSIONS *)
CanPark(s) == s \in {"IDLE", "WATCHING", "COOLDOWN", "PAUSED"}
MustRecall(s) == s \in {"PRE_TRADE", "EMERGENCY"}

Signal(a, s) == status' = [status EXCEPT ![a] = s]
=============================================================================
