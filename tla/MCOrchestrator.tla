--------------------------- MODULE MCOrchestrator ---------------------------
(* Orchestrator with the presets: agent 1 is aggressive, 2 conservative.   *)
(* The money of the wallet they share is 10.1 USDC.                        *)
EXTENDS Orchestrator, TLC

TickSymmetry == Permutations(Ticks)

MCWalletOf == [a \in Agents |-> CHOOSE w \in Wallets : TRUE]
Preset(a) == STRATEGY_PRESETS[IF a = 1 THEN "aggressive" ELSE "conservative"]
MCHotReserve == [a \in Agents |-> Preset(a).hotReserve]
MCMaxPark == [a \in Agents |-> Preset(a).maxPark]
MCMinRoute == [a \in Agents |-> Preset(a).minRoute]
MCFunds == [w \in Wallets |-> 101]
=============================================================================
