----------------------------- MODULE MCExecutor -----------------------------
(* Executor on two jobs that contend for one account.                      *)
EXTENDS Executor, TLC

MCAccountOf == [j \in Jobs |-> CHOOSE a \in Accounts : TRUE]
============================================================================
