---------------------------- MODULE WalletPromise ----------------------------
(***************************************************************************)
(* What executeContract and transfer of a wallet adapter promise about a   *)
(* transaction, and all that their callers may build on: COMPLETE is said  *)
(* of a transaction that has landed, "terminated" of one that never will,  *)
(* and a call that throws says nothing about what becomes of it.           *)
(***************************************************************************)
CONSTANT Calls

VARIABLES
  fate,   (* of the transaction of each call *)
  told    (* how each call ended *)

Fates == {"none", "pending", "landed", "failed"}
Tellings == {"nothing", "submitted", "complete", "terminated", "thrown"}

Init == fate = [c \in Calls |-> "none"] /\ told = [c \in Calls |-> "nothing"]

Broadcast(c) ==
  /\ fate[c] = "none" /\ told[c] = "nothing"
  /\ fate' = [fate EXCEPT ![c] = "pending"]
  /\ told' \in {told} \cup {[told EXCEPT ![c] = t] : t \in {"submitted", "thrown"}}

Settle(c) ==
  /\ fate[c] = "pending"
  /\ \E f \in {"landed", "failed"} : fate' = [fate EXCEPT ![c] = f]
  /\ UNCHANGED told

Answer(c) ==
  /\ told[c] = "nothing"
  /\ \E t \in {"complete", "terminated", "thrown"} :
       /\ t = "complete" => fate[c] = "landed"
       /\ t = "terminated" => fate[c] = "failed"
       /\ told' = [told EXCEPT ![c] = t]
  /\ UNCHANGED fate

Next == \E c \in Calls : Broadcast(c) \/ Settle(c) \/ Answer(c)

Spec == Init /\ [][Next]_<<fate, told>>
=============================================================================
