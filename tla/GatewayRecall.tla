---------------------------- MODULE GatewayRecall ----------------------------
(***************************************************************************)
(* The cross-chain recall of sdk/src/FloatClient.ts (gatewayRecall): money *)
(* is withdrawn from the vault of the source chain, deposited in Circle's  *)
(* Gateway, burnt there against an attestation and minted in the wallet of *)
(* the destination chain, by four transactions, a signature and a request. *)
(* Any of them may fail or time out; the recall then throws, and nothing   *)
(* resumes it: who asks again starts from the withdrawal.                  *)
(*                                                                         *)
(* Each transaction is a call of a wallet adapter that keeps WalletPromise *)
(* (CircleCli implements it).  The chains run the transactions of a wallet *)
(* in the order of their nonces.                                           *)
(***************************************************************************)
EXTENDS Integers, Sequences, FiniteSets, FiniteSetsExt

CONSTANTS
  Recalls,             (* the calls, among them those that try again *)
  Amount,              (* of each                                    *)
  Fees,                (* what the Gateway may charge, up to maxFee  *)
  Vault0, Source0      (* the money at first on the source chain     *)

ASSUME GatewayAssumption ==
  /\ IsFiniteSet(Recalls) /\ Fees \subseteq Nat /\ Amount \in [Recalls -> Nat \ {0}]
  /\ Vault0 \in Nat /\ Source0 \in Nat

TxSteps == {"withdraw", "approve", "deposit", "mint"}
Txs == Recalls \X TxSteps

VARIABLES
  fate, told,                          (* of each transaction: WalletPromise *)
  vault, source, allowance, gateway,   (* the source chain                   *)
  charged,                             (* the fees of the Gateway so far     *)
  attestation,                         (* of each recall: none, held or used *)
  destination,                         (* what was minted                    *)
  queue,                               (* of each chain: pending, by nonce   *)
  pc,                                  (* where each recall is               *)
  disturbed       (* whether a recall had another, or its remains, beside it *)

money  == <<vault, source, allowance, gateway, charged, attestation, destination>>
wallet == <<fate, told>>
vars   == <<wallet, money, queue, pc, disturbed>>

Adapter == INSTANCE WalletPromise WITH Calls <- Txs

Init ==
  /\ Adapter!Init
  /\ vault = Vault0 /\ source = Source0
  /\ allowance = 0 /\ gateway = 0 /\ charged = 0 /\ destination = 0
  /\ attestation = [r \in Recalls |-> "none"]
  /\ queue = [chain \in {"source", "destination"} |-> <<>>]
  /\ pc = [r \in Recalls |-> "idle"]
  /\ disturbed = [r \in Recalls |-> FALSE]

Go(r, place) == pc' = [pc EXCEPT ![r] = place]
Active(r) == pc[r] \notin {"idle", "complete", "failed"}
ChainOf(step) == IF step = "mint" THEN "destination" ELSE "source"

-----------------------------------------------------------------------------
(* gatewayRecall.                                                          *)

Call(r) ==
  /\ pc[r] = "idle"
  /\ Go(r, "withdraw")
  /\ disturbed' = [q \in Recalls |->
       \/ disturbed[q]
       \/ q = r /\ \/ \E other \in Recalls : Active(other)
                   \/ \E chain \in DOMAIN queue : queue[chain] # <<>>
       \/ q # r /\ Active(q)]
  /\ UNCHANGED <<wallet, money, queue>>

(* An unsupported chain, or no address: nothing has moved yet.             *)
Rejected(r) ==
  /\ pc[r] = "idle" /\ Go(r, "failed")
  /\ UNCHANGED <<wallet, money, queue, disturbed>>

(* executeContract broadcasts; it may throw having done so.                *)
Submit(r) ==
  LET step == pc[r] IN
  /\ step \in TxSteps
  /\ Adapter!Broadcast(<<r, step>>) /\ told'[<<r, step>>] # "submitted"
  /\ queue' = [queue EXCEPT ![ChainOf(step)] = Append(@, <<r, step>>)]
  /\ Go(r, IF told' = told THEN step ELSE "failed")
  /\ UNCHANGED <<money, disturbed>>

mutAfter == [withdraw |-> "deposit", approve |-> "deposit", deposit |-> "sign",
             sign |-> "attest", attest |-> "mint", mint |-> "complete"]
After == [withdraw |-> "approve", approve |-> "deposit", deposit |-> "sign",
          sign |-> "attest", attest |-> "mint", mint |-> "complete"]

mutAnswered(r) ==
  LET step == pc[r] IN
  /\ step \in TxSteps
  /\ Adapter!Answer(<<r, step>>)
  /\ Go(r, IF told'[<<r, step>>] # "thrown" THEN After[step] ELSE "failed")
  /\ UNCHANGED <<money, queue, disturbed>>
mutUnawaited(r) ==
  LET step == pc[r] IN
  /\ step \in TxSteps
  /\ Adapter!Answer(<<r, step>>)
  /\ Go(r, IF told'[<<r, step>>] = "complete" \/ (step = "mint" /\ fate[<<r, step>>] = "pending")
           THEN After[step] ELSE "failed")
  /\ UNCHANGED <<money, queue, disturbed>>
Answered(r) ==
  LET step == pc[r] IN
  /\ step \in TxSteps
  /\ Adapter!Answer(<<r, step>>)
  /\ Go(r, IF told'[<<r, step>>] = "complete" THEN After[step] ELSE "failed")
  /\ UNCHANGED <<money, queue, disturbed>>

(* Whether the wallet can sign is found out only now.                      *)
Sign(r) ==
  /\ pc[r] = "sign"
  /\ Go(r, After.sign) \/ Go(r, "failed")
  /\ UNCHANGED <<wallet, money, queue, disturbed>>

(* The Gateway refuses, or burns the deposit and attests it; the answer    *)
(* may be lost or lack the attestation.  The salt makes each intent new.   *)
(* The fee is taken from the deposit, beside what is burnt, and each       *)
(* deposit is of the bare amount: it is there only if a failed recall left *)
(* something.                                                              *)
Attest(r) ==
  /\ pc[r] = "attest"
  /\ \/ Go(r, "failed") /\ UNCHANGED money
     \/ /\ \E fee \in Fees :
             /\ gateway >= Amount[r] + fee
             /\ gateway' = gateway - Amount[r] - fee /\ charged' = charged + fee
        /\ attestation' = [attestation EXCEPT ![r] = "held"]
        /\ Go(r, After.attest) \/ Go(r, "failed")
        /\ UNCHANGED <<vault, source, allowance, destination>>
  /\ UNCHANGED <<wallet, queue, disturbed>>

-----------------------------------------------------------------------------
(* The chains.                                                             *)

Possible(r, step) ==
  \/ step = "withdraw" /\ vault >= Amount[r]
  \/ step = "approve"
  \/ step = "deposit" /\ allowance >= Amount[r] /\ source >= Amount[r]
  \/ step = "mint" /\ attestation[r] = "held"

Run(r, step) ==
  \/ /\ step = "withdraw"
     /\ vault' = vault - Amount[r] /\ source' = source + Amount[r]
     /\ UNCHANGED <<allowance, gateway, charged, attestation, destination>>
  \/ /\ step = "approve" /\ allowance' = Amount[r]
     /\ UNCHANGED <<vault, source, gateway, charged, attestation, destination>>
  \/ /\ step = "deposit"
     /\ source' = source - Amount[r] /\ gateway' = gateway + Amount[r]
     /\ allowance' = allowance - Amount[r]
     /\ UNCHANGED <<vault, charged, attestation, destination>>
  \/ /\ step = "mint"
     /\ attestation' = [attestation EXCEPT ![r] = "used"]
     /\ destination' = destination + Amount[r]
     /\ UNCHANGED <<vault, source, allowance, gateway, charged>>

(* The next transaction of a wallet runs, reverts, or is dropped.          *)
Settle(chain) ==
  /\ queue[chain] # <<>>
  /\ LET tx == Head(queue[chain]) IN
       /\ Adapter!Settle(tx)
       /\ IF fate'[tx] = "landed"
          THEN Possible(tx[1], tx[2]) /\ Run(tx[1], tx[2])
          ELSE UNCHANGED money
  /\ queue' = [queue EXCEPT ![chain] = Tail(@)]
  /\ UNCHANGED <<pc, disturbed>>

-----------------------------------------------------------------------------
Next ==
  \/ \E r \in Recalls :
       Call(r) \/ Rejected(r) \/ Submit(r) \/ Answered(r) \/ Sign(r) \/ Attest(r)
  \/ \E chain \in DOMAIN queue : Settle(chain)

Spec == Init /\ [][Next]_vars

-----------------------------------------------------------------------------
Landed(r, step) == fate[<<r, step>>] = "landed"
Total(set) == FoldSet(LAMBDA r, sum : Amount[r] + sum, 0, set)

(* A failed recall leaves its money where it stopped and nowhere else      *)
(* (lines 284-437): in the source wallet once its withdrawal landed, even  *)
(* late, in the Gateway once its deposit did, less the Gateway's fees, and *)
(* under its attestation after that; so a recall never sends across money  *)
(* that the source wallet held before, and what is asked again is          *)
(* withdrawn again.                                                        *)
MoneyStaysWhereItStopped ==
  /\ vault = Vault0 - Total({r \in Recalls : Landed(r, "withdraw")})
  /\ source = Source0 + Total({r \in Recalls :
                 Landed(r, "withdraw") /\ ~Landed(r, "deposit")})
  /\ source >= Source0
  /\ gateway + charged = Total({r \in Recalls :
                 Landed(r, "deposit") /\ attestation[r] = "none"})

(* A recall that returned COMPLETE (lines 421-437) has minted its amount,  *)
(* each once: the destination holds that and only what recalls minted that *)
(* timed out in their last step.                                           *)
CompleteIsPaid ==
  /\ destination = Total({r \in Recalls : attestation[r] = "used"})
  /\ \A r \in Recalls : pc[r] = "complete" => attestation[r] = "used"
  /\ \A r \in Recalls : attestation[r] = "used" =>
       pc[r] \in {"mint", "complete"} \/ told[<<r, "mint">>] = "thrown"

(* A recall that had the source wallet for itself never reverts after its  *)
(* withdrawal: what it approved and withdrew is there for its deposit.     *)
(* Two at once may overwrite each other's approval (lines 294-303).        *)
AloneNeverReverts ==
  \A chain \in DOMAIN queue : queue[chain] # <<>> =>
    LET tx == Head(queue[chain]) IN
      disturbed[tx[1]] \/ tx[2] = "withdraw" \/ Possible(tx[1], tx[2])
=============================================================================
