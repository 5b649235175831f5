------------------------------ MODULE Executor ------------------------------
(***************************************************************************)
(* The job executor of services/executor/src/executor.ts: one job per      *)
(* idempotency key, a state machine from DRAFT to RECONCILED, an           *)
(* account lock (store.byAccount) and a submitter that is awaited.         *)
(*                                                                         *)
(* submitJob is one synchronous step up to `await submitter(job)` and one  *)
(* more when the promise settles; every other operation is synchronous,    *)
(* and any of them may run while the submitter is awaited.                 *)
(*                                                                         *)
(* The submitter and the chain are external.  An attempt handed to the     *)
(* submitter is "sent", reaches the chain ("pending") or never does        *)
(* ("lost"), and a pending transaction is mined, to "success" or           *)
(* "reverted".  A transaction hash is the number of its attempt.           *)
(***************************************************************************)
EXTENDS Naturals

CONSTANTS
  Jobs,         (* idempotency keys                                        *)
  Accounts,     (* lower-cased account addresses                           *)
  AccountOf,    (* the account each job acts for                           *)
  NoJob,        (* byAccount has no entry                                  *)
  MaxAttempts,  (* bound on the attempts of a job                          *)
  MaxTime,      (* bound on the clock                                      *)
  TimeoutsCarryHash,       (* every TimeoutError names its transaction     *)
  ConfirmedMeansExecuted,  (* reconcileJob's `confirmed` is given as true  *)
                           (* only for a transaction that did not revert   *)
  BareConfirmsOwn          (* and, when no hash comes with it, only for    *)
                           (* the transaction of job.txHash (if any)       *)

ASSUME ExecutorAssumption ==
  /\ AccountOf \in [Jobs -> Accounts]
  /\ NoJob \notin Jobs
  /\ MaxAttempts \in Nat
  /\ MaxTime \in Nat
  /\ TimeoutsCarryHash \in BOOLEAN
  /\ ConfirmedMeansExecuted \in BOOLEAN
  /\ BareConfirmsOwn \in BOOLEAN

VARIABLES
  state,     (* job.state; "NONE" before createJob                         *)
  deadline,  (* the earlier of the approval's expiry and its quote's       *)
  txHash,    (* job.txHash; NoHash is null                                 *)
  attempts,  (* job.attempts                                               *)
  sending,   (* jobs whose submitter promise is pending                    *)
  chain,     (* what became of each attempt                                *)
  holder,    (* store.byAccount                                            *)
  clock,     (* the caller's nowSeconds                                    *)
  revoked    (* history: jobs cancelled since their last attempt was made  *)

vars == <<state, deadline, txHash, attempts, sending, chain, holder, clock,
          revoked>>

NoHash == 0

JobStates == {"DRAFT", "SIMULATED", "AWAITING_APPROVAL", "APPROVED",
              "SUBMITTING", "SUBMITTED", "CONFIRMED", "RECONCILED",
              "REJECTED", "EXPIRED", "CANCELLED", "FAILED",
              "RECONCILIATION_REQUIRED"}

Broadcast == {"SUBMITTED", "CONFIRMED", "RECONCILED"}

Attempts == 1..MaxAttempts

TxStatus == {"unsent", "sent", "lost", "pending", "success", "reverted"}

(* An attempt that may still execute, one that never will, one on chain.   *)
Open    == {"sent", "pending"}
Void    == {"lost", "reverted"}
Mined   == {"success", "reverted"}
OnChain == {"pending"} \cup Mined

----------------------------------------------------------------------------

Init ==
  /\ state = [j \in Jobs |-> "NONE"]
  /\ deadline = [j \in Jobs |-> 0]
  /\ txHash = [j \in Jobs |-> NoHash]
  /\ attempts = [j \in Jobs |-> 0]
  /\ sending = {}
  /\ chain = [j \in Jobs |-> [n \in Attempts |-> "unsent"]]
  /\ holder = [a \in Accounts |-> NoJob]
  /\ clock = 0
  /\ revoked = {}

Goto(j, s) == state' = [state EXCEPT ![j] = s]

(* lockAccount does not throw; lockAccount; unlockAccount.                 *)
MayLock(j) == holder[AccountOf[j]] \in {NoJob, j}
Lock(j)    == holder' = [holder EXCEPT ![AccountOf[j]] = j]
Unlock(j)  == holder' = [holder EXCEPT
                 ![AccountOf[j]] = IF @ = j THEN NoJob ELSE @]

(* What the operations that only move the job's state leave alone.         *)
OnlyState == UNCHANGED <<deadline, txHash, attempts, sending, chain, holder,
                         clock, revoked>>

createJob(j) == state[j] = "NONE" /\ Goto(j, "DRAFT") /\ OnlyState

markSimulated(j) == state[j] = "DRAFT" /\ Goto(j, "SIMULATED") /\ OnlyState

requestApproval(j) ==
  state[j] = "SIMULATED" /\ Goto(j, "AWAITING_APPROVAL") /\ OnlyState

(* The approval is bound to this job (its digest matches) and both its     *)
(* expiries are in the future.                                             *)
attachApproval(j) ==
  /\ state[j] = "AWAITING_APPROVAL"
  /\ \E d \in (clock + 1)..(MaxTime + 1) : deadline' = [deadline EXCEPT ![j] = d]
  /\ Goto(j, "APPROVED")
  /\ UNCHANGED <<txHash, attempts, sending, chain, holder, clock, revoked>>

rejectJob(j) ==
  /\ state[j] \in {"AWAITING_APPROVAL", "APPROVED"}
  /\ Goto(j, "REJECTED")
  /\ OnlyState

(* MUTANT: the guard on broadcast jobs is dropped.                         *)
mutInvalidatesBroadcast(j) ==
  /\ state[j] # "NONE"
  /\ Goto(j, "EXPIRED")
  /\ OnlyState

(* A newer policy version: every job not yet broadcast, whatever else its  *)
(* state, expires; the account lock is not touched.                        *)
invalidateOnPolicyChange(j) ==
  /\ state[j] \notin {"NONE"} \cup Broadcast
  /\ Goto(j, "EXPIRED")
  /\ OnlyState

cancelJob(j) ==
  /\ state[j] \notin {"NONE", "CANCELLED", "EXPIRED", "FAILED"} \cup Broadcast
  /\ Goto(j, "CANCELLED")
  /\ Unlock(j)
  /\ revoked' = IF state[j] \in {"SUBMITTING", "RECONCILIATION_REQUIRED"}
                THEN revoked \cup {j} ELSE revoked
  /\ UNCHANGED <<deadline, txHash, attempts, sending, chain, clock>>

----------------------------------------------------------------------------
(* submitJob, and retryJob, which moves FAILED to APPROVED and calls it.   *)

(* MUTANT: a retry straight after a timeout.                               *)
mutRetryAfterTimeout == {"APPROVED", "FAILED", "RECONCILIATION_REQUIRED"}

Submittable == {"APPROVED", "FAILED"}

(* lockAccount throws after retryJob has already made the job APPROVED.    *)
retryJobLocked(j) ==
  /\ state[j] = "FAILED"
  /\ ~MayLock(j)
  /\ Goto(j, "APPROVED")
  /\ OnlyState

(* The gate refuses, or the approval or quote has expired.                 *)
submitJobRefused(j) ==
  /\ state[j] \in Submittable
  /\ MayLock(j)
  /\ \/ Goto(j, "REJECTED")
     \/ deadline[j] <= clock /\ Goto(j, "EXPIRED")
  /\ Unlock(j)
  /\ UNCHANGED <<deadline, txHash, attempts, sending, chain, clock, revoked>>

(* The gate passes: SUBMITTING, and the job is handed to the submitter.    *)
submitJobSend(j) ==
  /\ state[j] \in Submittable
  /\ MayLock(j)
  /\ deadline[j] > clock
  /\ attempts[j] < MaxAttempts
  /\ Goto(j, "SUBMITTING")
  /\ Lock(j)
  /\ attempts' = [attempts EXCEPT ![j] = @ + 1]
  /\ chain' = [chain EXCEPT ![j][attempts[j] + 1] = "sent"]
  /\ sending' = sending \cup {j}
  /\ revoked' = revoked \ {j}
  /\ UNCHANGED <<deadline, txHash, clock>>

(* The promise resolves: the result is recorded whatever happened to the   *)
(* job in the meantime.                                                    *)
submitterReturns(j) ==
  /\ j \in sending
  /\ chain[j][attempts[j]] \in OnChain
  /\ Goto(j, "SUBMITTED")
  /\ txHash' = [txHash EXCEPT ![j] = attempts[j]]
  /\ sending' = sending \ {j}
  /\ UNCHANGED <<deadline, attempts, chain, holder, clock, revoked>>

(* MUTANT: a timeout releases the account, like any other error.           *)
mutTimeoutUnlocks(j) ==
  /\ j \in sending
  /\ Goto(j, "RECONCILIATION_REQUIRED")
  /\ \/ txHash' = [txHash EXCEPT ![j] = attempts[j]]
     \/ ~TimeoutsCarryHash /\ UNCHANGED txHash
  /\ Unlock(j)
  /\ sending' = sending \ {j}
  /\ UNCHANGED <<deadline, attempts, chain, clock, revoked>>

(* It rejects with a TimeoutError: the outcome is unknown, the lock kept.  *)
submitterTimesOut(j) ==
  /\ j \in sending
  /\ Goto(j, "RECONCILIATION_REQUIRED")
  /\ \/ txHash' = [txHash EXCEPT ![j] = attempts[j]]
     \/ ~TimeoutsCarryHash /\ UNCHANGED txHash
  /\ sending' = sending \ {j}
  /\ UNCHANGED <<deadline, attempts, chain, holder, clock, revoked>>

(* It rejects with another error: nothing was broadcast.                   *)
submitterFails(j) ==
  /\ j \in sending
  /\ chain[j][attempts[j]] = "lost"
  /\ Goto(j, "FAILED")
  /\ Unlock(j)
  /\ sending' = sending \ {j}
  /\ UNCHANGED <<deadline, txHash, attempts, chain, clock, revoked>>

----------------------------------------------------------------------------

(* When a caller gives `confirmed` as true, having seen attempt n on chain *)
(* and named it or not.                                                    *)
Confirmable(j, n, named) ==
  /\ chain[j][n] \in (IF ConfirmedMeansExecuted THEN {"success"} ELSE Mined)
  /\ named \/ ~BareConfirmsOwn \/ txHash[j] \in {NoHash, n}

(* The caller has seen attempt n of this job on chain; onchain.txHash      *)
(* (null unless named) and onchain.confirmed are given independently: only *)
(* a hash that is named is compared with the stored one and replaces a     *)
(* null one.  The case that only records a mismatch in job.error changes   *)
(* nothing that is modelled.                                               *)
reconcileJob(j, n, named, confirmed) ==
  /\ state[j] \in {"RECONCILIATION_REQUIRED", "SUBMITTED"}
  /\ chain[j][n] \in OnChain
  /\ named => txHash[j] \in {NoHash, n}
  /\ confirmed => Confirmable(j, n, named)
  /\ txHash' = IF named THEN [txHash EXCEPT ![j] = n] ELSE txHash
  /\ state' = IF confirmed THEN [state EXCEPT ![j] = "CONFIRMED"] ELSE state
  /\ UNCHANGED <<deadline, attempts, sending, chain, holder, clock, revoked>>

(* MUTANT: any receipt confirms.                                           *)
mutAnyReceiptConfirms(j) ==
  /\ state[j] \in {"SUBMITTED", "CONFIRMED"}
  /\ txHash[j] # NoHash
  /\ chain[j][txHash[j]] \in Mined
  /\ Goto(j, "CONFIRMED")
  /\ OnlyState

(* The receipt of job.txHash arrives.                                      *)
confirmJob(j) ==
  /\ state[j] \in {"SUBMITTED", "CONFIRMED"}
  /\ txHash[j] # NoHash
  /\ \/ /\ chain[j][txHash[j]] = "reverted"
        /\ Goto(j, "FAILED")
        /\ Unlock(j)
     \/ /\ chain[j][txHash[j]] = "success"
        /\ Goto(j, "CONFIRMED")
        /\ UNCHANGED holder
  /\ UNCHANGED <<deadline, txHash, attempts, sending, chain, clock, revoked>>

(* MUTANT: the account is not released.                                    *)
mutKeepsLock(j) ==
  state[j] = "CONFIRMED" /\ Goto(j, "RECONCILED") /\ OnlyState

markReconciled(j) ==
  /\ state[j] = "CONFIRMED"
  /\ Goto(j, "RECONCILED")
  /\ Unlock(j)
  /\ UNCHANGED <<deadline, txHash, attempts, sending, chain, clock, revoked>>

----------------------------------------------------------------------------
(* The environment: the network, the chain and the passing of time.        *)

Becomes(j, n, s) ==
  /\ chain' = [chain EXCEPT ![j][n] = s]
  /\ UNCHANGED <<state, deadline, txHash, attempts, sending, holder, clock,
                 revoked>>

(* Either may still happen after the submitter has timed out.              *)
Delivered(j, n) ==
  chain[j][n] = "sent" /\ (Becomes(j, n, "pending") \/ Becomes(j, n, "lost"))

MinedInBlock(j, n) ==
  /\ chain[j][n] = "pending"
  /\ Becomes(j, n, "success") \/ Becomes(j, n, "reverted")

Tick ==
  /\ clock < MaxTime
  /\ clock' = clock + 1
  /\ UNCHANGED <<state, deadline, txHash, attempts, sending, chain, holder,
                 revoked>>

----------------------------------------------------------------------------

Operation(j) ==
  \/ createJob(j) \/ markSimulated(j) \/ requestApproval(j)
  \/ attachApproval(j) \/ rejectJob(j) \/ invalidateOnPolicyChange(j)
  \/ cancelJob(j) \/ retryJobLocked(j) \/ submitJobRefused(j)
  \/ submitJobSend(j) \/ confirmJob(j) \/ markReconciled(j)
  \/ \E n \in Attempts, named, confirmed \in BOOLEAN :
       reconcileJob(j, n, named, confirmed)

SubmitterSettles(j) ==
  submitterReturns(j) \/ submitterTimesOut(j) \/ submitterFails(j)

Network(j) == \E n \in Attempts : Delivered(j, n) \/ MinedInBlock(j, n)

Next ==
  \/ \E j \in Jobs : Operation(j) \/ SubmitterSettles(j) \/ Network(j)
  \/ Tick

Spec == Init /\ [][Next]_vars

(* Receipts are looked up and settled jobs reconciled (flow.ts does both   *)
(* right after submitting), and the chain mines what it has accepted.      *)
Fairness ==
  \A j \in Jobs :
    /\ WF_vars(confirmJob(j))
    /\ WF_vars(markReconciled(j))
    /\ \A n \in Attempts : WF_vars(MinedInBlock(j, n))

FairSpec == Spec /\ Fairness

----------------------------------------------------------------------------

TypeOK ==
  /\ state \in [Jobs -> JobStates \cup {"NONE"}]
  /\ deadline \in [Jobs -> 0..(MaxTime + 1)]
  /\ attempts \in [Jobs -> 0..MaxAttempts]
  /\ txHash \in [Jobs -> 0..MaxAttempts]
  /\ sending \subseteq Jobs
  /\ chain \in [Jobs -> [Attempts -> TxStatus]]
  /\ holder \in [Accounts -> Jobs \cup {NoJob}]
  /\ clock \in 0..MaxTime
  /\ revoked \subseteq Jobs

(* At most one attempt of a job can ever take effect: before another is    *)
(* made, every earlier one is known never to execute.  This is             *)
(* "Never blindly resubmit after a timeout" (executor.ts:15).              *)
NeverBlindlyResubmitted ==
  \A j \in Jobs, n \in Attempts :
    n < attempts[j] => chain[j][n] \in Void

(* A job is live while its state says so or an attempt of it may yet       *)
(* execute.                                                                *)
LiveStates == {"SUBMITTING", "SUBMITTED", "CONFIRMED",
               "RECONCILIATION_REQUIRED"}

Live(j) == \/ state[j] \in LiveStates
           \/ \E n \in Attempts : chain[j][n] \in Open

(* "Account-level serialization: one live job per account"                 *)
(* (executor.ts:11), as far as the code keeps it: the only way to a second *)
(* live job is to cancel the first with an attempt of it still open.       *)
OneLiveJobUnlessRevoked ==
  \A j, k \in Jobs :
    /\ j # k /\ AccountOf[j] = AccountOf[k]
    /\ Live(j) /\ Live(k)
    => j \in revoked \/ k \in revoked

(* A job that no longer needs the account never keeps its lock, with one   *)
(* exception: a job that a policy change expired after it was handed to    *)
(* the submitter (invalidateOnPolicyChange releases nothing).              *)
LockHolderIsUnsettled ==
  \A a \in Accounts : holder[a] # NoJob =>
    LET j == holder[a] IN
      /\ AccountOf[j] = a
      /\ \/ state[j] \in LiveStates
         \/ state[j] = "EXPIRED" /\ attempts[j] > 0

(* The two final verdicts tell the truth: a RECONCILED job executed, and   *)
(* a FAILED one neither did nor ever will (so retrying it is safe).        *)
VerdictsMatchTheChain ==
  \A j \in Jobs :
    /\ state[j] = "RECONCILED" => \E n \in Attempts : chain[j][n] = "success"
    /\ state[j] = "FAILED" =>
         \A n \in Attempts : chain[j][n] \in Void \cup {"unsent"}

(* A job that was rejected, cancelled or expired with no attempt in the    *)
(* submitter's hands is dead: nothing brings it back or sends it again.    *)
Dead == {"REJECTED", "CANCELLED", "EXPIRED"}
DeadStaysDead ==
  [][\A j \in Jobs :
       state[j] \in Dead /\ j \notin sending
         => state'[j] \in Dead /\ attempts'[j] = attempts[j]]_vars

(* A broadcast job is settled: it is reconciled or fails, and then no      *)
(* longer holds the account.                                               *)
SubmittedJobSettles ==
  \A j \in Jobs :
    state[j] = "SUBMITTED" ~>
      state[j] \in {"RECONCILED", "FAILED"} /\ holder[AccountOf[j]] # j

----------------------------------------------------------------------------
(* What the executor promises about one intent, whatever it goes through.  *)

AttemptsThatAre(S) == [j \in Jobs |-> {n \in Attempts : chain[j][n] \in S}]

Intents == INSTANCE OnceOnly WITH
  Intent <- Jobs, Try <- Attempts,
  open <- AttemptsThatAre(Open), executed <- AttemptsThatAre({"success"})

(* Executor implements OnceOnly: an intent is sent only when idle, so it   *)
(* executes at most once under its idempotency key.                        *)
ImplementsOnceOnly == Intents!Spec
============================================================================
