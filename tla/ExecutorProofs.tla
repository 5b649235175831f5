--------------------------- MODULE ExecutorProofs ---------------------------
(***************************************************************************)
(* Proofs about Executor for every set of jobs and accounts, any number of *)
(* attempts and any clock.                                                 *)
(***************************************************************************)
EXTENDS Executor, TLAPS

(* Before its first attempt a job is in one of these states; from these it *)
(* may be sent (again), or has been refused.                               *)
Early  == {"NONE", "DRAFT", "SIMULATED", "AWAITING_APPROVAL"}
Unsent == {"APPROVED", "FAILED", "REJECTED"}

(* What a job's state says about its attempts: the strengthening that      *)
(* makes NeverBlindlyResubmitted inductive.  Every attempt but the last is *)
(* void; in a state a retry starts from, so is the last; and a job is      *)
(* confirmed only on the transaction of its last attempt, and then holds   *)
(* no hash of an earlier one, which is where the callers' contract is      *)
(* needed.                                                                 *)
JobInv(j) ==
  /\ \A n \in Attempts : chain[j][n] = "unsent" <=> attempts[j] < n
  /\ \A n \in Attempts : n < attempts[j] => chain[j][n] \in Void
  /\ txHash[j] <= attempts[j]
  /\ state[j] \in Early => attempts[j] = 0
  /\ state[j] \in Unsent => \A n \in Attempts : chain[j][n] \in Void \cup {"unsent"}
  /\ j \in sending => /\ state[j] \in {"SUBMITTING", "CANCELLED", "EXPIRED"}
                      /\ attempts[j] # 0
  /\ state[j] = "SUBMITTING" => j \in sending
  /\ state[j] \in {"SUBMITTED", "CONFIRMED", "RECONCILED"} =>
       txHash[j] \in {NoHash, attempts[j]} /\ attempts[j] # 0
  /\ state[j] = "SUBMITTED" =>
       txHash[j] = attempts[j] /\ chain[j][attempts[j]] \in OnChain
  /\ state[j] \in {"CONFIRMED", "RECONCILED"} =>
       chain[j][attempts[j]] \in IF ConfirmedMeansExecuted THEN {"success"} ELSE Mined
  /\ state[j] = "RECONCILIATION_REQUIRED" =>
       /\ attempts[j] # 0
       /\ TimeoutsCarryHash => txHash[j] = attempts[j]

(* What the lock table says: a live job, or one still in the submitter's   *)
(* hands, holds its account unless it was revoked.                         *)
LockInv(j) ==
  /\ Live(j) \/ j \in sending => j \in revoked \/ holder[AccountOf[j]] = j
  /\ state[j] = "CANCELLED" /\ j \notin revoked =>
       j \notin sending /\ ~Live(j)

Inv == /\ TypeOK
       /\ LockHolderIsUnsettled
       /\ \A j \in Jobs : JobInv(j) /\ LockInv(j)

----------------------------------------------------------------------------

(* The executor is type correct.                                           *)
THEOREM TypeCorrect == Spec => []TypeOK
<1>1. Init => TypeOK
  BY ExecutorAssumption DEF Init, TypeOK, NoHash, Attempts, TxStatus
<1>2. TypeOK /\ [Next]_vars => TypeOK'
  <2> SUFFICES ASSUME TypeOK, [Next]_vars PROVE TypeOK'
    OBVIOUS
  <2> USE ExecutorAssumption DEF TypeOK, JobStates, NoHash, Attempts, TxStatus,
            Goto, OnlyState, Lock, Unlock
  <2>1. ASSUME NEW j \in Jobs, Operation(j) PROVE TypeOK'
    <3>1. CASE createJob(j) \/ markSimulated(j) \/ requestApproval(j)
      BY <3>1 DEF createJob, markSimulated, requestApproval
    <3>2. CASE attachApproval(j)
      BY <3>2 DEF attachApproval
    <3>3. CASE rejectJob(j) \/ invalidateOnPolicyChange(j) \/ retryJobLocked(j)
      BY <3>3 DEF rejectJob, invalidateOnPolicyChange, retryJobLocked
    <3>4. CASE cancelJob(j)
      BY <3>4 DEF cancelJob
    <3>5. CASE submitJobRefused(j)
      BY <3>5 DEF submitJobRefused
    <3>6. CASE submitJobSend(j)
      BY <3>6 DEF submitJobSend
    <3>7. CASE confirmJob(j)
      BY <3>7 DEF confirmJob
    <3>8. CASE markReconciled(j)
      BY <3>8 DEF markReconciled
    <3>9. ASSUME NEW n \in Attempts, NEW named \in BOOLEAN,
                NEW confirmed \in BOOLEAN, reconcileJob(j, n, named, confirmed)
         PROVE  TypeOK'
      <4>1. txHash' \in [Jobs -> 0..MaxAttempts]
        BY <3>9 DEF reconcileJob
      <4>2. state' = state \/ state' = [state EXCEPT ![j] = "CONFIRMED"]
        BY <3>9 DEF reconcileJob
      <4> QED
        BY <3>9, <4>1, <4>2 DEF reconcileJob
    <3> QED
      BY <2>1, <3>1, <3>2, <3>3, <3>4, <3>5, <3>6, <3>7, <3>8, <3>9 DEF Operation
  <2>2. ASSUME NEW j \in Jobs, SubmitterSettles(j) PROVE TypeOK'
    <3>1. CASE submitterReturns(j)
      BY <3>1 DEF submitterReturns
    <3>2. CASE submitterTimesOut(j)
      BY <3>2 DEF submitterTimesOut
    <3>3. CASE submitterFails(j)
      BY <3>3 DEF submitterFails
    <3> QED
      BY <2>2, <3>1, <3>2, <3>3 DEF SubmitterSettles
  <2>3. ASSUME NEW j \in Jobs, Network(j) PROVE TypeOK'
    <3>1. PICK n \in Attempts, s \in TxStatus : Becomes(j, n, s)
      BY <2>3 DEF Network, Delivered, MinedInBlock
    <3> QED
      BY <3>1 DEF Becomes
  <2>4. CASE Tick
    BY <2>4 DEF Tick
  <2>5. CASE UNCHANGED vars
    BY <2>5 DEF vars
  <2> QED
    BY <2>1, <2>2, <2>3, <2>4, <2>5 DEF Next
<1> QED
  BY <1>1, <1>2, PTL DEF Spec

----------------------------------------------------------------------------

(* A step of job k.                                                        *)
Step(k) == Operation(k) \/ SubmitterSettles(k) \/ Network(k)

(* What every step of another job keeps of job j: all of its own record,   *)
(* and its account if it holds it.                                         *)
Same(j) ==
  /\ state'[j] = state[j] /\ txHash'[j] = txHash[j]
  /\ attempts'[j] = attempts[j] /\ chain'[j] = chain[j]
  /\ j \in sending' <=> j \in sending
  /\ j \in revoked' <=> j \in revoked
  /\ holder[AccountOf[j]] = j => holder'[AccountOf[j]] = j

(* A step of one job touches no other job but through the account lock.    *)
LEMMA StepsAreLocal ==
  ASSUME TypeOK, NEW k \in Jobs, Step(k), NEW j \in Jobs, j # k
  PROVE  Same(j)
<1> USE ExecutorAssumption DEF TypeOK, Same, Goto, OnlyState, Lock, Unlock, MayLock
<1>1. ASSUME Operation(k) PROVE Same(j)
  <2>1. CASE createJob(k) \/ markSimulated(k) \/ requestApproval(k) \/ rejectJob(k)
             \/ invalidateOnPolicyChange(k) \/ retryJobLocked(k) \/ attachApproval(k)
    BY <2>1 DEF createJob, markSimulated, requestApproval, rejectJob,
                invalidateOnPolicyChange, retryJobLocked, attachApproval
  <2>2. CASE cancelJob(k)
    BY <2>2 DEF cancelJob
  <2>3. CASE submitJobRefused(k)
    BY <2>3 DEF submitJobRefused
  <2>4. CASE submitJobSend(k)
    BY <2>4 DEF submitJobSend
  <2>5. CASE confirmJob(k)
    BY <2>5 DEF confirmJob
  <2>6. CASE markReconciled(k)
    BY <2>6 DEF markReconciled
  <2>7. ASSUME NEW n \in Attempts, NEW named \in BOOLEAN,
                NEW confirmed \in BOOLEAN, reconcileJob(k, n, named, confirmed)
         PROVE  Same(j)
    <3>1. state'[j] = state[j]
      BY <2>7 DEF reconcileJob
    <3> QED
      BY <2>7, <3>1 DEF reconcileJob
  <2> QED
    BY <1>1, <2>1, <2>2, <2>3, <2>4, <2>5, <2>6, <2>7 DEF Operation
<1>2. ASSUME SubmitterSettles(k) PROVE Same(j)
  <2>1. CASE submitterReturns(k)
    BY <2>1 DEF submitterReturns
  <2>2. CASE submitterTimesOut(k)
    BY <2>2 DEF submitterTimesOut
  <2>3. CASE submitterFails(k)
    BY <2>3 DEF submitterFails
  <2> QED
    BY <1>2, <2>1, <2>2, <2>3 DEF SubmitterSettles
<1>3. ASSUME Network(k) PROVE Same(j)
  <2>1. PICK n \in Attempts, s \in TxStatus : Becomes(k, n, s)
    BY <1>3 DEF Network, Delivered, MinedInBlock, TxStatus
  <2> QED
    BY <2>1 DEF Becomes
<1> QED
  BY <1>1, <1>2, <1>3 DEF Step

(* A step that leaves a job alone keeps its part of the invariant.         *)
LEMMA SameKeepsInv ==
  ASSUME NEW j \in Jobs, Same(j), JobInv(j), LockInv(j)
  PROVE  JobInv(j)' /\ LockInv(j)'
<1>1. JobInv(j)'
  BY DEF Same, JobInv
<1>2. Live(j)' <=> Live(j)
  BY DEF Same, Live
<1> QED
  BY <1>1, <1>2 DEF Same, LockInv

----------------------------------------------------------------------------

(* What the callers owe the executor, two of three: a timeout names its    *)
(* transaction; only a transaction that did not revert is reported as      *)
(* confirmed; and one reported without a hash is the job's own.            *)
CallersContract ==
  \/ TimeoutsCarryHash /\ ConfirmedMeansExecuted
  \/ TimeoutsCarryHash /\ BareConfirmsOwn
  \/ ConfirmedMeansExecuted /\ BareConfirmsOwn

(* A step of a job keeps its own part of the invariant.                    *)
LEMMA OwnStepKeepsJobInv ==
  ASSUME CallersContract, TypeOK, NEW k \in Jobs, JobInv(k), Step(k)
  PROVE  JobInv(k)'
<1> USE ExecutorAssumption DEF TypeOK, JobInv, Early, Unsent, Open, Void, Mined,
          OnChain, Broadcast, NoHash, Attempts, Goto, OnlyState
<1>1. ASSUME Operation(k) PROVE JobInv(k)'
  <2>1. CASE createJob(k) \/ markSimulated(k) \/ requestApproval(k)
    BY <2>1 DEF createJob, markSimulated, requestApproval
  <2>2. CASE attachApproval(k)
    BY <2>2 DEF attachApproval
  <2>3. CASE rejectJob(k)
    BY <2>3 DEF rejectJob
  <2>4. CASE invalidateOnPolicyChange(k)
    BY <2>4 DEF invalidateOnPolicyChange
  <2>5. CASE retryJobLocked(k)
    BY <2>5 DEF retryJobLocked, Submittable
  <2>6. CASE cancelJob(k)
    BY <2>6 DEF cancelJob
  <2>7. CASE submitJobRefused(k)
    BY <2>7 DEF submitJobRefused, Submittable
  <2>8. CASE submitJobSend(k)
    BY <2>8 DEF submitJobSend, Submittable
  <2>9. CASE confirmJob(k)
    BY <2>9 DEF confirmJob
  <2>10. CASE markReconciled(k)
    BY <2>10 DEF markReconciled
  <2>11. ASSUME NEW n \in Attempts, NEW named \in BOOLEAN,
                NEW confirmed \in BOOLEAN, reconcileJob(k, n, named, confirmed)
         PROVE  JobInv(k)'
    <3>1. /\ state[k] \in {"RECONCILIATION_REQUIRED", "SUBMITTED"}
          /\ attempts[k] # 0 /\ attempts[k] \in Attempts
      BY <2>11 DEF reconcileJob
    <3>2. /\ attempts' = attempts /\ chain' = chain /\ sending' = sending
          /\ txHash'[k] = IF named THEN n ELSE txHash[k]
          /\ state'[k] = IF confirmed THEN "CONFIRMED" ELSE state[k]
      BY <2>11 DEF reconcileJob
    <3>3. chain[k][n] # "unsent" /\ n <= attempts[k]
      BY <2>11 DEF reconcileJob
    <3>4. state[k] = "SUBMITTED" \/ TimeoutsCarryHash => txHash[k] = attempts[k]
      BY <3>1
    <3>5. named /\ txHash[k] = attempts[k] => n = attempts[k]
      BY <2>11, <3>1 DEF reconcileJob
    <3>6. CASE ~confirmed
      BY <3>1, <3>2, <3>3, <3>4, <3>5, <3>6
    <3>7. CASE confirmed
      <4>1. /\ ConfirmedMeansExecuted => chain[k][n] = "success"
            /\ chain[k][n] \in Mined
            /\ named \/ ~BareConfirmsOwn \/ txHash[k] \in {NoHash, n}
        BY <2>11, <3>7 DEF reconcileJob, Confirmable
      <4>2. n = attempts[k]
        <5>1. CASE ConfirmedMeansExecuted
          <6>1. ~(n < attempts[k])
            BY <4>1, <5>1
          <6>2. n \in Nat /\ attempts[k] \in Nat
            OBVIOUS
          <6> QED
            BY <3>3, <6>1, <6>2
        <5>2. CASE ~ConfirmedMeansExecuted
          BY <3>1, <3>4, <3>5, <4>1, <5>2 DEF CallersContract
        <5> QED
          BY <5>1, <5>2
      <4>3. txHash'[k] \in {NoHash, attempts[k]}
        <5>1. CASE named
          BY <3>2, <4>2, <5>1
        <5>2. CASE ~named /\ BareConfirmsOwn
          BY <3>2, <4>1, <4>2, <5>2
        <5>3. CASE ~named /\ TimeoutsCarryHash
          BY <3>2, <3>4, <5>3
        <5> QED
          BY <5>1, <5>2, <5>3 DEF CallersContract
      <4> QED
        BY <3>1, <3>2, <3>7, <4>1, <4>2, <4>3
    <3> QED
      BY <3>6, <3>7
  <2> QED
    BY <1>1, <2>1, <2>2, <2>3, <2>4, <2>5, <2>6, <2>7, <2>8, <2>9, <2>10, <2>11 DEF Operation
<1>2. ASSUME SubmitterSettles(k) PROVE JobInv(k)'
  <2>1. CASE submitterReturns(k)
    BY <2>1 DEF submitterReturns
  <2>2. CASE submitterTimesOut(k)
    BY <2>2 DEF submitterTimesOut
  <2>3. CASE submitterFails(k)
    BY <2>3 DEF submitterFails
  <2> QED
    BY <1>2, <2>1, <2>2, <2>3 DEF SubmitterSettles
<1>3. ASSUME Network(k) PROVE JobInv(k)'
  <2>1. PICK n \in Attempts : Delivered(k, n) \/ MinedInBlock(k, n)
    BY <1>3 DEF Network
  <2>2. CASE Delivered(k, n)
    <3>1. PICK s \in {"pending", "lost"} : Becomes(k, n, s)
      BY <2>2 DEF Delivered
    <3>2. chain[k][n] = "sent"
      BY <2>2 DEF Delivered
    <3>3. \A m \in Attempts : chain'[k][m] = IF m = n THEN s ELSE chain[k][m]
      BY <3>1 DEF Becomes
    <3>4. /\ state' = state /\ txHash' = txHash /\ attempts' = attempts
          /\ sending' = sending
      BY <3>1 DEF Becomes
    <3>5. n = attempts[k] /\ state[k] \notin Unsent \cup {"SUBMITTED", "CONFIRMED", "RECONCILED"}
      <4>1. n = attempts[k]
        <5>1. ~(attempts[k] < n) /\ ~(n < attempts[k])
          BY <3>2
        <5>2. attempts[k] \in Nat /\ n \in Nat
          OBVIOUS
        <5> QED
          BY <5>1, <5>2
      <4>2. state[k] \notin Unsent
        BY <3>2
      <4>3. chain[k][attempts[k]] \notin OnChain
        BY <3>2, <4>1
      <4> QED
        BY <4>1, <4>2, <4>3
    <3>6. \A m \in Attempts : chain'[k][m] = "unsent" <=> attempts'[k] < m
      BY <3>2, <3>3, <3>4
    <3>7. \A m \in Attempts : m < attempts'[k] => chain'[k][m] \in Void
      BY <3>3, <3>4, <3>5
    <3>8. state'[k] \notin Unsent \cup {"SUBMITTED", "CONFIRMED", "RECONCILED"}
      BY <3>4, <3>5
    <3> QED
      BY <3>4, <3>6, <3>7, <3>8
  <2>3. CASE MinedInBlock(k, n)
    <3>1. PICK s \in Mined : Becomes(k, n, s)
      BY <2>3 DEF MinedInBlock
    <3>2. chain[k][n] = "pending"
      BY <2>3 DEF MinedInBlock
    <3>3. /\ \A m \in Attempts : chain'[k][m] = IF m = n THEN s ELSE chain[k][m]
          /\ state' = state /\ txHash' = txHash /\ attempts' = attempts
          /\ sending' = sending
      BY <3>1 DEF Becomes
    <3>4. state[k] \notin Unsent
      BY <3>2
    <3>5. attempts[k] = n => state[k] \notin {"CONFIRMED", "RECONCILED"}
      BY <3>2
    <3>6. \A m \in Attempts : m < attempts[k] => m # n
      BY <3>2
    <3>7. \A m \in Attempts : chain'[k][m] = "unsent" <=> attempts'[k] < m
      BY <3>2, <3>3
    <3>8. \A m \in Attempts : m < attempts'[k] => chain'[k][m] \in Void
      BY <3>3, <3>6
    <3>9. state'[k] \in {"SUBMITTED", "CONFIRMED", "RECONCILED"} =>
            /\ txHash'[k] \in {NoHash, attempts'[k]} /\ attempts'[k] # 0
            /\ state'[k] = "SUBMITTED" =>
                 txHash'[k] = attempts'[k] /\ chain'[k][attempts'[k]] \in OnChain
      BY <3>2, <3>3
    <3>10. state'[k] \in {"CONFIRMED", "RECONCILED"} =>
             chain'[k][attempts'[k]] \in IF ConfirmedMeansExecuted THEN {"success"} ELSE Mined
      BY <3>3, <3>5
    <3>11. state'[k] \notin Unsent
      BY <3>3, <3>4
    <3> QED
      BY <3>3, <3>7, <3>8, <3>9, <3>10, <3>11
  <2> QED
    BY <2>1, <2>2, <2>3
<1> QED
  BY <1>1, <1>2, <1>3 DEF Step

(* Only the last attempt of a job can be open.                             *)
LEMMA OnlyLastIsOpen ==
  ASSUME TypeOK, NEW k \in Jobs, JobInv(k), NEW n \in Attempts, chain[k][n] \in Open
  PROVE  n = attempts[k]
<1>1. attempts[k] \in Nat /\ n \in Nat
  BY ExecutorAssumption DEF TypeOK, Attempts
<1>2. ~(attempts[k] < n) /\ ~(n < attempts[k])
  BY DEF JobInv, Open, Void
<1> QED
  BY <1>1, <1>2

(* A step of a job keeps what the lock says of that job.                   *)
LEMMA OwnStepKeepsLockInv ==
  ASSUME TypeOK, NEW k \in Jobs, JobInv(k), LockInv(k), Step(k)
  PROVE  LockInv(k)'
<1> USE ExecutorAssumption DEF TypeOK, JobInv, LockInv, Live, LiveStates, Unsent,
          Open, Void, Mined, OnChain, Broadcast, Goto, OnlyState, Lock, Unlock, MayLock
<1>1. ASSUME Operation(k) PROVE LockInv(k)'
  <2>1. CASE createJob(k) \/ markSimulated(k) \/ requestApproval(k) \/ attachApproval(k)
    BY <2>1 DEF createJob, markSimulated, requestApproval, attachApproval
  <2>2. CASE rejectJob(k)
    BY <2>2 DEF rejectJob
  <2>3. CASE invalidateOnPolicyChange(k)
    BY <2>3 DEF invalidateOnPolicyChange
  <2>4. CASE retryJobLocked(k)
    BY <2>4 DEF retryJobLocked
  <2>5. CASE cancelJob(k)
    <3>1. CASE state[k] \in LiveStates
      BY <2>5, <3>1 DEF cancelJob
    <3>2. CASE state[k] \notin LiveStates
      <4>1. k \notin sending /\ state[k] \in Early \cup Unsent
        BY <2>5, <3>2 DEF cancelJob, JobStates, Early
      <4>2. \A n \in Attempts : chain[k][n] \notin Open
        BY <4>1, OnlyLastIsOpen DEF Attempts
      <4> QED
        BY <2>5, <4>1, <4>2 DEF cancelJob
    <3> QED
      BY <3>1, <3>2
  <2>6. CASE submitJobRefused(k)
    BY <2>6 DEF submitJobRefused, Submittable
  <2>7. CASE submitJobSend(k)
    BY <2>7 DEF submitJobSend
  <2>8. CASE confirmJob(k)
    <3>1. CASE Goto(k, "FAILED")
      <4>1. chain[k][attempts[k]] = "reverted" /\ k \notin sending
        BY <2>8, <3>1 DEF confirmJob
      <4>2. \A n \in Attempts : chain[k][n] \notin Open
        BY <4>1, OnlyLastIsOpen
      <4> QED
        BY <2>8, <3>1, <4>1, <4>2 DEF confirmJob
    <3>2. CASE Goto(k, "CONFIRMED") /\ UNCHANGED holder
      BY <2>8, <3>2 DEF confirmJob
    <3> QED
      BY <2>8, <3>1, <3>2 DEF confirmJob
  <2>9. CASE markReconciled(k)
    <3>1. chain[k][attempts[k]] \in Mined /\ k \notin sending
      BY <2>9 DEF markReconciled
    <3>2. \A n \in Attempts : chain[k][n] \notin Open
      BY <3>1, OnlyLastIsOpen
    <3> QED
      BY <2>9, <3>1, <3>2 DEF markReconciled
  <2>10. ASSUME NEW n \in Attempts, NEW named \in BOOLEAN,
                NEW confirmed \in BOOLEAN, reconcileJob(k, n, named, confirmed)
         PROVE  LockInv(k)'
    BY <2>10 DEF reconcileJob
  <2> QED
    BY <1>1, <2>1, <2>2, <2>3, <2>4, <2>5, <2>6, <2>7, <2>8, <2>9, <2>10 DEF Operation
<1>2. ASSUME SubmitterSettles(k) PROVE LockInv(k)'
  <2>1. CASE submitterReturns(k)
    BY <2>1 DEF submitterReturns
  <2>2. CASE submitterTimesOut(k)
    BY <2>2 DEF submitterTimesOut
  <2>3. CASE submitterFails(k)
    <3>1. chain[k][attempts[k]] = "lost"
      BY <2>3 DEF submitterFails
    <3>2. \A n \in Attempts : chain[k][n] \notin Open
      BY <3>1, OnlyLastIsOpen
    <3> QED
      BY <2>3, <3>2 DEF submitterFails
  <2> QED
    BY <1>2, <2>1, <2>2, <2>3 DEF SubmitterSettles
<1>3. ASSUME Network(k) PROVE LockInv(k)'
  <2>1. PICK n \in Attempts : Delivered(k, n) \/ MinedInBlock(k, n)
    BY <1>3 DEF Network
  <2>2. CASE Delivered(k, n)
    BY <2>2 DEF Delivered, Becomes
  <2>3. CASE MinedInBlock(k, n)
    BY <2>3 DEF MinedInBlock, Becomes
  <2> QED
    BY <2>1, <2>2, <2>3
<1> QED
  BY <1>1, <1>2, <1>3 DEF Step

(* Every step leaves the locks to jobs that still need them.               *)
LEMMA StepsKeepHolders ==
  ASSUME TypeOK, NEW k \in Jobs, JobInv(k), LockHolderIsUnsettled, Step(k)
  PROVE  LockHolderIsUnsettled'
<1> USE ExecutorAssumption DEF TypeOK, LockHolderIsUnsettled, LiveStates,
          Early, Broadcast, Goto, OnlyState, Lock, Unlock, MayLock
<1> USE DEF JobInv
<1>1. ASSUME Operation(k) PROVE LockHolderIsUnsettled'
  <2>1. CASE createJob(k) \/ markSimulated(k) \/ requestApproval(k) \/ attachApproval(k)
    BY <2>1 DEF createJob, markSimulated, requestApproval, attachApproval
  <2>2. CASE rejectJob(k)
    BY <2>2 DEF rejectJob
  <2>3. CASE invalidateOnPolicyChange(k)
    BY <2>3 DEF invalidateOnPolicyChange
  <2>4. CASE retryJobLocked(k)
    BY <2>4 DEF retryJobLocked
  <2>5. CASE cancelJob(k)
    BY <2>5 DEF cancelJob
  <2>6. CASE submitJobRefused(k)
    BY <2>6 DEF submitJobRefused, Submittable
  <2>7. CASE submitJobSend(k)
    BY <2>7 DEF submitJobSend
  <2>8. CASE confirmJob(k)
    BY <2>8 DEF confirmJob
  <2>9. CASE markReconciled(k)
    BY <2>9 DEF markReconciled
  <2>10. ASSUME NEW n \in Attempts, NEW named \in BOOLEAN,
                NEW confirmed \in BOOLEAN, reconcileJob(k, n, named, confirmed)
         PROVE  LockHolderIsUnsettled'
    BY <2>10 DEF reconcileJob
  <2> QED
    BY <1>1, <2>1, <2>2, <2>3, <2>4, <2>5, <2>6, <2>7, <2>8, <2>9, <2>10 DEF Operation
<1>2. ASSUME SubmitterSettles(k) PROVE LockHolderIsUnsettled'
  <2>1. CASE submitterReturns(k)
    BY <2>1 DEF submitterReturns
  <2>2. CASE submitterTimesOut(k)
    BY <2>2 DEF submitterTimesOut
  <2>3. CASE submitterFails(k)
    BY <2>3 DEF submitterFails
  <2> QED
    BY <1>2, <2>1, <2>2, <2>3 DEF SubmitterSettles
<1>3. ASSUME Network(k) PROVE LockHolderIsUnsettled'
  <2>1. PICK n \in Attempts : Delivered(k, n) \/ MinedInBlock(k, n)
    BY <1>3 DEF Network
  <2>2. CASE Delivered(k, n)
    BY <2>2 DEF Delivered, Becomes
  <2>3. CASE MinedInBlock(k, n)
    BY <2>3 DEF MinedInBlock, Becomes
  <2> QED
    BY <2>1, <2>2, <2>3
<1> QED
  BY <1>1, <1>2, <1>3 DEF Step

----------------------------------------------------------------------------

(* The invariant holds at first, when no job has been created.             *)
LEMMA InitInv == Init => Inv
<1> SUFFICES ASSUME Init PROVE Inv
  OBVIOUS
<1>1. TypeOK
  BY ExecutorAssumption DEF Init, TypeOK, NoHash, Attempts, TxStatus
<1>2. LockHolderIsUnsettled
  BY DEF Init, LockHolderIsUnsettled
<1>3. ASSUME NEW j \in Jobs PROVE JobInv(j) /\ LockInv(j)
  <2>1. JobInv(j)
    BY ExecutorAssumption DEF Init, JobInv, Early, Unsent, NoHash, Attempts
  <2>2. LockInv(j)
    BY DEF Init, LockInv, Live, LiveStates, Open
  <2> QED
    BY <2>1, <2>2
<1> QED
  BY <1>1, <1>2, <1>3 DEF Inv

(* Every step keeps the invariant.                                         *)
LEMMA NextInv ==
  ASSUME CallersContract, Inv, [Next]_vars, TypeOK'
  PROVE  Inv'
<1> USE DEF Inv
<1>1. ASSUME NEW k \in Jobs, Step(k) PROVE Inv'
  <2>1. LockHolderIsUnsettled'
    BY <1>1, StepsKeepHolders
  <2>2. ASSUME NEW j \in Jobs PROVE JobInv(j)' /\ LockInv(j)'
    <3>1. CASE j = k
      BY <1>1, <3>1, OwnStepKeepsJobInv, OwnStepKeepsLockInv
    <3>2. CASE j # k
      BY <1>1, <3>2, StepsAreLocal, SameKeepsInv
    <3> QED
      BY <3>1, <3>2
  <2> QED
    BY <2>1, <2>2
<1>2. ASSUME Tick \/ UNCHANGED vars PROVE Inv'
  <2>1. ASSUME NEW j \in Jobs PROVE Same(j)
    BY <1>2 DEF Tick, vars, Same
  <2>2. LockHolderIsUnsettled'
    BY <1>2 DEF Tick, vars, LockHolderIsUnsettled
  <2> QED
    BY <2>1, <2>2, SameKeepsInv
<1> QED
  BY <1>1, <1>2 DEF Next, Step

(* The invariant holds of every behaviour under the callers' contract.     *)
LEMMA Invariance ==
  ASSUME CallersContract
  PROVE  Spec => []Inv
<1>1. Inv /\ [Next]_vars /\ TypeOK' => Inv'
  BY NextInv
<1> QED
  BY <1>1, InitInv, TypeCorrect, PTL DEF Spec

(* No job is sent again while an earlier attempt of it may still execute,  *)
(* however submits, timeouts, receipts, cancels and policy changes of any  *)
(* number of jobs interleave ("Never blindly resubmit", executor.ts:15).   *)
THEOREM NeverResubmits ==
  ASSUME CallersContract
  PROVE  Spec => []NeverBlindlyResubmitted
<1>1. Inv => NeverBlindlyResubmitted
  BY DEF Inv, JobInv, NeverBlindlyResubmitted
<1> QED
  BY <1>1, Invariance, PTL

(* Account-level serialization (executor.ts:11) holds of every two jobs    *)
(* neither of which was cancelled since its last attempt was made.         *)
THEOREM Serialized ==
  ASSUME CallersContract
  PROVE  Spec => []OneLiveJobUnlessRevoked
<1>1. Inv => OneLiveJobUnlessRevoked
  BY DEF Inv, LockInv, OneLiveJobUnlessRevoked
<1> QED
  BY <1>1, Invariance, PTL

(* The lock of an account is held only for a job that still needs it, or   *)
(* for one that a policy change expired in flight.                         *)
THEOREM NoIdleHolder ==
  ASSUME CallersContract
  PROVE  Spec => []LockHolderIsUnsettled
<1>1. Inv => LockHolderIsUnsettled
  BY DEF Inv
<1> QED
  BY <1>1, Invariance, PTL

(* RECONCILED means executed and FAILED means never executed, if           *)
(* reconcileJob is told `confirmed` only of transactions that executed and *)
(* a hash of an earlier attempt cannot be left behind (executor.ts:304) or *)
(* is not confirmed bare (executor.ts:329-335).                            *)
THEOREM Verdicts ==
  ASSUME ConfirmedMeansExecuted, TimeoutsCarryHash \/ BareConfirmsOwn
  PROVE  Spec => []VerdictsMatchTheChain
<1>1. Inv => VerdictsMatchTheChain
  <2> SUFFICES ASSUME Inv, NEW j \in Jobs
               PROVE  /\ state[j] = "RECONCILED" =>
                           \E n \in Attempts : chain[j][n] = "success"
                      /\ state[j] = "FAILED" =>
                           \A n \in Attempts : chain[j][n] \in Void \cup {"unsent"}
    BY DEF VerdictsMatchTheChain
  <2>1. attempts[j] # 0 => attempts[j] \in Attempts
    BY ExecutorAssumption DEF Inv, TypeOK, Attempts
  <2> QED
    BY <2>1 DEF Inv, JobInv, Unsent
<1> QED
  BY <1>1, Invariance, PTL DEF CallersContract

(* A rejected, cancelled or expired job that is not in flight stays so.    *)
THEOREM DeadForGood == Spec => DeadStaysDead
<1>1. TypeOK /\ [Next]_vars =>
        [\A j \in Jobs : state[j] \in Dead /\ j \notin sending
           => state'[j] \in Dead /\ attempts'[j] = attempts[j]]_vars
  <2> SUFFICES ASSUME TypeOK, Next, NEW j \in Jobs, state[j] \in Dead, j \notin sending
               PROVE  state'[j] \in Dead /\ attempts'[j] = attempts[j]
    OBVIOUS
  <2>1. CASE Tick
    BY <2>1 DEF Tick
  <2>2. ASSUME NEW k \in Jobs, Step(k), k # j
        PROVE  state'[j] \in Dead /\ attempts'[j] = attempts[j]
    BY <2>2, StepsAreLocal DEF Same
  <2>3. CASE Operation(j)
    BY <2>3 DEF Operation, createJob, markSimulated, requestApproval, attachApproval,
         rejectJob, invalidateOnPolicyChange, cancelJob, retryJobLocked,
         submitJobRefused, submitJobSend, Submittable, confirmJob, markReconciled,
         reconcileJob, Goto, OnlyState, Dead, TypeOK
  <2>4. CASE SubmitterSettles(j)
    BY <2>4 DEF SubmitterSettles, submitterReturns, submitterTimesOut, submitterFails
  <2>5. CASE Network(j)
    BY <2>5 DEF Network, Delivered, MinedInBlock, Becomes
  <2> QED
    BY <2>1, <2>2, <2>3, <2>4, <2>5 DEF Next, Step
<1> QED
  BY <1>1, TypeCorrect, PTL DEF Spec, DeadStaysDead

----------------------------------------------------------------------------

(* The refinement mapping: the open and the executed attempts.             *)
Done == {"success"}
OpenTries == AttemptsThatAre(Open)
DoneTries == AttemptsThatAre(Done)

(* A step that changes one attempt of one job moves that attempt alone.    *)
LEMMA OneAttemptMoves ==
  ASSUME TypeOK, NEW k \in Jobs, NEW n \in Attempts, NEW s \in TxStatus,
         chain' = [chain EXCEPT ![k][n] = s]
  PROVE  /\ \A m \in Attempts : chain'[k][m] = IF m = n THEN s ELSE chain[k][m]
         /\ \A j \in Jobs : j # k => chain'[j] = chain[j]
BY DEF TypeOK

(* A step changes the attempts of one job at most.                         *)
LEMMA TriesOfOneJobMove ==
  ASSUME NEW k \in Jobs, NEW X, NEW Y,
         \A j \in Jobs : j # k => chain'[j] = chain[j],
         {m \in Attempts : chain'[k][m] \in Open} = X,
         {m \in Attempts : chain'[k][m] \in Done} = Y
  PROVE  /\ OpenTries' = [OpenTries EXCEPT ![k] = X]
         /\ DoneTries' = [DoneTries EXCEPT ![k] = Y]
BY DEF OpenTries, DoneTries, AttemptsThatAre

(* Every step of the executor is a step of OnceOnly, or a stutter.         *)
LEMMA StepsRefine ==
  ASSUME CallersContract, Inv, TypeOK', NEW k \in Jobs, Step(k)
  PROVE  [Intents!Next]_<<OpenTries, DoneTries>>
<1> USE DEF Inv
<1>0. /\ OpenTries = [OpenTries EXCEPT ![k] = OpenTries[k]]
      /\ DoneTries = [DoneTries EXCEPT ![k] = DoneTries[k]]
  BY DEF OpenTries, DoneTries, AttemptsThatAre
<1>1. CASE UNCHANGED chain
  BY <1>1 DEF AttemptsThatAre, OpenTries, DoneTries
<1>2. CASE submitJobSend(k)
  <2> DEFINE n == attempts[k] + 1
  <2>1. n \in Attempts /\ state[k] \in Submittable
    BY <1>2, ExecutorAssumption DEF submitJobSend, TypeOK, Attempts
  <2>2. chain' = [chain EXCEPT ![k][n] = "sent"]
    BY <1>2 DEF submitJobSend
  <2>3. \A m \in Attempts : chain[k][m] \notin Open /\ chain[k][m] \notin Done
    BY <2>1 DEF JobInv, Submittable, Unsent, Open, Void, Done
  <2> HIDE DEF n
  <2>4. OpenTries[k] = {} /\ DoneTries[k] = {}
    BY <2>3 DEF OpenTries, DoneTries, AttemptsThatAre
  <2>5. /\ \A m \in Attempts : chain'[k][m] = IF m = n THEN "sent" ELSE chain[k][m]
        /\ \A j \in Jobs : j # k => chain'[j] = chain[j]
    BY <2>1, <2>2, OneAttemptMoves DEF TxStatus
  <2>6. /\ {m \in Attempts : chain'[k][m] \in Open} = {n}
        /\ {m \in Attempts : chain'[k][m] \in Done} = {}
    BY <2>1, <2>3, <2>5 DEF Open, Done
  <2>7. OpenTries' = [OpenTries EXCEPT ![k] = {n}] /\ DoneTries' = DoneTries
    BY <1>0, <2>4, <2>5, <2>6, TriesOfOneJobMove
  <2> QED
    BY <2>1, <2>4, <2>7 DEF Intents!Next, Intents!Send, OpenTries, DoneTries, Done
<1>3. CASE Network(k)
  <2>1. PICK n \in Attempts, s \in TxStatus :
          /\ chain' = [chain EXCEPT ![k][n] = s]
          /\ \/ chain[k][n] = "sent" /\ s \in {"pending", "lost"}
             \/ chain[k][n] = "pending" /\ s \in Mined
    BY <1>3 DEF Network, Delivered, MinedInBlock, Becomes, Mined, TxStatus
  <2>2. chain[k][n] \in Open /\ n = attempts[k]
    BY <2>1, OnlyLastIsOpen DEF Open
  <2>3. \A m \in Attempts : m # n => chain[k][m] \in Void \cup {"unsent"}
    <3>1. \A m \in Attempts : m # n => m < n \/ n < m
      BY ExecutorAssumption DEF Attempts
    <3> QED
      BY <2>2, <3>1 DEF JobInv
  <2>4. \A m \in Attempts : m # n => chain[k][m] \notin Open /\ chain[k][m] \notin Done
    BY <2>3 DEF Open, Void, Done
  <2>5. OpenTries[k] = {n} /\ DoneTries[k] = {}
    BY <2>2, <2>4 DEF OpenTries, DoneTries, AttemptsThatAre, Open, Done
  <2>6. /\ \A m \in Attempts : chain'[k][m] = IF m = n THEN s ELSE chain[k][m]
        /\ \A j \in Jobs : j # k => chain'[j] = chain[j]
    BY <2>1, OneAttemptMoves
  <2>7. CASE s = "pending"
    <3>1. /\ {m \in Attempts : chain'[k][m] \in Open} = {n}
          /\ {m \in Attempts : chain'[k][m] \in Done} = {}
      BY <2>4, <2>6, <2>7 DEF Open, Done
    <3>2. /\ OpenTries' = [OpenTries EXCEPT ![k] = {n}]
          /\ DoneTries' = [DoneTries EXCEPT ![k] = {}]
      BY <2>6, <3>1, TriesOfOneJobMove
    <3> QED
      BY <1>0, <2>5, <3>2
  <2>8. CASE s \in Void
    <3>1. /\ {m \in Attempts : chain'[k][m] \in Open} = {}
          /\ {m \in Attempts : chain'[k][m] \in Done} = {}
      BY <2>4, <2>6, <2>8 DEF Open, Done, Void
    <3>2. /\ OpenTries' = [OpenTries EXCEPT ![k] = {}]
          /\ DoneTries' = [DoneTries EXCEPT ![k] = {}]
      BY <2>6, <3>1, TriesOfOneJobMove
    <3>3. DoneTries' = DoneTries
      BY <1>0, <2>5, <3>2
    <3> QED
      BY <3>2, <3>3 DEF Intents!Next, Intents!Void, OpenTries, DoneTries, Done
  <2>9. CASE s = "success"
    <3>1. /\ {m \in Attempts : chain'[k][m] \in Open} = {}
          /\ {m \in Attempts : chain'[k][m] \in Done} = {n}
      BY <2>4, <2>6, <2>9 DEF Open, Done
    <3>2. /\ OpenTries' = [OpenTries EXCEPT ![k] = {}]
          /\ DoneTries' = [DoneTries EXCEPT ![k] = {n}]
      BY <2>6, <3>1, TriesOfOneJobMove
    <3> QED
      BY <2>5, <3>2 DEF Intents!Next, Intents!Execute, OpenTries, DoneTries, Done
  <2> QED
    BY <2>1, <2>7, <2>8, <2>9 DEF Void, Mined
<1>4. UNCHANGED chain \/ submitJobSend(k) \/ Network(k)
  BY DEF Step, Operation, createJob, markSimulated, requestApproval, attachApproval,
     rejectJob, invalidateOnPolicyChange, cancelJob, retryJobLocked, submitJobRefused,
     confirmJob, markReconciled, reconcileJob, SubmitterSettles, submitterReturns,
     submitterTimesOut, submitterFails, OnlyState
<1> QED
  BY <1>1, <1>2, <1>3, <1>4

(* The executor implements OnceOnly: under one idempotency key an intent   *)
(* has at most one attempt outstanding at a time and executes at most once.*)
THEOREM ExecutesAtMostOnce ==
  ASSUME CallersContract
  PROVE  Spec => ImplementsOnceOnly
<1>1. Init => Intents!Init
  BY DEF Init, Intents!Init, AttemptsThatAre, Open
<1>2. Inv /\ TypeOK' /\ [Next]_vars => [Intents!Next]_<<OpenTries, DoneTries>>
  <2> SUFFICES ASSUME Inv, TypeOK', [Next]_vars
               PROVE  [Intents!Next]_<<OpenTries, DoneTries>>
    OBVIOUS
  <2>1. CASE Tick \/ UNCHANGED vars
    BY <2>1 DEF Tick, vars, OpenTries, DoneTries, AttemptsThatAre
  <2>2. ASSUME NEW k \in Jobs, Step(k) PROVE [Intents!Next]_<<OpenTries, DoneTries>>
    BY <2>2, StepsRefine
  <2> QED
    BY <2>1, <2>2 DEF Next, Step
<1> QED
  BY <1>1, <1>2, Invariance, TypeCorrect, PTL
     DEF Spec, ImplementsOnceOnly, Intents!Spec, OpenTries, DoneTries, Done
============================================================================
