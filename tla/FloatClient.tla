----------------------------- MODULE FloatClient -----------------------------
(***************************************************************************)
(* The SDK client of sdk/src/FloatClient.ts: payments that recall their    *)
(* deficit from the vault first (wrapPayment), park and withdraw, run by   *)
(* several callers of one client at once and split at their awaits.        *)
(*                                                                         *)
(* The chain, the wallet's CLI and the wrapped executor are external: a    *)
(* transaction lands, fails, or is given up on and may land later, in the  *)
(* order of the wallet's nonces.  The hour of the rate limit is Hour ticks *)
(* of the clock; amounts are in base units.                                *)
(***************************************************************************)
EXTENDS Integers, Sequences, FiniteSets, SequencesExt

CONSTANTS
  Callers,
  Amounts,
  Liquid0, Vault0,     (* the money at first, in the wallet and parked     *)
  MaxRecalls,          (* maxRecallFrequencyPerHour                        *)
  Hour,
  MaxClock,            (* bound on the clock                               *)
  MaxCalls,            (* bound on the calls                               *)
  MaxLate              (* bound on given-up transactions still pending     *)

ASSUME FloatClientAssumption ==
  /\ IsFiniteSet(Callers) /\ Callers # {} /\ Amounts \subseteq Nat \ {0}
  /\ Liquid0 \in Nat /\ Vault0 \in Nat
  /\ MaxRecalls \in Nat /\ Hour \in Nat \ {0}
  /\ MaxClock \in Nat /\ MaxCalls \in Nat /\ MaxLate \in Nat

VARIABLES
  liquid, vault, allowance,    (* the chain                                *)
  late,           (* the pending transactions that were given up on, by nonce *)
  recallHistory,  (* when, as in the client, which forgets after the hour  *)
  unforced,       (* history: the recalls not forced that have landed      *)
  clock,
  calls,          (* number of calls so far                                *)
  pc,             (* where each caller is                                  *)
  job             (* amount, force, liquidBalance, deficit and now of each *)

chain == <<liquid, vault, allowance, late>>
vars  == <<chain, recallHistory, unforced, clock, calls, pc, job>>

NoJob == [amount |-> 0, force |-> FALSE, liquid |-> 0, deficit |-> 0, now |-> 0]

Init ==
  /\ liquid = Liquid0 /\ vault = Vault0 /\ allowance = 0 /\ late = <<>>
  /\ recallHistory = <<>> /\ unforced = <<>> /\ clock = 0 /\ calls = 0
  /\ pc = [c \in Callers |-> "idle"] /\ job = [c \in Callers |-> NoJob]

Go(c, place) == pc' = [pc EXCEPT ![c] = place]
End(c) == Go(c, "idle") /\ job' = [job EXCEPT ![c] = NoJob]

ClockTicks ==
  /\ clock < MaxClock
  /\ clock' = clock + 1
  /\ UNCHANGED <<chain, recallHistory, unforced, calls, pc, job>>

Start(c, place, amount, force) ==
  /\ pc[c] = "idle" /\ calls < MaxCalls
  /\ calls' = calls + 1
  /\ Go(c, place)
  /\ job' = [job EXCEPT ![c].amount = amount, ![c].force = force]
  /\ UNCHANGED <<chain, recallHistory, unforced, clock>>

-----------------------------------------------------------------------------
(* wrapPayment.                                                            *)

Pay(c, amount, force) == Start(c, "readLiquid", amount, force)

ReadLiquid(c) ==
  /\ pc[c] = "readLiquid"
  /\ job' = [job EXCEPT ![c].liquid = liquid]
  /\ Go(c, "readParked")
  /\ UNCHANGED <<chain, recallHistory, unforced, clock, calls>>

(* After the read of the deposit there is no await until the recall.       *)
Covered(c) ==
  /\ pc[c] = "readParked" /\ job[c].liquid >= job[c].amount
  /\ Go(c, "pay")
  /\ UNCHANGED <<chain, recallHistory, unforced, clock, calls, job>>

Insufficient(c) ==
  /\ pc[c] = "readParked" /\ job[c].liquid + vault < job[c].amount
  /\ End(c)
  /\ UNCHANGED <<chain, recallHistory, unforced, clock, calls>>

(* The times of the last hour.  Only how many they are is ever read, so    *)
(* their order is any.                                                     *)
mutRecent(history) ==
  LET kept == SetToSeq({i \in DOMAIN history : clock - history[i] < Hour - 1}) IN
  [n \in DOMAIN kept |-> history[kept[n]]]
Recent(history) ==
  LET kept == SetToSeq({i \in DOMAIN history : clock - history[i] < Hour}) IN
  [n \in DOMAIN kept |-> history[kept[n]]]

NeedsRecall(c) ==
  /\ pc[c] = "readParked" /\ job[c].liquid < job[c].amount
  /\ job[c].liquid + vault >= job[c].amount
  /\ recallHistory' = Recent(recallHistory) /\ UNCHANGED unforced

RateLimited(c) ==
  /\ NeedsRecall(c)
  /\ Len(Recent(recallHistory)) >= MaxRecalls /\ ~job[c].force
  /\ End(c)
  /\ UNCHANGED <<chain, clock, calls>>

StartRecall(c) ==
  /\ NeedsRecall(c)
  /\ Len(Recent(recallHistory)) < MaxRecalls \/ job[c].force
  /\ job' = [job EXCEPT ![c].deficit = job[c].amount - job[c].liquid,
                        ![c].now = clock]
  /\ Go(c, "recall")
  /\ UNCHANGED <<chain, clock, calls>>

(* A recall that landed: at, when it was let through; timedOut, whether    *)
(* the call had given up on it.                                            *)
Recalled(at, timedOut) ==
  unforced' = Append(unforced, [at |-> at, timedOut |-> timedOut])

RecallConfirmed(c) ==
  /\ pc[c] = "recalled"
  /\ recallHistory' = Append(recallHistory, job[c].now)
  /\ IF job[c].force THEN UNCHANGED unforced ELSE Recalled(job[c].now, FALSE)
  /\ Go(c, "verify")
  /\ UNCHANGED <<chain, clock, calls, job>>

(* The balance that the CLI reports may be cached: it may be the old one.  *)
(* The code allows one base unit (1e-6) for the floating point.            *)
Verify(c) ==
  /\ pc[c] = "verify"
  /\ \E read \in {liquid, job[c].liquid} :
       IF read + 1 < job[c].amount
       THEN End(c)
       ELSE Go(c, "pay") /\ UNCHANGED job
  /\ UNCHANGED <<chain, recallHistory, unforced, clock, calls>>

(* The executor transfers the amount, fails, or times out.                 *)
Paid(amount) ==
  /\ amount <= liquid
  /\ liquid' = liquid - amount
  /\ UNCHANGED <<vault, allowance>>

PaymentLands(c) ==
  /\ pc[c] = "pay" /\ late = <<>>
  /\ Paid(job[c].amount)
  /\ End(c)
  /\ UNCHANGED <<late, recallHistory, unforced, clock, calls>>

-----------------------------------------------------------------------------
(* park and withdraw.                                                      *)

Park(c, amount) == Start(c, "approve", amount, FALSE)

ApproveLands(c) ==
  /\ pc[c] = "approve" /\ late = <<>>
  /\ allowance' = job[c].amount
  /\ Go(c, "park")
  /\ UNCHANGED <<liquid, vault, late, recallHistory, unforced, clock, calls, job>>

(* FloatVault.park and FloatVault.withdraw.                                *)
Parked(amount) ==
  /\ amount <= allowance /\ amount <= liquid
  /\ liquid' = liquid - amount /\ vault' = vault + amount
  /\ allowance' = allowance - amount

mutWithdrawn(amount) ==
  /\ liquid' = liquid + amount /\ vault' = vault - amount
  /\ UNCHANGED allowance
Withdrawn(amount) ==
  /\ amount <= vault
  /\ liquid' = liquid + amount /\ vault' = vault - amount
  /\ UNCHANGED allowance

ParkLands(c) ==
  /\ pc[c] = "park" /\ late = <<>>
  /\ Parked(job[c].amount)
  /\ End(c)
  /\ UNCHANGED <<late, recallHistory, unforced, clock, calls>>

(* withdraw called by the user, or as the recall of a payment.             *)
Withdraw(c, amount) == Start(c, "withdraw", amount, FALSE)

Asked(c) == IF pc[c] = "recall" THEN job[c].deficit ELSE job[c].amount

WithdrawLands(c) ==
  /\ pc[c] \in {"withdraw", "recall"} /\ late = <<>>
  /\ Withdrawn(Asked(c))
  /\ IF pc[c] = "recall"
     THEN Go(c, "recalled") /\ UNCHANGED job
     ELSE End(c)
  /\ UNCHANGED <<late, recallHistory, unforced, clock, calls>>

-----------------------------------------------------------------------------
(* A read or a transaction fails, and the call throws.                     *)
CallFails(c) ==
  /\ pc[c] \in {"readLiquid", "readParked", "verify", "approve", "park",
                "withdraw", "recall", "pay"}
  /\ End(c)
  /\ UNCHANGED <<chain, recallHistory, unforced, clock, calls>>

(* executeContract or the executor gives up: the transaction may land      *)
(* later.  A recall is known by its amount, whether it is unforced and     *)
(* when it was let through.                                                *)
GivenUp(c) ==
  [kind   |-> IF pc[c] = "recall" THEN "withdraw" ELSE pc[c],
   amount |-> Asked(c),
   recall |-> pc[c] = "recall" /\ ~job[c].force,
   at     |-> IF pc[c] = "recall" /\ ~job[c].force THEN job[c].now ELSE 0]

TimesOut(c) ==
  /\ pc[c] \in {"approve", "park", "withdraw", "recall", "pay"}
  /\ Len(late) < MaxLate
  /\ late' = Append(late, GivenUp(c))
  /\ End(c)
  /\ UNCHANGED <<liquid, vault, allowance, recallHistory, unforced, clock, calls>>

(* No call hears of what lands then: nothing is pushed to recallHistory.   *)
LateLands ==
  /\ late # <<>>
  /\ late' = Tail(late)
  /\ LET tx == Head(late) IN
       /\ \/ tx.kind = "pay" /\ Paid(tx.amount)
          \/ tx.kind = "park" /\ Parked(tx.amount)
          \/ tx.kind = "withdraw" /\ Withdrawn(tx.amount)
          \/ /\ tx.kind = "approve" /\ allowance' = tx.amount
             /\ UNCHANGED <<liquid, vault>>
       /\ IF tx.recall THEN Recalled(tx.at, TRUE) ELSE UNCHANGED unforced
  /\ UNCHANGED <<recallHistory, clock, calls, pc, job>>

LateDrops ==
  /\ late # <<>>
  /\ late' = Tail(late)
  /\ UNCHANGED <<liquid, vault, allowance, recallHistory, unforced, clock, calls, pc, job>>

-----------------------------------------------------------------------------
Payment(c) ==
  \/ \E n \in Amounts, f \in BOOLEAN : Pay(c, n, f)
  \/ ReadLiquid(c) \/ Covered(c) \/ Insufficient(c) \/ RateLimited(c)
  \/ StartRecall(c) \/ RecallConfirmed(c) \/ Verify(c) \/ PaymentLands(c)

Transfer(c) ==
  \/ \E n \in Amounts : Park(c, n) \/ Withdraw(c, n)
  \/ ApproveLands(c) \/ ParkLands(c) \/ WithdrawLands(c)
  \/ CallFails(c) \/ TimesOut(c)

Next ==
  \/ ClockTicks
  \/ \E c \in Callers : Payment(c) \/ Transfer(c)
  \/ LateLands \/ LateDrops

Spec == Init /\ [][Next]_vars

-----------------------------------------------------------------------------
Places == {"idle", "readLiquid", "readParked", "recall", "recalled", "verify",
           "pay", "approve", "park", "withdraw"}

(* Every variable has its type; however calls and late transactions mix,   *)
(* neither the wallet nor the deposit goes below zero or gains money.      *)
TypeOK ==
  /\ liquid \in 0..(Liquid0 + Vault0) /\ vault \in 0..(Liquid0 + Vault0)
  /\ liquid + vault <= Liquid0 + Vault0
  /\ allowance \in Nat
  /\ late \in Seq([kind : {"approve", "park", "withdraw", "pay"},
                    amount : Nat \ {0}, recall : BOOLEAN, at : 0..MaxClock])
  /\ recallHistory \in Seq(0..MaxClock)
  /\ unforced \in Seq([at : 0..MaxClock, timedOut : BOOLEAN])
  /\ clock \in 0..MaxClock /\ calls \in 0..MaxCalls
  /\ pc \in [Callers -> Places]
  /\ job \in [Callers -> [amount : Nat, force : BOOLEAN, liquid : Nat,
                          deficit : Nat, now : 0..MaxClock]]

(* The unforced recalls of the last hour that landed, heard of or not.     *)
LastHour == {i \in DOMAIN unforced : clock - unforced[i].at < Hour}

(* The rate limit (lines 488-506): the time of a recall is recorded only   *)
(* when the recall has confirmed, so the payments in progress all pass the *)
(* check, and one that times out is never recorded.  But no more of them   *)
(* are in progress than there are callers, and what they record counts     *)
(* against the next: in any hour the unforced recalls that land are at     *)
(* most the limit, one for each other caller, and those that had timed     *)
(* out, whatever the client forgot.                                        *)
OvershootIsBounded ==
  Cardinality(LastHour)
    <= MaxRecalls + Cardinality(Callers) - 1
         + Cardinality({i \in LastHour : unforced[i].timedOut})

-----------------------------------------------------------------------------
(* What the docs say, and the code does not keep.                           *)

(* "Recall rate limit is a hard limit" (line 459), of the recalls that     *)
(* were not forced.                                                        *)
RecallLimitIsHard == Cardinality(LastHour) <= MaxRecalls

(* wrapPayment "guarantees the wallet has the balance before your code     *)
(* runs" (sdk/README.md:116), to the base unit that the code allows.       *)
PaymentIsCovered ==
  [][\A c \in Callers : pc[c] # "pay" /\ pc'[c] = "pay"
                          => liquid' + 1 >= job'[c].amount]_vars

=============================================================================
