------------------------------ MODULE CircleCli ------------------------------
(***************************************************************************)
(* The Circle wallet adapters, sdk/src/CircleCliAdapter.ts and its twin    *)
(* for the dashboard, dashboard/src/lib/agent/CircleAgentAdapter.ts: the   *)
(* calls executeContract, transfer, getBalance and signTypedData.  The     *)
(* dashboard's knows its address and spaces the commands of one wallet     *)
(* Gap apart; the SDK's may have to look its address up, and does not.     *)
(*                                                                         *)
(* A call submits its transaction by a command of the CLI, then polls it   *)
(* until it ends or the time is up, by the receipt of a hash it knows or   *)
(* by the CLI's list, asking Circle to replace it when it is slow.  Every  *)
(* command and every read is an await: the calls interleave, and a delay   *)
(* may be longer than asked.  The clock is what has passed since           *)
(* something, saturated at the bound it is compared with.                  *)
(***************************************************************************)
EXTENDS Integers

CONSTANTS
  Calls,
  Gap,             (* MIN_CLI_GAP_MS              *)
  Timeout,         (* timeoutMs                   *)
  Threshold,       (* accelerateThresholdMs       *)
  MaxAccelerate,   (* maxAccelerateAttempts       *)
  Poll             (* confirmationPollMs          *)

ASSUME CircleCliAssumption ==
  /\ Gap \in Nat /\ Timeout \in Nat \ {0} /\ Threshold \in Nat
  /\ MaxAccelerate \in Nat /\ Poll \in Nat \ {0}

VARIABLES
  adapter,   (* which of the two                                           *)
  known,     (* this.walletAddress is set                                  *)
  tx,        (* of each call: fate, the hash it is under, whether replaced *)
  sinceCli,  (* since the wallet's last command                            *)
  pc,        (* where each call is                                         *)
  job        (* what each call keeps                                       *)

vars == <<adapter, known, tx, sinceCli, pc, job>>
wallet == <<adapter, known>>

(* goal: what the call is for.  cmd: the command that is out, or the next, *)
(* "wallets" first where the address is unknown.  left: the replacements   *)
(* still allowed.  raced: another command of the wallet went out while     *)
(* this one waited for its slot.  missed: the last receipt asked for was   *)
(* not there, of a transaction that had ended.                             *)
NewJob == [goal |-> "submit", cmd |-> "submit", wait |-> 0, raced |-> FALSE,
           hasId |-> FALSE, hash |-> "none", elapsed |-> 0, since |-> 0, left |-> 0,
           missed |-> FALSE, told |-> "nothing"]

Spacing == IF adapter = "dashboard" THEN Gap ELSE 0

Init ==
  /\ adapter \in {"sdk", "dashboard"}
  /\ known \in {TRUE, adapter = "dashboard"}
  /\ tx = [c \in Calls |->
             [fate |-> "none", under |-> "none", replaced |-> FALSE]]
  /\ sinceCli = Spacing
  /\ pc = [c \in Calls |-> "idle"]
  /\ job = [c \in Calls |-> NewJob]

InLoop(c) == job[c].cmd \in {"list", "accelerate"}

Ended(c) == tx[c].fate \in {"landed", "failed"}

Go(c, place, j) == /\ pc' = [pc EXCEPT ![c] = place]
                   /\ job' = [job EXCEPT ![c] = j]
Tell(c, what) == Go(c, "done", [NewJob EXCEPT !.told = what])

-----------------------------------------------------------------------------
(* runCommand and acquireCliSlot.  Without a wait there is no await before *)
(* the command goes out; with one, the others that wait have read the same *)
(* last call.                                                              *)

Issue(c, j) ==
  /\ pc' = [pc EXCEPT ![c] = "command"]
  /\ job' = [d \in Calls |->
               IF d = c THEN [j EXCEPT !.raced = FALSE]
               ELSE [job[d] EXCEPT !.raced = @ \/ pc[d] = "slot"]]
  /\ sinceCli' = 0

mutRunCommand(c, j) == Issue(c, j)
RunCommand(c, j) ==
  IF sinceCli >= Spacing
  THEN Issue(c, j)
  ELSE /\ Go(c, "slot", [j EXCEPT !.wait = Spacing - sinceCli])
       /\ UNCHANGED sinceCli

SlotComes(c) ==
  /\ pc[c] = "slot" /\ job[c].wait = 0
  /\ Issue(c, job[c])
  /\ UNCHANGED <<wallet, tx>>

-----------------------------------------------------------------------------
(* The calls, up to the first answer.                                      *)

(* With the address known: a balance is read from the chain, the rest is   *)
(* a command.                                                              *)
Start(c, j) ==
  IF j.goal = "balance"
  THEN Go(c, "rpc", [j EXCEPT !.cmd = j.goal]) /\ UNCHANGED sinceCli
  ELSE RunCommand(c, [j EXCEPT !.cmd = j.goal])

(* getAddress lists the wallets unless one was found before.               *)
Call(c, j) ==
  /\ pc[c] = "idle"
  /\ IF known THEN Start(c, j) ELSE RunCommand(c, [j EXCEPT !.cmd = "wallets"])
  /\ UNCHANGED <<wallet, tx>>

Submit(c, enableReplacement) ==
  Call(c, [NewJob EXCEPT !.left =
             IF enableReplacement THEN MaxAccelerate ELSE 0])

(* Replacements are on unless refused for the dashboard, off unless asked  *)
(* for in the SDK.  transfer goes the same way with another command.       *)
executeContract(c) ==
  \E enableReplacement \in BOOLEAN : Submit(c, enableReplacement)
transfer(c) == \E enableReplacement \in BOOLEAN : Submit(c, enableReplacement)
getBalance(c) == Call(c, [NewJob EXCEPT !.goal = "balance"])
signTypedData(c) == Call(c, [NewJob EXCEPT !.goal = "sign"])

Answered(c, cmd) == pc[c] = "command" /\ job[c].cmd = cmd

(* The wallet is among those listed.                                       *)
AddressFound(c) ==
  /\ Answered(c, "wallets")
  /\ known' = TRUE
  /\ Start(c, job[c])
  /\ UNCHANGED <<adapter, tx>>

(* The Terms gate, an expired session, no such wallet, no output: it       *)
(* throws, except that polls and replacements have a catch of their own.   *)
CommandFails(c) ==
  /\ \E cmd \in {"wallets", "balance", "sign"} : Answered(c, cmd)
  /\ Tell(c, "thrown")
  /\ UNCHANGED <<wallet, tx, sinceCli>>

(* A balance or a signature, which says nothing of any transaction.        *)
Replies(c) ==
  /\ \E cmd \in {"balance", "sign"} :
       \/ Answered(c, cmd)
       \/ cmd = "balance" /\ pc[c] = "rpc" /\ job[c].cmd = cmd
  /\ Tell(c, "nothing")
  /\ UNCHANGED <<wallet, tx, sinceCli>>

Pending(c) == tx' = [tx EXCEPT ![c].fate = "pending"]

(* A command that fails may have broadcast its transaction all the same.   *)
SubmitFails(c) ==
  /\ Answered(c, "submit")
  /\ Tell(c, "thrown")
  /\ Pending(c) \/ UNCHANGED tx
  /\ UNCHANGED <<wallet, sinceCli>>

Submitted(c) ==
  /\ Answered(c, "submit") /\ Pending(c)
  /\ \E hasId, hasHash, waitForConfirmation \in BOOLEAN :
       IF waitForConfirmation
       THEN Go(c, "poll", [job[c] EXCEPT
              !.cmd = "list", !.hasId = hasId,
              !.hash = IF hasId /\ hasHash THEN "original" ELSE "none"])
       ELSE Tell(c, "submitted")
  /\ UNCHANGED <<wallet, sinceCli>>

-----------------------------------------------------------------------------
(* The confirmation loop.                                                  *)

(* What the loop does with an answer, read of a receipt or not, and with   *)
(* the hash that came with it: the next step, when it is not terminal.     *)
NotYet(c, j, stuck) ==
  IF (stuck \/ j.since > Threshold) /\ j.left > 0
  THEN RunCommand(c, [j EXCEPT !.cmd = "accelerate", !.left = @ - 1])
  ELSE Go(c, "sleep", [j EXCEPT !.wait = Poll]) /\ UNCHANGED sinceCli

mutHeard(c, status, receipt, hash) ==
  \/ /\ status \in {"landed", "failed"}
     /\ Tell(c, "complete") /\ UNCHANGED sinceCli
  \/ /\ status \in {"pending", "stuck", "unknown"}
     /\ NotYet(c, [job[c] EXCEPT !.hash = hash,
                                  !.missed = receipt /\ Ended(c)],
               status = "stuck")
Heard(c, status, receipt, hash) ==
  \/ status = "landed" /\ Tell(c, "complete") /\ UNCHANGED sinceCli
  \/ status = "failed" /\ Tell(c, "terminated") /\ UNCHANGED sinceCli
  \/ /\ status \in {"pending", "stuck", "unknown"}
     /\ NotYet(c, [job[c] EXCEPT !.hash = hash,
                                  !.missed = receipt /\ Ended(c)],
               status = "stuck")

mutAskAgain(c) ==
  /\ pc[c] = "poll"
  /\ IF job[c].hash # "none"
     THEN Go(c, "rpc", job[c]) /\ UNCHANGED sinceCli
     ELSE RunCommand(c, job[c])
  /\ UNCHANGED <<wallet, tx>>
AskAgain(c) ==
  /\ pc[c] = "poll" /\ job[c].elapsed < Timeout
  /\ IF job[c].hash # "none"
     THEN Go(c, "rpc", job[c]) /\ UNCHANGED sinceCli
     ELSE RunCommand(c, job[c])
  /\ UNCHANGED <<wallet, tx>>

(* The receipt of the hash that the call knows: none before it is mined,   *)
(* and none ever when its replacement is.                                  *)
Receipt(c) == IF job[c].hash = tx[c].under THEN tx[c].fate ELSE "pending"

RpcAnswers(c) ==
  /\ pc[c] = "rpc" /\ InLoop(c)
  /\ Heard(c, Receipt(c), TRUE, job[c].hash)
  /\ UNCHANGED <<wallet, tx>>

mutRpcFails(c) ==
  /\ pc[c] = "rpc" /\ InLoop(c)
  /\ Heard(c, "pending", TRUE, job[c].hash)
  /\ UNCHANGED <<wallet, tx>>
RpcFails(c) ==
  /\ pc[c] = "rpc"
  /\ RunCommand(c, job[c])
  /\ UNCHANGED <<wallet, tx>>

(* The CLI's list may fail, miss the transaction, or lag behind the chain. *)
(* Its hash, where it has one, replaces the one that was known.            *)
Listed(c) ==
  {[status |-> "unknown", hash |-> job[c].hash]} \cup
  IF job[c].hasId
  THEN [status : {"pending", "stuck"}
                   \cup ({tx[c].fate} \cap {"landed", "failed"}),
        hash : ({job[c].hash, "original", tx[c].under} \ {"none"})
                 \cup IF tx[c].replaced THEN {"replacement"} ELSE {}]
  ELSE {}

ListAnswers(c) ==
  /\ Answered(c, "list")
  /\ \E answer \in Listed(c) :
       Heard(c, answer.status, FALSE, answer.hash)
  /\ UNCHANGED <<wallet, tx>>

(* A replacement that Circle accepts restarts the threshold; one it        *)
(* refuses has used its attempt and is asked again at the next poll.       *)
AccelerateAnswers(c) ==
  /\ Answered(c, "accelerate")
  /\ \E accepted \in {FALSE, job[c].hasId} :
       /\ Go(c, "sleep", [job[c] EXCEPT
               !.cmd = "list", !.wait = Poll,
               !.since = IF accepted THEN 0 ELSE @])
       /\ tx' = [tx EXCEPT ![c].replaced =
                   @ \/ (accepted /\ tx[c].fate = "pending")]
  /\ UNCHANGED <<wallet, sinceCli>>

Wakes(c) ==
  /\ pc[c] = "sleep" /\ job[c].wait = 0
  /\ Go(c, "poll", job[c])
  /\ UNCHANGED <<wallet, tx, sinceCli>>

GivesUp(c) ==
  /\ pc[c] = "poll" /\ job[c].elapsed >= Timeout
  /\ Tell(c, "thrown")
  /\ UNCHANGED <<wallet, tx, sinceCli>>

-----------------------------------------------------------------------------
(* The chain and the clock.  The original and its replacement share their  *)
(* nonce: one of them is mined, or Circle cancels the transaction.         *)

ChainSettles(c) ==
  /\ tx[c].fate = "pending"
  /\ \E fate \in {"landed", "failed"}, under \in {"original", "replacement"} :
       /\ under = "replacement" => tx[c].replaced
       /\ tx' = [tx EXCEPT ![c] =
                   [fate |-> fate, under |-> under, replaced |-> FALSE]]
  /\ UNCHANGED <<wallet, sinceCli, pc, job>>

Saturated(n, bound) == IF n < bound THEN n + 1 ELSE bound
Less(n) == IF n > 0 THEN n - 1 ELSE 0

Tick ==
  /\ sinceCli' = Saturated(sinceCli, Spacing)
  /\ job' = [c \in Calls |->
       [job[c] EXCEPT
          !.wait    = Less(@),
          !.elapsed = IF InLoop(c) THEN Saturated(@, Timeout) ELSE @,
          !.since   = IF InLoop(c) THEN Saturated(@, Threshold + 1) ELSE @]]
  /\ UNCHANGED <<wallet, tx, pc>>

-----------------------------------------------------------------------------
Step(c) ==
  \/ SlotComes(c) \/ AddressFound(c) \/ CommandFails(c) \/ Replies(c)
  \/ SubmitFails(c) \/ Submitted(c)
  \/ AskAgain(c) \/ RpcAnswers(c) \/ RpcFails(c) \/ ListAnswers(c)
  \/ AccelerateAnswers(c) \/ Wakes(c) \/ GivesUp(c)

Begin(c) == \/ executeContract(c) \/ transfer(c)
            \/ getBalance(c) \/ signTypedData(c)

Next == \/ \E c \in Calls : Begin(c) \/ Step(c) \/ ChainSettles(c)
        \/ Tick

Spec == Init /\ [][Next]_vars

(* Time passes, and a command of the CLI or a read of the chain ends: the  *)
(* adapters set no time limit of their own on either.                      *)
FairSpec == Spec /\ WF_vars(Tick) /\ \A c \in Calls : WF_vars(Step(c))

-----------------------------------------------------------------------------
TypeOK ==
  /\ adapter \in {"sdk", "dashboard"} /\ known \in BOOLEAN
  /\ tx \in [Calls -> [fate : {"none", "pending", "landed", "failed"},
                       under : {"none", "original", "replacement"},
                       replaced : BOOLEAN]]
  /\ sinceCli \in 0..Spacing
  /\ pc \in [Calls ->
       {"idle", "slot", "command", "poll", "rpc", "sleep", "done"}]
  /\ job \in [Calls ->
       [goal : {"submit", "balance", "sign"},
        cmd : {"wallets", "submit", "balance", "sign", "list", "accelerate"},
        wait : Nat, raced : BOOLEAN,
        hasId : BOOLEAN, hash : {"none", "original", "replacement"},
        elapsed : 0..Timeout, since : 0..(Threshold + 1),
        left : 0..MaxAccelerate, missed : BOOLEAN,
        told : {"nothing", "submitted", "complete", "terminated", "thrown"}]]

(* What the callers are promised (CircleCliAdapter.ts:291-336): COMPLETE   *)
(* only of a transaction that landed, "terminated" only of one that never  *)
(* will, through replacements, lagging lists and failing reads.            *)
Promise == INSTANCE WalletPromise WITH
  fate <- [c \in Calls |-> tx[c].fate], told <- [c \in Calls |-> job[c].told]
ImplementsPromise == Promise!Spec

(* A poll by receipt (CircleCliAdapter.ts:212-222) says "pending" of a     *)
(* transaction that has ended only when the call had it replaced, and the  *)
(* hash it knows is the one of the two that was not mined.                 *)
BlindOnlyToReplacements ==
  \A c \in Calls :
    job[c].missed =>
      tx[c].under # job[c].hash /\ job[c].left < MaxAccelerate

(* The per-wallet spacing (CircleAgentAdapter.ts:50-58): a command goes    *)
(* out sooner than Gap after the last only when that one went out while it *)
(* waited: two that wait together have read the same last command.         *)
SpacedUnlessRaced ==
  [][\A c \in Calls :
       pc[c] # "command" /\ pc'[c] = "command" /\ sinceCli < Spacing
         => pc[c] = "slot" /\ job[c].raced]_vars

(* A call ends (lines 291-337), in the time it was given and the time its  *)
(* commands take, whatever the chain does with its transaction.            *)
EveryCallEnds ==
  \A c \in Calls : pc[c] # "idle" ~> pc[c] = "done"
=============================================================================
