--------------------------- MODULE CircleCliProofs ---------------------------
(***************************************************************************)
(* Both wallet adapters keep WalletPromise, for any number of calls at     *)
(* once and any spacing, timeout, threshold and number of replacements;    *)
(* and only a replaced transaction can end without its call seeing it.     *)
(***************************************************************************)
EXTENDS CircleCli, TLAPS

-----------------------------------------------------------------------------
(* What the promise needs of the types: that a clock is an integer will    *)
(* do.                                                                     *)
Places == {"idle", "slot", "command", "poll", "rpc", "sleep", "done"}
Hashes == {"none", "original", "replacement"}

Job == [goal : {"submit", "balance", "sign"},
        cmd : {"wallets", "submit", "balance", "sign", "list", "accelerate"},
        wait : Int, raced : BOOLEAN, hasId : BOOLEAN, hash : Hashes,
        elapsed : Int, since : Int, left : Int, missed : BOOLEAN,
        told : {"nothing", "submitted", "complete", "terminated", "thrown"}]

Kept ==
  /\ pc \in [Calls -> Places] /\ job \in [Calls -> Job]
  /\ tx \in [Calls -> [fate : {"none", "pending", "landed", "failed"},
                       under : Hashes, replaced : BOOLEAN]]
  /\ sinceCli \in Int /\ Spacing \in Int

(* Only a call that is over has told anything, and a call whose            *)
(* transaction is out never goes back to where it would send it.           *)
Quiet(c) == pc[c] # "done" => job[c].told = "nothing"
Forward(c) == tx[c].fate # "none" =>
                \/ pc[c] = "done"
                \/ pc[c] # "idle" /\ job[c].cmd \in {"list", "accelerate"}

PromiseInv == Kept /\ \A c \in Calls : Quiet(c) /\ Forward(c)

-----------------------------------------------------------------------------
(* A step of one call: it goes on, broadcasts, ends with an answer, or its *)
(* transaction settles.                                                    *)

OthersStay(c) ==
  \A d \in Calls \ {c} :
    /\ pc'[d] = pc[d] /\ tx'[d] = tx[d]
    /\ job'[d].cmd = job[d].cmd /\ job'[d].told = job[d].told

GoesOn(c) ==
  /\ pc'[c] \notin {"idle", "done"} /\ pc[c] # "done"
  /\ job'[c].told = "nothing"
  /\ tx'[c].fate = tx[c].fate
  /\ tx[c].fate # "none" => job'[c].cmd \in {"list", "accelerate"}

Broadcasts(c) ==
  /\ tx[c].fate = "none" /\ pc[c] # "done" /\ tx'[c].fate = "pending"
  /\ \/ pc'[c] = "done" /\ job'[c].told \in {"submitted", "thrown"}
     \/ pc'[c] = "poll" /\ job'[c].told = "nothing" /\ job'[c].cmd = "list"

Answers(c) ==
  /\ pc[c] # "done" /\ pc'[c] = "done"
  /\ tx'[c].fate = tx[c].fate
  /\ job'[c].told \in {"nothing", "complete", "terminated", "thrown"}
  /\ job'[c].told = "complete" => tx[c].fate = "landed"
  /\ job'[c].told = "terminated" => tx[c].fate = "failed"

Settles(c) ==
  /\ pc'[c] = pc[c] /\ job'[c] = job[c]
  /\ tx[c].fate = "pending" /\ tx'[c].fate \in {"landed", "failed"}

Moves(c) == /\ Kept' /\ OthersStay(c)
            /\ GoesOn(c) \/ Broadcasts(c) \/ Answers(c) \/ Settles(c)

FateOf == [c \in Calls |-> tx[c].fate]
ToldOf == [c \in Calls |-> job[c].told]

(* Every such step is one of the promise, or none, and keeps the invariant.*)
LEMMA MovesRefine ==
  ASSUME PromiseInv, NEW c \in Calls, Moves(c)
  PROVE  PromiseInv' /\ [Promise!Next]_<<FateOf, ToldOf>>
<1>1. \A d \in Calls \ {c} : FateOf'[d] = FateOf[d] /\ ToldOf'[d] = ToldOf[d]
  BY DEF Moves, OthersStay, FateOf, ToldOf
<1>2. /\ FateOf'[c] = tx'[c].fate /\ FateOf[c] = tx[c].fate
      /\ ToldOf'[c] = job'[c].told /\ ToldOf[c] = job[c].told
  BY DEF FateOf, ToldOf
<1>3. /\ FateOf' = [FateOf EXCEPT ![c] = tx'[c].fate]
      /\ ToldOf' = [ToldOf EXCEPT ![c] = job'[c].told]
  <2>1. /\ FateOf' = [d \in Calls |-> FateOf'[d]]
        /\ ToldOf' = [d \in Calls |-> ToldOf'[d]]
    BY DEF FateOf, ToldOf
  <2>2. /\ FateOf = [d \in Calls |-> FateOf[d]]
        /\ ToldOf = [d \in Calls |-> ToldOf[d]]
    BY DEF FateOf, ToldOf
  <2> HIDE DEF FateOf, ToldOf
  <2> QED BY <1>1, <1>2, <2>1, <2>2
<1>4. \A d \in Calls \ {c} : Quiet(d)' /\ Forward(d)'
  BY DEF PromiseInv, Quiet, Forward, Moves, OthersStay
<1>5. Quiet(c) /\ Forward(c) /\ Kept'
  BY DEF PromiseInv, Moves
<1>6. CASE GoesOn(c)
  <2>1. Quiet(c)' /\ Forward(c)'
    BY <1>5, <1>6 DEF GoesOn, Quiet, Forward
  <2>2. FateOf' = FateOf
    BY <1>2, <1>3, <1>6 DEF GoesOn, FateOf
  <2>3. ToldOf' = ToldOf
    BY <1>2, <1>3, <1>5, <1>6 DEF GoesOn, Quiet, ToldOf
  <2> QED BY <1>4, <1>5, <2>1, <2>2, <2>3 DEF PromiseInv
<1>7. CASE Broadcasts(c)
  <2>1. Quiet(c)' /\ Forward(c)'
    BY <1>5, <1>7 DEF Broadcasts, Quiet, Forward
  <2>2. job[c].told = "nothing"
    BY <1>5, <1>7 DEF Broadcasts, Quiet
  <2>3. ToldOf' \in {ToldOf} \cup
               {[ToldOf EXCEPT ![c] = t] : t \in {"submitted", "thrown"}}
    <3>1. CASE job'[c].told = "nothing"
      BY <3>1, <1>2, <1>3, <2>2 DEF ToldOf
    <3>2. CASE job'[c].told # "nothing"
      BY <3>2, <1>3, <1>7 DEF Broadcasts
    <3> QED BY <3>1, <3>2
  <2>4. Promise!Broadcast(c)
    BY <1>2, <1>3, <1>7, <2>2, <2>3
       DEF Broadcasts, Promise!Broadcast, FateOf, ToldOf
  <2> QED BY <1>4, <1>5, <2>1, <2>4 DEF PromiseInv, Promise!Next
<1>8. CASE Answers(c)
  <2>1. Quiet(c)' /\ Forward(c)'
    BY <1>5, <1>8 DEF Answers, Quiet, Forward
  <2>2. job[c].told = "nothing" /\ FateOf' = FateOf
    BY <1>2, <1>3, <1>5, <1>8 DEF Answers, Quiet, FateOf
  <2>3. CASE job'[c].told = "nothing"
    <3>1. ToldOf' = ToldOf
      BY <2>2, <2>3, <1>2, <1>3 DEF ToldOf
    <3> QED BY <3>1, <1>4, <1>5, <2>1, <2>2 DEF PromiseInv
  <2>4. CASE job'[c].told # "nothing"
    <3>1. Promise!Answer(c)
      BY <1>2, <1>3, <1>8, <2>2, <2>4
         DEF Answers, Promise!Answer, FateOf, ToldOf
    <3> QED BY <3>1, <1>4, <1>5, <2>1 DEF PromiseInv, Promise!Next
  <2> QED BY <2>3, <2>4
<1>9. CASE Settles(c)
  <2>1. Quiet(c)' /\ Forward(c)'
    BY <1>5, <1>9 DEF Settles, Quiet, Forward
  <2>2. ToldOf' = ToldOf
    BY <1>2, <1>3, <1>9 DEF Settles, ToldOf
  <2>3. Promise!Settle(c)
    BY <1>2, <1>3, <1>9, <2>2 DEF Settles, Promise!Settle, FateOf, ToldOf
  <2> QED BY <1>4, <1>5, <2>1, <2>3 DEF PromiseInv, Promise!Next
<1> QED BY <1>6, <1>7, <1>8, <1>9 DEF Moves

-----------------------------------------------------------------------------
(* How the steps place a call.                                             *)

Placed(c) ==
  /\ pc' \in [Calls -> Places] /\ job' \in [Calls -> Job]
  /\ sinceCli' \in Int
  /\ \A d \in Calls \ {c} :
       /\ pc'[d] = pc[d]
       /\ job'[d].cmd = job[d].cmd /\ job'[d].told = job[d].told

LEMMA GoPlaces ==
  ASSUME Kept, NEW c \in Calls, NEW place \in Places, NEW j \in Job,
         Go(c, place, j), UNCHANGED sinceCli
  PROVE  Placed(c) /\ pc'[c] = place /\ job'[c] = j
BY DEF Go, Kept, Placed

LEMMA RacedOnly ==
  ASSUME NEW r \in Job, NEW b \in BOOLEAN
  PROVE  /\ [r EXCEPT !.raced = b] \in Job
         /\ [r EXCEPT !.raced = b].cmd = r.cmd
         /\ [r EXCEPT !.raced = b].told = r.told
BY DEF Job

LEMMA IssuePlaces ==
  ASSUME Kept, NEW c \in Calls, NEW j \in Job, Issue(c, j)
  PROVE  /\ Placed(c) /\ pc'[c] = "command"
         /\ job'[c].cmd = j.cmd /\ job'[c].told = j.told
<1> DEFINE race(d) == job[d].raced \/ pc[d] = "slot"
<1>1. \A d \in Calls : job[d] \in Job /\ race(d) \in BOOLEAN
  BY DEF Kept
<1>2. \A d \in Calls :
        job'[d] = IF d = c THEN [j EXCEPT !.raced = FALSE]
                  ELSE [job[d] EXCEPT !.raced = race(d)]
  BY <1>1 DEF Issue, Job
<1>3. \A d \in Calls \ {c} : /\ job'[d] \in Job
                              /\ job'[d].cmd = job[d].cmd
                              /\ job'[d].told = job[d].told
  <2> HIDE DEF race
  <2> TAKE d \in Calls \ {c}
  <2>1. job'[d] = [job[d] EXCEPT !.raced = race(d)]
    BY <1>2
  <2> QED BY <1>1, <2>1, RacedOnly
<1>4. job'[c] \in Job /\ job'[c].cmd = j.cmd /\ job'[c].told = j.told
  <2>1. job'[c] = [j EXCEPT !.raced = FALSE]
    BY <1>2
  <2> QED BY <2>1, RacedOnly
<1>5. job' = [d \in Calls |-> job'[d]]
  BY DEF Issue
<1>6. job' \in [Calls -> Job]
  BY <1>3, <1>4, <1>5
<1>7. /\ pc' \in [Calls -> Places] /\ pc'[c] = "command"
      /\ \A d \in Calls \ {c} : pc'[d] = pc[d]
  BY DEF Issue, Kept, Places
<1>8. sinceCli' \in Int
  BY DEF Issue
<1> QED BY <1>3, <1>4, <1>6, <1>7, <1>8 DEF Placed

LEMMA RunCommandPlaces ==
  ASSUME Kept, NEW c \in Calls, NEW j \in Job, RunCommand(c, j)
  PROVE  /\ Placed(c) /\ pc'[c] \in {"command", "slot"}
         /\ job'[c].cmd = j.cmd /\ job'[c].told = j.told
<1>1. CASE Issue(c, j)
  BY <1>1, IssuePlaces
<1>2. CASE /\ Go(c, "slot", [j EXCEPT !.wait = Spacing - sinceCli])
           /\ UNCHANGED sinceCli
  <2>1. Spacing - sinceCli \in Int
    BY DEF Kept
  <2>2. [j EXCEPT !.wait = Spacing - sinceCli] \in Job
    BY <2>1 DEF Job
  <2>3. /\ Placed(c) /\ pc'[c] = "slot"
        /\ job'[c] = [j EXCEPT !.wait = Spacing - sinceCli]
    BY <1>2, <2>2, GoPlaces DEF Places
  <2> QED BY <2>3 DEF Job
<1> QED BY <1>1, <1>2 DEF RunCommand

LEMMA NewJobIsJob == NewJob \in Job /\ NewJob.told = "nothing"
BY DEF NewJob, Job, Hashes

LEMMA TellPlaces ==
  ASSUME Kept, NEW c \in Calls, UNCHANGED sinceCli,
         NEW what \in {"nothing", "submitted", "complete", "terminated",
                       "thrown"},
         Tell(c, what)
  PROVE  Placed(c) /\ pc'[c] = "done" /\ job'[c].told = what
<1>1. [NewJob EXCEPT !.told = what] \in Job
  BY NewJobIsJob DEF Job
<1>2. [NewJob EXCEPT !.told = what].told = what
  BY NewJobIsJob DEF Job
<1> QED BY <1>1, <1>2, GoPlaces DEF Tell, Places

LEMMA StartPlaces ==
  ASSUME Kept, NEW c \in Calls, NEW j \in Job, Start(c, j)
  PROVE  /\ Placed(c) /\ pc'[c] \in {"rpc", "command", "slot"}
         /\ job'[c].told = j.told
<1>1. [j EXCEPT !.cmd = j.goal] \in Job
  BY DEF Job
<1>2. [j EXCEPT !.cmd = j.goal].told = j.told
  BY DEF Job
<1>3. CASE j.goal = "balance"
  BY <1>1, <1>2, <1>3, GoPlaces DEF Start, Places
<1>4. CASE j.goal # "balance"
  BY <1>1, <1>2, <1>4, RunCommandPlaces DEF Start
<1> QED BY <1>3, <1>4

-----------------------------------------------------------------------------
(* Every step of a call moves it in one of those ways.                     *)

(* A step that leaves the transactions alone, once it is seen to place.    *)
LEMMA PlacedMoves ==
  ASSUME Kept, NEW c \in Calls, Placed(c), UNCHANGED <<tx, adapter>>
  PROVE  Kept' /\ OthersStay(c) /\ tx'[c].fate = tx[c].fate
<1>1. Spacing' = Spacing
  BY DEF Spacing
<1> QED BY <1>1 DEF Kept, Placed, OthersStay

(* What the invariant says of a call that is under way.                    *)
LEMMA UnderWay ==
  ASSUME PromiseInv, NEW c \in Calls, pc[c] # "done"
  PROVE  /\ Kept /\ job[c] \in Job /\ job[c].told = "nothing"
         /\ tx[c].fate # "none" => /\ pc[c] # "idle"
                                  /\ job[c].cmd \in {"list", "accelerate"}
BY DEF PromiseInv, Kept, Quiet, Forward

LEMMA BeginMoves ==
  ASSUME PromiseInv, NEW c \in Calls, Begin(c)
  PROVE  Moves(c)
<1>1. \A n \in Int : /\ [NewJob EXCEPT !.left = n] \in Job
                     /\ [NewJob EXCEPT !.left = n].told = "nothing"
  BY NewJobIsJob DEF Job
<1>2. \A g \in {"balance", "sign"} :
        /\ [NewJob EXCEPT !.goal = g] \in Job
        /\ [NewJob EXCEPT !.goal = g].told = "nothing"
  BY NewJobIsJob DEF Job
<1>3. PICK j \in Job : j.told = "nothing" /\ Call(c, j)
  <2>1. MaxAccelerate \in Int /\ 0 \in Int
    BY CircleCliAssumption
  <2>2. CASE executeContract(c) \/ transfer(c)
    <3>1. PICK n \in Int : Call(c, [NewJob EXCEPT !.left = n])
      BY <2>1, <2>2 DEF executeContract, transfer, Submit
    <3> QED BY <1>1, <3>1
  <2>3. CASE getBalance(c)
    BY <1>2, <2>3 DEF getBalance
  <2>4. CASE signTypedData(c)
    BY <1>2, <2>4 DEF signTypedData
  <2> QED BY <2>2, <2>3, <2>4 DEF Begin
<1>4. pc[c] = "idle" /\ UNCHANGED <<adapter, known, tx>>
  BY <1>3 DEF Call, wallet
<1>5. Kept /\ tx[c].fate = "none"
  BY <1>4, UnderWay
<1>6. Placed(c) /\ pc'[c] \in {"rpc", "command", "slot"}
      /\ job'[c].told = "nothing"
  <2>1. CASE known
    BY <1>3, <1>5, <2>1, StartPlaces DEF Call
  <2>2. CASE ~known
    <3>1. /\ [j EXCEPT !.cmd = "wallets"] \in Job
          /\ [j EXCEPT !.cmd = "wallets"].told = "nothing"
      BY <1>3 DEF Job
    <3> QED BY <1>3, <1>5, <2>2, <3>1, RunCommandPlaces DEF Call
  <2> QED BY <2>1, <2>2
<1> QED BY <1>4, <1>5, <1>6, PlacedMoves DEF Moves, GoesOn

LEMMA CommandMoves ==
  ASSUME PromiseInv, NEW c \in Calls,
         \/ SlotComes(c) \/ AddressFound(c) \/ CommandFails(c) \/ Replies(c)
         \/ SubmitFails(c) \/ Submitted(c)
  PROVE  Moves(c)
<1>1. /\ pc[c] # "done" /\ pc[c] # "idle"
      /\ Kept /\ job[c] \in Job /\ job[c].told = "nothing"
  <2>1. pc[c] \in {"slot", "command", "rpc"}
    BY DEF SlotComes, AddressFound, CommandFails, Replies, SubmitFails,
           Submitted, Answered
  <2> QED BY <2>1, UnderWay
<1>2. tx[c].fate # "none" => job[c].cmd \in {"list", "accelerate"}
  BY <1>1, UnderWay
<1>3. CASE SlotComes(c)
  <2>1. /\ Placed(c) /\ pc'[c] = "command"
        /\ job'[c].cmd = job[c].cmd /\ job'[c].told = job[c].told
    BY <1>1, <1>3, IssuePlaces DEF SlotComes
  <2>2. UNCHANGED <<tx, adapter>>
    BY <1>3 DEF SlotComes, wallet
  <2> QED BY <1>1, <1>2, <2>1, <2>2, PlacedMoves DEF Moves, GoesOn
<1>4. CASE AddressFound(c)
  <2>1. Placed(c) /\ pc'[c] \in {"rpc", "command", "slot"}
        /\ job'[c].told = job[c].told
    BY <1>1, <1>4, StartPlaces DEF AddressFound
  <2>2. UNCHANGED <<tx, adapter>> /\ tx[c].fate = "none"
    BY <1>2, <1>4 DEF AddressFound, Answered
  <2> QED BY <1>1, <2>1, <2>2, PlacedMoves DEF Moves, GoesOn
<1>5. CASE CommandFails(c)
  <2>1. UNCHANGED <<tx, adapter, sinceCli>>
    BY <1>5 DEF CommandFails, wallet
  <2>2. Placed(c) /\ pc'[c] = "done" /\ job'[c].told = "thrown"
    BY <1>1, <1>5, <2>1, TellPlaces DEF CommandFails
  <2> QED BY <1>1, <2>1, <2>2, PlacedMoves DEF Moves, Answers
<1>6. CASE Replies(c)
  <2>1. UNCHANGED <<tx, adapter, sinceCli>>
    BY <1>6 DEF Replies, wallet
  <2>2. Placed(c) /\ pc'[c] = "done" /\ job'[c].told = "nothing"
    BY <1>1, <1>6, <2>1, TellPlaces DEF Replies
  <2> QED BY <1>1, <2>1, <2>2, PlacedMoves DEF Moves, Answers
<1>7. ASSUME Pending(c), UNCHANGED adapter, Placed(c)
      PROVE  /\ Kept' /\ OthersStay(c)
             /\ tx'[c].fate = "pending"
  <2>1. Spacing' = Spacing
    BY <1>7 DEF Spacing
  <2> QED BY <1>1, <1>7, <2>1 DEF Pending, Kept, Placed, OthersStay
<1>8. CASE SubmitFails(c)
  <2>1. UNCHANGED <<adapter, sinceCli>> /\ tx[c].fate = "none"
    BY <1>2, <1>8 DEF SubmitFails, wallet, Answered
  <2>2. Placed(c) /\ pc'[c] = "done" /\ job'[c].told = "thrown"
    BY <1>1, <1>8, <2>1, TellPlaces DEF SubmitFails
  <2>3. CASE Pending(c)
    BY <1>1, <1>7, <2>1, <2>2, <2>3 DEF Moves, Broadcasts
  <2>4. CASE UNCHANGED tx
    BY <1>1, <2>1, <2>2, <2>4, PlacedMoves DEF Moves, Answers
  <2> QED BY <1>8, <2>3, <2>4 DEF SubmitFails
<1>9. CASE Submitted(c)
  <2>1. UNCHANGED <<adapter, sinceCli>> /\ tx[c].fate = "none" /\ Pending(c)
    BY <1>2, <1>9 DEF Submitted, wallet, Answered
  <2>2. CASE Tell(c, "submitted")
    <3>1. Placed(c) /\ pc'[c] = "done" /\ job'[c].told = "submitted"
      BY <1>1, <2>1, <2>2, TellPlaces
    <3> QED BY <1>1, <1>7, <2>1, <3>1 DEF Moves, Broadcasts
  <2>3. ASSUME NEW hasId \in BOOLEAN, NEW hash \in Hashes,
               Go(c, "poll", [job[c] EXCEPT !.cmd = "list", !.hasId = hasId,
                                            !.hash = hash])
        PROVE  Moves(c)
    <3> DEFINE j == [job[c] EXCEPT !.cmd = "list", !.hasId = hasId,
                                   !.hash = hash]
    <3>1. j \in Job /\ j.cmd = "list" /\ j.told = "nothing"
      BY <1>1 DEF Job
    <3>2. Placed(c) /\ pc'[c] = "poll" /\ job'[c] = j
      <4> HIDE DEF j
      <4>1. Go(c, "poll", j)
        BY <2>3 DEF j
      <4> QED BY <1>1, <2>1, <3>1, <4>1, GoPlaces DEF Places
    <3> HIDE DEF j
    <3> QED BY <1>1, <1>7, <2>1, <3>1, <3>2 DEF Moves, Broadcasts
  <2>4. "original" \in Hashes /\ "none" \in Hashes
    BY DEF Hashes
  <2> QED BY <1>9, <2>2, <2>3, <2>4 DEF Submitted
<1> QED BY <1>3, <1>4, <1>5, <1>6, <1>8, <1>9

(* What becomes of a job when its replacement is asked for and answered.   *)
LEMMA ReplacementUsed ==
  ASSUME NEW j \in Job
  PROVE  LET k == [j EXCEPT !.cmd = "accelerate", !.left = @ - 1]
         IN  k \in Job /\ k.told = j.told /\ k.cmd = "accelerate"
<1> DEFINE n == j.left - 1
<1>1. n \in Int
  BY DEF Job
<1> HIDE DEF n
<1>2. [j EXCEPT !.cmd = "accelerate", !.left = n] \in Job
  BY <1>1 DEF Job
<1>3. /\ [j EXCEPT !.cmd = "accelerate", !.left = n].told = j.told
      /\ [j EXCEPT !.cmd = "accelerate", !.left = n].cmd = "accelerate"
  BY DEF Job
<1> QED BY <1>2, <1>3 DEF n, Job

LEMMA BackToTheList ==
  ASSUME NEW j \in Job, NEW accepted \in BOOLEAN
  PROVE  LET k == [j EXCEPT !.cmd = "list", !.wait = Poll,
                            !.since = IF accepted THEN 0 ELSE @]
         IN  k \in Job /\ k.told = j.told /\ k.cmd = "list"
<1> DEFINE n == IF accepted THEN 0 ELSE j.since
<1>1. n \in Int /\ Poll \in Int
  BY CircleCliAssumption DEF Job
<1> HIDE DEF n
<1>2. [j EXCEPT !.cmd = "list", !.wait = Poll, !.since = n] \in Job
  BY <1>1 DEF Job
<1>3. /\ [j EXCEPT !.cmd = "list", !.wait = Poll, !.since = n].told = j.told
      /\ [j EXCEPT !.cmd = "list", !.wait = Poll, !.since = n].cmd = "list"
  BY DEF Job
<1> QED BY <1>2, <1>3 DEF n, Job

(* The loop ends the call only with an answer that is true of the chain.   *)
LEMMA HeardMoves ==
  ASSUME PromiseInv, NEW c \in Calls, pc[c] \in {"rpc", "command"},
         job[c].cmd \in {"list", "accelerate"}, UNCHANGED <<wallet, tx>>,
         NEW status, NEW receipt \in BOOLEAN, NEW hash \in Hashes,
         status \in {"landed", "failed"} => tx[c].fate = status,
         Heard(c, status, receipt, hash)
  PROVE  Moves(c)
<1>1. /\ Kept /\ job[c] \in Job /\ job[c].told = "nothing"
      /\ UNCHANGED <<tx, adapter>>
  BY UnderWay DEF wallet
<1>2. CASE status = "landed" /\ Tell(c, "complete") /\ UNCHANGED sinceCli
  <2>1. Placed(c) /\ pc'[c] = "done" /\ job'[c].told = "complete"
    BY <1>1, <1>2, TellPlaces
  <2> QED BY <1>1, <1>2, <2>1, PlacedMoves DEF Moves, Answers
<1>3. CASE status = "failed" /\ Tell(c, "terminated") /\ UNCHANGED sinceCli
  <2>1. Placed(c) /\ pc'[c] = "done" /\ job'[c].told = "terminated"
    BY <1>1, <1>3, TellPlaces
  <2> QED BY <1>1, <1>3, <2>1, PlacedMoves DEF Moves, Answers
<1>4. ASSUME NEW missed \in BOOLEAN, NEW stuck,
             NotYet(c, [job[c] EXCEPT !.hash = hash, !.missed = missed], stuck)
      PROVE  Moves(c)
  <2> DEFINE j == [job[c] EXCEPT !.hash = hash, !.missed = missed]
  <2>1. /\ j \in Job /\ j.told = "nothing"
        /\ j.cmd \in {"list", "accelerate"}
    BY <1>1 DEF Job
  <2>2. NotYet(c, j, stuck)
    BY <1>4
  <2> HIDE DEF j
  <2>3. CASE RunCommand(c, [j EXCEPT !.cmd = "accelerate", !.left = @ - 1])
    <3> DEFINE k == [j EXCEPT !.cmd = "accelerate", !.left = @ - 1]
    <3>1. k \in Job /\ k.told = "nothing" /\ k.cmd = "accelerate"
      BY <2>1, ReplacementUsed
    <3>2. /\ Placed(c) /\ pc'[c] \in {"command", "slot"}
          /\ job'[c].cmd = "accelerate" /\ job'[c].told = "nothing"
      <4> HIDE DEF k
      <4>1. RunCommand(c, k)
        BY <2>3 DEF k
      <4> QED BY <1>1, <3>1, <4>1, RunCommandPlaces
    <3> HIDE DEF k
    <3> QED BY <1>1, <3>2, PlacedMoves DEF Moves, GoesOn
  <2>4. CASE Go(c, "sleep", [j EXCEPT !.wait = Poll]) /\ UNCHANGED sinceCli
    <3> DEFINE k == [j EXCEPT !.wait = Poll]
    <3>1. /\ k \in Job /\ k.told = "nothing"
          /\ k.cmd \in {"list", "accelerate"}
      BY <2>1, CircleCliAssumption DEF Job
    <3>2. Placed(c) /\ pc'[c] = "sleep" /\ job'[c] = k
      <4> HIDE DEF k
      <4>1. Go(c, "sleep", k)
        BY <2>4 DEF k
      <4> QED BY <1>1, <2>4, <3>1, <4>1, GoPlaces DEF Places
    <3> HIDE DEF k
    <3> QED BY <1>1, <3>1, <3>2, PlacedMoves DEF Moves, GoesOn
  <2> QED BY <2>2, <2>3, <2>4 DEF NotYet
<1>5. (receipt /\ Ended(c)) \in BOOLEAN
  BY DEF Ended
<1> QED BY <1>2, <1>3, <1>4, <1>5 DEF Heard

LEMMA LoopMoves ==
  ASSUME PromiseInv, NEW c \in Calls,
         \/ AskAgain(c) \/ RpcAnswers(c) \/ RpcFails(c) \/ ListAnswers(c)
         \/ AccelerateAnswers(c) \/ Wakes(c) \/ GivesUp(c)
  PROVE  Moves(c)
<1>1. /\ pc[c] # "done" /\ pc[c] # "idle" /\ UNCHANGED adapter
      /\ Kept /\ job[c] \in Job /\ job[c].told = "nothing"
  <2>1. pc[c] \in {"poll", "rpc", "command", "sleep"}
    BY DEF AskAgain, RpcAnswers, RpcFails, ListAnswers, AccelerateAnswers,
           Wakes, GivesUp, Answered
  <2>2. UNCHANGED adapter
    BY DEF AskAgain, RpcAnswers, RpcFails, ListAnswers, AccelerateAnswers,
           Wakes, GivesUp, wallet
  <2> QED BY <2>1, <2>2, UnderWay
<1>2. tx[c].fate # "none" => job[c].cmd \in {"list", "accelerate"}
  BY <1>1, UnderWay
<1>3. CASE AskAgain(c)
  <2>1. /\ Placed(c) /\ pc'[c] \in {"rpc", "command", "slot"}
        /\ job'[c].cmd = job[c].cmd /\ job'[c].told = job[c].told
    BY <1>1, <1>3, GoPlaces, RunCommandPlaces DEF AskAgain, Places
  <2> QED BY <1>1, <1>2, <1>3, <2>1, PlacedMoves DEF AskAgain, Moves, GoesOn
<1>4. CASE RpcAnswers(c)
  <2>1. job[c].hash \in Hashes
    BY <1>1 DEF Job
  <2>2. Receipt(c) \in {"landed", "failed"} => tx[c].fate = Receipt(c)
    BY DEF Receipt
  <2> QED BY <1>4, <2>1, <2>2, HeardMoves DEF RpcAnswers, InLoop
<1>5. CASE RpcFails(c)
  <2>1. /\ Placed(c) /\ pc'[c] \in {"command", "slot"}
        /\ job'[c].cmd = job[c].cmd /\ job'[c].told = job[c].told
    BY <1>1, <1>5, RunCommandPlaces DEF RpcFails
  <2> QED BY <1>1, <1>2, <1>5, <2>1, PlacedMoves DEF RpcFails, Moves, GoesOn
<1>6. CASE ListAnswers(c)
  <2>1. PICK answer \in Listed(c) :
               Heard(c, answer.status, FALSE, answer.hash)
    BY <1>6 DEF ListAnswers
  <2>2. job[c].hash \in Hashes /\ tx[c].under \in Hashes
    BY <1>1 DEF Job, Kept
  <2>3. /\ answer.hash \in Hashes
        /\ answer.status \in {"landed", "failed"} => tx[c].fate = answer.status
    BY <2>1, <2>2 DEF Listed, Hashes
  <2> QED BY <1>6, <2>1, <2>3, HeardMoves DEF ListAnswers, Answered
<1>7. CASE AccelerateAnswers(c)
  <2>1. PICK accepted \in BOOLEAN :
          /\ Go(c, "sleep", [job[c] EXCEPT
                  !.cmd = "list", !.wait = Poll,
                  !.since = IF accepted THEN 0 ELSE @])
          /\ tx' = [tx EXCEPT ![c].replaced =
                      @ \/ (accepted /\ tx[c].fate = "pending")]
    BY <1>1, <1>7 DEF AccelerateAnswers, Job
  <2> DEFINE j == [job[c] EXCEPT !.cmd = "list", !.wait = Poll,
                                 !.since = IF accepted THEN 0 ELSE @]
  <2>2. j \in Job /\ j.cmd = "list" /\ j.told = "nothing"
    BY <1>1, BackToTheList
  <2>3. UNCHANGED sinceCli
    BY <1>7 DEF AccelerateAnswers
  <2>4. Placed(c) /\ pc'[c] = "sleep" /\ job'[c] = j
    <3>1. Go(c, "sleep", j)
      BY <2>1
    <3> HIDE DEF j
    <3> QED BY <1>1, <2>2, <2>3, <3>1, GoPlaces DEF Places
  <2> HIDE DEF j
  <2>5. /\ tx'[c].fate = tx[c].fate
        /\ \A d \in Calls \ {c} : tx'[d] = tx[d]
        /\ tx' \in [Calls -> [fate : {"none", "pending", "landed", "failed"},
                              under : Hashes, replaced : BOOLEAN]]
    BY <1>1, <2>1 DEF Kept
  <2>6. Kept' /\ OthersStay(c)
    <3>1. Spacing' = Spacing
      BY <1>1 DEF Spacing
    <3> QED BY <1>1, <2>4, <2>5, <3>1 DEF Kept, Placed, OthersStay
  <2> QED BY <1>1, <2>2, <2>4, <2>5, <2>6 DEF Moves, GoesOn
<1>8. CASE Wakes(c)
  <2>1. Placed(c) /\ pc'[c] = "poll" /\ job'[c] = job[c]
    BY <1>1, <1>8, GoPlaces DEF Wakes, Places
  <2> QED BY <1>1, <1>2, <1>8, <2>1, PlacedMoves DEF Wakes, Moves, GoesOn
<1>9. CASE GivesUp(c)
  <2>1. Placed(c) /\ pc'[c] = "done" /\ job'[c].told = "thrown"
    BY <1>1, <1>9, TellPlaces DEF GivesUp
  <2> QED BY <1>1, <1>9, <2>1, PlacedMoves DEF GivesUp, Moves, Answers
<1> QED BY <1>3, <1>4, <1>5, <1>6, <1>7, <1>8, <1>9

LEMMA ChainMoves ==
  ASSUME PromiseInv, NEW c \in Calls, ChainSettles(c)
  PROVE  Moves(c)
<1>1. PICK fate \in {"landed", "failed"}, under \in {"original", "replacement"} :
        tx' = [tx EXCEPT ![c] =
                 [fate |-> fate, under |-> under, replaced |-> FALSE]]
  BY DEF ChainSettles
<1>2. /\ tx[c].fate = "pending" /\ UNCHANGED <<adapter, sinceCli, pc, job>>
      /\ Kept
  BY DEF ChainSettles, wallet, PromiseInv
<1>3. /\ tx'[c].fate = fate /\ \A d \in Calls \ {c} : tx'[d] = tx[d]
      /\ tx' \in [Calls -> [fate : {"none", "pending", "landed", "failed"},
                            under : Hashes, replaced : BOOLEAN]]
  BY <1>1, <1>2 DEF Kept, Hashes
<1>4. Spacing' = Spacing
  BY <1>2 DEF Spacing
<1> QED BY <1>2, <1>3, <1>4 DEF Kept, Moves, OthersStay, Settles

(* Time passes without the promise.                                        *)
LEMMA TickStutters ==
  ASSUME PromiseInv, Tick
  PROVE  PromiseInv' /\ UNCHANGED <<FateOf, ToldOf>>
<1>1. /\ Kept /\ UNCHANGED <<adapter, tx, pc>> /\ Spacing' = Spacing
  BY DEF PromiseInv, Tick, wallet, Spacing
<1>2. \A n \in Int, m \in Int : Less(n) \in Int /\ Saturated(n, m) \in Int
  BY DEF Less, Saturated
<1>3. Timeout \in Int /\ Threshold + 1 \in Int /\ Spacing \in Int
  BY <1>1, CircleCliAssumption DEF Kept
<1>4. \A c \in Calls : /\ job'[c] \in Job /\ job'[c].cmd = job[c].cmd
                       /\ job'[c].told = job[c].told
  <2> TAKE c \in Calls
  <2> DEFINE elapsed == IF InLoop(c) THEN Saturated(job[c].elapsed, Timeout)
                        ELSE job[c].elapsed
             since == IF InLoop(c) THEN Saturated(job[c].since, Threshold + 1)
                      ELSE job[c].since
             wait == Less(job[c].wait)
  <2>1. job[c] \in Job
    BY <1>1 DEF Kept
  <2>2. elapsed \in Int /\ since \in Int /\ wait \in Int
    BY <1>2, <1>3, <2>1 DEF Job
  <2>3. job'[c] = [job[c] EXCEPT !.wait = wait, !.elapsed = elapsed,
                                 !.since = since]
    BY <2>1 DEF Tick, Job
  <2> HIDE DEF elapsed, since, wait
  <2> QED BY <2>1, <2>2, <2>3 DEF Job
<1>5. sinceCli' \in Int
  BY <1>1, <1>2, <1>3 DEF Tick, Kept
<1>6. job' \in [Calls -> Job]
  <2>1. job' = [c \in Calls |-> job'[c]]
    BY DEF Tick
  <2> QED BY <1>4, <2>1
<1>7. Kept'
  BY <1>1, <1>5, <1>6 DEF Kept
<1>8. \A c \in Calls : Quiet(c)' /\ Forward(c)'
  BY <1>1, <1>4 DEF PromiseInv, Quiet, Forward
<1> QED BY <1>1, <1>4, <1>7, <1>8 DEF PromiseInv, FateOf, ToldOf

-----------------------------------------------------------------------------
LEMMA InitPromise == Init => PromiseInv /\ Promise!Init
<1> SUFFICES ASSUME Init PROVE PromiseInv /\ Promise!Init
  OBVIOUS
<1>1. Kept
  <2>1. Spacing \in Int
    BY CircleCliAssumption DEF Spacing
  <2> QED BY <2>1, NewJobIsJob DEF Init, Kept, Places, Hashes
<1>2. \A c \in Calls : job[c].told = "nothing" /\ tx[c].fate = "none"
  BY NewJobIsJob DEF Init
<1> QED BY <1>1, <1>2 DEF PromiseInv, Quiet, Forward, Promise!Init

LEMMA StepPromise ==
  PromiseInv /\ [Next]_vars
    => PromiseInv' /\ [Promise!Next]_<<FateOf, ToldOf>>
<1> SUFFICES ASSUME PromiseInv, [Next]_vars
             PROVE  PromiseInv' /\ [Promise!Next]_<<FateOf, ToldOf>>
  OBVIOUS
<1>1. ASSUME NEW c \in Calls, Begin(c) \/ Step(c) \/ ChainSettles(c)
      PROVE  PromiseInv' /\ [Promise!Next]_<<FateOf, ToldOf>>
  <2>1. Moves(c)
    BY <1>1, BeginMoves, CommandMoves, LoopMoves, ChainMoves DEF Step
  <2> QED BY <2>1, MovesRefine
<1>2. CASE Tick
  BY <1>2, TickStutters
<1>3. CASE UNCHANGED vars
  BY <1>3 DEF vars, PromiseInv, Kept, Quiet, Forward, FateOf, ToldOf, Spacing
<1> QED BY <1>1, <1>2, <1>3 DEF Next

(* Both adapters implement WalletPromise (CircleCliAdapter.ts:291-336,     *)
(* CircleAgentAdapter.ts:205-256): whatever the chain, the CLI's lists and *)
(* the replacements do, COMPLETE is only said of a transaction that has    *)
(* landed and "terminated" of one that never will.                         *)
THEOREM AdaptersKeepPromise == Spec => ImplementsPromise
<1> QED
  BY InitPromise, StepPromise, PTL
     DEF Spec, ImplementsPromise, Promise!Spec, FateOf, ToldOf

-----------------------------------------------------------------------------
(* The spacing.  A call that waits for its slot, and has had no other      *)
(* command of the wallet go out meanwhile, has waited for what is left.    *)
Waits(c) ==
  pc[c] = "slot" /\ ~job[c].raced =>
    job[c].wait >= 0 /\ sinceCli + job[c].wait >= Spacing
WaitInv == \A c \in Calls : Waits(c)

(* A step issues a command, begins to wait, or does neither.               *)
Issues(c) ==
  /\ \E j : Issue(c, j)
  /\ sinceCli >= Spacing \/ (pc[c] = "slot" /\ job[c].wait = 0)
Rests(c) == /\ UNCHANGED sinceCli
            /\ \E place \in Places \ {"slot", "command"} :
                 \E j : Go(c, place, j)
Commands(c) == \E j \in Job : RunCommand(c, j)

LEMMA StartSpaced ==
  ASSUME NEW c \in Calls, NEW j \in Job, Start(c, j)
  PROVE  Rests(c) \/ Commands(c)
<1>1. [j EXCEPT !.cmd = j.goal] \in Job
  BY DEF Job
<1> QED BY <1>1 DEF Start, Rests, Commands, Places

LEMMA TellSpaced ==
  ASSUME NEW c \in Calls, NEW what, Tell(c, what), UNCHANGED sinceCli
  PROVE  Rests(c)
BY DEF Tell, Rests, Places

LEMMA HeardSpaced ==
  ASSUME NEW c \in Calls, job[c] \in Job, NEW status,
         NEW receipt \in BOOLEAN, NEW hash \in Hashes,
         Heard(c, status, receipt, hash)
  PROVE  Rests(c) \/ Commands(c)
<1> DEFINE missed == receipt /\ Ended(c)
           j == [job[c] EXCEPT !.hash = hash, !.missed = missed]
<1>1. missed \in BOOLEAN
  BY DEF Ended
<1>2. CASE NotYet(c, j, status = "stuck")
  <2>1. j \in Job
    <3> HIDE DEF missed
    <3> QED BY <1>1 DEF Job
  <2> HIDE DEF j
  <2> QED BY <1>2, <2>1, ReplacementUsed DEF NotYet, Rests, Commands, Places
<1>3. CASE \E what : Tell(c, what) /\ UNCHANGED sinceCli
  BY <1>3, TellSpaced
<1> QED BY <1>2, <1>3 DEF Heard

LEMMA BeginSpaced ==
  ASSUME NEW c \in Calls, Begin(c)
  PROVE  Rests(c) \/ Commands(c)
<1>1. MaxAccelerate \in Int
  BY CircleCliAssumption
<1>2. PICK j \in Job : Call(c, j)
  <2>1. \A n \in Int : [NewJob EXCEPT !.left = n] \in Job
    BY NewJobIsJob DEF Job
  <2>2. \A g \in {"balance", "sign"} : [NewJob EXCEPT !.goal = g] \in Job
    BY NewJobIsJob DEF Job
  <2>3. CASE executeContract(c) \/ transfer(c)
    <3>1. PICK n \in Int : Call(c, [NewJob EXCEPT !.left = n])
      BY <1>1, <2>3 DEF executeContract, transfer, Submit
    <3> QED BY <2>1, <3>1
  <2>4. CASE getBalance(c) \/ signTypedData(c)
    BY <2>2, <2>4 DEF getBalance, signTypedData
  <2> QED BY <2>3, <2>4 DEF Begin
<1>3. [j EXCEPT !.cmd = "wallets"] \in Job
  BY DEF Job
<1> QED BY <1>2, <1>3, StartSpaced DEF Call, Commands

LEMMA StepSpaced ==
  ASSUME Kept, NEW c \in Calls, Step(c)
  PROVE  Issues(c) \/ Rests(c) \/ Commands(c)
<1>1. job[c] \in Job /\ job[c].hash \in Hashes /\ tx[c].under \in Hashes
  BY DEF Kept, Job
<1>2. CASE SlotComes(c)
  BY <1>2 DEF SlotComes, Issues
<1>3. CASE AddressFound(c)
  BY <1>1, <1>3, StartSpaced DEF AddressFound
<1>4. CASE CommandFails(c) \/ Replies(c) \/ SubmitFails(c) \/ GivesUp(c)
  BY <1>4, TellSpaced DEF CommandFails, Replies, SubmitFails, GivesUp
<1>5. CASE Submitted(c)
  BY <1>5, TellSpaced DEF Submitted, Rests, Places
<1>6. CASE AskAgain(c)
  BY <1>1, <1>6 DEF AskAgain, Rests, Commands, Places
<1>7. CASE RpcAnswers(c)
  BY <1>1, <1>7, HeardSpaced DEF RpcAnswers
<1>8. CASE RpcFails(c)
  BY <1>1, <1>8 DEF RpcFails, Commands
<1>9. CASE ListAnswers(c)
  <2>1. \A answer \in Listed(c) : answer.hash \in Hashes
    BY <1>1 DEF Listed, Hashes
  <2> QED BY <1>1, <1>9, <2>1, HeardSpaced DEF ListAnswers
<1>10. CASE AccelerateAnswers(c) \/ Wakes(c)
  BY <1>10 DEF AccelerateAnswers, Wakes, Rests, Places
<1> QED
  BY <1>2, <1>3, <1>4, <1>5, <1>6, <1>7, <1>8, <1>9, <1>10 DEF Step

(* A command goes out only after the gap or a wait that another cut short. *)
Spaced ==
  \A c \in Calls :
    pc[c] # "command" /\ pc'[c] = "command" /\ sinceCli < Spacing
      => pc[c] = "slot" /\ job[c].raced

LEMMA IssueSpaced ==
  ASSUME Kept, WaitInv, NEW c \in Calls, NEW j, Issue(c, j),
         sinceCli >= Spacing \/ (pc[c] = "slot" /\ job[c].wait = 0)
  PROVE  WaitInv' /\ Spaced
<1>1. /\ pc'[c] = "command"
      /\ \A d \in Calls \ {c} : pc'[d] = pc[d]
  BY DEF Issue, Kept
<1>2. ASSUME NEW d \in Calls \ {c}, pc'[d] = "slot"
      PROVE  job'[d].raced
  <2>1. job[d] \in Job /\ pc[d] = "slot"
    BY <1>1, <1>2 DEF Kept
  <2>2. job'[d] = [job[d] EXCEPT !.raced = @ \/ pc[d] = "slot"]
    BY DEF Issue
  <2> QED BY <2>1, <2>2 DEF Job
<1>3. WaitInv'
  <2> SUFFICES ASSUME NEW d \in Calls PROVE Waits(d)'
    BY DEF WaitInv
  <2>1. CASE d = c
    BY <2>1, <1>1 DEF Waits
  <2>2. CASE d # c
    BY <2>2, <1>2 DEF Waits
  <2> QED BY <2>1, <2>2
<1>4. Spaced
  <2> SUFFICES ASSUME NEW d \in Calls, pc[d] # "command",
                      pc'[d] = "command", sinceCli < Spacing
               PROVE  pc[d] = "slot" /\ job[d].raced
    BY DEF Spaced
  <2>1. d = c
    BY <1>1
  <2>2. sinceCli \in Int /\ Spacing \in Int
    BY DEF Kept
  <2>3. pc[c] = "slot" /\ job[c].wait = 0
    BY <2>2
  <2> QED BY <2>1, <2>2, <2>3 DEF WaitInv, Waits
<1> QED BY <1>3, <1>4

LEMMA GoSpaced ==
  ASSUME Kept, WaitInv, NEW c \in Calls, NEW place, NEW j,
         Go(c, place, j), UNCHANGED <<sinceCli, adapter>>, place # "command",
         place = "slot" => j.wait >= 0 /\ sinceCli + j.wait >= Spacing
  PROVE  WaitInv' /\ Spaced
<1>1. /\ pc'[c] = place /\ job'[c] = j
      /\ \A d \in Calls \ {c} : pc'[d] = pc[d] /\ job'[d] = job[d]
  BY DEF Go, Kept
<1>2. Spacing' = Spacing
  BY DEF Spacing
<1> QED BY <1>1, <1>2 DEF WaitInv, Waits, Spaced

LEMMA StepWaits ==
  ASSUME Kept, WaitInv, [Next]_vars
  PROVE  WaitInv' /\ Spaced
<1>1. UNCHANGED adapter /\ Spacing' = Spacing
  <2>1. UNCHANGED adapter
    BY DEF Next, Begin, Step, executeContract, transfer, Submit, getBalance,
           signTypedData, Call, SlotComes, AddressFound, CommandFails, Replies,
           SubmitFails, Submitted, AskAgain, RpcAnswers, RpcFails, ListAnswers,
           AccelerateAnswers, Wakes, GivesUp, ChainSettles, Tick, vars, wallet
  <2> QED BY <2>1 DEF Spacing
<1>2. sinceCli \in Int /\ Spacing \in Int /\ \A c \in Calls : job[c] \in Job
  BY DEF Kept
<1>3. ASSUME NEW c \in Calls, Issues(c) \/ Rests(c) \/ Commands(c)
      PROVE  WaitInv' /\ Spaced
  <2>1. CASE Issues(c)
    BY <2>1, IssueSpaced DEF Issues
  <2>2. CASE Rests(c)
    BY <2>2, <1>1, GoSpaced DEF Rests
  <2>3. CASE Commands(c)
    <3>1. PICK j \in Job : RunCommand(c, j)
      BY <2>3 DEF Commands
    <3>2. CASE sinceCli >= Spacing
      BY <3>1, <3>2, IssueSpaced DEF RunCommand
    <3>3. CASE ~(sinceCli >= Spacing)
      <4> DEFINE n == Spacing - sinceCli
                 k == [j EXCEPT !.wait = n]
      <4>1. n \in Int /\ n >= 0 /\ sinceCli + n >= Spacing
        BY <1>2, <3>3
      <4>2. k.wait = n
        <5> HIDE DEF n
        <5> QED BY DEF Job
      <4>3. Go(c, "slot", k) /\ UNCHANGED sinceCli
        BY <3>1, <3>3 DEF RunCommand
      <4> HIDE DEF k
      <4>4. k.wait >= 0 /\ sinceCli + k.wait >= Spacing
        BY <4>1, <4>2
      <4> QED BY <1>1, <4>3, <4>4, GoSpaced
    <3> QED BY <3>2, <3>3
  <2> QED BY <1>3, <2>1, <2>2, <2>3
<1>4. CASE Tick
  <2>1. UNCHANGED pc
    BY <1>4 DEF Tick
  <2>2. ASSUME NEW c \in Calls PROVE Waits(c)'
    <3>1. job[c] \in Job /\ job[c].wait \in Int
      BY <1>2 DEF Job
    <3>2. job'[c].raced = job[c].raced /\ job'[c].wait = Less(job[c].wait)
      BY <1>4, <3>1 DEF Tick, Job
    <3>3. sinceCli' = Saturated(sinceCli, Spacing)
      BY <1>4 DEF Tick
    <3> SUFFICES ASSUME pc[c] = "slot", ~job[c].raced
                 PROVE  job'[c].wait >= 0 /\ sinceCli' + job'[c].wait >= Spacing
      BY <1>1, <2>1, <3>2 DEF Waits
    <3>4. job[c].wait >= 0 /\ sinceCli + job[c].wait >= Spacing
      BY DEF WaitInv, Waits
    <3> QED BY <1>2, <3>1, <3>2, <3>3, <3>4 DEF Less, Saturated
  <2> QED BY <2>1, <2>2 DEF WaitInv, Spaced
<1>5. CASE UNCHANGED <<pc, job, sinceCli>>
  BY <1>1, <1>5 DEF WaitInv, Waits, Spaced
<1>6. ASSUME NEW c \in Calls, Begin(c) PROVE WaitInv' /\ Spaced
  BY <1>3, <1>6, BeginSpaced
<1>7. ASSUME NEW c \in Calls, Step(c) PROVE WaitInv' /\ Spaced
  BY <1>3, <1>7, StepSpaced
<1> QED BY <1>4, <1>5, <1>6, <1>7 DEF Next, ChainSettles, vars

(* acquireCliSlot (CircleAgentAdapter.ts:50-57) for any gap and number of  *)
(* calls: a command follows another sooner than the gap only if that one   *)
(* went out while it waited, that is, if two had read the same last call.  *)
THEOREM CommandsAreSpaced == Spec => SpacedUnlessRaced
<1>1. Init => WaitInv
  BY DEF Init, WaitInv, Waits
<1>2. PromiseInv /\ WaitInv /\ [Next]_vars => WaitInv' /\ [Spaced]_vars
  BY StepWaits DEF PromiseInv
<1>3. PromiseInv /\ [Next]_vars => PromiseInv'
  BY StepPromise
<1>4. Init => PromiseInv
  BY InitPromise
<1> QED BY <1>1, <1>2, <1>3, <1>4, PTL DEF Spec, SpacedUnlessRaced, Spaced

-----------------------------------------------------------------------------
(* What a poll by receipt may miss.  A call that has asked for no          *)
(* replacement still has all of its attempts, and then there is no other   *)
(* hash that its transaction could be mined under.                         *)
Sighted(place, j, t) ==
  /\ t.fate = "none" => t.under = "none" /\ ~t.replaced
  /\ t.fate \in {"landed", "failed"} => t.under # "none"
  /\ 0 <= j.left /\ j.left <= MaxAccelerate
  /\ j.left = MaxAccelerate =>
       /\ ~t.replaced /\ t.under # "replacement"
       /\ j.hash # "replacement" /\ j.cmd # "accelerate"
  /\ j.missed => /\ t.fate \in {"landed", "failed"}
                 /\ j.hash # "none" /\ t.under # j.hash
  /\ place = "rpc" /\ j.cmd \in {"list", "accelerate"} => j.hash # "none"

SightInv == \A c \in Calls : Sighted(pc[c], job[c], tx[c])

LEMMA SightIsBlindOnly ==
  ASSUME Kept, SightInv PROVE BlindOnlyToReplacements
<1> SUFFICES ASSUME NEW c \in Calls, job[c].missed
             PROVE  /\ tx[c].under # job[c].hash
                    /\ job[c].left < MaxAccelerate
  BY DEF BlindOnlyToReplacements
<1>1. /\ Sighted(pc[c], job[c], tx[c])
      /\ job[c].left \in Int /\ MaxAccelerate \in Int
      /\ job[c].hash \in Hashes /\ tx[c].under \in Hashes
  BY CircleCliAssumption DEF SightInv, Kept, Job
<1> QED BY <1>1 DEF Sighted, Hashes

(* The clocks and the race say nothing of what was seen.                   *)
LEMMA SightOfRace ==
  ASSUME NEW j \in Job, NEW t, NEW place, NEW raced \in BOOLEAN,
         Sighted(place, j, t)
  PROVE  Sighted(place, [j EXCEPT !.raced = raced], t)
BY DEF Sighted, Job

LEMMA SightOfWait ==
  ASSUME NEW j \in Job, NEW t, NEW place, NEW wait \in Int, Sighted(place, j, t)
  PROVE  Sighted(place, [j EXCEPT !.wait = wait], t)
BY DEF Sighted, Job

LEMMA SightOfTime ==
  ASSUME NEW j \in Job, NEW t, NEW place, NEW wait \in Int,
         NEW elapsed \in Int, NEW since \in Int, Sighted(place, j, t)
  PROVE  Sighted(place, [j EXCEPT !.wait = wait, !.elapsed = elapsed,
                                  !.since = since], t)
BY DEF Sighted, Job

(* Nor does where a call is, but that it reads a receipt.                  *)
LEMMA SightOfPlaces ==
  ASSUME NEW j, NEW t, NEW place, NEW other, Sighted(place, j, t),
         other # "rpc"
  PROVE  Sighted(other, j, t)
BY DEF Sighted

LEMMA GoSees ==
  ASSUME Kept, SightInv, NEW c \in Calls, NEW place, NEW j, Go(c, place, j),
         Sighted(place, j, tx'[c]), \A d \in Calls \ {c} : tx'[d] = tx[d]
  PROVE  SightInv'
<1>1. /\ pc'[c] = place /\ job'[c] = j
      /\ \A d \in Calls \ {c} : pc'[d] = pc[d] /\ job'[d] = job[d]
  BY DEF Go, Kept
<1> QED BY <1>1 DEF SightInv

LEMMA IssueSees ==
  ASSUME Kept, SightInv, NEW c \in Calls, NEW j \in Job, Issue(c, j),
         Sighted("command", j, tx[c]), UNCHANGED tx
  PROVE  SightInv'
<1>1. pc'[c] = "command" /\ \A d \in Calls \ {c} : pc'[d] = pc[d]
  BY DEF Issue, Kept
<1>2. ASSUME NEW d \in Calls PROVE Sighted(pc'[d], job'[d], tx'[d])
  <2> DEFINE race == job[d].raced \/ pc[d] = "slot"
  <2>1. job[d] \in Job /\ race \in BOOLEAN
    BY DEF Kept
  <2>2. CASE d = c
    <3>1. job'[c] = [j EXCEPT !.raced = FALSE]
      BY DEF Issue
    <3>2. Sighted("command", [j EXCEPT !.raced = FALSE], tx[c])
      <4>1. FALSE \in BOOLEAN
        OBVIOUS
      <4> QED BY <4>1, SightOfRace
    <3> QED BY <1>1, <2>2, <3>1, <3>2
  <2>3. CASE d # c
    <3>1. job'[d] = [job[d] EXCEPT !.raced = race]
      BY <2>1, <2>3 DEF Issue, Job
    <3>2. Sighted(pc[d], job[d], tx[d])
      BY DEF SightInv
    <3> HIDE DEF race
    <3> QED BY <1>1, <2>1, <2>3, <3>1, <3>2, SightOfRace
  <2> QED BY <2>2, <2>3
<1> QED BY <1>2 DEF SightInv

LEMMA RunCommandSees ==
  ASSUME Kept, SightInv, NEW c \in Calls, NEW j \in Job, RunCommand(c, j),
         NEW place, Sighted(place, j, tx[c]), UNCHANGED tx
  PROVE  SightInv'
<1>1. CASE Issue(c, j)
  <2>1. Sighted("command", j, tx[c])
    BY SightOfPlaces
  <2> QED BY <1>1, <2>1, IssueSees
<1>2. CASE /\ Go(c, "slot", [j EXCEPT !.wait = Spacing - sinceCli])
           /\ UNCHANGED sinceCli
  <2> DEFINE n == Spacing - sinceCli
             k == [j EXCEPT !.wait = n]
  <2>1. n \in Int
    BY DEF Kept
  <2>2. Sighted("slot", j, tx[c])
    BY SightOfPlaces
  <2>3. Sighted("slot", k, tx'[c])
    <3> HIDE DEF n
    <3> QED BY <2>1, <2>2, SightOfWait
  <2>4. Go(c, "slot", k)
    BY <1>2
  <2> HIDE DEF k
  <2> QED BY <2>3, <2>4, GoSees
<1> QED BY <1>1, <1>2 DEF RunCommand

(* A transaction that goes out is not under any hash yet.                  *)
LEMMA PendingSees ==
  ASSUME Kept, NEW c \in Calls, Pending(c), tx[c].fate = "none",
         NEW place, NEW j, Sighted(place, j, tx[c])
  PROVE  /\ Sighted(place, j, tx'[c])
         /\ \A d \in Calls \ {c} : tx'[d] = tx[d]
<1>1. /\ tx'[c] = [tx[c] EXCEPT !.fate = "pending"]
      /\ \A d \in Calls \ {c} : tx'[d] = tx[d]
  BY DEF Pending, Kept
<1>2. /\ tx'[c].fate = "pending" /\ tx'[c].under = tx[c].under
      /\ tx'[c].replaced = tx[c].replaced
  BY <1>1 DEF Kept
<1> QED BY <1>1, <1>2 DEF Sighted

LEMMA NewJobIsBlank ==
  /\ ~NewJob.missed /\ NewJob.hash = "none"
  /\ NewJob.left = 0 /\ NewJob.cmd = "submit"
BY DEF NewJob

(* A job that is over has seen nothing.                                    *)
LEMMA NothingSeen ==
  ASSUME Kept, SightInv, NEW c \in Calls, NEW what, NEW place
  PROVE  Sighted(place, [NewJob EXCEPT !.told = what], tx[c])
<1>1. /\ Sighted(pc[c], job[c], tx[c])
      /\ job[c].left \in Int /\ MaxAccelerate \in Nat
  BY CircleCliAssumption DEF SightInv, Kept, Job
<1>2. MaxAccelerate = 0 => job[c].left = MaxAccelerate
  BY <1>1 DEF Sighted
<1> DEFINE j == [NewJob EXCEPT !.told = what]
<1>3. /\ j.left = 0 /\ j.hash = "none" /\ ~j.missed /\ j.cmd = "submit"
  BY DEF NewJob
<1> HIDE DEF j
<1>4. Sighted(place, j, tx[c])
  BY <1>1, <1>2, <1>3 DEF Sighted
<1> QED BY <1>4 DEF j

LEMMA TellSees ==
  ASSUME Kept, SightInv, NEW c \in Calls, NEW what, Tell(c, what),
         tx' = tx \/ (Pending(c) /\ tx[c].fate = "none")
  PROVE  SightInv'
<1> DEFINE j == [NewJob EXCEPT !.told = what]
<1>1. Sighted("done", j, tx[c])
  BY NothingSeen
<1>2. Go(c, "done", j)
  BY DEF Tell
<1> HIDE DEF j
<1>3. Sighted("done", j, tx'[c]) /\ \A d \in Calls \ {c} : tx'[d] = tx[d]
  BY <1>1, PendingSees
<1> QED BY <1>2, <1>3, GoSees

-----------------------------------------------------------------------------
LEMMA StartSees ==
  ASSUME Kept, SightInv, NEW c \in Calls, NEW j \in Job, Start(c, j),
         NEW place, Sighted(place, j, tx[c]), UNCHANGED tx
  PROVE  SightInv'
<1> DEFINE k == [j EXCEPT !.cmd = j.goal]
<1>1. k \in Job /\ k.cmd \in {"submit", "balance", "sign"}
      /\ k.left = j.left /\ k.hash = j.hash /\ k.missed = j.missed
  BY DEF Job
<1>2. Start(c, j) => \/ Go(c, "rpc", k) /\ UNCHANGED sinceCli
                    \/ RunCommand(c, k)
  BY DEF Start
<1> HIDE DEF k
<1>3. Sighted("rpc", k, tx[c])
  BY <1>1 DEF Sighted
<1> QED BY <1>1, <1>2, <1>3, GoSees, RunCommandSees

LEMMA BeginSees ==
  ASSUME PromiseInv, SightInv, NEW c \in Calls, Begin(c)
  PROVE  SightInv'
<1>1. /\ Kept /\ pc[c] = "idle" /\ UNCHANGED tx
      /\ tx[c].fate = "none" /\ MaxAccelerate \in Nat
  <2>1. pc[c] = "idle" /\ UNCHANGED tx
    BY DEF Begin, executeContract, transfer, Submit, getBalance,
           signTypedData, Call
  <2> QED BY <2>1, UnderWay, CircleCliAssumption
<1>2. tx[c].under = "none" /\ ~tx[c].replaced
  BY <1>1 DEF SightInv, Sighted
<1>3. PICK j \in Job : /\ Call(c, j) /\ ~j.missed /\ j.hash = "none"
                       /\ 0 <= j.left /\ j.left <= MaxAccelerate
                       /\ j.cmd = "submit"
  <2>1. ASSUME NEW n \in 0..MaxAccelerate
        PROVE  LET j == [NewJob EXCEPT !.left = n]
               IN  /\ j \in Job /\ ~j.missed /\ j.hash = "none"
                   /\ 0 <= j.left /\ j.left <= MaxAccelerate
                   /\ j.cmd = "submit"
    <3>1. n \in Int /\ 0 <= n /\ n <= MaxAccelerate
      BY <1>1
    <3> QED BY <3>1, NewJobIsJob, NewJobIsBlank DEF Job
  <2>2. ASSUME NEW g \in {"balance", "sign"}
        PROVE  LET j == [NewJob EXCEPT !.goal = g]
               IN  /\ j \in Job /\ ~j.missed /\ j.hash = "none"
                   /\ 0 <= j.left /\ j.left <= MaxAccelerate
                   /\ j.cmd = "submit"
    BY <1>1, NewJobIsJob, NewJobIsBlank DEF Job
  <2>3. CASE executeContract(c) \/ transfer(c)
    <3>1. PICK n \in 0..MaxAccelerate : Call(c, [NewJob EXCEPT !.left = n])
      BY <1>1, <2>3 DEF executeContract, transfer, Submit
    <3> QED BY <2>1, <3>1
  <2>4. CASE getBalance(c)
    BY <2>2, <2>4 DEF getBalance
  <2>5. CASE signTypedData(c)
    BY <2>2, <2>5 DEF signTypedData
  <2> QED BY <2>3, <2>4, <2>5 DEF Begin
<1>4. Sighted("command", j, tx[c])
  BY <1>1, <1>2, <1>3 DEF Sighted
<1>5. CASE known
  BY <1>1, <1>3, <1>4, <1>5, StartSees DEF Call
<1>6. CASE ~known
  <2> DEFINE k == [j EXCEPT !.cmd = "wallets"]
  <2>1. k \in Job /\ k.cmd = "wallets" /\ k.left = j.left
        /\ k.hash = j.hash /\ k.missed = j.missed
    BY DEF Job
  <2>2. RunCommand(c, k)
    BY <1>3, <1>6 DEF Call
  <2> HIDE DEF k
  <2>3. Sighted("command", k, tx[c])
    BY <1>4, <2>1 DEF Sighted
  <2> QED BY <1>1, <2>1, <2>2, <2>3, RunCommandSees
<1> QED BY <1>5, <1>6

LEMMA CommandSees ==
  ASSUME PromiseInv, SightInv, NEW c \in Calls,
         \/ SlotComes(c) \/ AddressFound(c) \/ CommandFails(c) \/ Replies(c)
         \/ SubmitFails(c) \/ Submitted(c)
  PROVE  SightInv'
<1>1. /\ Kept /\ job[c] \in Job /\ Sighted(pc[c], job[c], tx[c])
  BY DEF PromiseInv, Kept, SightInv
<1>2. CASE SlotComes(c)
  <2>1. Sighted("command", job[c], tx[c])
    BY <1>1, SightOfPlaces
  <2> QED BY <1>1, <1>2, <2>1, IssueSees DEF SlotComes
<1>3. CASE AddressFound(c)
  BY <1>1, <1>3, StartSees DEF AddressFound
<1>4. CASE CommandFails(c) \/ Replies(c)
  BY <1>1, <1>4, TellSees DEF CommandFails, Replies
<1>5. (SubmitFails(c) \/ Submitted(c)) => tx[c].fate = "none"
  <2> SUFFICES ASSUME SubmitFails(c) \/ Submitted(c)
               PROVE  tx[c].fate = "none"
    OBVIOUS
  <2>1. pc[c] = "command" /\ job[c].cmd = "submit"
    BY DEF SubmitFails, Submitted, Answered
  <2> QED BY <2>1, UnderWay
<1>6. CASE SubmitFails(c)
  BY <1>1, <1>5, <1>6, TellSees DEF SubmitFails
<1>7. CASE Submitted(c)
  <2>1. Pending(c) /\ tx[c].fate = "none"
    BY <1>5, <1>7 DEF Submitted
  <2>2. CASE Tell(c, "submitted")
    BY <1>1, <2>1, <2>2, TellSees
  <2>3. ASSUME NEW hasId \in BOOLEAN, NEW hash \in {"none", "original"},
               Go(c, "poll", [job[c] EXCEPT !.cmd = "list", !.hasId = hasId,
                                            !.hash = hash])
        PROVE  SightInv'
    <3> DEFINE j == [job[c] EXCEPT !.cmd = "list", !.hasId = hasId,
                                   !.hash = hash]
    <3>1. /\ j.cmd = "list" /\ j.hash = hash
          /\ j.left = job[c].left /\ j.missed = job[c].missed
      BY <1>1 DEF Job
    <3>2. Go(c, "poll", j)
      BY <2>3
    <3> HIDE DEF j
    <3>3. Sighted("poll", j, tx[c])
      BY <1>1, <2>1, <3>1 DEF Sighted
    <3>4. Sighted("poll", j, tx'[c]) /\ \A d \in Calls \ {c} : tx'[d] = tx[d]
      BY <1>1, <2>1, <3>3, PendingSees
    <3> QED BY <1>1, <3>2, <3>4, GoSees
  <2> QED BY <1>7, <2>2, <2>3 DEF Submitted
<1> QED BY <1>2, <1>3, <1>4, <1>6, <1>7

(* What the loop keeps of an answer that is not the last: the hash is one  *)
(* the transaction has, and what a receipt missed is under the other.      *)
LEMMA HeardSees ==
  ASSUME Kept, SightInv, NEW c \in Calls, UNCHANGED tx, InLoop(c),
         NEW status, NEW receipt \in BOOLEAN, NEW hash \in Hashes,
         hash = "replacement" => job[c].left # MaxAccelerate,
         job[c].cmd = "accelerate" => job[c].left # MaxAccelerate,
         status \in {"pending", "stuck", "unknown"} /\ receipt /\ Ended(c)
           => hash # "none" /\ tx[c].under # hash,
         Heard(c, status, receipt, hash)
  PROVE  SightInv'
<1> DEFINE missed == receipt /\ Ended(c)
           j == [job[c] EXCEPT !.hash = hash, !.missed = missed]
<1>1. /\ job[c] \in Job /\ Sighted(pc[c], job[c], tx[c])
      /\ MaxAccelerate \in Int
  BY CircleCliAssumption DEF Kept, SightInv
<1>2. CASE \E what : Tell(c, what)
  BY <1>2, TellSees
<1>3. CASE /\ status \in {"pending", "stuck", "unknown"}
           /\ NotYet(c, j, status = "stuck")
  <2>1. missed \in BOOLEAN
    BY DEF Ended
  <2>2. /\ j \in Job /\ j.cmd = job[c].cmd /\ j.left = job[c].left
        /\ j.hash = hash /\ j.missed = missed
    <3> HIDE DEF missed
    <3> QED BY <1>1, <2>1 DEF Job
  <2>3. Sighted("poll", j, tx[c])
    <3> HIDE DEF j
    <3> QED BY <1>1, <1>3, <2>2 DEF Sighted, Ended
  <2>4. NotYet(c, j, status = "stuck")
    BY <1>3
  <2> HIDE DEF j
  <2>5. CASE /\ j.left > 0
             /\ RunCommand(c, [j EXCEPT !.cmd = "accelerate", !.left = @ - 1])
    <3> DEFINE n == j.left - 1
               k == [j EXCEPT !.cmd = "accelerate", !.left = n]
    <3>1. n \in Int /\ 0 <= n /\ n < MaxAccelerate
      <4>1. j.left \in Int /\ j.left <= MaxAccelerate
        BY <2>2, <2>3 DEF Job, Sighted
      <4> QED BY <1>1, <2>5, <4>1
    <3>2. /\ k \in Job /\ k.left = n /\ k.hash = j.hash
          /\ k.missed = j.missed
      <4> HIDE DEF n
      <4> QED BY <2>2, <3>1 DEF Job
    <3>3. RunCommand(c, k)
      BY <2>2, <2>5 DEF Job
    <3> HIDE DEF k, n
    <3>4. Sighted("command", k, tx[c])
      BY <1>1, <2>3, <3>1, <3>2 DEF Sighted
    <3> QED BY <3>2, <3>3, <3>4, RunCommandSees
  <2>6. CASE Go(c, "sleep", [j EXCEPT !.wait = Poll])
    <3>1. Poll \in Int
      BY CircleCliAssumption
    <3>2. Sighted("sleep", j, tx[c])
      BY <2>3, SightOfPlaces
    <3>3. Sighted("sleep", [j EXCEPT !.wait = Poll], tx[c])
      BY <2>2, <3>1, <3>2, SightOfWait
    <3> DEFINE k == [j EXCEPT !.wait = Poll]
    <3>4. Go(c, "sleep", k) /\ Sighted("sleep", k, tx'[c])
      BY <2>6, <3>3
    <3> HIDE DEF k
    <3> QED BY <3>4, GoSees
  <2> QED BY <2>4, <2>5, <2>6 DEF NotYet
<1> QED BY <1>2, <1>3 DEF Heard

LEMMA LoopSees ==
  ASSUME PromiseInv, SightInv, NEW c \in Calls,
         \/ AskAgain(c) \/ RpcAnswers(c) \/ RpcFails(c) \/ ListAnswers(c)
         \/ AccelerateAnswers(c) \/ Wakes(c) \/ GivesUp(c)
  PROVE  SightInv'
<1>1. /\ Kept /\ job[c] \in Job /\ Sighted(pc[c], job[c], tx[c])
      /\ job[c].hash \in Hashes /\ tx[c].under \in Hashes
      /\ MaxAccelerate \in Int
  BY CircleCliAssumption DEF PromiseInv, Kept, SightInv, Job
<1>2. CASE AskAgain(c)
  <2>1. job[c].hash # "none" => Sighted("rpc", job[c], tx[c])
    BY <1>1 DEF Sighted
  <2>2. UNCHANGED tx
    BY <1>2 DEF AskAgain
  <2> QED BY <1>1, <1>2, <2>1, <2>2, GoSees, RunCommandSees DEF AskAgain
<1>3. CASE RpcAnswers(c)
  <2>1. /\ pc[c] = "rpc" /\ job[c].cmd \in {"list", "accelerate"}
        /\ job[c].hash # "none"
    BY <1>1, <1>3 DEF RpcAnswers, InLoop, Sighted
  <2>2. Receipt(c) \in {"pending", "stuck", "unknown"} /\ Ended(c)
          => tx[c].under # job[c].hash
    BY DEF Receipt, Ended
  <2>3. /\ job[c].hash = "replacement" => job[c].left # MaxAccelerate
        /\ job[c].cmd = "accelerate" => job[c].left # MaxAccelerate
    BY <1>1 DEF Sighted
  <2> QED BY <1>1, <1>3, <2>1, <2>2, <2>3, HeardSees DEF RpcAnswers
<1>4. CASE RpcFails(c)
  BY <1>1, <1>4, RunCommandSees DEF RpcFails
<1>5. CASE ListAnswers(c)
  <2>1. PICK answer \in Listed(c) :
          Heard(c, answer.status, FALSE, answer.hash)
    BY <1>5 DEF ListAnswers
  <2>2. answer.hash \in Hashes
    BY <1>1, <2>1 DEF Listed, Hashes
  <2>3. /\ answer.hash = "replacement" => job[c].left # MaxAccelerate
        /\ job[c].cmd = "accelerate" => job[c].left # MaxAccelerate
    BY <1>1, <2>1 DEF Listed, Sighted
  <2>4. UNCHANGED tx /\ InLoop(c)
    BY <1>5 DEF ListAnswers, Answered, InLoop
  <2> QED BY <1>1, <2>1, <2>2, <2>3, <2>4, HeardSees
<1>6. CASE AccelerateAnswers(c)
  <2>1. PICK accepted \in BOOLEAN :
          /\ Go(c, "sleep", [job[c] EXCEPT
                  !.cmd = "list", !.wait = Poll,
                  !.since = IF accepted THEN 0 ELSE @])
          /\ tx' = [tx EXCEPT ![c].replaced =
                      @ \/ (accepted /\ tx[c].fate = "pending")]
    BY <1>1, <1>6 DEF AccelerateAnswers, Job
  <2> DEFINE n == IF accepted THEN 0 ELSE job[c].since
             j == [job[c] EXCEPT !.cmd = "list", !.wait = Poll, !.since = n]
             t == tx[c].replaced \/ (accepted /\ tx[c].fate = "pending")
  <2>2. /\ j.cmd = "list" /\ j.left = job[c].left
        /\ j.hash = job[c].hash /\ j.missed = job[c].missed
    <3> HIDE DEF n
    <3> QED BY <1>1 DEF Job
  <2>3. Go(c, "sleep", j)
    BY <1>1, <2>1 DEF Job
  <2>4. /\ tx'[c] = [tx[c] EXCEPT !.replaced = t]
        /\ \A d \in Calls \ {c} : tx'[d] = tx[d]
    BY <1>1, <2>1 DEF Kept
  <2> HIDE DEF j
  <2>5. /\ tx'[c].fate = tx[c].fate /\ tx'[c].under = tx[c].under
        /\ tx[c].fate # "pending" => tx'[c].replaced = tx[c].replaced
    BY <1>1, <2>4 DEF Kept
  <2>6. job[c].left # MaxAccelerate
    BY <1>1, <1>6 DEF AccelerateAnswers, Answered, Sighted
  <2>7. Sighted("sleep", j, tx'[c])
    BY <1>1, <2>2, <2>5, <2>6 DEF Sighted
  <2> QED BY <1>1, <2>3, <2>4, <2>7, GoSees
<1>7. CASE Wakes(c)
  <2>1. Sighted("poll", job[c], tx[c]) /\ UNCHANGED tx
    BY <1>1, <1>7, SightOfPlaces DEF Wakes
  <2> QED BY <1>1, <1>7, <2>1, GoSees DEF Wakes
<1>8. CASE GivesUp(c)
  BY <1>1, <1>8, TellSees DEF GivesUp
<1> QED BY <1>2, <1>3, <1>4, <1>5, <1>6, <1>7, <1>8

(* One of the two is mined, and the replacement only if there was one.     *)
LEMMA ChainSees ==
  ASSUME Kept, SightInv, NEW c \in Calls, ChainSettles(c)
  PROVE  SightInv'
<1>1. PICK fate \in {"landed", "failed"}, under \in {"original", "replacement"} :
        /\ under = "replacement" => tx[c].replaced
        /\ tx' = [tx EXCEPT ![c] =
                    [fate |-> fate, under |-> under, replaced |-> FALSE]]
  BY DEF ChainSettles
<1>2. /\ tx'[c].fate = fate /\ tx'[c].under = under /\ ~tx'[c].replaced
      /\ \A d \in Calls \ {c} : tx'[d] = tx[d]
  BY <1>1 DEF Kept
<1>3. tx[c].fate = "pending" /\ UNCHANGED <<pc, job>>
  BY DEF ChainSettles
<1>4. Sighted(pc[c], job[c], tx'[c])
  BY <1>1, <1>2, <1>3 DEF SightInv, Sighted
<1> QED BY <1>2, <1>3, <1>4 DEF SightInv

LEMMA TickSees ==
  ASSUME Kept, SightInv, Tick
  PROVE  SightInv'
<1> SUFFICES ASSUME NEW c \in Calls PROVE Sighted(pc'[c], job'[c], tx'[c])
  BY DEF SightInv
<1> DEFINE elapsed == IF InLoop(c) THEN Saturated(job[c].elapsed, Timeout)
                      ELSE job[c].elapsed
           since == IF InLoop(c) THEN Saturated(job[c].since, Threshold + 1)
                    ELSE job[c].since
           wait == Less(job[c].wait)
<1>1. job[c] \in Job /\ Sighted(pc[c], job[c], tx[c]) /\ UNCHANGED <<tx, pc>>
  BY DEF Kept, SightInv, Tick
<1>2. elapsed \in Int /\ since \in Int /\ wait \in Int
  BY <1>1, CircleCliAssumption DEF Job, Less, Saturated
<1>3. job'[c] = [job[c] EXCEPT !.wait = wait, !.elapsed = elapsed,
                               !.since = since]
  BY <1>1 DEF Tick, Job
<1> HIDE DEF elapsed, since, wait
<1>4. Sighted(pc[c], [job[c] EXCEPT !.wait = wait, !.elapsed = elapsed,
                                    !.since = since], tx[c])
  BY <1>1, <1>2, SightOfTime
<1> QED BY <1>1, <1>3, <1>4

LEMMA StepSees ==
  PromiseInv /\ SightInv /\ [Next]_vars => SightInv'
<1> SUFFICES ASSUME PromiseInv, SightInv, [Next]_vars PROVE SightInv'
  OBVIOUS
<1>1. Kept
  BY DEF PromiseInv
<1>2. ASSUME NEW c \in Calls, Begin(c) \/ Step(c) \/ ChainSettles(c)
      PROVE  SightInv'
  BY <1>1, <1>2, BeginSees, CommandSees, LoopSees, ChainSees DEF Step
<1>3. CASE Tick
  BY <1>1, <1>3, TickSees
<1>4. CASE UNCHANGED vars
  BY <1>4 DEF vars, SightInv
<1> QED BY <1>2, <1>3, <1>4 DEF Next

(* getTransactionStatus by receipt (CircleCliAdapter.ts:212-222), for any  *)
(* number of calls and of replacements: it misses a transaction that has   *)
(* ended only when the call had it replaced, and the other one was mined.  *)
THEOREM ReceiptsMissOnlyReplacements == Spec => []BlindOnlyToReplacements
<1>1. Init => SightInv
  <2> SUFFICES ASSUME Init, NEW c \in Calls
               PROVE  Sighted(pc[c], job[c], tx[c])
    BY DEF SightInv
  <2>1. /\ NewJob.left = 0 /\ NewJob.hash = "none" /\ ~NewJob.missed
        /\ NewJob.cmd = "submit" /\ MaxAccelerate \in Nat
    BY CircleCliAssumption DEF NewJob
  <2>2. /\ tx[c].fate = "none" /\ tx[c].under = "none" /\ ~tx[c].replaced
        /\ pc[c] = "idle" /\ job[c] = NewJob
    BY DEF Init
  <2> QED BY <2>1, <2>2 DEF Sighted
<1>2. PromiseInv /\ SightInv => BlindOnlyToReplacements
  BY SightIsBlindOnly DEF PromiseInv
<1>3. Init => PromiseInv
  BY InitPromise
<1>4. PromiseInv /\ [Next]_vars => PromiseInv'
  BY StepPromise
<1> QED BY <1>1, <1>2, <1>3, <1>4, StepSees, PTL DEF Spec
=============================================================================
