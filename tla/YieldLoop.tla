------------------------------- MODULE YieldLoop -------------------------------
(***************************************************************************)
(* The life of the loop of dashboard/src/lib/float/Orchestrator.ts: start, *)
(* stop, the ticks, the log of decisions and the review by the critic.     *)
(* What a tick does to balances and wallets is Orchestrator; here it moves *)
(* the capital of an agent or does not, and logs that.                     *)
(*                                                                         *)
(* start awaits a read of the balances before it sets the interval, a tick *)
(* does not look at running, and the interval does not wait for a tick.    *)
(* Whether a review is due is asked of the loop's count when the tick      *)
(* ends, and the critic may answer nothing.  The verdict of                *)
(* evaluateDecision is data: only that a decision is scored is kept.       *)
(***************************************************************************)
EXTENDS Traders, Sequences, FiniteSets

CONSTANTS
  MaxTicks,     (* bound on the ticks in progress                          *)
  MaxLoops,     (* bound on the ticks there ever are                       *)
  LogCap,       (* decisions an agent keeps: 100                           *)
  ReviewTicks,  (* loops between reviews: 10                               *)
  ReviewEvery,  (* decisions between suggestions for an agent: 10          *)
  ScoreBatch,   (* decisions that a review scores: 5                       *)
  MinScored     (* scored decisions that the critic needs: 3               *)

VARIABLES
  running,          (* FloatOrchestrator.running                           *)
  starting,         (* the calls of start that await the balances          *)
  intervals,        (* how many intervals run                              *)
  handle,           (* whether loopInterval holds one of them              *)
  loopCount,
  tick,             (* the ticks in progress                               *)
  log,              (* decisions, the newest first                         *)
  adapted,          (* lastAdaptedDecisionCount                            *)
  (* History, for the properties. *)
  logged,           (* the decisions ever logged, those to hold included   *)
  suggestions,      (* the suggestions the critic made for the agent       *)
  overlaps          (* its reviews that began during another of the agent  *)

Ticks == 1..MaxTicks    (* names of the ticks in progress: the least free is taken *)

loop    == <<running, starting, intervals, handle>>
critic  == <<adapted, suggestions, overlaps>>
record  == <<log, logged>>

NoTick == [at |-> "off", turn |-> 1, action |-> "HOLD", count |-> 0]

InitLoop ==
  /\ running = FALSE /\ starting = 0 /\ intervals = 0 /\ handle = FALSE
  /\ loopCount = 0 /\ tick = [k \in Ticks |-> NoTick]
  /\ log = [a \in Agents |-> <<>>]
  /\ adapted = [a \in Agents |-> 0]
  /\ logged = [a \in Agents |-> 0]
  /\ suggestions = [a \in Agents |-> 0] /\ overlaps = [a \in Agents |-> 0]

-----------------------------------------------------------------------------
(* start, up to its await: a second call while it runs does nothing.       *)
StartLoop ==
  IF running
  THEN UNCHANGED loop
  ELSE /\ running' = TRUE /\ starting' = starting + 1
       /\ UNCHANGED <<intervals, handle>>

mutStopLoop ==
  /\ running' = FALSE
  /\ handle' = FALSE
  /\ UNCHANGED <<starting, intervals>>
StopLoop ==
  /\ running' = FALSE
  /\ intervals' = intervals - IF handle THEN 1 ELSE 0
  /\ handle' = FALSE
  /\ UNCHANGED starting

(* tick, up to its first await. *)
BeginTick(k) ==
  /\ tick[k].at = "off" /\ \A j \in 1..(k - 1) : tick[j].at # "off"
  /\ loopCount < MaxLoops
  /\ loopCount' = loopCount + 1
  /\ tick' = [tick EXCEPT ![k] = [NoTick EXCEPT !.at = "deciding"]]

(* start, after its await: whatever was stopped or started meanwhile.      *)
StartGoesOn(k) ==
  /\ starting > 0 /\ starting' = starting - 1
  /\ intervals' = intervals + 1 /\ handle' = TRUE
  /\ BeginTick(k)
  /\ UNCHANGED <<status, parked, running, record, critic>>

IntervalFires(k) ==
  /\ intervals > 0
  /\ BeginTick(k)
  /\ UNCHANGED <<status, parked, loop, record, critic>>

-----------------------------------------------------------------------------
(* The agents of a tick in their turn, then the review if one is due.      *)

Turn(k) == tick[k].turn

NextTurn(k, at, end) ==
  tick' = [tick EXCEPT ![k] =
    IF Turn(k) < NAgents THEN [NoTick EXCEPT !.at = at, !.turn = @ + Turn(k)]
    ELSE [NoTick EXCEPT !.at = end]]

AfterDecisions == IF loopCount % ReviewTicks = 0 THEN "scoring" ELSE "off"

(* logDecision. *)
LogDecision(a, action) ==
  LET decision == [moves |-> action # "HOLD", scored |-> FALSE]
      longer == <<decision>> \o log[a] IN
  /\ log' = [log EXCEPT ![a] = SubSeq(longer, 1, IF Len(longer) > LogCap THEN LogCap ELSE Len(longer))]
  /\ logged' = [logged EXCEPT ![a] = @ + 1]

(* A score, a stale balance, a cooldown or a busy wallet holds anyone.     *)
Hold(k) ==
  /\ tick[k].at = "deciding"
  /\ LogDecision(Turn(k), "HOLD")
  /\ NextTurn(k, "deciding", AfterDecisions)
  /\ UNCHANGED <<status, parked, loop, loopCount, critic>>

(* The agents share one wallet, and _executingWallets keeps one of them in *)
(* a transaction.                                                          *)
Move(k, action) ==
  LET a == Turn(k) IN
  /\ tick[k].at = "deciding"
  /\ \A j \in Ticks : tick[j].at # "moving"
  /\ \/ action = "PARK" /\ CanPark(status[a])
     \/ action = "WITHDRAW" /\ parked[a] /\ (MustRecall(status[a]) \/ CanPark(status[a]))
  /\ tick' = [tick EXCEPT ![k].at = "moving", ![k].action = action]
  /\ UNCHANGED <<status, parked, loop, loopCount, record, critic>>

(* Its transaction lands or fails: both are logged.                        *)
Moved(k) ==
  LET a == Turn(k) IN
  /\ tick[k].at = "moving"
  /\ \/ parked' = [parked EXCEPT ![a] = tick[k].action = "PARK"]
     \/ UNCHANGED parked
  /\ LogDecision(a, tick[k].action)
  /\ NextTurn(k, "deciding", AfterDecisions)
  /\ UNCHANGED <<status, loop, loopCount, critic>>

-----------------------------------------------------------------------------
(* runCriticReview.  The newest unscored decisions are scored.             *)
Unscored(a) == {i \in DOMAIN log[a] : log[a][i].moves /\ ~log[a][i].scored}
Newest(is) == {i \in is : Cardinality({j \in is : j < i}) < ScoreBatch}

(* reviewDecisions has enough to review, once is are scored too. *)
Enough(a, is) == Cardinality(is \cup {i \in DOMAIN log[a] : log[a][i].scored}) >= MinScored

(* reviewDecisions, up to its await: the critic is asked, with a prompt of *)
(* what was good and bad and of what the second brain tells.               *)
reviewDecisions(k) ==
  LET a == Turn(k) IN
  /\ tick' = [tick EXCEPT ![k].at = "asking", ![k].count = Len(log[a])]
  /\ overlaps' = [overlaps EXCEPT ![a] = @ +
       IF \E j \in Ticks \ {k} : tick[j].at = "asking" /\ Turn(j) = a
       THEN 1 ELSE 0]

mutReviewIsDue(a) == Len(log[a]) >= ReviewEvery
ReviewIsDue(a) == Len(log[a]) - adapted[a] >= ReviewEvery

Scored(decisions, is) ==
  [i \in DOMAIN decisions |-> [decisions[i] EXCEPT !.scored = @ \/ i \in is]]

Score(k) ==
  LET a == Turn(k)
      is == Newest(Unscored(a)) IN
  /\ tick[k].at = "scoring"
  /\ log' = [log EXCEPT ![a] = Scored(@, is)]
  /\ IF ReviewIsDue(a) /\ Enough(a, is)
     THEN reviewDecisions(k)
     ELSE NextTurn(k, "scoring", "off") /\ UNCHANGED overlaps
  /\ UNCHANGED <<status, parked, loop, loopCount, logged, adapted, suggestions>>

(* The critic answers with a suggestion: the count is that of before.      *)
Suggest(k) ==
  LET a == Turn(k) IN
  /\ tick[k].at = "asking"
  /\ adapted' = [adapted EXCEPT ![a] = tick[k].count]
  /\ suggestions' = [suggestions EXCEPT ![a] = @ + 1]
  /\ NextTurn(k, "scoring", "off")
  /\ UNCHANGED <<status, parked, loop, loopCount, record, overlaps>>

NothingToSuggest(k) ==
  /\ tick[k].at = "asking"
  /\ NextTurn(k, "scoring", "off")
  /\ UNCHANGED <<status, parked, loop, loopCount, record, critic>>

(* getMarketSnapshot throws, and with it the tick: nobody is decided about *)
(* and nothing is reviewed.                                                *)
TickFails(k) ==
  /\ tick[k].at = "deciding" /\ Turn(k) = 1
  /\ tick' = [tick EXCEPT ![k] = NoTick]
  /\ UNCHANGED <<status, parked, loop, loopCount, record, critic>>

LoopStep(k) ==
  \/ StartGoesOn(k) \/ IntervalFires(k) \/ TickFails(k)
  \/ Hold(k) \/ Moved(k) \/ Score(k) \/ Suggest(k) \/ NothingToSuggest(k)
  \/ \E action \in {"PARK", "WITHDRAW"} : Move(k, action)
=============================================================================
