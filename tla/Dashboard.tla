------------------------------- MODULE Dashboard -------------------------------
(***************************************************************************)
(* The dashboard's process: the traders of TradeSimulator, the loop of     *)
(* YieldLoop, and the routes api/agent/loop and api/agent/simulate that    *)
(* start, stop and trigger them.  They meet in the status of an agent,     *)
(* which its trade signals and a tick reads, and in its parked money,      *)
(* which a tick moves and its trade waits for.                             *)
(*                                                                         *)
(* The simulator that a hot reload replaces is not modelled.               *)
(***************************************************************************)
EXTENDS TradeSimulator, YieldLoop

CONSTANTS
  Signals,      (* the statuses that are posted                            *)
  MaxPosts      (* bound on the requests                                   *)

ASSUME DashboardAssumption ==
  /\ NAgents \in Nat \ {0}
  /\ {MaxTrades, MaxTicks, MaxLoops, MaxPosts} \subseteq Nat
  /\ {LogCap, ReviewTicks, ReviewEvery, ScoreBatch} \subseteq Nat \ {0}
  /\ MinScored \in Nat /\ ReviewEvery <= LogCap

VARIABLES
  posts,        (* the requests so far                                     *)
  crossed,      (* history: a stop came while a start awaited the balances *)
  extra         (* history: how often a trade of each agent was started,   *)
                (* by trigger or by a start, during another                *)

vars == <<simulator, status, parked, loop, loopCount, tick, critic, record,
          posts, crossed, extra>>

Init ==
  /\ InitTraders /\ InitSimulator /\ InitLoop
  /\ posts = 0 /\ crossed = FALSE /\ extra = [a \in Agents |-> 0]

-----------------------------------------------------------------------------
(* The routes. *)

Post == posts < MaxPosts /\ posts' = posts + 1

During(agents) ==
  extra' = [a \in Agents |->
              extra[a] + IF a \in agents /\ TradesOf(a) # {} THEN 1 ELSE 0]

PostStart ==
  /\ Post
  /\ StartLoop /\ StartSimulator
  /\ During(IF simulating THEN {} ELSE Agents)
  /\ UNCHANGED <<status, parked, loopCount, tick, critic, record, crossed>>

PostStop ==
  /\ Post
  /\ StopLoop /\ StopSimulator
  /\ crossed' = (crossed \/ starting > 0)
  /\ UNCHANGED <<status, parked, loopCount, tick, critic, record, extra>>

PostSignal(a, s) ==
  /\ Post
  /\ Signal(a, s)
  /\ UNCHANGED <<simulator, parked, loop, loopCount, tick, critic, record, crossed, extra>>

(* A simulator that does not run is started first; of the timers that      *)
(* start then arms, the trigger clears that of its agent.                  *)
PostSimulate(t, a) ==
  /\ Post
  /\ simulating' = TRUE
  /\ IF simulating
     THEN TriggerTrade(t, a)
     ELSE ScheduleNextTrade(Agents \ {a}) /\ BeginTrade(t, a)
  /\ During(IF simulating THEN {a} ELSE Agents)
  /\ UNCHANGED <<parked, loop, loopCount, tick, critic, record, crossed>>

-----------------------------------------------------------------------------
Simulator ==
  /\ \E t \in Trades : TradeStep(t) \/ \E a \in Agents : TimerFires(t, a)
  /\ UNCHANGED <<loop, loopCount, tick, critic, record, posts, crossed, extra>>

Loop ==
  /\ \E k \in Ticks : LoopStep(k)
  /\ UNCHANGED <<simulator, posts, crossed, extra>>

Next ==
  \/ PostStart \/ PostStop \/ Simulator \/ Loop
  \/ \E a \in Agents : \/ \E s \in Signals : PostSignal(a, s)
                       \/ \E t \in Trades : PostSimulate(t, a)

Spec == Init /\ [][Next]_vars

(* The timers and the polls of a trade that has begun all fire.            *)
FairSpec ==
  /\ Spec
  /\ \A t \in Trades :
       WF_vars(TradeStep(t)
               /\ UNCHANGED <<loop, loopCount, tick, critic, record, posts, crossed, extra>>)

-----------------------------------------------------------------------------
(* "Clear scheduled timer to prevent concurrent trades on the same agent"  *)
(* (TradeSimulator.ts:229): while the simulator runs, each agent has a     *)
(* timer or a trade in progress, and no more of them than one and one for  *)
(* each time that a trade was started during another, however often it is  *)
(* stopped and started, and whatever timers it has lost.                   *)
OneChainEach ==
  \A a \in Agents :
    LET chains == armed[a] + Cardinality(TradesOf(a)) IN
    /\ simulating => chains >= 1
    /\ chains <= 1 + extra[a]

(* Exactly one loop runs after a start and none after a stop               *)
(* (Orchestrator.ts:168-186), unless a stop came while a start awaited the *)
(* balances: then the start goes on and sets an interval.                  *)
OneLoopUnlessCrossed ==
  ~crossed => intervals + starting = (IF running THEN 1 ELSE 0)

(* A trade leaves its agent IDLE in the end (TradeSimulator.ts:195-201),   *)
(* so that its money can be parked again: also when the simulator has been *)
(* stopped meanwhile, or another trade of the agent ran.                   *)
TradesComeToRest ==
  \A a \in Agents : TradesOf(a) # {} ~> status[a] = "IDLE"

(* "10-decision cooldown" (Orchestrator.ts:473): a suggestion costs the    *)
(* agent ReviewEvery decisions of its log, except one that a review asked  *)
(* for during another, as overlapping ticks do.                            *)
SuggestionsAreRare ==
  \A a \in Agents : ReviewEvery * suggestions[a] <= logged[a] + ReviewEvery * overlaps[a]

-----------------------------------------------------------------------------
(* What the docs say without the exceptions above, and the code does not   *)
(* keep.                                                                   *)

(* "Clear scheduled timer to prevent concurrent trades on the same agent"  *)
(* (TradeSimulator.ts:229): no agent has two trades in progress.           *)
NoConcurrentTrades == \A a \in Agents : Cardinality(TradesOf(a)) <= 1

(* "10-decision cooldown" (Orchestrator.ts:473): as many decisions are     *)
(* logged for an agent as its suggestions cost.                            *)
CooldownIsTen == \A a \in Agents : ReviewEvery * suggestions[a] <= logged[a]

(* "stop - halts the loop" (dashboard/README.md:126): once stopped, no     *)
(* interval of the loop is set.                                            *)
StopHaltsTheLoop == ~running => intervals = 0

=============================================================================
