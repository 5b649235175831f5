---------------------------- MODULE DashboardProofs ----------------------------
(***************************************************************************)
(* The dashboard's process, for every number of agents, trades and ticks   *)
(* and whatever is requested when: the traders are neither forgotten nor   *)
(* doubled, one loop runs or none, and the critic's cooldown is kept.  And *)
(* its second brain, for every cap of a batch and any edits and restarts:  *)
(* what was compiled can be read, and what runs was approved.              *)
(***************************************************************************)
EXTENDS Dashboard, Brain, FiniteSetTheorems, SequenceTheorems,
        FunctionTheorems, WellFoundedInduction, TLAPS

-----------------------------------------------------------------------------
(* Numbers of elements.                                                    *)

(* Trades and ticks are finitely many.                                     *)
LEMMA FinitelyMany ==
  ASSUME NEW n \in Nat, NEW S, S \subseteq 1..n
  PROVE  IsFiniteSet(S) /\ Cardinality(S) \in Nat
<1>1. IsFiniteSet(1..n)
  BY FS_Interval
<1> QED BY <1>1, FS_Subset, FS_CardinalityType

(* One more, one fewer, none.                                              *)
LEMMA Counting ==
  ASSUME NEW n \in Nat, NEW S, S \subseteq 1..n, NEW x
  PROVE  /\ x \notin S => Cardinality(S \cup {x}) = Cardinality(S) + 1
         /\ x \in S => Cardinality(S \ {x}) = Cardinality(S) - 1
         /\ Cardinality(S) = 0 <=> S = {}
         /\ Cardinality(S) \in Nat
<1>1. IsFiniteSet(S)
  BY FinitelyMany
<1> QED BY <1>1, FinitelyMany, FS_AddElement, FS_RemoveElement, FS_EmptySet

-----------------------------------------------------------------------------
(* The loop.                                                               *)

LoopTyped ==
  /\ running \in BOOLEAN /\ handle \in BOOLEAN /\ crossed \in BOOLEAN
  /\ starting \in Nat /\ intervals \in Nat

(* While no stop has come during a start, the interval that runs is the    *)
(* one that loopInterval holds: clearing it leaves none.                   *)
LoopInv ==
  /\ LoopTyped
  /\ handle => intervals >= 1
  /\ OneLoopUnlessCrossed
  /\ ~crossed => (handle <=> intervals = 1)

LEMMA LoopStarts == Init => LoopInv
<1> SUFFICES ASSUME Init PROVE LoopInv
  OBVIOUS
<1>1. /\ running = FALSE /\ handle = FALSE /\ crossed = FALSE
      /\ starting = 0 /\ intervals = 0
  BY DEF Init, InitLoop
<1>2. ~handle /\ ~running
  BY <1>1
<1>3. LoopTyped
  BY <1>1 DEF LoopTyped
<1>4. intervals + starting = 0 /\ intervals # 1
  BY <1>1
<1>5. OneLoopUnlessCrossed
  BY <1>2, <1>4 DEF OneLoopUnlessCrossed
<1>6. /\ handle => intervals >= 1
      /\ ~crossed => (handle <=> intervals = 1)
  BY <1>2, <1>4, Zenon
<1> QED BY <1>3, <1>5, <1>6 DEF LoopInv

LEMMA LoopStepKeeps == LoopInv /\ [Next]_vars => LoopInv'
<1> SUFFICES ASSUME LoopInv, [Next]_vars PROVE LoopInv'
  OBVIOUS
<1> USE DEF LoopInv, LoopTyped, OneLoopUnlessCrossed
<1>1. CASE PostStart
  <2>1. CASE running
    BY <1>1, <2>1 DEF PostStart, StartLoop, loop
  <2>2. CASE ~running
    <3>1. /\ running' = TRUE /\ starting' = starting + 1
          /\ UNCHANGED <<intervals, handle, crossed>>
      BY <1>1, <2>2 DEF PostStart, StartLoop
    <3>2. running'
      BY <3>1
    <3> QED BY <2>2, <3>1, <3>2
  <2> QED BY <2>1, <2>2
<1>2. CASE PostStop
  <2>1. /\ running' = FALSE /\ handle' = FALSE /\ starting' = starting
        /\ intervals' = intervals - (IF handle THEN 1 ELSE 0)
        /\ crossed' = (crossed \/ starting > 0)
    BY <1>2 DEF PostStop, StopLoop
  <2>2. ~running' /\ ~handle'
    BY <2>1
  <2>3. ~crossed' => ~crossed /\ starting = 0
    BY <2>1
  <2>4. LoopTyped'
    <3>1. intervals' \in Nat
      BY <2>1
    <3> QED BY <2>1, <3>1
  <2>5. ~crossed' => intervals' + starting' = 0 /\ intervals' # 1
    BY <2>1, <2>3
  <2>6. OneLoopUnlessCrossed'
    BY <2>2, <2>5
  <2>7. /\ handle' => intervals' >= 1
        /\ ~crossed' => (handle' <=> intervals' = 1)
    BY <2>2, <2>5, Zenon
  <2> QED BY <2>4, <2>6, <2>7
<1>3. CASE Simulator
  BY <1>3 DEF Simulator, loop
<1>4. ASSUME NEW k \in Ticks, LoopStep(k), UNCHANGED crossed
      PROVE  LoopInv'
  <2>1. CASE StartGoesOn(k)
    BY <2>1, <1>4 DEF StartGoesOn
  <2>2. CASE UNCHANGED loop
    BY <2>2, <1>4 DEF loop
  <2> QED BY <2>1, <2>2, <1>4
          DEF LoopStep, IntervalFires, TickFails, Hold, Moved, Score, Suggest,
              NothingToSuggest, Move
<1>5. CASE UNCHANGED <<loop, crossed>>
  BY <1>5 DEF loop
<1> QED BY <1>1, <1>2, <1>3, <1>4, <1>5
        DEF Next, Loop, PostSignal, PostSimulate, vars

(* Exactly one loop runs after a start and none after a stop, unless a     *)
(* stop came while a start awaited the balances (Orchestrator.ts:168-186). *)
THEOREM OneLoop == Spec => []OneLoopUnlessCrossed
<1>1. LoopInv => OneLoopUnlessCrossed
  BY DEF LoopInv
<1> QED BY <1>1, LoopStarts, LoopStepKeeps, PTL DEF Spec

-----------------------------------------------------------------------------
(* The traders.                                                            *)

Phases == {"off", "waiting", "executing", "cooling"}

TradesTyped ==
  /\ simulating \in BOOLEAN
  /\ armed \in [Agents -> Nat] /\ extra \in [Agents -> Nat]
  /\ held \in [Agents -> BOOLEAN]
  /\ trade \in [Trades -> [agent : Agents \cup {0}, at : Phases]]
  /\ \A t \in Trades : trade[t].at # "off" => trade[t].agent \in Agents

(* How many trades of an agent are in progress, and what it has going.     *)
Going(a)  == Cardinality(TradesOf(a))
Chains(a) == armed[a] + Going(a)
Held(a)   == IF held[a] THEN 1 ELSE 0

(* Of the timers of an agent, only as many are lost as trades were started *)
(* during another: what starts next can clear all but those.  A stopped    *)
(* simulator holds no timer.                                               *)
ChainInv ==
  /\ TradesTyped
  /\ OneChainEach
  /\ \A a \in Agents : /\ Held(a) <= armed[a] /\ armed[a] <= extra[a] + Held(a)
                       /\ ~simulating => ~held[a]

LEMMA GoingIsANumber ==
  ASSUME NEW a PROVE Going(a) \in Nat /\ (Going(a) = 0 <=> TradesOf(a) = {})
<1>1. TradesOf(a) \subseteq 1..MaxTrades /\ MaxTrades \in Nat
  BY DashboardAssumption DEF TradesOf, Trades
<1> QED BY <1>1, Counting DEF Going

(* A trade that begins is one more of its agent's, and nobody else's.      *)
LEMMA OneMore ==
  ASSUME TradesTyped, NEW t \in Trades, NEW a \in Agents, BeginTrade(t, a)
  PROVE  /\ Going(a)' = Going(a) + 1
         /\ \A b \in Agents \ {a} : Going(b)' = Going(b)
         /\ trade' \in [Trades -> [agent : Agents \cup {0}, at : Phases]]
         /\ \A u \in Trades : trade'[u].at # "off" => trade'[u].agent \in Agents
<1>1. /\ trade[t].at = "off"
      /\ trade' = [trade EXCEPT ![t] = [agent |-> a, at |-> "waiting"]]
  BY DEF BeginTrade
<1>2. /\ trade'[t] = [agent |-> a, at |-> "waiting"]
      /\ \A u \in Trades \ {t} : trade'[u] = trade[u]
      /\ trade' \in [Trades -> [agent : Agents \cup {0}, at : Phases]]
  BY <1>1 DEF TradesTyped, Phases
<1>3. t \notin TradesOf(a) /\ TradesOf(a)' = TradesOf(a) \cup {t}
  BY <1>1, <1>2 DEF TradesOf
<1>4. \A b \in Agents \ {a} : TradesOf(b)' = TradesOf(b)
  BY <1>1, <1>2 DEF TradesOf
<1>5. TradesOf(a) \subseteq 1..MaxTrades /\ MaxTrades \in Nat
  BY DashboardAssumption DEF TradesOf, Trades
<1>6. Going(a)' = Going(a) + 1
  BY <1>3, <1>5, Counting DEF Going
<1>7. \A u \in Trades : trade'[u].at # "off" => trade'[u].agent \in Agents
  BY <1>2 DEF TradesTyped
<1> QED BY <1>2, <1>4, <1>6, <1>7 DEF Going

(* A trade that goes on remains its agent's.                               *)
LEMMA AsMany ==
  ASSUME TradesTyped, NEW t \in Trades, NEW at \in Phases \ {"off"},
         trade[t].at # "off", trade' = [trade EXCEPT ![t].at = at]
  PROVE  /\ \A b : Going(b)' = Going(b)
         /\ trade' \in [Trades -> [agent : Agents \cup {0}, at : Phases]]
         /\ \A u \in Trades : trade'[u].at # "off" => trade'[u].agent \in Agents
<1>1. /\ trade'[t].at = at /\ trade'[t].agent = trade[t].agent
      /\ \A u \in Trades \ {t} : trade'[u] = trade[u]
      /\ trade' \in [Trades -> [agent : Agents \cup {0}, at : Phases]]
  BY DEF TradesTyped
<1>2. \A b : TradesOf(b)' = TradesOf(b)
  BY <1>1 DEF TradesOf
<1>3. \A u \in Trades : trade'[u].at # "off" => trade'[u].agent \in Agents
  BY <1>1 DEF TradesTyped
<1> QED BY <1>1, <1>2, <1>3 DEF Going

(* A trade that ends is one fewer of its agent's, and nobody else's.       *)
LEMMA OneFewer ==
  ASSUME TradesTyped, NEW t \in Trades, NEW a, trade[t].agent = a,
         trade[t].at # "off",
         trade' = [trade EXCEPT ![t] = NoTrade]
  PROVE  /\ Going(a)' = Going(a) - 1
         /\ \A b \in Agents \ {a} : Going(b)' = Going(b)
         /\ trade' \in [Trades -> [agent : Agents \cup {0}, at : Phases]]
         /\ \A u \in Trades : trade'[u].at # "off" => trade'[u].agent \in Agents
<1>1. /\ trade'[t] = NoTrade
      /\ \A u \in Trades \ {t} : trade'[u] = trade[u]
      /\ trade' \in [Trades -> [agent : Agents \cup {0}, at : Phases]]
  BY DEF TradesTyped, NoTrade, Phases
<1>2. t \in TradesOf(a)
  BY DEF TradesOf
<1>3. \A b : b # a => t \notin TradesOf(b)
  BY DEF TradesOf
<1>4. \A b : TradesOf(b)' = TradesOf(b) \ {t}
  BY <1>1 DEF TradesOf, NoTrade
<1>5. TradesOf(a) \subseteq 1..MaxTrades /\ MaxTrades \in Nat
  BY DashboardAssumption DEF TradesOf, Trades
<1>6. Cardinality(TradesOf(a) \ {t}) = Cardinality(TradesOf(a)) - 1
  BY <1>2, <1>5, Counting
<1>7. \A b : Going(b)' = Cardinality(TradesOf(b) \ {t})
  BY <1>4 DEF Going
<1>8. \A b \in Agents \ {a} : TradesOf(b) \ {t} = TradesOf(b)
  BY <1>3
<1>9. \A u \in Trades : trade'[u].at # "off" => trade'[u].agent \in Agents
  BY <1>1 DEF TradesTyped, NoTrade
<1> QED BY <1>1, <1>6, <1>7, <1>8, <1>9 DEF Going

-----------------------------------------------------------------------------
LEMMA ChainsStart == Init => ChainInv
<1> SUFFICES ASSUME Init PROVE ChainInv
  OBVIOUS
<1>1. /\ simulating = FALSE /\ armed = [a \in Agents |-> 0]
      /\ held = [a \in Agents |-> FALSE] /\ extra = [a \in Agents |-> 0]
      /\ trade = [t \in Trades |-> NoTrade]
  BY DEF Init, InitSimulator
<1>2. TradesTyped
  BY <1>1 DEF TradesTyped, NoTrade, Phases
<1>3. \A a \in Agents : Going(a) = 0
  <2>1. \A a \in Agents : TradesOf(a) = {}
    BY <1>1 DEF TradesOf, NoTrade
  <2> QED BY <2>1, GoingIsANumber
<1>4. ~simulating /\ \A a \in Agents : ~held[a] /\ armed[a] = 0 /\ extra[a] = 0
  BY <1>1
<1>5. OneChainEach
  BY <1>3, <1>4 DEF OneChainEach, Going
<1>6. \A a \in Agents : /\ Held(a) <= armed[a] /\ armed[a] <= extra[a] + Held(a)
                        /\ ~simulating => ~held[a]
  BY <1>4 DEF Held
<1> QED BY <1>2, <1>5, <1>6 DEF ChainInv

(* What the invariant says of one agent, in numbers.                       *)
Fits(arms, going, holds, more, on) ==
  /\ holds <= arms /\ arms <= more + holds
  /\ arms + going <= 1 + more
  /\ IF on THEN arms + going >= 1 ELSE holds = 0

FitsAll ==
  \A a \in Agents : Fits(armed[a], Going(a), Held(a), extra[a], simulating)

Numbers ==
  \A a \in Agents : /\ Held(a) \in 0..1 /\ armed[a] \in Nat
                    /\ Going(a) \in Nat /\ extra[a] \in Nat

LEMMA InNumbers == TradesTyped => Numbers /\ (ChainInv <=> FitsAll)
<1> SUFFICES ASSUME TradesTyped PROVE Numbers /\ (ChainInv <=> FitsAll)
  OBVIOUS
<1>1. Numbers
  BY GoingIsANumber DEF TradesTyped, Held, Numbers
<1>2. \A a \in Agents : ~held[a] <=> Held(a) = 0
  BY DEF Held
<1>3. OneChainEach <=> \A a \in Agents :
        /\ simulating => armed[a] + Going(a) >= 1
        /\ armed[a] + Going(a) <= 1 + extra[a]
  BY DEF OneChainEach, Going
<1>4. \A a \in Agents :
        Fits(armed[a], Going(a), Held(a), extra[a], simulating) <=>
          /\ Held(a) <= armed[a] /\ armed[a] <= extra[a] + Held(a)
          /\ ~simulating => ~held[a]
          /\ simulating => armed[a] + Going(a) >= 1
          /\ armed[a] + Going(a) <= 1 + extra[a]
  BY <1>2 DEF Fits
<1> QED BY <1>1, <1>3, <1>4 DEF ChainInv, FitsAll

LEMMA InNumbersNext == TradesTyped' => Numbers' /\ (ChainInv' <=> FitsAll')
BY InNumbers, PTL

(* scheduleNextTrade arms a timer and holds it.                            *)
LEMMA Scheduled ==
  ASSUME TradesTyped, NEW S \in SUBSET Agents, ScheduleNextTrade(S)
  PROVE  /\ armed' \in [Agents -> Nat] /\ held' \in [Agents -> BOOLEAN]
         /\ \A a \in S : armed'[a] = armed[a] + 1 /\ Held(a)' = 1
         /\ \A a \in Agents \ S : armed'[a] = armed[a] /\ Held(a)' = Held(a)
<1>1. armed' \in [Agents -> Nat]
  BY DEF ScheduleNextTrade, TradesTyped
<1>2. held' \in [Agents -> BOOLEAN]
  BY DEF ScheduleNextTrade, TradesTyped
<1>3. \A a \in Agents : /\ armed'[a] = armed[a] + (IF a \in S THEN 1 ELSE 0)
                        /\ held'[a] = (held[a] \/ a \in S)
  BY DEF ScheduleNextTrade
<1>4. \A a \in S : held'[a] /\ armed'[a] = armed[a] + 1
  BY <1>3
<1>5. \A a \in Agents \ S : /\ held'[a] <=> held[a]
                            /\ armed'[a] = armed[a] + 0
  BY <1>3
<1>6. \A a \in Agents : armed[a] \in Nat
  BY DEF TradesTyped
<1> QED BY <1>1, <1>2, <1>4, <1>5, <1>6 DEF Held

(* A trade that is started during another is counted.                      *)
LEMMA Counted ==
  ASSUME TradesTyped, NEW S, During(S)
  PROVE  /\ extra' \in [Agents -> Nat]
         /\ \A a \in Agents : extra'[a] =
              extra[a] + (IF a \in S /\ Going(a) # 0 THEN 1 ELSE 0)
<1>1. \A a : TradesOf(a) # {} <=> Going(a) # 0
  BY GoingIsANumber
<1>2. \A a \in Agents : extra[a] \in Nat
  BY DEF TradesTyped
<1> QED BY <1>1, <1>2 DEF During

(* The simulator starts: every agent gets a timer.                         *)
LEMMA StartKeepsChains ==
  ASSUME ChainInv, PostStart PROVE ChainInv'
<1>1. TradesTyped /\ Numbers /\ FitsAll
  BY InNumbers DEF ChainInv
<1>2. trade' = trade /\ \A a : Going(a)' = Going(a)
  BY DEF PostStart, StartSimulator, simulator, Going, TradesOf
<1>3. CASE simulating
  <2>1. UNCHANGED simulator /\ During({})
    BY <1>3 DEF PostStart, StartSimulator
  <2>2. \A a \in Agents : extra'[a] = extra[a]
    BY <1>1, <2>1, Counted DEF Numbers
  <2>3. \A a \in Agents : armed'[a] = armed[a] /\ Held(a)' = Held(a)
    BY <2>1 DEF simulator, Held
  <2>4. TradesTyped'
    BY <1>1, <2>1, Counted DEF TradesTyped, simulator
  <2>5. FitsAll'
    BY <1>1, <1>2, <2>1, <2>2, <2>3 DEF FitsAll, simulator
  <2> QED BY <2>4, <2>5, InNumbersNext
<1>4. CASE ~simulating
  <2>1. simulating' = TRUE /\ ScheduleNextTrade(Agents) /\ During(Agents)
    BY <1>4 DEF PostStart, StartSimulator
  <2>2. TradesTyped'
    BY <1>1, <1>2, <2>1, Scheduled, Counted DEF TradesTyped
  <2>3. \A a \in Agents :
          Fits(armed[a] + 1, Going(a), 1,
               extra[a] + (IF Going(a) # 0 THEN 1 ELSE 0), TRUE)
    BY <1>1, <1>4 DEF FitsAll, Fits, Numbers
  <2>4. FitsAll'
    BY <1>1, <1>2, <2>1, <2>3, Scheduled, Counted DEF FitsAll
  <2> QED BY <2>2, <2>4, InNumbersNext
<1> QED BY <1>3, <1>4

(* The simulator stops: the timers that are held go.                       *)
LEMMA StopKeepsChains ==
  ASSUME ChainInv, PostStop PROVE ChainInv'
<1>1. TradesTyped /\ Numbers /\ FitsAll
  BY InNumbers DEF ChainInv
<1>2. /\ simulating' = FALSE /\ trade' = trade /\ extra' = extra
      /\ armed' = [a \in Agents |-> armed[a] - IF held[a] THEN 1 ELSE 0]
      /\ held' = [a \in Agents |-> FALSE]
  BY DEF PostStop, StopSimulator
<1>3. \A a : Going(a)' = Going(a)
  BY <1>2 DEF Going, TradesOf
<1>4. \A a \in Agents : armed'[a] = armed[a] - Held(a) /\ Held(a)' = 0
  BY <1>2 DEF Held
<1>5. \A a \in Agents : armed[a] - Held(a) \in Nat
  BY <1>1 DEF FitsAll, Fits, Numbers
<1>6. armed' \in [Agents -> Nat]
  BY <1>2, <1>5 DEF Held
<1>7. TradesTyped'
  BY <1>1, <1>2, <1>6 DEF TradesTyped
<1>8. \A a \in Agents : Fits(armed[a] - Held(a), Going(a), 0, extra[a], FALSE)
  BY <1>1 DEF FitsAll, Fits, Numbers
<1>9. FitsAll'
  BY <1>2, <1>3, <1>4, <1>8 DEF FitsAll
<1> QED BY <1>7, <1>9, InNumbersNext

(* A trade is triggered; the simulator is started first if it does not run.*)
LEMMA TriggerKeepsChains ==
  ASSUME ChainInv, NEW t \in Trades, NEW a \in Agents, PostSimulate(t, a)
  PROVE  ChainInv'
<1>1. TradesTyped /\ Numbers /\ FitsAll
  BY InNumbers DEF ChainInv
<1>2. simulating' = TRUE /\ BeginTrade(t, a)
  BY DEF PostSimulate, TriggerTrade
<1>3. CASE simulating
  <2>1. TriggerTrade(t, a) /\ During({a})
    BY <1>3 DEF PostSimulate
  <2>2. /\ armed' = [armed EXCEPT ![a] = @ - IF held[a] THEN 1 ELSE 0]
        /\ held' = [held EXCEPT ![a] = FALSE]
    BY <2>1 DEF TriggerTrade
  <2>3. armed'[a] = armed[a] - Held(a) /\ Held(a)' = 0
    BY <1>1, <2>2 DEF Held, TradesTyped
  <2>4. \A b \in Agents \ {a} : armed'[b] = armed[b] /\ Held(b)' = Held(b)
    BY <1>1, <2>2 DEF Held, TradesTyped
  <2>5. armed[a] - Held(a) \in Nat
    BY <1>1 DEF FitsAll, Fits, Numbers
  <2>6. TradesTyped'
    <3>1. armed' \in [Agents -> Nat]
      BY <1>1, <2>2, <2>5 DEF TradesTyped, Held
    <3>2. held' \in [Agents -> BOOLEAN]
      BY <1>1, <2>2 DEF TradesTyped
    <3>3. extra' \in [Agents -> Nat]
      BY <1>1, <2>1, Counted
    <3>4. /\ trade' \in [Trades -> [agent : Agents \cup {0}, at : Phases]]
          /\ \A u \in Trades : trade'[u].at # "off" => trade'[u].agent \in Agents
      BY <1>1, <1>2, OneMore
    <3> QED BY <1>2, <3>1, <3>2, <3>3, <3>4 DEF TradesTyped
  <2>7. Fits(armed[a] - Held(a), Going(a) + 1, 0,
             extra[a] + (IF Going(a) # 0 THEN 1 ELSE 0), TRUE)
    BY <1>1, <1>3 DEF FitsAll, Fits, Numbers
  <2>8. Fits(armed[a], Going(a), Held(a), extra[a], simulating)'
    BY <1>1, <1>2, <2>1, <2>3, <2>7, Counted, OneMore
  <2>9. ASSUME NEW b \in Agents \ {a}
        PROVE  Fits(armed[b], Going(b), Held(b), extra[b], simulating)'
    <3>1. Going(b)' = Going(b)
      BY <1>1, <1>2, OneMore
    <3>2. extra'[b] = extra[b]
      BY <1>1, <2>1, Counted DEF Numbers
    <3> QED BY <1>1, <1>2, <1>3, <2>4, <3>1, <3>2 DEF FitsAll
  <2>10. FitsAll'
    BY <2>8, <2>9 DEF FitsAll
  <2> QED BY <2>6, <2>10, InNumbersNext
<1>4. CASE ~simulating
  <2>1. ScheduleNextTrade(Agents \ {a}) /\ During(Agents)
    BY <1>4 DEF PostSimulate
  <2>2. TradesTyped'
    <3>1. /\ trade' \in [Trades -> [agent : Agents \cup {0}, at : Phases]]
          /\ \A u \in Trades : trade'[u].at # "off" => trade'[u].agent \in Agents
      BY <1>1, <1>2, OneMore
    <3> QED BY <1>1, <1>2, <2>1, <3>1, Scheduled, Counted DEF TradesTyped
  <2>3. /\ armed'[a] = armed[a] /\ Held(a)' = Held(a)
        /\ \A b \in Agents \ {a} : armed'[b] = armed[b] + 1 /\ Held(b)' = 1
    BY <1>1, <2>1, Scheduled
  <2>4. /\ Fits(armed[a], Going(a) + 1, Held(a),
                extra[a] + (IF Going(a) # 0 THEN 1 ELSE 0), TRUE)
        /\ \A b \in Agents \ {a} :
             Fits(armed[b] + 1, Going(b), 1,
                  extra[b] + (IF Going(b) # 0 THEN 1 ELSE 0), TRUE)
    BY <1>1, <1>4 DEF FitsAll, Fits, Numbers
  <2>5. \A b \in Agents :
          extra'[b] = extra[b] + (IF Going(b) # 0 THEN 1 ELSE 0)
    BY <1>1, <2>1, Counted
  <2>6. /\ Going(a)' = Going(a) + 1
        /\ \A b \in Agents \ {a} : Going(b)' = Going(b)
    BY <1>1, <1>2, OneMore
  <2>7. Fits(armed[a], Going(a), Held(a), extra[a], simulating)'
    BY <1>2, <2>3, <2>4, <2>5, <2>6
  <2>8. \A b \in Agents \ {a} :
          Fits(armed'[b], Going(b)', Held(b)', extra'[b], simulating')
    BY <1>2, <2>3, <2>4, <2>5, <2>6
  <2>9. FitsAll'
    BY <2>7, <2>8 DEF FitsAll
  <2> QED BY <2>2, <2>9, InNumbersNext
<1> QED BY <1>3, <1>4

(* A timer fires: it becomes a trade, or nothing once the simulator has    *)
(* been stopped.                                                           *)
LEMMA TimerKeepsChains ==
  ASSUME ChainInv, NEW t \in Trades, NEW a \in Agents, TimerFires(t, a),
         UNCHANGED extra
  PROVE  ChainInv'
<1>1. TradesTyped /\ Numbers /\ FitsAll
  BY InNumbers DEF ChainInv
<1>2. armed' = [armed EXCEPT ![a] = @ - 1] /\ simulating' = simulating
  BY DEF TimerFires
<1>3. held' \in [Agents -> BOOLEAN] /\ \A b \in Agents \ {a} : held'[b] = held[b]
  BY <1>1 DEF TimerFires, TradesTyped
<1>4. Held(a)' <= Held(a) /\ Held(a)' \in 0..1 /\ armed[a] - 1 >= Held(a)'
      /\ armed[a] - 1 <= extra[a] + Held(a)'
  <2>1. CASE held[a] /\ held' = [held EXCEPT ![a] = FALSE]
    <3>1. Held(a) = 1 /\ Held(a)' = 0
      BY <1>1, <2>1 DEF Held, TradesTyped
    <3> QED BY <1>1, <3>1 DEF FitsAll, Fits, Numbers
  <2>2. CASE armed[a] > (IF held[a] THEN 1 ELSE 0) /\ UNCHANGED held
    <3>1. Held(a)' = Held(a) /\ armed[a] > Held(a)
      BY <2>2 DEF Held
    <3> QED BY <1>1, <3>1 DEF FitsAll, Fits, Numbers
  <2> QED BY <2>1, <2>2 DEF TimerFires
<1>5. armed[a] - 1 \in Nat
  BY <1>1, <1>4 DEF Numbers
<1>6. /\ armed' \in [Agents -> Nat] /\ armed'[a] = armed[a] - 1
      /\ \A b \in Agents \ {a} : armed'[b] = armed[b] /\ Held(b)' = Held(b)
  BY <1>1, <1>2, <1>3, <1>5 DEF TradesTyped, Held
<1>7. CASE simulating
  <2>1. BeginTrade(t, a)
    BY <1>7 DEF TimerFires
  <2>2. TradesTyped'
    <3>1. /\ trade' \in [Trades -> [agent : Agents \cup {0}, at : Phases]]
          /\ \A u \in Trades : trade'[u].at # "off" => trade'[u].agent \in Agents
      BY <1>1, <2>1, OneMore
    <3> QED BY <1>1, <1>2, <1>3, <1>6, <3>1 DEF TradesTyped
  <2>3. Fits(armed[a] - 1, Going(a) + 1, Held(a)', extra[a], TRUE)
    BY <1>1, <1>4, <1>7 DEF FitsAll, Fits, Numbers
  <2>4. /\ Going(a)' = Going(a) + 1
        /\ \A b \in Agents \ {a} : Going(b)' = Going(b)
    BY <1>1, <2>1, OneMore
  <2>5. FitsAll'
    BY <1>1, <1>2, <1>6, <1>7, <2>3, <2>4 DEF FitsAll
  <2> QED BY <2>2, <2>5, InNumbersNext
<1>8. CASE ~simulating
  <2>1. trade' = trade /\ \A b : Going(b)' = Going(b)
    BY <1>8 DEF TimerFires, Going, TradesOf
  <2>2. TradesTyped'
    BY <1>1, <1>2, <1>3, <1>6, <2>1 DEF TradesTyped
  <2>3. Fits(armed[a] - 1, Going(a), Held(a)', extra[a], simulating)
    BY <1>1, <1>4, <1>8 DEF FitsAll, Fits, Numbers
  <2>4. FitsAll'
    BY <1>1, <1>2, <1>6, <1>8, <2>1, <2>3 DEF FitsAll
  <2> QED BY <2>2, <2>4, InNumbersNext
<1> QED BY <1>7, <1>8

(* A trade goes on, or ends and leaves a timer for the next.               *)
LEMMA TradeKeepsChains ==
  ASSUME ChainInv, NEW t \in Trades, TradeStep(t), UNCHANGED extra
  PROVE  ChainInv'
<1>1. TradesTyped /\ Numbers /\ FitsAll
  BY InNumbers DEF ChainInv
<1>2. ASSUME NEW at \in Phases \ {"off"}, trade[t].at # "off",
             trade' = [trade EXCEPT ![t].at = at],
             UNCHANGED <<simulating, armed, held>>
      PROVE  ChainInv'
  <2>1. \A b : Going(b)' = Going(b) /\ Held(b)' = Held(b)
    BY <1>1, <1>2, AsMany DEF Held
  <2>2. TradesTyped'
    BY <1>1, <1>2, AsMany DEF TradesTyped
  <2>3. FitsAll'
    BY <1>1, <1>2, <2>1 DEF FitsAll
  <2> QED BY <2>2, <2>3, InNumbersNext
<1>3. CASE StopsWaiting(t)
  BY <1>2, <1>3 DEF StopsWaiting, Phases
<1>4. CASE Cools(t)
  BY <1>2, <1>4 DEF Cools, Phases
<1>5. CASE EndTrade(t)
  <2>1. PICK a \in Agents : trade[t].agent = a
    BY <1>1, <1>5 DEF EndTrade, TradesTyped
  <2>2. /\ trade[t].at # "off" /\ trade' = [trade EXCEPT ![t] = NoTrade]
        /\ simulating' = simulating
    BY <1>5 DEF EndTrade
  <2>3. /\ Going(a)' = Going(a) - 1
        /\ \A b \in Agents \ {a} : Going(b)' = Going(b)
        /\ trade' \in [Trades -> [agent : Agents \cup {0}, at : Phases]]
        /\ \A u \in Trades : trade'[u].at # "off" => trade'[u].agent \in Agents
    BY <1>1, <2>1, <2>2, OneFewer
  <2>4. Going(a) >= 1
    <3>1. t \in TradesOf(a)
      BY <2>1, <2>2 DEF TradesOf
    <3> QED BY <1>1, <3>1, GoingIsANumber DEF Numbers
  <2>5. CASE simulating
    <3>1. ScheduleNextTrade({a})
      BY <1>5, <2>1, <2>5 DEF EndTrade
    <3>2. TradesTyped'
      BY <1>1, <2>2, <2>3, <3>1, Scheduled DEF TradesTyped
    <3>3. Fits(armed[a] + 1, Going(a) - 1, 1, extra[a], TRUE)
      BY <1>1, <2>4, <2>5 DEF FitsAll, Fits, Numbers
    <3>4. /\ armed'[a] = armed[a] + 1 /\ Held(a)' = 1
          /\ \A b \in Agents \ {a} : armed'[b] = armed[b] /\ Held(b)' = Held(b)
      BY <1>1, <3>1, Scheduled
    <3>5. FitsAll'
      BY <1>1, <2>2, <2>3, <2>5, <3>3, <3>4 DEF FitsAll
    <3> QED BY <3>2, <3>5, InNumbersNext
  <2>6. CASE ~simulating
    <3>1. armed' = armed /\ held' = held
      BY <1>5, <2>6 DEF EndTrade
    <3>2. TradesTyped'
      BY <1>1, <2>2, <2>3, <3>1 DEF TradesTyped
    <3>3. Fits(armed[a], Going(a) - 1, Held(a), extra[a], simulating)
      BY <1>1, <2>4, <2>6 DEF FitsAll, Fits, Numbers
    <3>4. \A b \in Agents : Held(b)' = Held(b)
      BY <3>1 DEF Held
    <3>5. FitsAll'
      BY <1>1, <2>2, <2>3, <2>6, <3>1, <3>3, <3>4 DEF FitsAll
    <3> QED BY <3>2, <3>5, InNumbersNext
  <2> QED BY <2>5, <2>6
<1> QED BY <1>3, <1>4, <1>5 DEF TradeStep

LEMMA ChainStepKeeps == ChainInv /\ [Next]_vars => ChainInv'
<1> SUFFICES ASSUME ChainInv, [Next]_vars PROVE ChainInv'
  OBVIOUS
<1>1. ASSUME UNCHANGED <<simulator, extra>> PROVE ChainInv'
  <2>1. \A a : Going(a)' = Going(a) /\ Held(a)' = Held(a)
    BY <1>1 DEF simulator, Going, TradesOf, Held
  <2>2. TradesTyped /\ FitsAll
    BY InNumbers DEF ChainInv
  <2>3. TradesTyped'
    BY <1>1, <2>2 DEF TradesTyped, simulator
  <2>4. FitsAll'
    BY <1>1, <2>1, <2>2 DEF FitsAll, simulator
  <2> QED BY <2>3, <2>4, InNumbersNext
<1>2. CASE PostStart
  BY <1>2, StartKeepsChains
<1>3. CASE PostStop
  BY <1>3, StopKeepsChains
<1>4. ASSUME NEW a \in Agents, NEW s \in Signals, PostSignal(a, s) PROVE ChainInv'
  BY <1>1, <1>4 DEF PostSignal
<1>5. ASSUME NEW t \in Trades, NEW a \in Agents, PostSimulate(t, a) PROVE ChainInv'
  BY <1>5, TriggerKeepsChains
<1>6. CASE Simulator
  BY <1>6, TimerKeepsChains, TradeKeepsChains DEF Simulator
<1>7. CASE Loop
  BY <1>1, <1>7 DEF Loop
<1>8. CASE UNCHANGED vars
  BY <1>1, <1>8 DEF vars
<1> QED BY <1>2, <1>3, <1>4, <1>5, <1>6, <1>7, <1>8 DEF Next

(* While the simulator runs no trader is forgotten, and none has more than *)
(* one timer or trade but for the trades that were started during another  *)
(* (TradeSimulator.ts:229).                                                *)
THEOREM OneChain == Spec => []OneChainEach
<1>1. ChainInv => OneChainEach
  BY DEF ChainInv
<1> QED BY <1>1, ChainsStart, ChainStepKeeps, PTL DEF Spec

-----------------------------------------------------------------------------
(* The critic.                                                             *)

Decision == [moves : BOOLEAN, scored : BOOLEAN]
TickPlaces == {"off", "deciding", "moving", "scoring", "asking"}
Actions == {"HOLD", "PARK", "WITHDRAW"}
ATick == [at : TickPlaces, turn : Agents, action : Actions, count : Nat]

CriticTyped ==
  /\ tick \in [Ticks -> ATick]
  /\ log \in [Agents -> Seq(Decision)]
  /\ logged \in [Agents -> Nat] /\ adapted \in [Agents -> Nat]
  /\ suggestions \in [Agents -> Nat] /\ overlaps \in [Agents -> Nat]

(* The ticks that await the critic's answer about an agent, and what the   *)
(* suggestions made and those to come have still to be paid for.           *)
Asking(a) == {k \in Ticks : tick[k].at = "asking" /\ tick[k].turn = a}
Owed(a)   == suggestions[a] + Cardinality(Asking(a)) - overlaps[a]

(* The decisions that adapted counts have paid for all suggestions but the *)
(* one that is being asked for; whichever answer comes first, the count it *)
(* brings back has paid for all of them.                                   *)
Cooldown(a) ==
  /\ Len(log[a]) <= LogCap /\ Len(log[a]) <= logged[a]
  /\ adapted[a] <= Len(log[a])
  /\ ReviewEvery * Owed(a) <=
       adapted[a] + (IF Asking(a) = {} THEN 0 ELSE ReviewEvery)
  /\ \A k \in Asking(a) : /\ tick[k].count <= Len(log[a])
                          /\ ReviewEvery * Owed(a) <= tick[k].count

CriticInv == CriticTyped /\ \A a \in Agents : Cooldown(a)

LEMMA AskingIsFinite ==
  ASSUME NEW a
  PROVE  /\ Asking(a) \subseteq 1..MaxTicks /\ MaxTicks \in Nat
         /\ Cardinality(Asking(a)) \in Nat
<1>1. Asking(a) \subseteq 1..MaxTicks /\ MaxTicks \in Nat
  BY DashboardAssumption DEF Asking, Ticks
<1> QED BY <1>1, FinitelyMany

LEMMA OneReviewLess ==
  ASSUME NEW r \in Nat, NEW x \in Int
  PROVE  r * (x + 1) = r * x + r /\ r * (x - 1) = r * x - r /\ r * x \in Int
OBVIOUS

LEMMA CriticStarts == Init => CriticInv
<1> SUFFICES ASSUME Init PROVE CriticInv
  OBVIOUS
<1>1. /\ tick = [k \in Ticks |-> NoTick] /\ log = [a \in Agents |-> <<>>]
      /\ logged = [a \in Agents |-> 0] /\ adapted = [a \in Agents |-> 0]
      /\ suggestions = [a \in Agents |-> 0] /\ overlaps = [a \in Agents |-> 0]
  BY DEF Init, InitLoop
<1>2. CriticTyped
  <2>1. NoTick \in ATick
    BY DashboardAssumption DEF NoTick, ATick, TickPlaces, Actions, Agents
  <2> QED BY <1>1, <2>1 DEF CriticTyped
<1>3. \A a \in Agents : Asking(a) = {}
  BY <1>1 DEF Asking, NoTick
<1>4. \A a \in Agents : Owed(a) = 0
  BY <1>1, <1>3, FS_EmptySet DEF Owed
<1>5. \A a \in Agents : Len(log[a]) = 0
  BY <1>1
<1>6. ReviewEvery * 0 = 0 /\ LogCap \in Nat
  BY DashboardAssumption
<1>7. \A a \in Agents : Cooldown(a)
  BY <1>1, <1>3, <1>4, <1>5, <1>6 DEF Cooldown
<1> QED BY <1>2, <1>7 DEF CriticInv

(* A step after which nobody asks who did not, and no log is shorter.      *)
LEMMA NothingAsked ==
  ASSUME CriticInv, CriticTyped', UNCHANGED critic,
         \A a \in Agents :
           /\ Asking(a)' = Asking(a)
           /\ \A k \in Asking(a) : tick'[k].count = tick[k].count
           /\ Len(log[a]) <= Len(log'[a]) /\ Len(log'[a]) <= LogCap
           /\ Len(log'[a]) <= logged'[a]
  PROVE  CriticInv'
<1> SUFFICES ASSUME NEW a \in Agents PROVE Cooldown(a)'
  BY DEF CriticInv
<1>1. Owed(a)' = Owed(a) /\ adapted'[a] = adapted[a]
  BY DEF critic, Owed
<1>2. Len(log[a]) \in Nat /\ Len(log'[a]) \in Nat /\ adapted[a] \in Nat
  BY DEF CriticInv, CriticTyped
<1>3. \A k \in Asking(a) : tick[k].count \in Nat
  BY DEF CriticInv, CriticTyped, Asking, ATick
<1> QED BY <1>1, <1>2, <1>3 DEF CriticInv, Cooldown

(* A tick that neither asks nor will.                                      *)
LEMMA TickGoesOn ==
  ASSUME CriticTyped, NEW k \in Ticks, NEW r \in ATick,
         tick[k].at # "asking", r.at # "asking",
         tick' = [tick EXCEPT ![k] = r]
  PROVE  /\ tick' \in [Ticks -> ATick]
         /\ \A a \in Agents :
              /\ Asking(a)' = Asking(a)
              /\ \A j \in Asking(a) : tick'[j].count = tick[j].count
<1>1. /\ tick' \in [Ticks -> ATick] /\ tick'[k] = r
      /\ \A j \in Ticks \ {k} : tick'[j] = tick[j]
  BY DEF CriticTyped
<1>2. \A a \in Agents : Asking(a)' = Asking(a) /\ k \notin Asking(a)
  BY <1>1 DEF Asking
<1>3. \A a \in Agents : \A j \in Asking(a) : tick'[j] = tick[j]
  BY <1>1, <1>2 DEF Asking
<1> QED BY <1>1, <1>2, <1>3

LEMMA NextTurnIs ==
  ASSUME CriticTyped, NEW k \in Ticks, NEW at \in TickPlaces,
         NEW end \in TickPlaces, NextTurn(k, at, end)
  PROVE  \E r \in ATick : /\ r.at \in {at, end}
                          /\ tick' = [tick EXCEPT ![k] = r]
<1>1. Turn(k) \in Agents /\ NAgents \in Nat \ {0} /\ Agents = 1..NAgents
  BY DashboardAssumption DEF CriticTyped, ATick, Turn, Agents
<1>2. CASE Turn(k) < NAgents
  <2> DEFINE r == [NoTick EXCEPT !.at = at, !.turn = @ + Turn(k)]
  <2>1. r \in ATick /\ r.at = at
    <3> DEFINE next == 1 + Turn(k)
    <3>1. next \in Agents /\ NoTick.turn + Turn(k) = next
      BY <1>1, <1>2 DEF NoTick
    <3> HIDE DEF next
    <3>2. r = [[NoTick EXCEPT !.at = at] EXCEPT !.turn = next]
      BY <3>1
    <3> QED BY <3>1, <3>2 DEF NoTick, ATick, Actions
  <2>2. tick' = [tick EXCEPT ![k] = r]
    BY <1>2 DEF NextTurn
  <2> QED BY <2>1, <2>2
<1>3. CASE ~(Turn(k) < NAgents)
  <2> DEFINE r == [NoTick EXCEPT !.at = end]
  <2>1. r \in ATick /\ r.at = end
    BY <1>1 DEF NoTick, ATick, Actions
  <2>2. tick' = [tick EXCEPT ![k] = r]
    BY <1>3 DEF NextTurn
  <2> QED BY <2>1, <2>2
<1> QED BY <1>2, <1>3

-----------------------------------------------------------------------------
(* logDecision puts one decision in front, and drops the last of too many. *)
LEMMA LogGrows ==
  ASSUME CriticInv, NEW a \in Agents, NEW action, LogDecision(a, action)
  PROVE  /\ log' \in [Agents -> Seq(Decision)]
         /\ logged' \in [Agents -> Nat]
         /\ \A b \in Agents : /\ Len(log[b]) <= Len(log'[b])
                              /\ Len(log'[b]) <= LogCap
                              /\ Len(log'[b]) <= logged'[b]
<1> DEFINE d      == [moves |-> action # "HOLD", scored |-> FALSE]
           longer == <<d>> \o log[a]
           n      == IF Len(longer) > LogCap THEN LogCap ELSE Len(longer)
           new    == SubSeq(longer, 1, n)
<1>1. /\ log[a] \in Seq(Decision) /\ log \in [Agents -> Seq(Decision)]
      /\ logged \in [Agents -> Nat]
  BY DEF CriticInv, CriticTyped
<1>2. d \in Decision
  BY DEF Decision
<1>3. longer \in Seq(Decision) /\ Len(longer) = Len(log[a]) + 1
  <2> HIDE DEF d
  <2> QED BY <1>1, <1>2
<1>4. LogCap \in Nat /\ LogCap >= 1
  BY DashboardAssumption
<1>5. n \in 1..Len(longer) /\ n <= LogCap /\ n <= Len(log[a]) + 1
  <2> HIDE DEF longer
  <2> QED BY <1>1, <1>3, <1>4
<1>6. new \in Seq(Decision) /\ Len(new) = n
  <2> HIDE DEF longer, n
  <2> QED BY <1>3, <1>5
<1>7. /\ log' = [log EXCEPT ![a] = new]
      /\ logged' = [logged EXCEPT ![a] = @ + 1]
  BY DEF LogDecision
<1> HIDE DEF new
<1>8. /\ log' \in [Agents -> Seq(Decision)] /\ log'[a] = new
      /\ \A b \in Agents \ {a} : log'[b] = log[b]
      /\ logged' \in [Agents -> Nat] /\ logged'[a] = logged[a] + 1
      /\ \A b \in Agents \ {a} : logged'[b] = logged[b]
  BY <1>1, <1>6, <1>7
<1>9. \A b \in Agents : /\ Len(log[b]) <= LogCap /\ Len(log[b]) <= logged[b]
                        /\ Len(log[b]) \in Nat
  BY <1>1 DEF CriticInv, Cooldown
<1>10. Len(log[a]) <= n
  <2> HIDE DEF longer
  <2> QED BY <1>3, <1>4, <1>9
<1>11. n <= logged'[a]
  <2> HIDE DEF n
  <2> QED BY <1>1, <1>5, <1>8, <1>9
<1> HIDE DEF n
<1> QED BY <1>5, <1>6, <1>8, <1>9, <1>10, <1>11

(* Scoring does not change how many decisions there are.                   *)
LEMMA ScoredIsAsLong ==
  ASSUME NEW old \in Seq(Decision), NEW is
  PROVE  Scored(old, is) \in Seq(Decision) /\ Len(Scored(old, is)) = Len(old)
<1> DEFINE new == Scored(old, is)
<1>1. \A d \in Decision, b \in BOOLEAN : [d EXCEPT !.scored = b] \in Decision
  BY DEF Decision
<1>2. new = [i \in 1..Len(old) |-> [old[i] EXCEPT !.scored = old[i].scored \/ i \in is]]
  BY DEF Scored
<1>3. \A i \in 1..Len(old) : new[i] \in Decision
  <2> TAKE i \in 1..Len(old)
  <2>1. old[i] \in Decision
    OBVIOUS
  <2>2. PICK b \in BOOLEAN : b = (old[i].scored \/ i \in is)
    OBVIOUS
  <2>3. new[i] = [old[i] EXCEPT !.scored = b]
    BY <1>2, <2>2
  <2> QED BY <1>1, <2>1, <2>3
<1>4. DOMAIN new = 1..Len(old) /\ Len(old) \in Nat
  BY <1>2
<1>5. new \in [1..Len(old) -> Decision]
  BY <1>2, <1>3
<1> HIDE DEF new
<1>6. new \in Seq(Decision)
  BY <1>4, <1>5, SeqDef
<1>7. DOMAIN new = 1..Len(new) /\ Len(new) \in Nat
  BY <1>6
<1>8. Len(new) = Len(old)
  BY <1>4, <1>7
<1> QED BY <1>6, <1>8 DEF new

LEMMA ScoredLog ==
  ASSUME CriticTyped, NEW a \in Agents, NEW is,
         log' = [log EXCEPT ![a] = Scored(@, is)]
  PROVE  /\ log' \in [Agents -> Seq(Decision)]
         /\ \A b \in Agents : Len(log'[b]) = Len(log[b])
<1>1. log[a] \in Seq(Decision) /\ log \in [Agents -> Seq(Decision)]
  BY DEF CriticTyped
<1> QED BY <1>1, ScoredIsAsLong

-----------------------------------------------------------------------------
(* The steps of a tick that has not asked.                                 *)
LEMMA QuietTick ==
  ASSUME CriticInv, NEW k \in Ticks, tick[k].at # "asking", UNCHANGED critic,
         \E r \in ATick : r.at # "asking" /\ tick' = [tick EXCEPT ![k] = r],
         log' \in [Agents -> Seq(Decision)], logged' \in [Agents -> Nat],
         \A b \in Agents : /\ Len(log[b]) <= Len(log'[b])
                           /\ Len(log'[b]) <= LogCap
                           /\ Len(log'[b]) <= logged'[b]
  PROVE  CriticInv'
<1>1. CriticTyped
  BY DEF CriticInv
<1>2. /\ tick' \in [Ticks -> ATick]
      /\ \A a \in Agents :
           /\ Asking(a)' = Asking(a)
           /\ \A j \in Asking(a) : tick'[j].count = tick[j].count
  BY <1>1, TickGoesOn
<1>3. CriticTyped'
  BY <1>1, <1>2 DEF CriticTyped, critic
<1> QED BY <1>2, <1>3, NothingAsked

LEMMA SameLog ==
  ASSUME CriticInv, UNCHANGED logged,
         log' \in [Agents -> Seq(Decision)],
         \A b \in Agents : Len(log'[b]) = Len(log[b])
  PROVE  /\ log' \in [Agents -> Seq(Decision)] /\ logged' \in [Agents -> Nat]
         /\ \A b \in Agents : /\ Len(log[b]) <= Len(log'[b])
                              /\ Len(log'[b]) <= LogCap
                              /\ Len(log'[b]) <= logged'[b]
<1>1. \A b \in Agents : Len(log[b]) \in Nat
  BY DEF CriticInv, CriticTyped
<1> QED BY <1>1 DEF CriticInv, CriticTyped, Cooldown

LEMMA QuietSteps ==
  ASSUME CriticInv, NEW k \in Ticks,
         \/ BeginTick(k) /\ UNCHANGED <<record, critic>>
         \/ Hold(k) \/ Moved(k) \/ TickFails(k)
         \/ \E action \in {"PARK", "WITHDRAW"} : Move(k, action)
  PROVE  CriticInv'
<1>0. CriticTyped /\ tick[k] \in ATick /\ Turn(k) \in Agents
  BY DEF CriticInv, CriticTyped, ATick, Turn
<1>1. NoTick \in ATick /\ \A at \in TickPlaces : [NoTick EXCEPT !.at = at] \in ATick
  BY DashboardAssumption DEF NoTick, ATick, Actions, TickPlaces, Agents
<1>2. ASSUME UNCHANGED record
      PROVE  /\ log' \in [Agents -> Seq(Decision)] /\ logged' \in [Agents -> Nat]
             /\ \A b \in Agents : /\ Len(log[b]) <= Len(log'[b])
                                  /\ Len(log'[b]) <= LogCap
                                  /\ Len(log'[b]) <= logged'[b]
  BY <1>0, <1>2, SameLog DEF record, CriticTyped
<1>3. CASE BeginTick(k) /\ UNCHANGED <<record, critic>>
  <2>1. /\ tick[k].at # "asking"
        /\ tick' = [tick EXCEPT ![k] = [NoTick EXCEPT !.at = "deciding"]]
    BY <1>3 DEF BeginTick
  <2>2. [NoTick EXCEPT !.at = "deciding"].at # "asking"
    BY DEF NoTick
  <2>3. [NoTick EXCEPT !.at = "deciding"] \in ATick
    BY <1>1 DEF TickPlaces
  <2> QED BY <1>2, <1>3, <2>1, <2>2, <2>3, QuietTick
<1>4. ASSUME tick[k].at # "asking", UNCHANGED critic,
             NextTurn(k, "deciding", AfterDecisions),
             NEW action, LogDecision(Turn(k), action)
      PROVE  CriticInv'
  <2>1. AfterDecisions \in TickPlaces \ {"asking"}
        /\ "deciding" \in TickPlaces \ {"asking"}
    BY DEF AfterDecisions, TickPlaces
  <2>2. \E r \in ATick : r.at # "asking" /\ tick' = [tick EXCEPT ![k] = r]
    BY <1>0, <1>4, <2>1, NextTurnIs
  <2> QED BY <1>0, <1>4, <2>2, LogGrows, QuietTick
<1>5. CASE Hold(k)
  BY <1>4, <1>5 DEF Hold
<1>6. CASE Moved(k)
  BY <1>4, <1>6 DEF Moved
<1>7. CASE TickFails(k)
  <2>1. /\ tick[k].at # "asking" /\ NoTick.at # "asking"
        /\ tick' = [tick EXCEPT ![k] = NoTick] /\ UNCHANGED <<record, critic>>
    BY <1>7 DEF TickFails, NoTick
  <2> QED BY <1>1, <1>2, <2>1, QuietTick
<1>8. ASSUME NEW action \in {"PARK", "WITHDRAW"}, Move(k, action)
      PROVE  CriticInv'
  <2> DEFINE r == [tick[k] EXCEPT !.at = "moving", !.action = action]
  <2>1. r \in ATick /\ r.at # "asking"
    BY <1>0 DEF ATick, Actions, TickPlaces
  <2>2. /\ tick[k].at # "asking" /\ UNCHANGED <<record, critic>>
        /\ tick' = [tick EXCEPT ![k] = r]
    BY <1>0, <1>8 DEF Move, CriticTyped
  <2> QED BY <1>2, <2>1, <2>2, QuietTick
<1> QED BY <1>3, <1>5, <1>6, <1>7, <1>8

-----------------------------------------------------------------------------
(* The critic is asked.  A first review of an agent raises what is owed by *)
(* one, and as many decisions have come as that costs; an overlapping one  *)
(* is counted, and owes nothing.                                           *)
LEMMA ScoreAsks ==
  ASSUME CriticInv, NEW k \in Ticks, tick[k].at = "scoring",
         NEW a \in Agents, a = Turn(k), ReviewIsDue(a),
         log' \in [Agents -> Seq(Decision)],
         \A b \in Agents : Len(log'[b]) = Len(log[b]),
         reviewDecisions(k), UNCHANGED <<logged, adapted, suggestions>>
  PROVE  CriticInv'
<1> DEFINE len == Len(log[a])
           n   == Cardinality(Asking(a))
           r   == [tick[k] EXCEPT !.at = "asking", !.count = len]
<1>1. CriticTyped /\ Cooldown(a)
  BY DEF CriticInv
<1>2. len \in Nat /\ n \in Nat /\ ReviewEvery \in Nat
  BY <1>1, AskingIsFinite, DashboardAssumption DEF CriticTyped
<1>3. tick[k] \in ATick /\ tick[k].turn = a
  BY <1>1 DEF CriticTyped, Turn
<1>4. r \in ATick /\ r.at = "asking" /\ r.turn = a /\ r.count = len
  <2> HIDE DEF len
  <2> QED BY <1>2, <1>3 DEF ATick, TickPlaces
<1>5. tick' = [tick EXCEPT ![k] = r]
  BY <1>1, <1>3 DEF reviewDecisions, CriticTyped
<1>6. /\ tick' \in [Ticks -> ATick] /\ tick'[k] = r
      /\ \A j \in Ticks \ {k} : tick'[j] = tick[j]
  <2> HIDE DEF r
  <2> QED BY <1>1, <1>4, <1>5 DEF CriticTyped
<1> HIDE DEF r
<1>7. k \notin Asking(a) /\ Asking(a)' = Asking(a) \cup {k}
  BY <1>3, <1>4, <1>6 DEF Asking
<1>8. \A b \in Agents \ {a} : Asking(b)' = Asking(b) /\ k \notin Asking(b)
  BY <1>3, <1>4, <1>6 DEF Asking
<1>9. Cardinality(Asking(a))' = n + 1
  BY <1>7, AskingIsFinite, Counting
<1>10. overlaps' = [overlaps EXCEPT ![a] = @ + (IF Asking(a) = {} THEN 0 ELSE 1)]
  <2>1. (\E j \in Ticks \ {k} : tick[j].at = "asking" /\ Turn(j) = a)
          <=> Asking(a) # {}
    BY <1>7 DEF Asking, Turn
  <2> QED BY <2>1 DEF reviewDecisions
<1>11. /\ overlaps' \in [Agents -> Nat]
       /\ overlaps'[a] = overlaps[a] + (IF Asking(a) = {} THEN 0 ELSE 1)
       /\ \A b \in Agents \ {a} : overlaps'[b] = overlaps[b]
  BY <1>1, <1>10 DEF CriticTyped
<1>12. CriticTyped'
  BY <1>1, <1>6, <1>11 DEF CriticTyped
<1>13. Owed(a) \in Int /\ adapted[a] \in Nat /\ len - adapted[a] >= ReviewEvery
  BY <1>1, <1>2 DEF Owed, CriticTyped, ReviewIsDue
<1>14. Owed(a)' = IF Asking(a) = {} THEN Owed(a) + 1 ELSE Owed(a)
  <2>1. Owed(a)' = suggestions[a] + (n + 1)
                     - (overlaps[a] + (IF Asking(a) = {} THEN 0 ELSE 1))
    BY <1>9, <1>11 DEF Owed
  <2>2. Owed(a) = suggestions[a] + n - overlaps[a]
    BY DEF Owed
  <2>3. suggestions[a] \in Nat /\ overlaps[a] \in Nat
    BY <1>1 DEF CriticTyped
  <2> HIDE DEF n
  <2>0. \A x, y, z \in Nat : /\ x + (y + 1) - (z + 0) = x + y - z + 1
                            /\ x + (y + 1) - (z + 1) = x + y - z
    OBVIOUS
  <2>4. CASE Asking(a) = {}
    <3>1. Owed(a)' = suggestions[a] + (n + 1) - (overlaps[a] + 0)
      BY <2>1, <2>4
    <3> QED BY <1>2, <2>0, <2>2, <2>3, <2>4, <3>1
  <2>5. CASE Asking(a) # {}
    <3>1. Owed(a)' = suggestions[a] + (n + 1) - (overlaps[a] + 1)
      BY <2>1, <2>5
    <3>2. Owed(a)' = Owed(a)
      BY <1>2, <2>0, <2>2, <2>3, <3>1
    <3> QED BY <2>5, <3>2, Zenon
  <2> QED BY <2>4, <2>5
<1>15. Cooldown(a)'
  <2>1. ReviewEvery * (Owed(a)') <= adapted[a] + ReviewEvery
    <3>1. CASE Asking(a) = {}
      <4>1. ReviewEvery * (Owed(a)') = ReviewEvery * Owed(a) + ReviewEvery
        BY <1>2, <1>13, <1>14, <3>1, OneReviewLess
      <4>2. ReviewEvery * Owed(a) \in Int /\ ReviewEvery * Owed(a) <= adapted[a]
        BY <1>1, <1>2, <1>13, <3>1, OneReviewLess DEF Cooldown
      <4> QED BY <1>2, <1>13, <4>1, <4>2
    <3>2. CASE Asking(a) # {}
      BY <1>1, <1>14, <3>2 DEF Cooldown
    <3> QED BY <3>1, <3>2
  <2>2. ReviewEvery * (Owed(a)') \in Int
    BY <1>2, <1>13, <1>14, OneReviewLess
  <2>3. ReviewEvery * (Owed(a)') <= len
    BY <1>2, <1>13, <2>1, <2>2
  <2>4. Asking(a)' # {}
    BY <1>7
  <2>5. \A j \in Asking(a)' : /\ tick'[j].count <= len
                              /\ ReviewEvery * (Owed(a)') <= tick'[j].count
    <3>1. tick'[k].count = len
      BY <1>4, <1>6
    <3>2. ASSUME NEW j \in Asking(a)
          PROVE  /\ tick'[j].count <= len
                 /\ ReviewEvery * (Owed(a)') <= tick'[j].count
      <4>1. /\ tick[j].count <= len /\ ReviewEvery * Owed(a) <= tick[j].count
            /\ tick'[j] = tick[j] /\ Owed(a)' = Owed(a)
        BY <1>1, <1>6, <1>7, <1>14 DEF Cooldown, Asking
      <4> QED BY <4>1
    <3> QED BY <1>2, <1>7, <2>3, <3>1, <3>2
  <2> QED BY <1>1, <2>1, <2>4, <2>5 DEF Cooldown
<1>16. ASSUME NEW b \in Agents \ {a} PROVE Cooldown(b)'
  <2>1. Owed(b)' = Owed(b) /\ Asking(b)' = Asking(b)
    BY <1>8, <1>11 DEF Owed
  <2>2. \A j \in Asking(b) : tick'[j] = tick[j]
    BY <1>6, <1>8 DEF Asking
  <2> QED BY <2>1, <2>2 DEF CriticInv, Cooldown
<1> QED BY <1>12, <1>15, <1>16 DEF CriticInv

LEMMA ScoreKeeps ==
  ASSUME CriticInv, NEW k \in Ticks, Score(k) PROVE CriticInv'
<1> DEFINE is == Newest(Unscored(Turn(k)))
<1>1. CriticTyped /\ Turn(k) \in Agents
  BY DEF CriticInv, CriticTyped, ATick, Turn
<1>2. /\ log' \in [Agents -> Seq(Decision)]
      /\ \A b \in Agents : Len(log'[b]) = Len(log[b])
  <2>1. log' = [log EXCEPT ![Turn(k)] = Scored(@, is)]
    BY DEF Score
  <2> HIDE DEF is
  <2> QED BY <1>1, <2>1, ScoredLog
<1>3. CASE ReviewIsDue(Turn(k)) /\ Enough(Turn(k), is)
  <2>1. /\ reviewDecisions(k) /\ tick[k].at = "scoring"
        /\ UNCHANGED <<logged, adapted, suggestions>>
    BY <1>3 DEF Score
  <2> QED BY <1>1, <1>2, <1>3, <2>1, ScoreAsks
<1>4. CASE ~(ReviewIsDue(Turn(k)) /\ Enough(Turn(k), is))
  <2>1. /\ tick[k].at = "scoring" /\ NextTurn(k, "scoring", "off")
        /\ UNCHANGED <<logged, adapted, suggestions, overlaps>>
    BY <1>4 DEF Score
  <2>2. \E r \in ATick : r.at # "asking" /\ tick' = [tick EXCEPT ![k] = r]
    BY <1>1, <2>1, NextTurnIs DEF TickPlaces
  <2> QED BY <1>2, <2>1, <2>2, SameLog, QuietTick DEF critic
<1> QED BY <1>3, <1>4

(* The critic answers: a suggestion is paid for by the count of its        *)
(* review, and without one nothing more is owed.                           *)
LEMMA AnswerKeeps ==
  ASSUME CriticInv, NEW k \in Ticks, Suggest(k) \/ NothingToSuggest(k)
  PROVE  CriticInv'
<1>1. CriticTyped /\ tick[k].at = "asking" /\ NextTurn(k, "scoring", "off")
  BY DEF CriticInv, Suggest, NothingToSuggest
<1>2. PICK a \in Agents : tick[k].turn = a
  BY <1>1 DEF CriticTyped, ATick
<1> DEFINE n == Cardinality(Asking(a))
<1>3. PICK r \in ATick : r.at # "asking" /\ tick' = [tick EXCEPT ![k] = r]
  BY <1>1, NextTurnIs DEF TickPlaces
<1>4. /\ tick' \in [Ticks -> ATick] /\ tick'[k] = r
      /\ \A j \in Ticks \ {k} : tick'[j] = tick[j]
  BY <1>1, <1>3 DEF CriticTyped
<1>5. k \in Asking(a) /\ Asking(a)' = Asking(a) \ {k}
  BY <1>1, <1>2, <1>3, <1>4 DEF Asking
<1>6. \A b \in Agents \ {a} : Asking(b)' = Asking(b) /\ k \notin Asking(b)
  BY <1>2, <1>3, <1>4 DEF Asking
<1>7. n \in Nat /\ Cardinality(Asking(a))' = n - 1 /\ ReviewEvery \in Nat
  BY <1>5, AskingIsFinite, Counting, DashboardAssumption
<1>8. UNCHANGED <<record, overlaps>>
  BY DEF Suggest, NothingToSuggest, critic
<1>9. Cooldown(a) /\ tick[k].count \in Nat /\ adapted[a] \in Nat
  BY <1>1 DEF CriticInv, CriticTyped, ATick
<1>10. Owed(a) \in Int /\ suggestions[a] \in Nat /\ overlaps[a] \in Nat
  BY <1>1, <1>7 DEF Owed, CriticTyped
<1>11. ASSUME NEW b \in Agents \ {a}, adapted'[b] = adapted[b],
              suggestions'[b] = suggestions[b]
       PROVE  Cooldown(b)'
  <2>1. Owed(b)' = Owed(b) /\ Asking(b)' = Asking(b)
    BY <1>6, <1>8, <1>11 DEF Owed
  <2>2. \A j \in Asking(b) : tick'[j] = tick[j]
    BY <1>4, <1>6 DEF Asking
  <2> QED BY <1>8, <1>11, <2>1, <2>2 DEF CriticInv, Cooldown, record
<1>12. \A j \in Asking(a)' : j \in Asking(a) /\ tick'[j] = tick[j]
  BY <1>4, <1>5 DEF Asking
<1>13. /\ tick[k].count <= Len(log[a]) /\ ReviewEvery * Owed(a) <= tick[k].count
       /\ \A j \in Asking(a) : tick[j].count \in Nat
  BY <1>1, <1>5, <1>9 DEF Cooldown, CriticTyped, Asking, ATick
<1>14. ReviewEvery * Owed(a) \in Int
       /\ ReviewEvery * (Owed(a) - 1) = ReviewEvery * Owed(a) - ReviewEvery
  BY <1>7, <1>10, OneReviewLess
<1>15. CASE Suggest(k)
  <2>1. /\ adapted' = [adapted EXCEPT ![a] = tick[k].count]
        /\ suggestions' = [suggestions EXCEPT ![a] = @ + 1]
    BY <1>2, <1>15 DEF Suggest, Turn
  <2>2. /\ adapted'[a] = tick[k].count /\ adapted' \in [Agents -> Nat]
        /\ suggestions'[a] = suggestions[a] + 1
        /\ suggestions' \in [Agents -> Nat]
        /\ \A b \in Agents \ {a} : /\ adapted'[b] = adapted[b]
                                   /\ suggestions'[b] = suggestions[b]
    BY <1>1, <1>9, <2>1 DEF CriticTyped
  <2>3. CriticTyped'
    BY <1>1, <1>4, <1>8, <2>2 DEF CriticTyped, record
  <2>4. Owed(a)' = Owed(a)
    BY <1>7, <1>8, <1>10, <2>2 DEF Owed
  <2>5. Cooldown(a)'
    <3>1. ReviewEvery * Owed(a) <=
            adapted'[a] + (IF Asking(a)' = {} THEN 0 ELSE ReviewEvery)
      BY <1>7, <1>9, <1>13, <1>14, <2>2
    <3> QED BY <1>8, <1>9, <1>12, <1>13, <2>2, <2>4, <3>1 DEF Cooldown, record
  <2> QED BY <1>11, <2>2, <2>3, <2>5 DEF CriticInv
<1>16. CASE NothingToSuggest(k)
  <2>1. adapted' = adapted /\ suggestions' = suggestions
    BY <1>16 DEF NothingToSuggest, critic
  <2>2. CriticTyped'
    BY <1>1, <1>4, <1>8, <2>1 DEF CriticTyped, record
  <2>3. Owed(a)' = Owed(a) - 1
    BY <1>7, <1>8, <1>10, <2>1 DEF Owed
  <2>4. Cooldown(a)'
    <3>1. ReviewEvery * Owed(a) <= adapted[a] + ReviewEvery
      BY <1>5, <1>9 DEF Cooldown
    <3>2. ReviewEvery * (Owed(a) - 1) <=
            adapted[a] + (IF Asking(a)' = {} THEN 0 ELSE ReviewEvery)
      BY <1>7, <1>9, <1>14, <3>1
    <3>3. \A j \in Asking(a) : ReviewEvery * (Owed(a) - 1) <= tick[j].count
      BY <1>7, <1>9, <1>13, <1>14 DEF Cooldown
    <3> QED BY <1>8, <1>9, <1>12, <2>1, <2>3, <3>2, <3>3 DEF Cooldown, record
  <2> QED BY <1>11, <2>1, <2>2, <2>4 DEF CriticInv
<1> QED BY <1>15, <1>16

LEMMA CriticStepKeeps == CriticInv /\ [Next]_vars => CriticInv'
<1> SUFFICES ASSUME CriticInv, [Next]_vars PROVE CriticInv'
  OBVIOUS
<1>1. ASSUME UNCHANGED <<tick, critic, record>> PROVE CriticInv'
  <2>1. CriticTyped'
    BY <1>1 DEF CriticInv, CriticTyped, critic, record
  <2>2. \A a \in Agents : Asking(a)' = Asking(a) /\ Owed(a)' = Owed(a)
    BY <1>1 DEF Asking, Owed, critic
  <2> QED BY <1>1, <2>1, <2>2 DEF CriticInv, Cooldown, critic, record
<1>2. ASSUME NEW k \in Ticks, LoopStep(k) PROVE CriticInv'
  BY <1>2, QuietSteps, ScoreKeeps, AnswerKeeps
     DEF LoopStep, StartGoesOn, IntervalFires
<1>3. CASE PostStart \/ PostStop
  BY <1>1, <1>3 DEF PostStart, PostStop
<1>4. ASSUME NEW a \in Agents, NEW s \in Signals, PostSignal(a, s) PROVE CriticInv'
  BY <1>1, <1>4 DEF PostSignal
<1>5. ASSUME NEW t \in Trades, NEW a \in Agents, PostSimulate(t, a) PROVE CriticInv'
  BY <1>1, <1>5 DEF PostSimulate
<1>6. CASE Simulator \/ UNCHANGED vars
  BY <1>1, <1>6 DEF Simulator, vars
<1> QED BY <1>2, <1>3, <1>4, <1>5, <1>6 DEF Next, Loop

(* Each suggestion has cost its agent ReviewEvery decisions of its log,    *)
(* but for the reviews that overlapped another (Orchestrator.ts:473), for  *)
(* every size of the log and however the ticks interleave.                 *)
THEOREM CooldownIsKept == Spec => []SuggestionsAreRare
<1>1. CriticInv => SuggestionsAreRare
  <2> SUFFICES ASSUME CriticInv, NEW a \in Agents
               PROVE  ReviewEvery * suggestions[a] <=
                        logged[a] + ReviewEvery * overlaps[a]
    BY DEF SuggestionsAreRare
  <2> DEFINE n == Cardinality(Asking(a))
             s == suggestions[a]
             o == overlaps[a]
             len == Len(log[a])
  <2>1. /\ n \in Nat /\ s \in Nat /\ o \in Nat /\ len \in Nat
        /\ adapted[a] \in Nat /\ logged[a] \in Nat /\ ReviewEvery \in Nat
    BY AskingIsFinite, DashboardAssumption DEF CriticInv, CriticTyped
  <2>2. adapted[a] <= len /\ len <= logged[a]
    BY DEF CriticInv, Cooldown
  <2>3. ReviewEvery * (s + n - o) <= len
    <3>1. CASE Asking(a) = {}
      <4>1. ReviewEvery * Owed(a) <= adapted[a]
        BY <2>1, <3>1 DEF CriticInv, Cooldown
      <4>2. Owed(a) = s + n - o /\ ReviewEvery * Owed(a) \in Int
        BY <2>1, OneReviewLess DEF Owed
      <4> QED BY <2>1, <2>2, <4>1, <4>2
    <3>2. CASE Asking(a) # {}
      <4>1. PICK k \in Asking(a) : TRUE
        BY <3>2
      <4>2. ReviewEvery * Owed(a) <= tick[k].count /\ tick[k].count <= len
            /\ tick[k].count \in Nat
        BY <4>1 DEF CriticInv, CriticTyped, Cooldown, Asking, ATick
      <4>3. Owed(a) = s + n - o /\ ReviewEvery * Owed(a) \in Int
        BY <2>1, OneReviewLess DEF Owed
      <4> QED BY <2>1, <4>2, <4>3
    <3> QED BY <3>1, <3>2
  <2> HIDE DEF n, s, o, len
  <2>4. ReviewEvery * s <= len + ReviewEvery * o
    <3>1. ReviewEvery * (s + n - o) = ReviewEvery * s + ReviewEvery * n - ReviewEvery * o
      BY <2>1
    <3>2. ReviewEvery * n \in Nat /\ ReviewEvery * s \in Nat /\ ReviewEvery * o \in Nat
      BY <2>1
    <3> QED BY <2>1, <2>3, <3>1, <3>2
  <2>5. ReviewEvery * s <= logged[a] + ReviewEvery * o
    <3>1. ReviewEvery * s \in Nat /\ ReviewEvery * o \in Nat
      BY <2>1
    <3> QED BY <2>1, <2>2, <2>4, <3>1
  <2> QED BY <2>5 DEF s, o
<1> QED BY <1>1, CriticStarts, CriticStepKeeps, PTL DEF Spec

-----------------------------------------------------------------------------
(* The second brain: what its sequences hold.                              *)

(* A finite set of numbers has a least and a greatest one.                 *)
LEMMA Extremes ==
  ASSUME NEW V, IsFiniteSet(V), V \subseteq Int, V # {}
  PROVE  /\ \E v \in V : \A w \in V : v <= w
         /\ \E v \in V : \A w \in V : w <= v
<1> DEFINE Below(v) == {w \in V : w < v}
           Above(v) == {w \in V : v < w}
           Sets     == {Below(v) : v \in V}
           Sets2    == {Above(v) : v \in V}
<1>0. \A u, v, w \in V : u < v /\ v < w => u < w
  <2>1. \A w \in V : w \in Int
    OBVIOUS
  <2> QED BY <2>1
<1>1. /\ IsWellFoundedOn(StrictSubsetOrdering(V), FiniteSubsetsOf(V))
      /\ FiniteSubsetsOf(V) = SUBSET V
  BY FS_StrictSubsetOrderingWellFounded, FS_FiniteSubsetsOfFinite
<1>2. ASSUME NEW T \in SUBSET (SUBSET V), T # {}
      PROVE  \E x \in T : \A y \in T : ~(y \subseteq x /\ y # x)
  <2> DEFINE R == StrictSubsetOrdering(V)
  <2>1. \E x \in T : \A y \in T : ~(<<y, x>> \in R)
    <3>1. IsWellFoundedOn(R, FiniteSubsetsOf(V)) /\ T \subseteq FiniteSubsetsOf(V)
      BY <1>1, <1>2
    <3> HIDE DEF R
    <3> QED BY <1>2, <3>1, WFMin
  <2>2. \A x, y \in T : y \subseteq x /\ y # x =>
                          <<y, x>> \in StrictSubsetOrdering(V)
    BY <1>2, Zenon DEF StrictSubsetOrdering
  <2> QED BY <2>1, <2>2, Zenon
<1>3. \E v \in V : \A w \in V : v <= w
  <2>1. Sets \in SUBSET (SUBSET V) /\ Sets # {}
    OBVIOUS
  <2>2. PICK v \in V : \A y \in Sets : ~(y \subseteq Below(v) /\ y # Below(v))
    BY <1>2, <2>1
  <2>3. ASSUME NEW w \in V, w < v PROVE FALSE
    <3>1. Below(w) \subseteq Below(v)
      BY <1>0, <2>3
    <3>2. w \in Below(v) /\ w \notin Below(w)
      BY <2>3
    <3>3. Below(w) \in Sets /\ Below(w) # Below(v)
      BY <3>2
    <3> HIDE DEF Sets, Below
    <3> QED BY <2>2, <3>1, <3>3
  <2> QED BY <2>3
<1>4. \E v \in V : \A w \in V : w <= v
  <2>1. Sets2 \in SUBSET (SUBSET V) /\ Sets2 # {}
    OBVIOUS
  <2>2. PICK v \in V : \A y \in Sets2 : ~(y \subseteq Above(v) /\ y # Above(v))
    BY <1>2, <2>1
  <2>3. ASSUME NEW w \in V, v < w PROVE FALSE
    <3>1. Above(w) \subseteq Above(v)
      BY <1>0, <2>3
    <3>2. w \in Above(v) /\ w \notin Above(w)
      BY <2>3
    <3>3. Above(w) \in Sets2 /\ Above(w) # Above(v)
      BY <3>2
    <3> HIDE DEF Sets2, Above
    <3> QED BY <2>2, <3>1, <3>3
  <2> QED BY <2>3
<1> QED BY <1>3, <1>4

(* Picked enumerates what is at the indices it is given.                   *)
LEMMA PickedHolds ==
  ASSUME NEW s, NEW n \in Nat, NEW is \in SUBSET (1..n)
  PROVE  /\ Cardinality(is) \in Nat
         /\ DOMAIN Picked(s, is) = 1..Cardinality(is)
         /\ \A k \in 1..Cardinality(is) : \E i \in is : Picked(s, is)[k] = s[i]
         /\ \A i \in is : \E k \in 1..Cardinality(is) : Picked(s, is)[k] = s[i]
<1> DEFINE c       == Cardinality(is)
           UpTo(i) == {j \in is : j <= i}
           Rank(i) == Cardinality(UpTo(i))
           rank    == [i \in is |-> Rank(i)]
           at(k)   == CHOOSE i \in is : Rank(i) = k
<1>1. IsFiniteSet(is) /\ c \in Nat
  BY FinitelyMany
<1>2. \A i \in is : /\ UpTo(i) \in SUBSET is /\ UpTo(i) # {}
                    /\ IsFiniteSet(UpTo(i)) /\ Rank(i) \in 1..c
  <2> TAKE i \in is
  <2>1. UpTo(i) \in SUBSET is /\ UpTo(i) # {}
    OBVIOUS
  <2>2. IsFiniteSet(UpTo(i)) /\ Rank(i) <= c /\ Rank(i) \in Nat
    BY <1>1, <2>1, FS_Subset, FS_CardinalityType
  <2>3. Rank(i) # 0
    BY <2>1, <2>2, FS_EmptySet
  <2> HIDE DEF UpTo, c
  <2> QED BY <1>1, <2>1, <2>2, <2>3
<1>3. \A i, j \in is : i < j => Rank(i) # Rank(j)
  <2> SUFFICES ASSUME NEW i \in is, NEW j \in is, i < j
               PROVE  Rank(i) # Rank(j)
    OBVIOUS
  <2>1. UpTo(i) \in SUBSET UpTo(j) /\ UpTo(i) # UpTo(j)
    <3>1. j \in UpTo(j) /\ j \notin UpTo(i)
      OBVIOUS
    <3>2. UpTo(i) \in SUBSET UpTo(j)
      <4>1. \A k \in is : k <= i => k <= j
        OBVIOUS
      <4> QED BY <4>1
    <3> QED BY <3>1, <3>2
  <2> HIDE DEF UpTo
  <2> QED BY <1>2, <2>1, FS_Subset
<1>4. \A i, j \in is : Rank(i) = Rank(j) => i = j
  <2> HIDE DEF Rank
  <2>1. \A i, j \in is : i < j \/ i = j \/ j < i
    OBVIOUS
  <2> QED BY <1>3, <2>1
<1> HIDE DEF UpTo
<1>5. rank \in Injection(is, 1..c)
  <2>1. rank \in [is -> 1..c]
    BY <1>2
  <2> QED BY <1>4, <2>1 DEF Injection, IsInjective
<1>6. \A k \in 1..c : \E i \in is : Rank(i) = k
  <2>1. IsFiniteSet(1..c) /\ Cardinality(1..c) = c
    BY <1>1, FS_Interval
  <2>2. rank \in Surjection(is, 1..c)
    <3> HIDE DEF rank
    <3> QED BY <1>5, <2>1, FS_Injection
  <2> QED BY <2>2 DEF Surjection
<1>7. \A k \in 1..c : at(k) \in is /\ Rank(at(k)) = k
  BY <1>6
<1>8. /\ DOMAIN Picked(s, is) = 1..c
      /\ \A k \in 1..c : Picked(s, is)[k] = s[at(k)]
  BY DEF Picked, UpTo
<1>9. \A i \in is : at(Rank(i)) = i
  BY <1>2, <1>4, <1>7
<1> HIDE DEF at, Rank
<1> QED BY <1>1, <1>2, <1>7, <1>8, <1>9

LEMMA PickedSeq ==
  ASSUME NEW S, NEW s \in Seq(S), NEW is \in SUBSET DOMAIN s
  PROVE  /\ Picked(s, is) \in Seq(S)
         /\ \A k \in DOMAIN Picked(s, is) : \E i \in is : Picked(s, is)[k] = s[i]
         /\ \A i \in is : \E k \in DOMAIN Picked(s, is) : Picked(s, is)[k] = s[i]
<1> DEFINE p == Picked(s, is)
           c == Cardinality(is)
<1>1. DOMAIN s = 1..Len(s) /\ Len(s) \in Nat /\ \A i \in DOMAIN s : s[i] \in S
  OBVIOUS
<1>2. /\ c \in Nat /\ DOMAIN p = 1..c
      /\ \A k \in 1..c : \E i \in is : p[k] = s[i]
      /\ \A i \in is : \E k \in 1..c : p[k] = s[i]
  <2>1. is \in SUBSET (1..Len(s))
    BY <1>1
  <2> QED BY <1>1, <2>1, PickedHolds
<1>3. p = [k \in 1..c |-> p[k]]
  BY DEF Picked
<1> HIDE DEF p, c
<1>4. p \in [1..c -> S]
  BY <1>1, <1>2, <1>3
<1>5. p \in Seq(S)
  BY <1>2, <1>4, SeqDef
<1> QED BY <1>2, <1>5 DEF p

-----------------------------------------------------------------------------
(* The second brain: its file, its ledger, its jobs.                       *)

RawEvents == [kind : {"decision", "critic"}, agent : AgentNames, version : Int]
CriticEvents == {n \in DOMAIN events : events[n].kind = "critic"}
FileBlocks == [change : CriticEvents, mark : {"open", "approved", "rejected"},
               applied : BOOLEAN]
CompileJobs == [batch : Seq(DOMAIN events), left : Seq(AgentNames),
                read : SUBSET DOMAIN events, at : {"narrating", "told", "written"}]

BrainTyped ==
  /\ events \in Seq(RawEvents) /\ compiled \in SUBSET DOMAIN events
  /\ version \in Int /\ overlapped \in BOOLEAN
  /\ active \in Seq(FileBlocks) /\ historical \in Seq(FileBlocks)
  /\ buffer # <<>> => buffer[1] \in Seq(FileBlocks) /\ buffer[2] \in Seq(FileBlocks)
  /\ compiling \in SUBSET CompileJobs
  /\ \A job \in compiling : job.at = "narrating" <=> job.left # <<>>
  /\ strategy \in [AgentNames -> Nat]
  /\ ledger \in [AgentNames -> SUBSET DOMAIN events]

(* What a sequence of blocks says is approved.                             *)
Approvals(blocks) ==
  {blocks[i].change : i \in {j \in DOMAIN blocks : blocks[j].mark = "approved"}}

(* The file says what the owner approved, and so does what the owner has   *)
(* open: nothing is approved between the opening and the save.             *)
FileInv ==
  /\ Approvals(active) \cup Approvals(historical) = granted
  /\ buffer # <<>> => Approvals(buffer[1]) \cup Approvals(buffer[2]) = granted
  /\ \A a \in AgentNames : strategy[a] \in {0} \cup (granted \cap Change(a))

(* A decision of a batch is told or its agent is still to be narrated, and *)
(* the narration in progress has read the ledger as it is.                 *)
LedgerInv ==
  /\ CompiledWasWritten
  /\ \A job \in compiling : \A n \in ToSet(job.batch) :
       /\ job.at = "written" /\ n \in CriticEvents => n \in written
       /\ n \notin CriticEvents => \/ overlapped
                                   \/ n \in ledger[events[n].agent]
                                   \/ events[n].agent \in ToSet(job.left)
  /\ ~overlapped =>
       /\ \A job, other \in compiling : job = other
       /\ \A job \in compiling :
            job.at = "narrating" => job.read = ledger[Head(job.left)]

BrainInv == BrainTyped /\ FileInv /\ LedgerInv

-----------------------------------------------------------------------------
(* What the brain's operators return.                                      *)

LEMMA ElementsOf ==
  ASSUME NEW S, NEW s \in Seq(S)
  PROVE  /\ Len(s) \in Nat /\ DOMAIN s = 1..Len(s)
         /\ \A i \in DOMAIN s : s[i] \in S
         /\ ToSet(s) \in SUBSET S
         /\ s = <<>> <=> Len(s) = 0
         /\ ToSet(s) = {} <=> s = <<>>
<1>1. /\ Len(s) \in Nat /\ DOMAIN s = 1..Len(s)
      /\ \A i \in DOMAIN s : s[i] \in S
  OBVIOUS
<1>2. s = <<>> <=> Len(s) = 0
  OBVIOUS
<1>3. /\ Len(s) # 0 => 1 \in DOMAIN s
      /\ Len(s) = 0 => DOMAIN s = {}
  BY <1>1
<1>4. ToSet(s) = {} <=> s = <<>>
  <2>1. ToSet(s) = {} <=> DOMAIN s = {}
    BY DEF ToSet
  <2> QED BY <1>2, <1>3, <2>1
<1>5. ToSet(s) \in SUBSET S
  BY <1>1 DEF ToSet
<1> QED BY <1>1, <1>2, <1>4, <1>5

LEMMA MaxIsOne ==
  ASSUME NEW n \in Nat, NEW is \in SUBSET (1..n), is # {}
  PROVE  Max(is) \in is
<1>1. IsFiniteSet(is) /\ is \subseteq Int
  <2>1. is \subseteq 1..n /\ is \subseteq Int
    OBVIOUS
  <2> QED BY <2>1, FinitelyMany
<1>2. \E v \in is : \A w \in is : w <= v
  BY <1>1, Extremes
<1>3. \E v \in is : \A w \in is : v >= w
  BY <1>1, <1>2
<1> QED BY <1>3 DEF Max

LEMMA MinOfTwo ==
  ASSUME NEW m \in Int, NEW n \in Int
  PROVE  Min({m, n}) \in {m, n} /\ Min({m, n}) <= n /\ Min({m, n}) <= m
<1>1. \E v \in {m, n} : \A w \in {m, n} : v =< w
  <2>1. m <= n \/ n <= m
    OBVIOUS
  <2> QED BY <2>1
<1>2. Min({m, n}) \in {m, n} /\ \A w \in {m, n} : Min({m, n}) =< w
  BY <1>1 DEF Min
<1> QED BY <1>2

(* The two sections of the file read as one.                               *)
LEMMA ApprovalsOfBoth ==
  ASSUME NEW S, NEW s \in Seq(S), NEW t \in Seq(S)
  PROVE  /\ s \o t \in Seq(S) /\ Len(s \o t) = Len(s) + Len(t)
         /\ Approvals(s \o t) = Approvals(s) \cup Approvals(t)
<1>1. /\ s \o t \in Seq(S) /\ Len(s \o t) = Len(s) + Len(t)
      /\ \A i \in 1..(Len(s) + Len(t)) :
           (s \o t)[i] = IF i <= Len(s) THEN s[i] ELSE t[i - Len(s)]
  BY ConcatProperties
<1>2. /\ Len(s) \in Nat /\ Len(t) \in Nat
      /\ DOMAIN s = 1..Len(s) /\ DOMAIN t = 1..Len(t)
      /\ DOMAIN (s \o t) = 1..(Len(s) + Len(t))
  BY <1>1, ElementsOf
<1> DEFINE both == s \o t
<1>3. ASSUME NEW i \in DOMAIN s PROVE i \in DOMAIN both /\ both[i] = s[i]
  BY <1>1, <1>2
<1>4. ASSUME NEW i \in DOMAIN t
      PROVE  Len(s) + i \in DOMAIN both /\ both[Len(s) + i] = t[i]
  <2>1. /\ i \in Nat /\ 1 <= i /\ i <= Len(t) /\ Len(s) + i \in 1..(Len(s) + Len(t))
        /\ ~(Len(s) + i <= Len(s)) /\ (Len(s) + i) - Len(s) = i
    BY <1>2
  <2> QED BY <1>1, <1>2, <2>1
<1>5. ASSUME NEW i \in DOMAIN both
      PROVE  \/ i \in DOMAIN s /\ both[i] = s[i]
             \/ i - Len(s) \in DOMAIN t /\ both[i] = t[i - Len(s)]
  BY <1>1, <1>2
<1> HIDE DEF both
<1>6. Approvals(both) = Approvals(s) \cup Approvals(t)
  BY <1>3, <1>4, <1>5 DEF Approvals
<1> QED BY <1>1, <1>6 DEF both

(* Taking what is decided takes what is approved.                          *)
LEMMA ResolvedKeeps ==
  ASSUME NEW s \in Seq(FileBlocks)
  PROVE  Resolved(s) \in Seq(FileBlocks) /\ Approvals(Resolved(s)) = Approvals(s)
<1> DEFINE is == {i \in DOMAIN s : s[i].mark # "open"}
           r == Picked(s, is)
<1>1. /\ r \in Seq(FileBlocks)
      /\ \A k \in DOMAIN r : \E i \in is : r[k] = s[i]
      /\ \A i \in is : \E k \in DOMAIN r : r[k] = s[i]
  <2>1. is \in SUBSET DOMAIN s
    OBVIOUS
  <2> HIDE DEF is
  <2> QED BY <2>1, PickedSeq
<1>2. \A i \in DOMAIN s : s[i].mark = "approved" => i \in is
  OBVIOUS
<1>3. Resolved(s) = r
  BY DEF Resolved
<1> HIDE DEF r
<1>4. Approvals(r) = Approvals(s)
  BY <1>1, <1>2 DEF Approvals
<1> QED BY <1>1, <1>3, <1>4

(* The critic's events of a batch become open blocks, all of them.         *)
LEMMA RecommendedIsOpen ==
  ASSUME events \in Seq(RawEvents), NEW batch \in Seq(DOMAIN events)
  PROVE  /\ Recommended(batch) \in Seq(FileBlocks)
         /\ Approvals(Recommended(batch)) = {}
         /\ \A n \in ToSet(batch) \cap CriticEvents :
              \E b \in ToSet(Recommended(batch)) : b.change = n
<1> DEFINE Fresh(n) == [change |-> n, mark |-> "open", applied |-> FALSE]
           all == [i \in DOMAIN batch |-> Fresh(batch[i])]
           is  == {i \in DOMAIN batch : events[batch[i]].kind = "critic"}
           r   == Recommended(batch)
           c   == Cardinality(is)
<1>1. /\ Len(batch) \in Nat /\ DOMAIN batch = 1..Len(batch)
      /\ \A i \in DOMAIN batch : batch[i] \in DOMAIN events
  BY ElementsOf
<1>2. r = Picked(all, is)
  BY DEF Recommended
<1>3. /\ DOMAIN r = 1..c /\ c \in Nat
      /\ \A k \in 1..c : \E i \in is : r[k] = all[i]
      /\ \A i \in is : \E k \in 1..c : r[k] = all[i]
  <2>1. is \in SUBSET (1..Len(batch))
    BY <1>1
  <2> HIDE DEF is, all
  <2>2. /\ Cardinality(is) \in Nat
        /\ DOMAIN Picked(all, is) = 1..Cardinality(is)
        /\ \A k \in 1..Cardinality(is) : \E i \in is : Picked(all, is)[k] = all[i]
        /\ \A i \in is : \E k \in 1..Cardinality(is) : Picked(all, is)[k] = all[i]
    BY <1>1, <2>1, PickedHolds
  <2> HIDE DEF r
  <2> QED BY <1>2, <2>2
<1>4. r = [k \in 1..c |-> r[k]]
  BY <1>2 DEF Picked
<1>5. \A i \in is : all[i] = Fresh(batch[i]) /\ batch[i] \in CriticEvents
  BY <1>1 DEF CriticEvents
<1>11. \A n \in CriticEvents :
         Fresh(n) \in FileBlocks /\ Fresh(n).mark = "open" /\ Fresh(n).change = n
  BY DEF FileBlocks
<1>12. \A i \in DOMAIN batch : batch[i] \in CriticEvents => i \in is
  BY DEF CriticEvents
<1> HIDE DEF all, r, c, is, Fresh
<1>6. ASSUME NEW k \in 1..c
      PROVE  r[k] \in FileBlocks /\ r[k].mark = "open"
  <2>1. PICK i \in is : r[k] = all[i]
    BY <1>3
  <2> QED BY <1>5, <1>11, <2>1
<1>7. r \in [1..c -> FileBlocks]
  BY <1>4, <1>6
<1>8. r \in Seq(FileBlocks)
  BY <1>3, <1>7, SeqDef
<1>9. Approvals(r) = {}
  BY <1>3, <1>6 DEF Approvals
<1>10. ASSUME NEW n \in ToSet(batch) \cap CriticEvents
       PROVE  \E b \in ToSet(r) : b.change = n
  <2>1. PICK i \in DOMAIN batch : batch[i] = n
    BY DEF ToSet
  <2>2. i \in is
    BY <1>12, <2>1
  <2>3. PICK k \in 1..c : r[k] = all[i]
    BY <1>3, <2>2
  <2>4. r[k] \in ToSet(r)
    BY <1>3 DEF ToSet
  <2>5. r[k].change = n
    BY <1>5, <1>11, <2>1, <2>2, <2>3
  <2> QED BY <2>4, <2>5
<1> QED BY <1>8, <1>9, <1>10 DEF r

(* What is not compiled yet.                                               *)
LEMMA UncompiledIsLogged ==
  ASSUME events \in Seq(RawEvents)
  PROVE  Uncompiled \in Seq(DOMAIN events)
<1> DEFINE s  == [n \in DOMAIN events |-> n]
           is == DOMAIN events \ compiled
<1>1. Len(events) \in Nat /\ DOMAIN events = 1..Len(events)
  BY ElementsOf
<1>2. s \in Seq(DOMAIN events) /\ DOMAIN s = DOMAIN events
  BY <1>1
<1>3. is \in SUBSET DOMAIN s
  OBVIOUS
<1>4. Uncompiled = Picked(s, is)
  BY DEF Uncompiled
<1> HIDE DEF s, is
<1> QED BY <1>2, <1>3, <1>4, PickedSeq

(* Every agent that a batch has a decision of is to be narrated.           *)
LEMMA TellersAreAll ==
  ASSUME NEW Evs, events' = Evs, Evs \in Seq(RawEvents),
         NEW batch \in Seq(DOMAIN Evs)
  PROVE  /\ Tellers(batch) \in Seq(AgentNames)
         /\ \A n \in ToSet(batch) :
              Evs[n].kind = "decision" => Evs[n].agent \in ToSet(Tellers(batch))
<1> DEFINE first == {i \in DOMAIN batch :
                       /\ Evs[batch[i]].kind = "decision"
                       /\ \A j \in 1..(i - 1) : Evs[batch[j]] # Evs[batch[i]]}
           agents == [i \in DOMAIN batch |-> Evs[batch[i]].agent]
<1>1. /\ Len(batch) \in Nat /\ DOMAIN batch = 1..Len(batch)
      /\ \A i \in DOMAIN batch : batch[i] \in DOMAIN Evs
  BY ElementsOf
<1>2. \A n \in DOMAIN Evs : Evs[n] \in RawEvents
  BY ElementsOf
<1>3. agents \in Seq(AgentNames) /\ DOMAIN agents = DOMAIN batch
  <2>1. \A n \in DOMAIN Evs : Evs[n].agent \in AgentNames
    BY <1>2 DEF RawEvents
  <2>2. agents \in [1..Len(batch) -> AgentNames]
    BY <1>1, <2>1
  <2>3. DOMAIN agents = DOMAIN batch
    OBVIOUS
  <2> HIDE DEF agents
  <2> QED BY <1>1, <2>2, <2>3, SeqDef
<1>4. Tellers(batch) = Picked(agents, first)
  BY DEF Tellers
<1>5. first \in SUBSET DOMAIN agents
  BY <1>3
<1>6. ASSUME NEW i \in DOMAIN batch, Evs[batch[i]].kind = "decision"
      PROVE  \E j \in first : agents[j] = agents[i]
  <2> DEFINE same == {j \in DOMAIN batch : Evs[batch[j]] = Evs[batch[i]]}
  <2>1. same \subseteq 1..Len(batch) /\ same # {} /\ same \subseteq Int
    BY <1>1
  <2>2. IsFiniteSet(same)
    <3> HIDE DEF same
    <3> QED BY <1>1, <2>1, FinitelyMany
  <2>3. PICK j \in same : \A k \in same : j <= k
    <3> HIDE DEF same
    <3> QED BY <2>1, <2>2, Extremes
  <2>4. \A k \in 1..(j - 1) : k \in DOMAIN batch /\ ~(j <= k)
    BY <1>1, <2>1
  <2>5. \A k \in 1..(j - 1) : Evs[batch[k]] # Evs[batch[j]]
    BY <2>3, <2>4
  <2>6. j \in first /\ agents[j] = agents[i]
    BY <1>6, <2>3, <2>5
  <2> QED BY <2>6
<1>7. \A i \in DOMAIN batch : agents[i] = Evs[batch[i]].agent
  OBVIOUS
<1> HIDE DEF first, agents
<1>8. /\ Picked(agents, first) \in Seq(AgentNames)
      /\ \A i \in first : \E k \in DOMAIN Picked(agents, first) :
           Picked(agents, first)[k] = agents[i]
  BY <1>3, <1>5, PickedSeq
<1>9. ASSUME NEW n \in ToSet(batch), Evs[n].kind = "decision"
      PROVE  Evs[n].agent \in ToSet(Tellers(batch))
  <2>1. PICK i \in DOMAIN batch : batch[i] = n
    BY DEF ToSet
  <2>2. PICK j \in first : agents[j] = agents[i]
    BY <1>6, <1>9, <2>1
  <2>3. PICK k \in DOMAIN Tellers(batch) : Tellers(batch)[k] = Evs[n].agent
    BY <1>4, <1>7, <1>8, <2>1, <2>2
  <2> QED BY <2>3 DEF ToSet
<1> QED BY <1>4, <1>8, <1>9

(* A job as it awaits the narrative of the next agent, or none.            *)
LEMMA NarratingIsAJob ==
  ASSUME NEW D, NEW batch \in Seq(D), NEW left \in Seq(AgentNames),
         NEW h \in [AgentNames -> SUBSET D]
  PROVE  /\ Narrating(batch, left, h) \in
              [batch : Seq(D), left : Seq(AgentNames), read : SUBSET D,
               at : {"narrating", "told", "written"}]
         /\ Narrating(batch, left, h).batch = batch
         /\ Narrating(batch, left, h).left = left
         /\ Narrating(batch, left, h).at # "written"
         /\ Narrating(batch, left, h).at = "narrating" <=> left # <<>>
         /\ Narrating(batch, left, h).at = "narrating" =>
              Narrating(batch, left, h).read = h[Head(left)]
<1>1. CASE left = <<>>
  BY <1>1 DEF Narrating
<1>2. CASE left # <<>>
  <2>1. Head(left) \in AgentNames
    BY <1>2
  <2> QED BY <1>2, <2>1 DEF Narrating
<1> QED BY <1>1, <1>2

(* The greatest version of a sequence of approvals is a version.           *)
LEMMA MaxVersionIsInt ==
  ASSUME events \in Seq(RawEvents), NEW start \in Int,
         NEW blocks \in Seq(FileBlocks)
  PROVE  MaxVersion(start, blocks) \in Int
<1> DEFINE V(i) == IF i = 0 THEN start ELSE events[blocks[i].change].version
           is == 0..Len(blocks)
           T  == {V(i) : i \in is}
           f  == [i \in is |-> V(i)]
<1>1. /\ Len(blocks) \in Nat /\ DOMAIN blocks = 1..Len(blocks)
      /\ \A i \in DOMAIN blocks : blocks[i] \in FileBlocks
  BY ElementsOf
<1>2. \A n \in DOMAIN events : events[n].version \in Int
  <2>1. \A n \in DOMAIN events : events[n] \in RawEvents
    BY ElementsOf
  <2> QED BY <2>1 DEF RawEvents
<1>3. \A i \in DOMAIN blocks : blocks[i].change \in DOMAIN events
  BY <1>1 DEF FileBlocks, CriticEvents
<1>4. \A i \in is : i = 0 \/ i \in DOMAIN blocks
  BY <1>1
<1>5. \A i \in is : V(i) \in Int
  BY <1>2, <1>3, <1>4
<1>6. 0 \in is /\ V(0) = start /\ \A i \in DOMAIN blocks : i \in is /\ i # 0
  BY <1>1
<1>7. IsFiniteSet(is)
  <2>1. 0 \in Int /\ Len(blocks) \in Int
    BY <1>1
  <2> QED BY <2>1, FS_Interval
<1>8. \A i \in DOMAIN blocks : V(i) = events[blocks[i].change].version
  BY <1>6
<1> HIDE DEF V, is
<1>9. f \in Surjection(is, T)
  BY DEF Surjection
<1>10. IsFiniteSet(T)
  <2> HIDE DEF f, T
  <2> QED BY <1>7, <1>9, FS_Surjection
<1>11. T \subseteq Int /\ T # {} /\ start \in T
  BY <1>5, <1>6
<1>12. T = {start} \cup {events[b.change].version : b \in ToSet(blocks)}
  <2>1. ASSUME NEW b \in ToSet(blocks)
        PROVE  events[b.change].version \in T
    <3>1. PICK i \in DOMAIN blocks : b = blocks[i]
      BY DEF ToSet
    <3> QED BY <1>6, <1>8, <3>1
  <2>2. ASSUME NEW i \in is
        PROVE  V(i) \in {start} \cup {events[b.change].version : b \in ToSet(blocks)}
    <3>1. CASE i = 0
      BY <1>6, <3>1
    <3>2. CASE i \in DOMAIN blocks
      <4>1. blocks[i] \in ToSet(blocks)
        BY <3>2 DEF ToSet
      <4> QED BY <1>8, <3>2, <4>1
    <3> QED BY <1>4, <3>1, <3>2
  <2> QED BY <1>11, <2>1, <2>2
<1> HIDE DEF T
<1>13. PICK v \in T : \A w \in T : w <= v
  BY <1>10, <1>11, Extremes
<1>14. \A w \in T : v >= w
  BY <1>11, <1>13
<1> DEFINE Greatest(u) == /\ u >= start
                          /\ \A b \in ToSet(blocks) : u >= events[b.change].version
<1>15. Greatest(v)
  BY <1>11, <1>12, <1>14
<1>16. MaxVersion(start, blocks) = CHOOSE u \in T : Greatest(u)
  BY <1>12 DEF MaxVersion
<1> HIDE DEF Greatest
<1>17. (CHOOSE u \in T : Greatest(u)) \in T
  BY <1>15
<1> QED BY <1>11, <1>16, <1>17

-----------------------------------------------------------------------------
(* Reading the file and marking it.                                        *)

(* What is parsed from the file is what is approved in it.                 *)
LEMMA ApprovedIsRead ==
  ASSUME active \in Seq(FileBlocks), historical \in Seq(FileBlocks)
  PROVE  /\ Approved \in Seq(FileBlocks)
         /\ {b.change : b \in ToSet(Approved)} = Approvals(File)
<1> DEFINE is == {i \in DOMAIN File : File[i].mark = "approved"}
<1>1. File \in Seq(FileBlocks) /\ is \in SUBSET DOMAIN File
  BY ApprovalsOfBoth DEF File
<1>2. Approved = Picked(File, is)
  BY DEF Approved
<1>3. Approvals(File) = {File[i].change : i \in is}
  BY DEF Approvals
<1> HIDE DEF is
<1>4. /\ Approved \in Seq(FileBlocks)
      /\ \A k \in DOMAIN Approved : \E i \in is : Approved[k] = File[i]
      /\ \A i \in is : \E k \in DOMAIN Approved : Approved[k] = File[i]
  BY <1>1, <1>2, PickedSeq
<1>5. \A n : n \in {b.change : b \in ToSet(Approved)} <=> n \in Approvals(File)
  <2> TAKE n
  <2>1. ASSUME n \in {b.change : b \in ToSet(Approved)}
        PROVE  n \in Approvals(File)
    <3>1. PICK k \in DOMAIN Approved : Approved[k].change = n
      BY <2>1 DEF ToSet
    <3> QED BY <1>3, <1>4, <3>1
  <2>2. ASSUME n \in Approvals(File)
        PROVE  n \in {b.change : b \in ToSet(Approved)}
    <3>1. PICK i \in is : File[i].change = n
      BY <1>3, <2>2
    <3>2. PICK k \in DOMAIN Approved : Approved[k] = File[i]
      BY <1>4
    <3> QED BY <3>1, <3>2 DEF ToSet
  <2> QED BY <2>1, <2>2
<1> QED BY <1>4, <1>5

LEMMA NewlyApprovedIsApproved ==
  ASSUME active \in Seq(FileBlocks), historical \in Seq(FileBlocks)
  PROVE  /\ NewlyApproved \in Seq(FileBlocks)
         /\ \A b \in ToSet(NewlyApproved) : b.change \in Approvals(File)
<1> DEFINE key == [i \in DOMAIN Approved |-> KeyOf(Approved[i].change)]
           is  == {i \in DOMAIN key :
                     /\ key[i] \notin known
                     /\ \A j \in 1..(i - 1) : key[j] # key[i]}
<1>1. is \in SUBSET DOMAIN Approved
  OBVIOUS
<1>2. NewlyApproved = Picked(Approved, is)
  BY DEF NewlyApproved
<1> HIDE DEF is
<1>3. /\ NewlyApproved \in Seq(FileBlocks)
      /\ \A k \in DOMAIN NewlyApproved :
           \E i \in is : NewlyApproved[k] = Approved[i]
  BY <1>1, <1>2, ApprovedIsRead, PickedSeq
<1>4. ASSUME NEW b \in ToSet(NewlyApproved)
      PROVE  b.change \in Approvals(File)
  <2>1. PICK k \in DOMAIN NewlyApproved : b = NewlyApproved[k]
    BY DEF ToSet
  <2>2. PICK i \in DOMAIN Approved : b = Approved[i]
    BY <1>1, <1>3, <2>1
  <2>3. b \in ToSet(Approved)
    BY <2>2 DEF ToSet
  <2> QED BY <2>3, ApprovedIsRead
<1> QED BY <1>3, <1>4

(* Marking as applied changes neither what is approved nor which change.   *)
LEMMA MarkedIsTheFile ==
  ASSUME NEW s \in Seq(FileBlocks), NEW keys
  PROVE  /\ Marked(s, keys) \in Seq(FileBlocks)
         /\ Len(Marked(s, keys)) = Len(s)
         /\ Approvals(Marked(s, keys)) = Approvals(s)
<1> DEFINE m == Marked(s, keys)
           First(i) == /\ s[i].mark = "approved" /\ KeyOf(s[i].change) \in keys
                       /\ \A j \in 1..(i - 1) :
                            KeyOf(s[j].change) # KeyOf(s[i].change)
<1>1. /\ Len(s) \in Nat /\ DOMAIN s = 1..Len(s)
      /\ \A i \in DOMAIN s : s[i] \in FileBlocks
  BY ElementsOf
<1>2. m = [i \in DOMAIN s |-> [s[i] EXCEPT !.applied = @ \/ First(i)]]
  BY DEF Marked
<1>3. \A i \in DOMAIN s : m[i] = [s[i] EXCEPT !.applied = s[i].applied \/ First(i)]
  BY <1>2
<1> HIDE DEF First
<1>4. DOMAIN m = 1..Len(s) /\ m = [i \in 1..Len(s) |-> m[i]]
  BY <1>1, <1>2
<1> HIDE DEF m
<1>5. ASSUME NEW i \in DOMAIN s
      PROVE  m[i] \in FileBlocks /\ m[i].mark = s[i].mark /\ m[i].change = s[i].change
  <2>1. PICK b \in BOOLEAN : b <=> (s[i].applied \/ First(i))
    OBVIOUS
  <2>2. b = (s[i].applied \/ First(i))
    BY <2>1
  <2>3. m[i] = [s[i] EXCEPT !.applied = b]
    BY <1>3, <2>2
  <2>4. s[i] \in FileBlocks
    BY <1>1
  <2> QED BY <2>3, <2>4 DEF FileBlocks
<1>6. m \in [1..Len(s) -> FileBlocks]
  BY <1>1, <1>4, <1>5
<1>7. m \in Seq(FileBlocks) /\ Len(m) = Len(s)
  BY <1>1, <1>6, SeqDef
<1>8. Approvals(m) = Approvals(s)
  BY <1>1, <1>4, <1>5 DEF Approvals
<1> QED BY <1>7, <1>8 DEF m

(* Applying approvals leaves the file's approvals, and each agent runs the *)
(* last of its own.                                                        *)
LEMMA ApplyKeepsTheFile ==
  ASSUME events \in Seq(RawEvents), active \in Seq(FileBlocks),
         historical \in Seq(FileBlocks), NEW blocks \in Seq(FileBlocks),
         NEW before, Apply(blocks, before),
         \A b \in ToSet(blocks) : b.change \in Approvals(File)
  PROVE  /\ active' \in Seq(FileBlocks) /\ historical' \in Seq(FileBlocks)
         /\ Approvals(active') \cup Approvals(historical') =
              Approvals(active) \cup Approvals(historical)
         /\ strategy' = [a \in AgentNames |-> strategy'[a]]
         /\ \A a \in AgentNames :
              \/ /\ strategy'[a] = before[a]
                 /\ \A b \in ToSet(blocks) : events[b.change].agent # a
              \/ /\ strategy'[a] \in Nat \ {0}
                 /\ strategy'[a] \in Approvals(File) \cap Change(a)
<1> DEFINE m == Marked(File, Keys(blocks))
           na == Len(active)
           nh == Len(historical)
<1>1. /\ File \in Seq(FileBlocks) /\ Len(File) = na + nh
      /\ Approvals(File) = Approvals(active) \cup Approvals(historical)
      /\ na \in Nat /\ nh \in Nat
  BY ApprovalsOfBoth, ElementsOf DEF File
<1>2. m \in Seq(FileBlocks) /\ Len(m) = na + nh /\ Approvals(m) = Approvals(File)
  BY <1>1, MarkedIsTheFile
<1>3. /\ active' = SubSeq(m, 1, na)
      /\ historical' = SubSeq(m, na + 1, Len(m))
  BY DEF Apply
<1> HIDE DEF m, na, nh
<1>4. \A i \in 1..(na + nh) : m[i] \in FileBlocks
  BY <1>2, ElementsOf
<1>5. active' \in Seq(FileBlocks)
  <2>1. \A i \in 1..na : m[i] \in FileBlocks
    BY <1>1, <1>4
  <2> QED BY <1>1, <1>3, <2>1, SubSeqProperties
<1>6. historical' \in Seq(FileBlocks)
  <2>1. \A i \in (na + 1)..(na + nh) : m[i] \in FileBlocks
    BY <1>1, <1>4
  <2>2. na + 1 \in Int /\ na + nh \in Int
    BY <1>1
  <2> QED BY <1>2, <1>3, <2>1, <2>2, SubSeqProperties
<1>7. Approvals(active') \cup Approvals(historical') = Approvals(File)
  <2>1. active' \o historical' = m
    <3>1. 1 \in 1..(Len(m) + 1) /\ na \in 0..Len(m) /\ Len(m) \in na..Len(m)
      BY <1>1, <1>2
    <3>2. 1 - 1 = 0
      OBVIOUS
    <3>3. SubSeq(m, 1, na) \o SubSeq(m, na + 1, Len(m)) = SubSeq(m, 1, Len(m))
      BY <1>2, <3>1, <3>2, ConcatAdjacentSubSeq
    <3> QED BY <1>2, <1>3, <3>3, SubSeqFull
  <2>2. \A s, u \in Seq(FileBlocks) :
          Approvals(s \o u) = Approvals(s) \cup Approvals(u)
    BY ApprovalsOfBoth
  <2> QED BY <1>2, <1>5, <1>6, <2>1, <2>2
<1>8. strategy' = [a \in AgentNames |-> strategy'[a]]
  BY DEF Apply
<1>9. ASSUME NEW a \in AgentNames
      PROVE  \/ /\ strategy'[a] = before[a]
                /\ \A b \in ToSet(blocks) : events[b.change].agent # a
             \/ /\ strategy'[a] \in Nat \ {0}
                /\ strategy'[a] \in Approvals(File) \cap Change(a)
  <2> DEFINE Of == {i \in DOMAIN blocks : events[blocks[i].change].agent = a}
  <2>1. strategy'[a] = IF Of = {} THEN before[a] ELSE blocks[Max(Of)].change
    BY DEF Apply
  <2>2. /\ Len(blocks) \in Nat /\ DOMAIN blocks = 1..Len(blocks)
        /\ \A i \in DOMAIN blocks : blocks[i] \in FileBlocks
    BY ElementsOf
  <2>3. CASE Of = {}
    <3>1. ASSUME NEW b \in ToSet(blocks) PROVE events[b.change].agent # a
      <4>1. PICK i \in DOMAIN blocks : b = blocks[i]
        BY DEF ToSet
      <4> QED BY <2>3, <4>1
    <3> QED BY <2>1, <2>3, <3>1
  <2>4. CASE Of # {}
    <3>1. Of \in SUBSET (1..Len(blocks))
      BY <2>2
    <3>2. Max(Of) \in Of
      <4> HIDE DEF Of
      <4> QED BY <2>2, <2>4, <3>1, MaxIsOne
    <3> DEFINE b == blocks[Max(Of)]
    <3>3. b \in FileBlocks /\ events[b.change].agent = a /\ strategy'[a] = b.change
      BY <2>1, <2>2, <2>4, <3>2
    <3>4. b \in ToSet(blocks)
      <4>1. Max(Of) \in DOMAIN blocks
        BY <3>2
      <4> HIDE DEF Of
      <4> QED BY <4>1 DEF ToSet
    <3> HIDE DEF b
    <3>5. b.change \in CriticEvents
      BY <3>3 DEF FileBlocks
    <3>6. b.change \in Change(a) /\ b.change \in DOMAIN events
      BY <3>3, <3>5 DEF Change, CriticEvents
    <3>7. DOMAIN events = 1..Len(events) /\ Len(events) \in Nat
      BY ElementsOf
    <3>8. b.change \in Nat \ {0}
      BY <3>6, <3>7
    <3> QED BY <3>3, <3>4, <3>6, <3>8
  <2> QED BY <2>3, <2>4
<1> QED BY <1>1, <1>5, <1>6, <1>7, <1>8, <1>9

-----------------------------------------------------------------------------
(* The log grows and a compile begins.                                     *)

LEMMA BrainStarts == InitBrain => BrainInv
<1> SUFFICES ASSUME InitBrain PROVE BrainInv
  OBVIOUS
<1> USE DEF InitBrain
<1>1. BrainTyped
  <2>1. events \in Seq(RawEvents) /\ compiled \in SUBSET DOMAIN events
    OBVIOUS
  <2>2. active \in Seq(FileBlocks) /\ historical \in Seq(FileBlocks) /\ buffer = <<>>
    OBVIOUS
  <2>3. compiling = {} /\ version \in Int
    OBVIOUS
  <2>6. overlapped \in BOOLEAN
    OBVIOUS
  <2>4. strategy \in [AgentNames -> Nat] /\ ledger \in [AgentNames -> SUBSET DOMAIN events]
    OBVIOUS
  <2>5. \A job \in compiling : job.at = "narrating" <=> job.left # <<>>
    OBVIOUS
  <2> QED BY <2>1, <2>2, <2>3, <2>4, <2>5, <2>6 DEF BrainTyped
<1>2. FileInv
  BY DEF FileInv, Approvals
<1>3. LedgerInv
  BY DEF LedgerInv, CompiledWasWritten
<1> QED BY <1>1, <1>2, <1>3 DEF BrainInv

Grown ==
  /\ events' \in Seq(RawEvents) /\ DOMAIN events \subseteq DOMAIN events'
  /\ \A n \in DOMAIN events : events'[n] = events[n]

LEMMA GrownSets ==
  ASSUME Grown
  PROVE  /\ CriticEvents \subseteq CriticEvents'
         /\ \A n \in DOMAIN events : n \in CriticEvents' => n \in CriticEvents
         /\ \A s \in Seq(FileBlocks) : s \in Seq(FileBlocks')
         /\ CompileJobs \subseteq CompileJobs'
         /\ \A a \in AgentNames : Change(a) \subseteq Change(a)'
<1>1. /\ CriticEvents \subseteq CriticEvents'
      /\ \A n \in DOMAIN events : n \in CriticEvents' => n \in CriticEvents
  BY DEF Grown, CriticEvents
<1>2. FileBlocks \subseteq FileBlocks'
  BY <1>1 DEF FileBlocks
<1>3. \A s \in Seq(FileBlocks) : s \in Seq(FileBlocks')
  BY <1>2, SeqMonotonic
<1>4. DOMAIN events \subseteq DOMAIN events'
  BY DEF Grown
<1>5. \A s \in Seq(DOMAIN events) : s \in Seq(DOMAIN events')
  BY <1>4, SeqMonotonic
<1>6. CompileJobs \subseteq CompileJobs'
  BY <1>4, <1>5 DEF CompileJobs
<1>7. \A a \in AgentNames : Change(a) \subseteq Change(a)'
  BY DEF Grown, Change
<1> QED BY <1>1, <1>3, <1>6, <1>7

(* The job of a compile that begins.                                       *)
Begun(job) ==
  /\ compiling' = compiling \cup {job}
  /\ overlapped' = (overlapped \/ compiling # {})
  /\ job \in CompileJobs'
  /\ job.at = "narrating" <=> job.left # <<>>
  /\ job.at # "written"
  /\ job.at = "narrating" => job.read = ledger[Head(job.left)]
  /\ \A n \in ToSet(job.batch) :
       events'[n].kind = "decision" => events'[n].agent \in ToSet(job.left)

LEMMA CompileBegins ==
  ASSUME BrainTyped, Grown, NEW uncompiled \in Seq(DOMAIN events'),
         Compile(uncompiled)
  PROVE  \/ compiling' = compiling /\ overlapped' = overlapped
         \/ \E job : Begun(job)
<1>1. CASE uncompiled = <<>>
  BY <1>1 DEF Compile
<1>2. CASE uncompiled # <<>>
  <2> DEFINE size  == Min({BatchCap, Len(uncompiled)})
             batch == SubSeq(uncompiled, 1, size)
             job   == Narrating(batch, Tellers(batch), ledger)
  <2>1. compiling' = compiling \cup {job} /\ overlapped' = (overlapped \/ compiling # {})
    BY <1>2 DEF Compile
  <2>2. Len(uncompiled) \in Nat /\ DOMAIN uncompiled = 1..Len(uncompiled)
        /\ \A i \in DOMAIN uncompiled : uncompiled[i] \in DOMAIN events'
    BY ElementsOf
  <2>3. size \in Int /\ size <= Len(uncompiled)
    <3>1. BatchCap \in Int /\ Len(uncompiled) \in Int
      BY <2>2, BrainAssumption
    <3>2. size \in {BatchCap, Len(uncompiled)} /\ size <= Len(uncompiled)
      BY <3>1, MinOfTwo
    <3> HIDE DEF size
    <3> QED BY <3>1, <3>2
  <2>4. batch \in Seq(DOMAIN events')
    <3> HIDE DEF size
    <3>1. \A i \in 1..size : uncompiled[i] \in DOMAIN events'
      BY <2>2, <2>3
    <3> QED BY <2>3, <3>1, SubSeqProperties
  <2> HIDE DEF batch
  <2>5. /\ Tellers(batch) \in Seq(AgentNames)
        /\ \A n \in ToSet(batch) :
             events'[n].kind = "decision" => events'[n].agent \in ToSet(Tellers(batch))
    <3>1. events' \in Seq(RawEvents)
      BY DEF Grown
    <3> QED BY <2>4, <3>1, TellersAreAll
  <2>6. ledger \in [AgentNames -> SUBSET DOMAIN events']
    BY DEF BrainTyped, Grown
  <2>7. /\ job \in CompileJobs' /\ job.batch = batch /\ job.left = Tellers(batch)
        /\ job.at # "written"
        /\ job.at = "narrating" <=> Tellers(batch) # <<>>
        /\ job.at = "narrating" => job.read = ledger[Head(Tellers(batch))]
    <3>1. CompileJobs' = [batch : Seq(DOMAIN events'), left : Seq(AgentNames),
                          read : SUBSET DOMAIN events',
                          at : {"narrating", "told", "written"}]
      BY DEF CompileJobs
    <3> QED BY <2>4, <2>5, <2>6, <3>1, NarratingIsAJob
  <2> HIDE DEF job
  <2>8. Begun(job)
    BY <2>1, <2>5, <2>7 DEF Begun
  <2> QED BY <2>8
<1> QED BY <1>1, <1>2

LEMMA LogStepKeeps ==
  ASSUME BrainInv, Grown, version' \in Int,
         UNCHANGED <<compiled, active, historical, buffer, granted, strategy,
                     ledger, written>>,
         \/ UNCHANGED <<compiling, overlapped>>
         \/ \E uncompiled \in Seq(DOMAIN events') : Compile(uncompiled)
  PROVE  BrainInv'
<1> USE DEF BrainInv
<1>1. \/ compiling' = compiling /\ overlapped' = overlapped
      \/ \E job : Begun(job)
  BY CompileBegins
<1>2. FileInv'
  <2>1. \A a \in AgentNames : Change(a) \subseteq Change(a)'
    BY GrownSets
  <2>2. \A a \in AgentNames : strategy'[a] \in {0} \cup (granted' \cap Change(a)')
    BY <2>1 DEF FileInv
  <2> QED BY <2>2 DEF FileInv, Approvals
<1>3. /\ \A job \in compiling' :
           /\ job \in CompileJobs'
           /\ job.at = "narrating" <=> job.left # <<>>
      /\ overlapped' \in BOOLEAN /\ (overlapped => overlapped')
  BY <1>1, GrownSets DEF BrainTyped, Begun
<1>4. BrainTyped'
  <2>1. /\ active' \in Seq(FileBlocks') /\ historical' \in Seq(FileBlocks')
        /\ buffer' # <<>> => /\ buffer'[1] \in Seq(FileBlocks')
                             /\ buffer'[2] \in Seq(FileBlocks')
    BY GrownSets DEF BrainTyped
  <2>2. /\ compiled' \in SUBSET DOMAIN events'
        /\ ledger' \in [AgentNames -> SUBSET DOMAIN events']
        /\ events' \in Seq(RawEvents) /\ strategy' \in [AgentNames -> Nat]
    BY DEF BrainTyped, Grown
  <2> QED BY <1>3, <2>1, <2>2 DEF BrainTyped
<1>5. CompiledWasWritten'
  BY <1>3 DEF LedgerInv, CompiledWasWritten, BrainTyped, Grown
<1>6. \A job \in compiling : ToSet(job.batch) \subseteq DOMAIN events
  <2> TAKE job \in compiling
  <2>1. job.batch \in Seq(DOMAIN events)
    BY DEF BrainTyped, CompileJobs
  <2> QED BY <2>1, ElementsOf
<1>7. \A n \in DOMAIN events' :
        /\ events'[n].kind = "decision" <=> n \notin CriticEvents'
        /\ events'[n].kind \in {"decision", "critic"}
  <2>1. \A n \in DOMAIN events' : events'[n] \in RawEvents
    BY ElementsOf DEF Grown
  <2> QED BY <2>1 DEF RawEvents, CriticEvents
<1>8. ASSUME NEW job \in compiling', NEW n \in ToSet(job.batch)
      PROVE  /\ job.at = "written" /\ n \in CriticEvents' => n \in written'
             /\ n \notin CriticEvents' => \/ overlapped'
                                          \/ n \in ledger'[events'[n].agent]
                                          \/ events'[n].agent \in ToSet(job.left)
  <2>1. CASE job \in compiling
    <3>1. n \in DOMAIN events /\ events'[n] = events[n]
      BY <1>6, <2>1 DEF Grown
    <3>2. n \in CriticEvents <=> n \in CriticEvents'
      BY <3>1, GrownSets
    <3> QED BY <1>3, <2>1, <3>1, <3>2 DEF LedgerInv
  <2>2. CASE Begun(job)
    <3>1. job.batch \in Seq(DOMAIN events')
      BY <2>2 DEF Begun, CompileJobs
    <3>2. n \in DOMAIN events'
      BY <3>1, ElementsOf
    <3> QED BY <1>7, <2>2, <3>2 DEF Begun
  <2>3. job \in compiling \/ Begun(job)
    BY <1>1 DEF Begun
  <2> QED BY <2>1, <2>2, <2>3
<1>9. ASSUME ~overlapped'
      PROVE  /\ \A job, other \in compiling' : job = other
             /\ \A job \in compiling' :
                  job.at = "narrating" => job.read = ledger'[Head(job.left)]
  <2>1. CASE compiling' = compiling
    BY <1>3, <1>9, <2>1 DEF LedgerInv
  <2>2. CASE \E job : Begun(job)
    <3>1. PICK job : Begun(job)
      BY <2>2
    <3>2. compiling = {}
      BY <1>9, <3>1 DEF Begun
    <3> QED BY <3>1, <3>2 DEF Begun
  <2> QED BY <1>1, <2>1, <2>2
<1>10. LedgerInv'
  BY <1>5, <1>8, <1>9 DEF LedgerInv
<1> QED BY <1>2, <1>4, <1>10

LEMMA LogActionsKeep ==
  ASSUME BrainInv,
         CompileByForce \/ \E a \in AgentNames : WriteDecision(a) \/ CriticReview(a)
  PROVE  BrainInv'
<1>1. /\ events \in Seq(RawEvents) /\ version \in Int
      /\ Len(events) \in Nat /\ DOMAIN events = 1..Len(events)
  <2>1. events \in Seq(RawEvents) /\ version \in Int
    BY DEF BrainInv, BrainTyped
  <2> QED BY <2>1, ElementsOf
<1>2. Uncompiled \in Seq(DOMAIN events)
  BY <1>1, UncompiledIsLogged
<1>3. CASE CompileByForce
  <2>1. Grown /\ DOMAIN events' = DOMAIN events
    BY <1>1, <1>3 DEF CompileByForce, Grown, disk
  <2>2. \E uncompiled \in Seq(DOMAIN events') : Compile(uncompiled)
    BY <1>2, <1>3, <2>1 DEF CompileByForce
  <2>3. /\ version' \in Int
        /\ UNCHANGED <<compiled, active, historical, buffer, granted, strategy,
                       ledger, written>>
    BY <1>1, <1>3 DEF CompileByForce, disk
  <2> QED BY <2>1, <2>2, <2>3, LogStepKeeps
<1>4. ASSUME NEW e \in RawEvents, Write(e)
      PROVE  /\ Grown
             /\ Append(Uncompiled, Len(events) + 1) \in Seq(DOMAIN events')
  <2>1. /\ events' \in Seq(RawEvents) /\ Len(events') = Len(events) + 1
        /\ \A i \in 1..Len(events) : events'[i] = events[i]
    BY <1>1, <1>4, AppendProperties DEF Write
  <2>2. DOMAIN events' = 1..(Len(events) + 1)
    BY <2>1, ElementsOf
  <2>3. /\ DOMAIN events \subseteq DOMAIN events'
        /\ Len(events) + 1 \in DOMAIN events'
    BY <1>1, <2>2
  <2>4. Grown
    BY <1>1, <2>1, <2>3 DEF Grown
  <2>5. Uncompiled \in Seq(DOMAIN events')
    BY <1>2, <2>3, SeqMonotonic
  <2> QED BY <2>3, <2>4, <2>5, AppendProperties
<1>5. ASSUME NEW a \in AgentNames, WriteDecision(a) PROVE BrainInv'
  <2> DEFINE e == [kind |-> "decision", agent |-> a, version |-> 0]
  <2>1. e \in RawEvents
    BY DEF RawEvents
  <2>2. Write(e)
    BY <1>5 DEF WriteDecision
  <2>3. Grown /\ Append(Uncompiled, Len(events) + 1) \in Seq(DOMAIN events')
    <3> HIDE DEF e
    <3> QED BY <1>4, <2>1, <2>2
  <2>4. \/ UNCHANGED <<compiling, overlapped>>
        \/ \E uncompiled \in Seq(DOMAIN events') : Compile(uncompiled)
    BY <1>5, <2>3 DEF WriteDecision
  <2>5. /\ version' \in Int
        /\ UNCHANGED <<compiled, active, historical, buffer, granted, strategy,
                       ledger, written>>
    BY <1>1, <1>5 DEF WriteDecision
  <2> QED BY <2>3, <2>4, <2>5, LogStepKeeps
<1>6. ASSUME NEW a \in AgentNames, CriticReview(a) PROVE BrainInv'
  <2> DEFINE e == [kind |-> "critic", agent |-> a, version |-> version + 1]
  <2>1. e \in RawEvents
    BY <1>1 DEF RawEvents
  <2>2. Write(e)
    BY <1>6 DEF CriticReview
  <2>3. Grown
    <3> HIDE DEF e
    <3> QED BY <1>4, <2>1, <2>2
  <2>4. /\ version' \in Int
        /\ UNCHANGED <<compiled, active, historical, buffer, granted, strategy,
                       ledger, written>>
        /\ UNCHANGED <<compiling, overlapped>>
    BY <1>1, <1>6 DEF CriticReview, history
  <2> QED BY <2>3, <2>4, LogStepKeeps
<1> QED BY <1>3, <1>5, <1>6

-----------------------------------------------------------------------------
(* The steps that log nothing.                                             *)

LEMMA SameSets ==
  ASSUME events' = events
  PROVE  /\ CriticEvents' = CriticEvents /\ FileBlocks' = FileBlocks
         /\ CompileJobs' = CompileJobs
         /\ \A a \in AgentNames : Change(a)' = Change(a)
BY DEF CriticEvents, FileBlocks, CompileJobs, Change

(* No job but those there were, and what is told stays told.               *)
LEMMA JobsUntouched ==
  ASSUME LedgerInv, UNCHANGED <<events, compiled, ledger, written, overlapped>>,
         compiling' \subseteq compiling
  PROVE  LedgerInv'
<1>1. CompiledWasWritten'
  BY DEF LedgerInv, CompiledWasWritten
<1>2. CriticEvents' = CriticEvents
  BY SameSets
<1>3. ASSUME NEW job \in compiling', NEW n \in ToSet(job.batch)
      PROVE  /\ job.at = "written" /\ n \in CriticEvents' => n \in written'
             /\ n \notin CriticEvents' => \/ overlapped'
                                          \/ n \in ledger'[events'[n].agent]
                                          \/ events'[n].agent \in ToSet(job.left)
  BY <1>2 DEF LedgerInv
<1>4. ASSUME ~overlapped'
      PROVE  /\ \A job, other \in compiling' : job = other
             /\ \A job \in compiling' :
                  job.at = "narrating" => job.read = ledger'[Head(job.left)]
  BY <1>4 DEF LedgerInv
<1> QED BY <1>1, <1>3, <1>4 DEF LedgerInv

LEMMA FileUntouched ==
  ASSUME FileInv,
         UNCHANGED <<events, active, historical, buffer, granted, strategy>>
  PROVE  FileInv'
<1>1. \A a \in AgentNames : Change(a)' = Change(a)
  BY SameSets
<1>2. \A a \in AgentNames : strategy'[a] \in {0} \cup (granted' \cap Change(a)')
  BY <1>1 DEF FileInv
<1> QED BY <1>2 DEF FileInv, Approvals

(* The events of a batch are of the log, and of one of the two kinds.      *)
LEMMA BatchIsLogged ==
  ASSUME BrainTyped, NEW job \in compiling, NEW n \in ToSet(job.batch)
  PROVE  /\ n \in DOMAIN events /\ events[n].agent \in AgentNames
         /\ events[n].kind \in {"decision", "critic"}
         /\ n \in CriticEvents <=> events[n].kind = "critic"
<1>1. job.batch \in Seq(DOMAIN events) /\ events \in Seq(RawEvents)
  BY DEF BrainTyped, CompileJobs
<1>2. n \in DOMAIN events
  BY <1>1, ElementsOf
<1>3. events[n] \in RawEvents
  BY <1>1, <1>2, ElementsOf
<1> QED BY <1>2, <1>3 DEF RawEvents, CriticEvents

(* The owner opens the file.                                               *)
LEMMA OwnerOpensKeeps ==
  ASSUME BrainInv, OwnerOpens
  PROVE  BrainInv'
<1> USE DEF BrainInv, OwnerOpens, process, disk, history
<1>1. LedgerInv'
  BY JobsUntouched
<1>2. buffer' = <<active, historical>> /\ buffer'[1] = active /\ buffer'[2] = historical
  OBVIOUS
<1>3. BrainTyped'
  BY <1>2, SameSets DEF BrainTyped
<1>4. FileInv'
  <2>1. \A a \in AgentNames : strategy'[a] \in {0} \cup (granted' \cap Change(a)')
    BY SameSets DEF FileInv
  <2>2. /\ Approvals(active)' = Approvals(active)
        /\ Approvals(historical)' = Approvals(historical)
        /\ Approvals(buffer[1])' = Approvals(active)
        /\ Approvals(buffer[2])' = Approvals(historical)
    BY <1>2 DEF Approvals
  <2> QED BY <2>1, <2>2 DEF FileInv
<1> QED BY <1>1, <1>3, <1>4

(* The owner saves the file as it was opened, with one block decided.      *)
LEMMA OwnerSavesKeeps ==
  ASSUME BrainInv, NEW i, NEW mark \in {"approved", "rejected"}, OwnerSaves(i, mark)
  PROVE  BrainInv'
<1> USE DEF BrainInv, OwnerSaves, process
<1> DEFINE old == buffer[1]
           new == [old EXCEPT ![i].mark = mark]
<1>1. LedgerInv'
  BY JobsUntouched
<1>2. /\ old \in Seq(FileBlocks) /\ buffer[2] \in Seq(FileBlocks)
      /\ i \in DOMAIN old /\ old[i].mark = "open" /\ buffer' = <<>>
      /\ active' = new /\ historical' = buffer[2]
  BY DEF BrainTyped
<1> HIDE DEF old
<1>3. /\ Len(old) \in Nat /\ DOMAIN old = 1..Len(old)
      /\ \A j \in DOMAIN old : old[j] \in FileBlocks
  BY <1>2, ElementsOf
<1>4. [old[i] EXCEPT !.mark = mark] \in FileBlocks
  BY <1>2, <1>3 DEF FileBlocks
<1>5. /\ DOMAIN new = DOMAIN old
      /\ \A j \in DOMAIN old :
           new[j] = IF j = i THEN [old[i] EXCEPT !.mark = mark] ELSE old[j]
  BY <1>2
<1>6. new \in Seq(FileBlocks)
  <2>1. new = [old EXCEPT ![i] = [old[i] EXCEPT !.mark = mark]]
    OBVIOUS
  <2> QED BY <1>2, <1>3, <1>4, <2>1, ExceptSeq
<1> HIDE DEF new
<1>7. BrainTyped'
  BY <1>2, <1>6, SameSets DEF BrainTyped
<1>8. Approvals(new) = Approvals(old) \cup IF mark = "approved" THEN {old[i].change} ELSE {}
  <2>1. /\ new[i].mark = mark /\ new[i].change = old[i].change
        /\ \A j \in DOMAIN old : j # i => new[j] = old[j]
    BY <1>2, <1>3, <1>5 DEF FileBlocks
  <2> QED BY <1>2, <1>5, <2>1 DEF Approvals
<1>9. granted' = granted \cup IF mark = "approved" THEN {old[i].change} ELSE {}
  BY DEF old
<1>10. Approvals(old) \cup Approvals(buffer[2]) = granted
  BY DEF FileInv, old
<1>11. FileInv'
  <2>1. \A a \in AgentNames : strategy'[a] \in {0} \cup (granted' \cap Change(a)')
    BY <1>9, SameSets DEF FileInv
  <2>2. /\ Approvals(active)' = Approvals(active')
        /\ Approvals(historical)' = Approvals(historical')
    BY DEF Approvals
  <2>3. /\ Approvals(active') = Approvals(new)
        /\ Approvals(historical') = Approvals(buffer[2])
    BY <1>2
  <2> QED BY <1>2, <1>8, <1>9, <1>10, <2>1, <2>2, <2>3 DEF FileInv
<1> QED BY <1>1, <1>7, <1>11

(* The file of what is written in place of these: what it says approved.   *)
LEMMA ApprovalsPrimed ==
  /\ Approvals(active)' = Approvals(active')
  /\ Approvals(historical)' = Approvals(historical')
  /\ Approvals(buffer[1])' = Approvals(buffer'[1])
  /\ Approvals(buffer[2])' = Approvals(buffer'[2])
BY DEF Approvals

(* The approvals of the file are applied, some or all of them: by the      *)
(* watcher, or when the process starts again.                              *)
LEMMA ApplyingKeeps ==
  ASSUME BrainInv, NEW blocks \in Seq(FileBlocks),
         \A b \in ToSet(blocks) : b.change \in Approvals(File),
         NEW before, \A a \in AgentNames : before[a] \in {0, strategy[a]},
         Apply(blocks, before), version' \in Int,
         UNCHANGED <<events, compiled, ledger, buffer, granted, written, overlapped>>,
         compiling' \subseteq compiling
  PROVE  BrainInv'
<1> USE DEF BrainInv
<1>1. LedgerInv'
  BY JobsUntouched
<1>2. /\ events \in Seq(RawEvents)
      /\ active \in Seq(FileBlocks) /\ historical \in Seq(FileBlocks)
      /\ strategy \in [AgentNames -> Nat]
  BY DEF BrainTyped
<1>3. /\ active' \in Seq(FileBlocks) /\ historical' \in Seq(FileBlocks)
      /\ Approvals(active') \cup Approvals(historical') =
           Approvals(active) \cup Approvals(historical)
      /\ strategy' = [a \in AgentNames |-> strategy'[a]]
      /\ \A a \in AgentNames :
           \/ strategy'[a] = before[a]
           \/ /\ strategy'[a] \in Nat \ {0}
              /\ strategy'[a] \in Approvals(File) \cap Change(a)
  BY <1>2, ApplyKeepsTheFile
<1>4. Approvals(File) = granted
  <2>1. Approvals(File) = Approvals(active) \cup Approvals(historical)
    BY <1>2, ApprovalsOfBoth DEF File
  <2> QED BY <2>1 DEF FileInv
<1>5. \A a \in AgentNames :
        strategy'[a] \in Nat /\ strategy'[a] \in {0} \cup (granted \cap Change(a))
  BY <1>2, <1>3, <1>4 DEF FileInv
<1>6. strategy' \in [AgentNames -> Nat]
  BY <1>3, <1>5
<1>7. BrainTyped'
  BY <1>3, <1>6, SameSets DEF BrainTyped
<1>8. FileInv'
  <2>1. \A a \in AgentNames : strategy'[a] \in {0} \cup (granted' \cap Change(a)')
    BY <1>5, SameSets
  <2>2. Approvals(active') \cup Approvals(historical') = granted'
    BY <1>3 DEF FileInv
  <2>3. buffer' # <<>> => Approvals(buffer'[1]) \cup Approvals(buffer'[2]) = granted'
    BY DEF FileInv
  <2> QED BY <2>1, <2>2, <2>3, ApprovalsPrimed DEF FileInv
<1> QED BY <1>1, <1>7, <1>8

LEMMA WatcherKeeps ==
  ASSUME BrainInv, WatcherFires
  PROVE  BrainInv'
<1>1. /\ events \in Seq(RawEvents) /\ version \in Int
      /\ active \in Seq(FileBlocks) /\ historical \in Seq(FileBlocks)
  BY DEF BrainInv, BrainTyped
<1>2. PICK new \in {NewlyApproved} :
        Apply(new, strategy) /\ version' = MaxVersion(version, new)
  BY DEF WatcherFires
<1>3. new \in Seq(FileBlocks) /\ \A b \in ToSet(new) : b.change \in Approvals(File)
  BY <1>1, NewlyApprovedIsApproved
<1>4. version' \in Int
  BY <1>1, <1>2, <1>3, MaxVersionIsInt
<1>5. /\ UNCHANGED <<events, compiled, ledger, buffer, granted, written, overlapped>>
      /\ compiling' \subseteq compiling
  BY DEF WatcherFires
<1> QED BY <1>2, <1>3, <1>4, <1>5, ApplyingKeeps

LEMMA RestartKeeps ==
  ASSUME BrainInv, Restart
  PROVE  BrainInv'
<1> DEFINE preset == [a \in AgentNames |-> 0]
<1>1. /\ events \in Seq(RawEvents)
      /\ active \in Seq(FileBlocks) /\ historical \in Seq(FileBlocks)
  BY DEF BrainInv, BrainTyped
<1>2. Apply(Approved, preset) /\ version' = MaxVersion(1, Approved)
  BY DEF Restart, hydrateFromAuditFile
<1>3. Approved \in Seq(FileBlocks) /\ \A b \in ToSet(Approved) : b.change \in Approvals(File)
  BY <1>1, ApprovedIsRead
<1>4. version' \in Int
  BY <1>1, <1>2, <1>3, MaxVersionIsInt
<1>5. /\ UNCHANGED <<events, compiled, ledger, buffer, granted, written, overlapped>>
      /\ compiling' \subseteq compiling
  BY DEF Restart
<1>6. \A a \in AgentNames : preset[a] \in {0, strategy[a]}
  OBVIOUS
<1> HIDE DEF preset
<1> QED BY <1>2, <1>3, <1>4, <1>5, <1>6, ApplyingKeeps

-----------------------------------------------------------------------------
(* A compile's steps.                                                      *)

(* The next agent is narrated behind the history that was read.            *)
LEMMA NarratesKeeps ==
  ASSUME BrainInv, NEW job \in compiling, Narrates(job)
  PROVE  BrainInv'
<1> USE DEF BrainInv
<1> DEFINE a    == Head(job.left)
           next == Narrating(job.batch, Tail(job.left), ledger')
<1>1. /\ UNCHANGED <<events, compiled, active, historical, buffer, granted, strategy,
                     written, overlapped, version>>
      /\ ledger' = [ledger EXCEPT ![a] = job.read \cup DecisionsOf(a, job.batch)]
      /\ compiling' = (compiling \ {job}) \cup {next}
      /\ job.at = "narrating"
  BY DEF Narrates, history
<1>2. /\ job \in CompileJobs /\ job.left \in Seq(AgentNames) /\ job.left # <<>>
      /\ job.batch \in Seq(DOMAIN events) /\ job.read \in SUBSET DOMAIN events
      /\ ledger \in [AgentNames -> SUBSET DOMAIN events]
  <2>1. job \in CompileJobs /\ job.left # <<>>
    BY <1>1 DEF BrainTyped
  <2> QED BY <2>1 DEF BrainTyped, CompileJobs
<1>3. a \in AgentNames /\ Tail(job.left) \in Seq(AgentNames)
  BY <1>2
<1>4. \A x \in ToSet(job.left) : x = a \/ x \in ToSet(Tail(job.left))
  <2> TAKE x \in ToSet(job.left)
  <2>1. PICK i \in 1..Len(job.left) : x = job.left[i]
    BY <1>2 DEF ToSet
  <2>2. Len(job.left) \in Nat /\ Len(Tail(job.left)) = Len(job.left) - 1
        /\ \A k \in 1..Len(Tail(job.left)) : Tail(job.left)[k] = job.left[k + 1]
    BY <1>2, HeadTailProperties, ElementsOf
  <2>3. CASE i = 1
    BY <1>2, <2>1, <2>3
  <2>4. CASE i # 1
    <3>1. i - 1 \in 1..Len(Tail(job.left)) /\ (i - 1) + 1 = i
      BY <2>1, <2>2, <2>4
    <3>2. Tail(job.left)[i - 1] = x /\ i - 1 \in DOMAIN Tail(job.left)
      BY <1>3, <2>1, <2>2, <3>1, ElementsOf
    <3> QED BY <3>2 DEF ToSet
  <2> QED BY <2>3, <2>4
<1> HIDE DEF a
<1>5. DecisionsOf(a, job.batch) \in SUBSET DOMAIN events
  <2>1. ToSet(job.batch) \in SUBSET DOMAIN events
    BY <1>2, ElementsOf
  <2> QED BY <2>1 DEF DecisionsOf
<1>6. ledger' \in [AgentNames -> SUBSET DOMAIN events]
  BY <1>1, <1>2, <1>5
<1>7. /\ next \in CompileJobs' /\ next.batch = job.batch
      /\ next.left = Tail(job.left) /\ next.at # "written"
      /\ next.at = "narrating" <=> next.left # <<>>
      /\ next.at = "narrating" => next.read = ledger'[Head(next.left)]
  <2>1. CompileJobs' = [batch : Seq(DOMAIN events), left : Seq(AgentNames),
                        read : SUBSET DOMAIN events,
                        at : {"narrating", "told", "written"}]
    BY <1>1 DEF CompileJobs
  <2> HIDE DEF next
  <2>2. next = Narrating(job.batch, Tail(job.left), ledger')
    BY DEF next
  <2> DEFINE batch == job.batch
             rest  == Tail(job.left)
  <2>3. batch \in Seq(DOMAIN events) /\ rest \in Seq(AgentNames)
    BY <1>2, <1>3
  <2>4. next = Narrating(batch, rest, ledger')
    BY <2>2
  <2> HIDE DEF batch, rest
  <2>5. /\ next \in [batch : Seq(DOMAIN events), left : Seq(AgentNames),
                     read : SUBSET DOMAIN events,
                     at : {"narrating", "told", "written"}]
        /\ next.batch = batch /\ next.left = rest /\ next.at # "written"
        /\ next.at = "narrating" <=> rest # <<>>
        /\ next.at = "narrating" => next.read = ledger'[Head(rest)]
    BY <1>6, <2>3, <2>4, NarratingIsAJob
  <2> QED BY <2>1, <2>5 DEF batch, rest
<1> HIDE DEF next
<1>8. FileInv'
  BY <1>1, FileUntouched
<1>9. BrainTyped'
  BY <1>1, <1>6, <1>7, SameSets DEF BrainTyped
<1>10. ~overlapped => \A x \in AgentNames : ledger[x] \subseteq ledger'[x]
  <2>1. ~overlapped => job.read = ledger[a]
    BY <1>1 DEF LedgerInv, a
  <2> QED BY <1>1, <1>2, <1>3, <2>1
<1>11. \A n \in compiled : n \in DOMAIN events /\ events[n].agent \in AgentNames
  <2>1. \A n \in DOMAIN events : events[n] \in RawEvents
    BY ElementsOf DEF BrainTyped
  <2> QED BY <2>1 DEF BrainTyped, RawEvents
<1>12. CompiledWasWritten'
  <2> SUFFICES ASSUME NEW n \in compiled
               PROVE  IF events[n].kind = "critic" THEN n \in written
                      ELSE n \in ledger'[events[n].agent] \/ overlapped
    BY <1>1 DEF CompiledWasWritten
  <2> QED BY <1>10, <1>11 DEF LedgerInv, CompiledWasWritten
<1>13. ASSUME NEW other \in compiling', NEW n \in ToSet(other.batch)
       PROVE  /\ other.at = "written" /\ n \in CriticEvents' => n \in written'
              /\ n \notin CriticEvents' => \/ overlapped'
                                           \/ n \in ledger'[events'[n].agent]
                                           \/ events'[n].agent \in ToSet(other.left)
  <2>1. CriticEvents' = CriticEvents
    BY <1>1, SameSets
  <2>2. CASE other = next
    <3>1. n \in ToSet(job.batch)
      BY <1>7, <2>2
    <3>2. ASSUME n \notin CriticEvents, events[n].agent = a
          PROVE  n \in ledger'[a]
      <4>1. events[n].kind = "decision"
        BY <3>1, <3>2, BatchIsLogged
      <4>2. n \in DecisionsOf(a, job.batch)
        BY <1>1, <3>1, <3>2, <4>1 DEF DecisionsOf
      <4> QED BY <1>1, <1>2, <1>3, <4>2
    <3>3. n \notin CriticEvents => \/ overlapped
                                   \/ n \in ledger[events[n].agent]
                                   \/ events[n].agent \in ToSet(job.left)
      BY <3>1 DEF LedgerInv
    <3>4. events[n].agent \in AgentNames
      BY <3>1, BatchIsLogged
    <3> QED BY <1>1, <1>4, <1>7, <1>10, <2>1, <2>2, <3>2, <3>3, <3>4
  <2>3. CASE other \in compiling
    <3>1. events[n].agent \in AgentNames
      BY <2>3, BatchIsLogged
    <3> QED BY <1>1, <1>10, <2>1, <2>3, <3>1 DEF LedgerInv
  <2> QED BY <1>1, <2>2, <2>3
<1>14. ASSUME ~overlapped'
       PROVE  /\ \A one, other \in compiling' : one = other
              /\ \A other \in compiling' :
                   other.at = "narrating" => other.read = ledger'[Head(other.left)]
  <2>1. compiling' = {next}
    BY <1>1, <1>14 DEF LedgerInv
  <2> QED BY <1>7, <2>1
<1>15. LedgerInv'
  BY <1>12, <1>13, <1>14 DEF LedgerInv
<1> QED BY <1>8, <1>9, <1>15

(* What a batch recommends is written into the file.                       *)
LEMMA CompileWritesKeeps ==
  ASSUME BrainInv, NEW job \in compiling, CompileWrites(job)
  PROVE  BrainInv'
<1> USE DEF BrainInv
<1> DEFINE put == [job EXCEPT !.at = "written"]
           rec == Recommended(job.batch)
<1>1. /\ UNCHANGED <<events, compiled, buffer, granted, strategy, ledger, overlapped,
                     version>>
      /\ compiling' = (compiling \ {job}) \cup {put}
      /\ job.at = "told"
      /\ \/ rec = <<>> /\ UNCHANGED <<active, historical, written>>
         \/ /\ active' = rec /\ historical' = Resolved(active) \o historical
            /\ written' = written \cup {b.change : b \in ToSet(rec)}
  BY DEF CompileWrites
<1>2. /\ job \in CompileJobs /\ job.left = <<>>
      /\ job.batch \in Seq(DOMAIN events) /\ events \in Seq(RawEvents)
      /\ active \in Seq(FileBlocks) /\ historical \in Seq(FileBlocks)
  <2>1. job \in CompileJobs /\ job.left = <<>>
    BY <1>1 DEF BrainTyped
  <2> QED BY <2>1 DEF BrainTyped, CompileJobs
<1>3. /\ put \in CompileJobs /\ put.batch = job.batch /\ put.left = <<>>
      /\ put.at = "written"
  BY <1>2 DEF CompileJobs
<1>4. /\ rec \in Seq(FileBlocks) /\ Approvals(rec) = {}
      /\ \A n \in ToSet(job.batch) \cap CriticEvents :
           \E b \in ToSet(rec) : b.change = n
  BY <1>2, RecommendedIsOpen
<1>5. /\ Resolved(active) \o historical \in Seq(FileBlocks)
      /\ Approvals(Resolved(active) \o historical) =
           Approvals(active) \cup Approvals(historical)
  BY <1>2, ResolvedKeeps, ApprovalsOfBoth
<1>6. /\ active' \in Seq(FileBlocks) /\ historical' \in Seq(FileBlocks)
      /\ Approvals(active') \cup Approvals(historical') =
           Approvals(active) \cup Approvals(historical)
  <2> HIDE DEF rec
  <2> QED BY <1>1, <1>2, <1>4, <1>5
<1>7. BrainTyped'
  <2> HIDE DEF put, rec
  <2> QED BY <1>1, <1>3, <1>6, SameSets DEF BrainTyped
<1>8. FileInv'
  <2>1. \A a \in AgentNames : strategy'[a] \in {0} \cup (granted' \cap Change(a)')
    BY <1>1, SameSets DEF FileInv
  <2>2. Approvals(active') \cup Approvals(historical') = granted'
    BY <1>1, <1>6 DEF FileInv
  <2>3. buffer' # <<>> => Approvals(buffer'[1]) \cup Approvals(buffer'[2]) = granted'
    BY <1>1 DEF FileInv
  <2> QED BY <2>1, <2>2, <2>3, ApprovalsPrimed DEF FileInv
<1>9. written \subseteq written' /\ \A n \in ToSet(job.batch) \cap CriticEvents : n \in written'
  <2>1. CASE rec = <<>> /\ written' = written
    <3>1. ToSet(rec) = {}
      BY <2>1 DEF ToSet
    <3> QED BY <1>4, <2>1, <3>1
  <2>2. CASE written' = written \cup {b.change : b \in ToSet(rec)}
    <3> HIDE DEF rec
    <3> QED BY <1>4, <2>2
  <2> QED BY <1>1, <2>1, <2>2
<1> HIDE DEF put, rec
<1>10. CompiledWasWritten'
  BY <1>1, <1>9 DEF LedgerInv, CompiledWasWritten
<1>11. ASSUME NEW other \in compiling', NEW n \in ToSet(other.batch)
       PROVE  /\ other.at = "written" /\ n \in CriticEvents' => n \in written'
              /\ n \notin CriticEvents' => \/ overlapped'
                                           \/ n \in ledger'[events'[n].agent]
                                           \/ events'[n].agent \in ToSet(other.left)
  <2>1. CriticEvents' = CriticEvents
    BY <1>1, SameSets
  <2>2. CASE other = put
    <3>1. n \in ToSet(job.batch)
      BY <1>3, <2>2
    <3>2. n \notin CriticEvents => \/ overlapped
                                   \/ n \in ledger[events[n].agent]
                                   \/ events[n].agent \in ToSet(job.left)
      BY <3>1 DEF LedgerInv
    <3>3. job.left = other.left
      BY <1>2, <1>3, <2>2
    <3> QED BY <1>1, <1>9, <2>1, <3>1, <3>2, <3>3
  <2>3. CASE other \in compiling
    BY <1>1, <1>9, <2>1, <2>3 DEF LedgerInv
  <2> QED BY <1>1, <2>2, <2>3
<1>12. ASSUME ~overlapped'
       PROVE  /\ \A one, other \in compiling' : one = other
              /\ \A other \in compiling' :
                   other.at = "narrating" => other.read = ledger'[Head(other.left)]
  <2>1. compiling' = {put}
    BY <1>1, <1>12 DEF LedgerInv
  <2> QED BY <1>3, <2>1
<1>13. LedgerInv'
  BY <1>10, <1>11, <1>12 DEF LedgerInv
<1> QED BY <1>7, <1>8, <1>13

(* The batch is marked compiled: all of its agents are narrated by now.    *)
LEMMA CompileMarksKeeps ==
  ASSUME BrainInv, NEW job \in compiling, CompileMarks(job)
  PROVE  BrainInv'
<1> USE DEF BrainInv
<1>1. /\ UNCHANGED <<events, active, historical, buffer, granted, strategy, ledger,
                     written, overlapped, version>>
      /\ compiling' = compiling \ {job} /\ compiled' = compiled \cup ToSet(job.batch)
      /\ job.at = "written"
  BY DEF CompileMarks, history
<1>2. job.batch \in Seq(DOMAIN events) /\ job.left = <<>>
  BY <1>1 DEF BrainTyped, CompileJobs
<1>3. ToSet(job.batch) \in SUBSET DOMAIN events /\ ToSet(job.left) = {}
  BY <1>2, ElementsOf DEF ToSet
<1>4. BrainTyped'
  BY <1>1, <1>3, SameSets DEF BrainTyped
<1>5. FileInv'
  BY <1>1, FileUntouched
<1>6. ASSUME NEW n \in ToSet(job.batch)
      PROVE  IF events[n].kind = "critic" THEN n \in written
             ELSE n \in ledger[events[n].agent] \/ overlapped
  BY <1>1, <1>3, BatchIsLogged DEF LedgerInv
<1>7. CompiledWasWritten'
  BY <1>1, <1>6 DEF LedgerInv, CompiledWasWritten
<1>8. ASSUME NEW other \in compiling', NEW n \in ToSet(other.batch)
      PROVE  /\ other.at = "written" /\ n \in CriticEvents' => n \in written'
             /\ n \notin CriticEvents' => \/ overlapped'
                                          \/ n \in ledger'[events'[n].agent]
                                          \/ events'[n].agent \in ToSet(other.left)
  BY <1>1, SameSets DEF LedgerInv
<1>9. ASSUME ~overlapped'
      PROVE  /\ \A one, other \in compiling' : one = other
             /\ \A other \in compiling' :
                  other.at = "narrating" => other.read = ledger'[Head(other.left)]
  BY <1>1, <1>9 DEF LedgerInv
<1>10. LedgerInv'
  BY <1>7, <1>8, <1>9 DEF LedgerInv
<1> QED BY <1>4, <1>5, <1>10

-----------------------------------------------------------------------------
(* The theorems of the second brain.                                       *)

LEMMA BrainStepKeeps == BrainInv /\ [NextBrain]_brainVars => BrainInv'
<1> SUFFICES ASSUME BrainInv, [NextBrain]_brainVars PROVE BrainInv'
  OBVIOUS
<1>1. CASE CompileByForce \/ \E a \in AgentNames : WriteDecision(a) \/ CriticReview(a)
  BY <1>1, LogActionsKeep
<1>2. CASE OwnerOpens
  BY <1>2, OwnerOpensKeeps
<1>3. CASE \E i \in 1..MaxEvents, mark \in {"approved", "rejected"} : OwnerSaves(i, mark)
  BY <1>3, OwnerSavesKeeps
<1>4. CASE WatcherFires
  BY <1>4, WatcherKeeps
<1>5. CASE Restart
  BY <1>5, RestartKeeps
<1>6. ASSUME NEW job \in compiling,
             Narrates(job) \/ CompileWrites(job) \/ CompileMarks(job)
      PROVE  BrainInv'
  BY <1>6, NarratesKeeps, CompileWritesKeeps, CompileMarksKeeps
<1>7. CASE UNCHANGED brainVars
  <2> USE <1>7 DEF BrainInv, brainVars, process, disk, history
  <2>1. LedgerInv'
    BY JobsUntouched
  <2>2. FileInv'
    BY FileUntouched
  <2>3. BrainTyped'
    BY SameSets DEF BrainTyped
  <2> QED BY <2>1, <2>2, <2>3
<1> QED BY <1>1, <1>2, <1>3, <1>4, <1>5, <1>6, <1>7 DEF NextBrain

(* Whatever the cap of a batch, whoever saves what when, and wherever a    *)
(* restart cuts a compile short: what runCompile has marked compiled was   *)
(* put in the file, or is told in its agent's ledger unless compiles have  *)
(* overlapped (BrainCompiler.ts:53-91).                                    *)
THEOREM NothingCompiledIsLost == BrainSpec => []CompiledWasWritten
<1>1. BrainInv => CompiledWasWritten
  BY DEF BrainInv, LedgerInv
<1> QED BY <1>1, BrainStarts, BrainStepKeeps, PTL DEF BrainSpec

(* An agent runs its preset or a change of its own that the owner          *)
(* approved, and after a restart (getOrCreateOrchestrator) the preset only *)
(* if none was.                                                            *)
THEOREM ApprovalsAreRun == BrainSpec => RestartsRunWhatWasApproved
<1> DEFINE Kept ==
      /\ \A a \in AgentNames : strategy'[a] \in {0} \cup (granted' \cap Change(a))
      /\ restarts' # restarts =>
           \A a \in AgentNames : strategy'[a] = 0 => granted \cap Change(a) = {}
<1>1. ASSUME BrainInv, [NextBrain]_brainVars, BrainInv' PROVE [Kept]_brainVars
  <2>1. ASSUME NEW a \in AgentNames
        PROVE  strategy'[a] \in {0} \cup (granted' \cap Change(a))
    <3>1. CASE events' = events
      <4>1. strategy'[a] \in {0} \cup (granted' \cap Change(a)')
        BY <1>1 DEF BrainInv, FileInv
      <4> QED BY <3>1, <4>1, SameSets
    <3>2. CASE strategy' = strategy /\ granted' = granted
      BY <1>1, <3>2 DEF BrainInv, FileInv
    <3>3. events' = events \/ (strategy' = strategy /\ granted' = granted)
      BY <1>1 DEF NextBrain, CompileByForce, WatcherFires, Restart, OwnerOpens,
                  WriteDecision, CriticReview, Narrates, CompileWrites,
                  CompileMarks, OwnerSaves, brainVars, process, disk, history
    <3> QED BY <3>1, <3>2, <3>3
  <2>2. ASSUME restarts' # restarts, NEW a \in AgentNames, strategy'[a] = 0,
               NEW n \in granted \cap Change(a)
        PROVE  FALSE
    <3>1. Restart
      BY <1>1, <2>2 DEF NextBrain, CompileByForce, WatcherFires, OwnerOpens,
                  WriteDecision, CriticReview, Narrates, CompileWrites,
                  CompileMarks, OwnerSaves, brainVars, process, disk, history
    <3>2. /\ events \in Seq(RawEvents)
          /\ active \in Seq(FileBlocks) /\ historical \in Seq(FileBlocks)
      BY <1>1 DEF BrainInv, BrainTyped
    <3>3. Approvals(File) = granted
      <4>1. Approvals(File) = Approvals(active) \cup Approvals(historical)
        BY <3>2, ApprovalsOfBoth DEF File
      <4> QED BY <1>1, <4>1 DEF BrainInv, FileInv
    <3>4. Approved \in Seq(FileBlocks) /\ {b.change : b \in ToSet(Approved)} = granted
      BY <3>2, <3>3, ApprovedIsRead
    <3>5. PICK b \in ToSet(Approved) : b.change = n
      BY <3>4
    <3>6. events[b.change].agent = a
      BY <3>5 DEF Change
    <3> DEFINE preset == [x \in AgentNames |-> 0]
    <3>7. Apply(Approved, preset)
      BY <3>1 DEF Restart, hydrateFromAuditFile
    <3>8. \A x \in ToSet(Approved) : x.change \in Approvals(File)
      BY <3>3, <3>4
    <3> HIDE DEF preset
    <3>9. strategy'[a] \in Nat \ {0}
      BY <3>2, <3>4, <3>5, <3>6, <3>7, <3>8, ApplyKeepsTheFile
    <3> QED BY <2>2, <3>9
  <2> QED BY <2>1, <2>2
<1>2. BrainSpec => [][Kept]_brainVars
  <2> HIDE DEF Kept
  <2> QED BY <1>1, BrainStarts, BrainStepKeeps, PTL DEF BrainSpec
<1> QED BY <1>2 DEF RestartsRunWhatWasApproved
=============================================================================
