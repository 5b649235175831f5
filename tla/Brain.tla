-------------------------------- MODULE Brain --------------------------------
(***************************************************************************)
(* The second brain of the dashboard: how a change of strategy that the    *)
(* critic recommends becomes a block of a file, is approved there by the   *)
(* owner, and reaches the running strategy.                                *)
(*   Orchestrator.ts    runCriticReview, logDecision, applyStrategyChange, *)
(*                      getOrCreateOrchestrator                            *)
(*   BrainWriter.ts     the raw events and the threshold of a compile      *)
(*   BrainCompiler.ts   runCompile, which tells each agent's decisions in  *)
(*                      its ledger and rewrites the file                   *)
(*   AuditWatcher.ts    the watcher of the file and the hydration from it  *)
(*                                                                         *)
(* The owner edits the same file in an editor: what is saved is the file   *)
(* as it was opened, with one more block decided.  The process restarts at *)
(* any point.  A change is its number: it sets the one parameter of its    *)
(* agent that the model keeps.                                             *)
(***************************************************************************)
EXTENDS Integers, Sequences, FiniteSets, SequencesExt

CONSTANTS
  AgentNames,
  CompileThreshold,   (* COMPILE_THRESHOLD                                   *)
  BatchCap,           (* raw events of one compile                           *)
  MaxEvents, MaxCompiles, MaxRestarts   (* bounds of the model *)

ASSUME BrainAssumption ==
  /\ CompileThreshold \in Nat \ {0} /\ BatchCap \in Nat \ {0}
  /\ MaxEvents \in Nat /\ MaxCompiles \in Nat /\ MaxRestarts \in Nat

VARIABLES
  strategy,      (* the change each agent runs, 0 for the preset           *)
  version,       (* strategyVersion                                        *)
  pending,       (* _pendingEventCount                                     *)
  compiling,     (* the batches of the compiles in progress, and where     *)
  known,         (* lastKnownApproved                                      *)
  debounce,      (* the watcher's timer runs                               *)
  (* On disk. *)
  events,        (* the raw events, by number                              *)
  compiled,      (* the numbers of those marked compiled                   *)
  active, historical,   (* the blocks of the two sections of the file      *)
  ledger,        (* the decisions that each agent's history tells          *)
  (* The owner, and what happened. *)
  buffer,        (* the file as the owner opened it, or <<>>               *)
  granted,       (* the changes the owner has approved                     *)
  live,          (* the changes applied in this run of the process         *)
  written,       (* the changes that were ever put in the file             *)
  overlapped,    (* a compile began while another was in progress          *)
  compiles, restarts

process == <<strategy, version, pending, compiling, known>>
disk    == <<events, compiled, active, historical, ledger>>
history == <<granted, live, written, overlapped, compiles, restarts>>
brainVars    == <<process, debounce, disk, buffer, history>>

InitBrain ==
  /\ strategy = [a \in AgentNames |-> 0] /\ version = 1
  /\ pending = 0 /\ compiling = {} /\ known = {}
  /\ debounce = FALSE
  /\ events = <<>> /\ compiled = {} /\ active = <<>> /\ historical = <<>>
  /\ ledger = [a \in AgentNames |-> {}]
  /\ buffer = <<>> /\ granted = {} /\ live = {} /\ written = {}
  /\ overlapped = FALSE /\ compiles = 0 /\ restarts = 0

-----------------------------------------------------------------------------
(* The elements of s at the indices is, in their order.                    *)
Picked(s, is) ==
  [k \in 1..Cardinality(is) |->
     s[CHOOSE i \in is : Cardinality({j \in is : j <= i}) = k]]

-----------------------------------------------------------------------------
(* Raw events, and the compiles they ask for.                              *)

Write(event) == events' = Append(events, event)
Count == IF pending + 1 >= CompileThreshold THEN 0 ELSE pending + 1

Uncompiled == Picked([n \in DOMAIN events |-> n], DOMAIN events \ compiled)

(* The batch's decisions by agent, in the order they first appear.         *)
DecisionsOf(a, batch) ==
  {n \in ToSet(batch) : events'[n].kind = "decision" /\ events'[n].agent = a}
Tellers(batch) ==
  LET first == {i \in DOMAIN batch :
                  /\ events'[batch[i]].kind = "decision"
                  /\ \A j \in 1..(i - 1) : events'[batch[j]] # events'[batch[i]]}
  IN  Picked([i \in DOMAIN batch |-> events'[batch[i]].agent], first)

(* compileAgentHistory of the next agent reads its history, then awaits    *)
(* the model; with none left, runCompile goes on.                          *)
Narrating(batch, left, histories) ==
  [batch |-> batch, left |-> left,
   read |-> IF left = <<>> THEN {} ELSE histories[Head(left)],
   at |-> IF left = <<>> THEN "told" ELSE "narrating"]

(* runCompile up to its first await.                                       *)
Compile(uncompiled) ==
  IF uncompiled = <<>>
  THEN UNCHANGED <<compiling, compiles, overlapped>>
  ELSE /\ compiles < MaxCompiles /\ compiles' = compiles + 1
       /\ LET size  == Min({BatchCap, Len(uncompiled)})
              batch == SubSeq(uncompiled, 1, size) IN
          compiling' = compiling \cup {Narrating(batch, Tellers(batch), ledger)}
       /\ overlapped' = (overlapped \/ compiling # {})

(* The narrative, or the figures when the model is out of reach, goes      *)
(* behind the history as it was read.                                      *)
Narrates(job) ==
  LET a == Head(job.left) IN
  /\ job \in compiling /\ job.at = "narrating"
  /\ UNCHANGED <<strategy, version, pending, known, debounce, events,
                 compiled, active, historical, buffer, history>>
  /\ ledger' = [ledger EXCEPT ![a] = job.read \cup DecisionsOf(a, job.batch)]
  /\ compiling' = (compiling \ {job}) \cup
                    {Narrating(job.batch, Tail(job.left), ledger')}

(* The dashboard's route compiles by force.                                *)
CompileByForce ==
  /\ Uncompiled # <<>>
  /\ UNCHANGED <<strategy, version, pending, known, debounce, disk,
                 buffer, granted, live, written, restarts>>
  /\ Compile(Uncompiled)

(* logDecision, of a decision that is not to hold.  The compile it asks    *)
(* for is skipped when the last one was less than an hour ago: the hour    *)
(* may have passed or not.                                                 *)
WriteDecision(a) ==
  /\ Len(events) < MaxEvents
  /\ Write([kind |-> "decision", agent |-> a, version |-> 0])
  /\ pending' = Count
  /\ IF pending' = 0
     THEN \/ Compile(Append(Uncompiled, Len(events) + 1))
          \/ UNCHANGED <<compiling, compiles, overlapped>>
     ELSE UNCHANGED <<compiling, compiles, overlapped>>
  /\ UNCHANGED <<strategy, version, known, debounce, compiled, active,
                 historical, ledger, buffer, granted, live, written, restarts>>

(* runCriticReview, when the critic is asked (every ten decisions at most) *)
(* and suggests something: that its event may be the one that asks for a   *)
(* compile is not looked at.                                               *)
CriticReview(a) ==
  /\ Len(events) < MaxEvents
  /\ version' = version + 1
  /\ Write([kind |-> "critic", agent |-> a, version |-> version + 1])
  /\ pending' = Count
  /\ UNCHANGED <<strategy, compiling, known, debounce, compiled,
                 active, historical, ledger, buffer, history>>

-----------------------------------------------------------------------------
(* compileAuditRecommendations: the new blocks replace the active section, *)
(* of which only what was decided is kept.                                 *)

mutResolved(blocks) ==
  Picked(blocks, {i \in DOMAIN blocks :
                    blocks[i].mark = "approved" /\ ~blocks[i].applied})
Resolved(blocks) ==
  Picked(blocks, {i \in DOMAIN blocks : blocks[i].mark # "open"})

Recommended(batch) ==
  Picked([i \in DOMAIN batch |->
            [change |-> batch[i], mark |-> "open", applied |-> FALSE]],
         {i \in DOMAIN batch : events[batch[i]].kind = "critic"})

CompileWrites(job) ==
  /\ job \in compiling /\ job.at = "told"
  /\ compiling' = (compiling \ {job}) \cup {[job EXCEPT !.at = "written"]}
  /\ IF Recommended(job.batch) = <<>>
     THEN UNCHANGED <<active, historical, debounce, written>>
     ELSE /\ active' = Recommended(job.batch)
          /\ historical' = Resolved(active) \o historical
          /\ debounce' = TRUE
          /\ written' = written \cup {b.change : b \in ToSet(active')}
  /\ UNCHANGED <<strategy, version, pending, known, events,
                 compiled, ledger, buffer, granted, live, overlapped, compiles,
                 restarts>>

mutCompileMarks(job) ==
  /\ job \in compiling /\ job.at = "written"
  /\ compiling' = compiling \ {job}
  /\ compiled' = DOMAIN events
  /\ UNCHANGED <<strategy, version, pending, known, debounce,
                 events, active, historical, ledger, buffer, history>>
CompileMarks(job) ==
  /\ job \in compiling /\ job.at = "written"
  /\ compiling' = compiling \ {job}
  /\ compiled' = compiled \cup ToSet(job.batch)
  /\ UNCHANGED <<strategy, version, pending, known, debounce,
                 events, active, historical, ledger, buffer, history>>

-----------------------------------------------------------------------------
(* The owner.                                                              *)

File == active \o historical

OwnerOpens ==
  /\ buffer = <<>> /\ \E b \in ToSet(active) : b.mark = "open"
  /\ buffer' = <<active, historical>>
  /\ UNCHANGED <<process, debounce, disk, history>>

OwnerSaves(i, mark) ==
  /\ buffer # <<>> /\ i \in DOMAIN buffer[1] /\ buffer[1][i].mark = "open"
  /\ active' = [buffer[1] EXCEPT ![i].mark = mark]
  /\ historical' = buffer[2]
  /\ granted' = granted \cup
       IF mark = "approved" THEN {buffer[1][i].change} ELSE {}
  /\ buffer' = <<>> /\ debounce' = TRUE
  /\ UNCHANGED <<process, events, compiled, ledger, live, written, overlapped,
                 compiles, restarts>>

-----------------------------------------------------------------------------
(* parseApprovedChanges, in the order of the file.                         *)
Approved == Picked(File, {i \in DOMAIN File : File[i].mark = "approved"})
KeyOf(n) == <<events[n].agent, events[n].version>>
Keys(blocks) == {KeyOf(b.change) : b \in ToSet(blocks)}

(* The approvals whose key is new: of two with one key, the first.         *)
NewlyApproved ==
  LET key == [i \in DOMAIN Approved |-> KeyOf(Approved[i].change)] IN
  Picked(Approved, {i \in DOMAIN key : /\ key[i] \notin known
                                       /\ \A j \in 1..(i - 1) : key[j] # key[i]})

(* markApplied: the first block with that header, if it is approved.       *)
Marked(blocks, keys) ==
  [i \in DOMAIN blocks |->
     [blocks[i] EXCEPT !.applied = @ \/
        /\ blocks[i].mark = "approved" /\ KeyOf(blocks[i].change) \in keys
        /\ \A j \in 1..(i - 1) :
             KeyOf(blocks[j].change) # KeyOf(blocks[i].change)]]

(* applyStrategyChange of each of a sequence of approvals, in its order:   *)
(* the last one of an agent is what it runs.                               *)
Apply(blocks, before) ==
  LET Of(a)  == {i \in DOMAIN blocks : events[blocks[i].change].agent = a}
      marked == Marked(File, Keys(blocks)) IN
  /\ strategy' = [a \in AgentNames |->
       IF Of(a) = {} THEN before[a] ELSE blocks[Max(Of(a))].change]
  /\ active' = SubSeq(marked, 1, Len(active))
  /\ historical' = SubSeq(marked, Len(active) + 1, Len(marked))

MaxVersion(start, blocks) ==
  CHOOSE v \in {start} \cup {events[b.change].version : b \in ToSet(blocks)} :
    /\ v >= start
    /\ \A b \in ToSet(blocks) : v >= events[b.change].version

mutWatcherFires ==
  /\ debounce
  /\ \E new \in {NewlyApproved} :
     /\ Apply(new, strategy)
     /\ version' = MaxVersion(version, new)
     /\ live' = live \cup {b.change : b \in ToSet(new)}
  /\ known' = known \cup Keys(File)
  /\ debounce' = (File # active' \o historical')
  /\ UNCHANGED <<pending, compiling, events, compiled, ledger,
                 buffer, granted, written, overlapped, compiles, restarts>>
WatcherFires ==
  /\ debounce
  /\ \E new \in {NewlyApproved} :
     /\ Apply(new, strategy)
     /\ version' = MaxVersion(version, new)
     /\ live' = live \cup {b.change : b \in ToSet(new)}
     /\ known' = known \cup Keys(new)
  /\ debounce' = (File # active' \o historical')
  /\ UNCHANGED <<pending, compiling, events, compiled, ledger,
                 buffer, granted, written, overlapped, compiles, restarts>>

hydrateFromAuditFile == Approved

(* The process dies and starts again: getOrCreateOrchestrator applies what *)
(* is approved and starts the watcher, which knows it all.                 *)
Restart ==
  /\ restarts < MaxRestarts /\ restarts' = restarts + 1
  /\ Apply(hydrateFromAuditFile, [a \in AgentNames |-> 0])
  /\ version' = MaxVersion(1, hydrateFromAuditFile)
  /\ pending' = 0 /\ compiling' = {}
  /\ known' = Keys(Approved) /\ debounce' = FALSE
  /\ live' = {b.change : b \in ToSet(Approved)}
  /\ UNCHANGED <<events, compiled, ledger, buffer, granted, written,
                 overlapped, compiles>>

-----------------------------------------------------------------------------
NextBrain ==
  \/ CompileByForce \/ WatcherFires \/ Restart \/ OwnerOpens
  \/ \E a \in AgentNames : WriteDecision(a) \/ CriticReview(a)
  \/ \E job \in compiling :
       Narrates(job) \/ CompileWrites(job) \/ CompileMarks(job)
  \/ \E i \in 1..MaxEvents, mark \in {"approved", "rejected"} :
       OwnerSaves(i, mark)

BrainSpec == InitBrain /\ [][NextBrain]_brainVars

(* The watcher's timer fires while the process lives.                      *)
FairBrainSpec == BrainSpec /\ WF_brainVars(WatcherFires)

-----------------------------------------------------------------------------
Change(a) ==
  {n \in DOMAIN events : events[n].kind = "critic" /\ events[n].agent = a}

(* An agent runs its preset or a change that the owner approved, and after *)
(* a restart (getOrCreateOrchestrator, Orchestrator.ts:662-666) the preset *)
(* only if none was: no compile, stale save or crash loses an approval.    *)
(* (Of several it is the first approved that a restart brings back: the    *)
(* file keeps the newest first, and they are applied in its order.)        *)
RestartsRunWhatWasApproved ==
  [][/\ \A a \in AgentNames : strategy'[a] \in {0} \cup (granted' \cap Change(a))
     /\ restarts' # restarts =>
          \A a \in AgentNames : strategy'[a] = 0 => granted \cap Change(a) = {}]_brainVars

(* An approval that is saved reaches the running strategy (AuditWatcher.ts *)
(* :117-126), in this run or the next, unless another approval of its      *)
(* agent has its version: versions start again with the process, and the   *)
(* watcher knows an approval by them.                                      *)
ApprovalsGoLive ==
  \A n \in 1..MaxEvents :
    n \in granted ~>
      \/ n \in live
      \/ \E m \in granted \ {n} : n \in granted /\ KeyOf(m) = KeyOf(n)

(* What is marked compiled was put in the file for the owner to see, and a *)
(* decision is told in its agent's ledger (BrainCompiler.ts:53-91), for    *)
(* any cap of a batch and restarts that cut a compile short.  Only of      *)
(* compiles that overlap may one write over what the other has told.       *)
CompiledWasWritten ==
  \A n \in compiled :
    IF events[n].kind = "critic"
    THEN n \in written
    ELSE n \in ledger[events[n].agent] \/ overlapped

-----------------------------------------------------------------------------
(* What two comments say without the exceptions above, and the code does   *)
(* not keep.                                                               *)

(* "Restore previously approved strategy changes" (Orchestrator.ts:662): a *)
(* restart that finds nothing left to apply starts the agents with what    *)
(* they ran before it.                                                     *)
RestartRestores ==
  [][restarts' # restarts /\ granted \subseteq live => strategy' = strategy]_brainVars

(* "Calls onApproval for each newly-checked approval" (AuditWatcher.ts:97) *)
EveryApprovalGoesLive == \A n \in 1..MaxEvents : n \in granted ~> n \in live
=============================================================================
