# A verification project for FLOAT

FLOAT keeps the idle USDC of agent wallets in a yield vault and lets an owner
run a policy-bound LP and swap agent from a chat.  This directory holds TLA+
models of the parts of it that move money or decide whether money may move, the
TLC configurations that check them, and TLAPS proofs of what matters most.  All
paths below are relative to the repository's root.

## Running it

    tlc -workers 2 -config Executor.cfg MCExecutor        # any run of the table
    tlapm ExecutorProofs.tla                               # any *Proofs.tla

`PROJECT.json` lists the runs, which source lines each definition models
("map"), a mutation for every property that its run must detect ("mutants"),
the hazards that the properties are for, the disagreement that a run shows between
the code and what it says of itself ("findings"), and the theorems.

## Inventory

### Components, their state and how they interact

| Component | Source | State it keeps | Operations | Modules |
|---|---|---|---|---|
| Executor | services/executor | jobs by idempotency key, `byAccount` lock, nonces and hashes | create, simulate, approve, submit, confirm, reconcile, retry, cancel, invalidate | Executor, OnceOnly |
| Policy contract | packages/policy | none (pure) | validatePolicy, compilePermissions, checkAction, authorityIncreased | Policy, PolicyAmendments |
| Chat shell, swap desk | services/chat | dedupe keys, sessions, pending approvals, the desk's cache and counter | handleInbound, resolveApproval, quote, execute | SwapDesk |
| Swap router adapter, reading of orders | packages/venues, skillsSwap.ts | none | parseSwap, quote, simulate, action shape | SwapOrders |
| Yield orchestrator | dashboard/src/lib/float | balances seen per agent, status, cooldown, `_executingWallets` | tick, refresh, park, withdraw, signal | Orchestrator |
| Its loop, the critic, the simulator and their routes | Orchestrator.ts, Evaluator.ts, TradeSimulator.ts, api/agent | interval, ticks in progress, log, timers | start, stop, tick, review, trade, trigger | Dashboard over Traders, TradeSimulator, YieldLoop |
| Vault | contracts/FloatVault.sol | deposits | park, withdraw | Orchestrator, FloatClient |
| SDK client | sdk/src/FloatClient.ts | payment and recall history | wrapPayment, park, withdraw | FloatClient |
| Cross-chain recall | sdk/src/FloatClient.ts | none that survives a call | gatewayRecall | GatewayRecall |
| Circle CLI adapters | sdk, dashboard | hash cache, pacing slot | execute, transfer, poll, accelerate | CircleCli, WalletPromise |
| Indexer | services/indexer | events by key, cursors per pool | ingest, snapshot, reconcile | Indexer, IndexerFeed, PoolSnapshot |
| Managed LP flow | services/e2e | none between calls | goal, plan, gate, execute, index, report | ManagedFlow |
| Goals and planner | services/agent | none | parseGoal, plan | Planner |
| Venue adapters, eligibility | packages/venues | none | quote, simulate, screen, classify | Venues |
| Token screen | packages/screener, skillsScreener.ts | none | parseScreenParams, screenTokens | Screener |
| Accounting | packages/accounting | none | flows, net result, report | Accounting |
| Second brain | dashboard/src/lib/brain | raw events, ledgers, the approval file, versions seen | write, compile, watch, hydrate, mark applied | Brain |

Who calls whom: the chat shell routes an owner's message to the swap desk, which
asks the policy provider and the adapter and gates with `checkAction`; the flow
runs goal, indexer, screen, planner, policy, executor and accounting in one
sequence.  Apart from these, the orchestrator's timer reads balances over RPC,
decides by `PolicyEngine` and calls the vault through the CLI adapter; the
simulator signals statuses to it and the brain hands it strategy changes.  The
SDK client is used by outside agents against the same vault; its package points
at `./src/index.js`, so what ships are the compiled twins (`*.js`) beside the
TypeScript, and PROJECT.json maps both.  The money is on a
chain that none of these sees atomically.

### What is hard, and what makes each part correct

| Component | Hard behaviour | What makes it correct |
|---|---|---|
| Executor | cancel, policy change or a second submit during an awaited submission; a timeout whose transaction lands later | no second attempt while one may execute; one live job per account; verdicts that match the chain; locks released |
| Policy | many small amendments; comparisons as written against comparisons normalised | nothing gained that was not approved; the reserve survives every permitted action |
| Swap desk | redelivery, bounded dedupe memory, a policy that changes while a quote or approval is awaited, restarts that reuse ids | settled once, by the owner's answer to that very offer, within the limits in force at that moment; the owner told the truth |
| Orchestrator | overlapping ticks, wallets shared by agents, balances that grow old within a tick, late transactions | one transaction per wallet; the reserve kept; no avoidable revert |
| Loop, simulator, critic | stop during the await of start; triggers during trades; reviews that overlap | one loop and one chain of trades, trades that come to rest, suggestions that are rare |
| SDK client | overlapping payments, check before an await and record after it | bounded recalls, whatever times out |
| gatewayRecall | six transactions on two chains, no resumption | the money of each recall is where it stopped and nowhere else |
| Circle CLI | replaced transactions, lagging lists, commands of one wallet at once | reports that are true of the chain; every call ends |
| Indexer | duplicates, order, a throw in mid-batch | a snapshot that is a function of the set of events |
| Managed flow | the same arithmetic in five modules; repeated keys over a fresh store | the modules agree; the ledger takes what was sent |
| Second brain | a file edited by owner, compiler and watcher; compiles that overlap | only what was approved runs, every approval goes live |

`PROJECT.json` lists the hazards one by one, each at its line.

## Plan

The order was by what a mistake would cost: Executor over OnceOnly; Policy and
PolicyAmendments; SwapDesk, which uses Policy as its gate; Orchestrator with the
vault; FloatClient; then CircleCli over WalletPromise and GatewayRecall, whose
transactions are calls that keep that promise; Indexer; ManagedFlow, which
composes Policy, Planner, Venues, PoolSnapshot and Accounting; Brain; Dashboard,
which composes Traders, TradeSimulator and YieldLoop; and last Screener, whose
skill the swap desk's shell serves beside the swaps.  All are done.

The proofs followed the same order; every invariant that a run checks is now a
theorem.  What a next step would take: a
park as one atomic transfer that the split one of Orchestrator implements while it
is informed; the vault's simulated yield; the text's path through Planner, of which
only the types are proved.

## The models and the code

Every handler is one action from one `await` to the next, because a single
JavaScript thread runs it and nothing else runs until it awaits.  What is not in
the repository (the chain, Circle's service, the language model, the owner) is
external and may do anything that the code has to expect.

### Executor, OnceOnly

One action per exported function of `executor.ts`, under the function's name.
`submitJob` is two: up to `await submitter(job)` (`submitJobSend`, or
`submitJobRefused`), and the continuation (`submitterReturns`,
`submitterTimesOut`, `submitterFails`).  Every other operation may run between
them, and the continuation writes to the job whatever happened to it meanwhile,
as the code does.  `retryJob` moves FAILED to APPROVED and calls `submitJob`;
when the account is taken, `lockAccount` throws after that first move
(`retryJobLocked`).  `holder` is `store.byAccount`; a hash is the number of its
attempt; `chain` says what became of each attempt.  `revoked` is a history
variable: jobs cancelled while in flight.

`TimeoutsCarryHash`, `ConfirmedMeansExecuted` and `BareConfirmsOwn` are what a
caller may or may not provide: a `TimeoutError` need not name its transaction, and
`reconcileJob` is given, independently of each other, a hash or none (`named`) and
`confirmed`.  The first makes every timeout carry its hash; the second, that
confirmed is said of executed transactions only; the third, that a confirmation
without a hash is said of no other attempt than the one the job holds.  A gate that
throws instead of answering, after `lockAccount` (line 276), is not modelled.

### Policy, PolicyAmendments

A policy is a record of functions: numeric caps by name, allowlists by name, the
set of action types it enables.  `Canonical` is the normalisation that
`checkAction` applies and `authorityIncreased` does not.  PolicyAmendments is
the use that the header of `validate.ts` (lines 5-8) describes: changes that are
not reported take effect, changes that are reported need approval.

### SwapDesk, SwapOrders

SwapOrders is what is pure: how a text is read as an order (verb, amounts with
their markers, tokens by symbol or address, slippage), what the router adapter
quotes and refuses, and the shape that is given to `checkAction`.  A text is what
its regular expressions can find in it; amounts keep their digits and decimal
places, so that `toAtomic` can fail as it does.

SwapDesk is the shell and the desk.  `Receive...` are `handleInbound` up to its
first await, by kind of message; `QuoteArrives` is the desk's continuation after
`getQuote`, with the policy it had read before; `Approve` and `Reject` are
`resolveApproval`, with `execute` up to `await settle`, and `ReceiveAnswer` the
owner's own words for it.  An answer to what is not pending goes on to the skills and
the brain.  The brain's reply may name any registered skill with any text
(`extractAction`): `BrainSuggestsSwap` when it is the desk's, `BrainDecides` when it
is `approvalSkill`, which resolves the id in that text; `skills` says whether it is
registered, which does not change.  `Send` is `transport.send` with its handlers: a line, and where
sending it fails the next one, if the code has one; `MaxFailures` bounds the sends
that fail, and `resolved` is history: what `execute` returned for.  Dedupe keys are a
bounded queue; a delivery of a known message is a redelivery.  An offer is named
by its place in the history `offers`, so that a property can tell two offers that
bear the same id, SW1, before and after a restart.

### Screener

The skill's reading of a text (`parseScreenParams`) and the package's filter, flags
and ranking.  It is served by the same shell and keeps no state, so what is said
of it is said of every text, list of tokens and time.  That the rows are the best
of what passes, in order, is checked on the requests and tokens of MCSwapDesk by
an ASSUME, which TLC evaluates in the run swap_desk; the rest is proved.

### Orchestrator

A tick goes through `off`, `refresh` (two concurrent reads per wallet), then
`turn` for each agent, and through the places of `executePark` (`approve`,
`park`, `parked`, `readback`) or `executeWithdraw` (`preflight`, `withdraw`,
`withdrawn`, `readback`).  `calculateCapitalStatus` and the action guards of
`PolicyEngine` are translated; the score that chooses among permitted actions
depends on market data and is any score.  `Uninform` is history: it marks an
action whose balances were true when it was decided and to whose wallet nothing
has happened since.  The vault's `require`s are the guards of `Park` and
`Withdraw`.

### Dashboard: Traders, TradeSimulator, YieldLoop

Traders is what the two share: the status of each agent and whether it has money
parked.  TradeSimulator has the timers (`armed` counts those that run, `timers`
keeps one per agent) and the trades in progress with their polls.  YieldLoop has
`start` split at its await, the intervals, the ticks that overlap, the capped log
and the review split at the await of the critic.  What a tick does to balances is
Orchestrator's; here it moves the capital of an agent or does not.  Dashboard adds
the routes, which may be called at any moment, and the history: `crossed` (a stop
came while a start awaited) and `extra` (a trade was started during another).

### FloatClient

Each caller goes through `wrapPayment` read by read: liquid balance, deposit and
decision, recall, verification, payment.  The recall's time is taken at the
decision and pushed to `recallHistory` after the confirmation, as at lines
488-506.  A recall that times out throws before it is pushed; it joins `late`, in the
order of its nonce, and may land.  `unforced` is history: when each recall that was
not forced, and that landed in time or late, was let through.  It keeps what the
client forgets after an hour, and what it never knew.  Of either list only the number
of times is ever read, so `Recent` keeps them in any order.  `park` and `withdraw` run
beside the payments on the same wallet.

### CircleCli, WalletPromise

Both adapters, which differ in who knows the address and who spaces commands
(`adapter`).  A call has a goal (a transaction, a balance, a signature) and the
command it awaits; the loop of `waitForTx` and its twin is `AskAgain`, the
receipt, the list and the replacement.  The clock is what has passed since
something, saturated at what it is compared with.  WalletPromise is all that a
caller may build on: COMPLETE is said of what landed, "terminated" of what never
will, and a call that throws says nothing.

### GatewayRecall

Each step of `gatewayRecall` with the transaction it waits for, which is a call
that keeps WalletPromise (`Adapter`): the same module that CircleCli is shown to
implement.  The transactions of one wallet run in the order of their nonces.  The
Gateway takes a fee of its own choice up to `maxFee` (line 305) with the amount.

### Indexer, IndexerFeed, PoolSnapshot

`ingestEvents` is synchronous, but may throw at any event: one action per event
of a batch in the order the code sorts them, so that the state a throw leaves is a
state of the model.  PoolSnapshot is `buildSnapshot` and `reconcileLiquidity` over
any sequence of events; ManagedFlow uses the same.  IndexerFeed is the abstract
view: the cursors are those of the set of events, and the snapshot is that of every
order of them.

### ManagedFlow: Planner, Venues, Accounting

`runManagedLpOnce` is one action per stage and way out, in its order, with the
state of the call in one record.  Its data goes through the operators: the goal
is parsed from a sequence of words, amounts and percentages by Planner, the
policy built from it is validated by Policy, the log is snapshot by PoolSnapshot,
the pool classified, screened, quoted and simulated by Venues, the ledger built by
Accounting.  `SubmitFails`, `SubmitTimesOut` and `AnsweredWithoutHash` are the answers
of the submitter that end a call as BLOCKED: after none or one broadcast, or, when
it answers with an empty hash, after one.  An exception after the broadcast is not an
action because there is none: `LedgerTakesTheEntry` says, and FlowProofs proves, that
`buildReport` accepts the flows of every call that gets there (a time that is not an
integer is refused with the policy, validate.ts:41).

### Brain

The raw events are numbered and a change of strategy is the number of the
critic's event.  A compile is a job with its batch and the ledgers it still has to
tell, split where it awaits the model and between its two writes; a restart drops
it anywhere.  The file of recommendations is two sequences of blocks; the owner
edits a buffer that may be stale.

## The runs

| Run | Bounds | Distinct states | What it shows |
|---|---|---|---|
| executor | 2 jobs on 1 account, 2 attempts each, clock 0..1, timeouts without hash | 647 778 | the safety properties, settlement, and the refinement of OnceOnly |
| executor_blind_resubmit | 1 job, 3 attempts, confirmed said of anything, timeouts without hash | violation | a stale hash of an earlier attempt settles a job whose last attempt is open; the retry sends a second one |
| policy | 192 policies (the legal ones start), 56 actions | 2 700 | unreported amendments never add up to power; the reserve survives |
| swap_desk | 2 texts, 3 messages, 4 deliveries, 2 offers, 1 policy change, pauses, 1 send that fails, 1 restart, 1 dedupe key, with and without approvalSkill | 956 634 | the safety properties, decisions that are final, and approvals that are answered |
| orchestrator | 2 agents on 1 wallet of 101 units, 2 ticks, 3 statuses, 1 late transaction | 172 152 | exclusion, informed parks and informed transactions sound |
| float_client | 2 callers, 4 calls, limit 1, clock 0..2, 1 late transaction | 6 131 355 | no money lost or made, the bound on recalls that land |
| circle_cli | 2 calls, gap 1, timeout 2, 1 replacement, either adapter | 324 893 | the refinement of WalletPromise, spacing, which receipts stay unseen, every call ends |
| gateway | 3 recalls of 1, 2 and 2 units, 3 units in the vault and 1 in the wallet, fees 0 and 1 | 127 177 | where the money of a recall is, what COMPLETE says, who may revert |
| indexer | 5 events of 2 pools on 2 chains, one spoilt at first, any batches | 11 020 | cursors, snapshots that forget the deliveries, what stands before a bad event |
| managed_flow | goals, logs, ages, fees and haircuts on both sides of each comparison, 2 calls with one key | 12 044 | the modules that compute the same thing agree, and the ledger takes every entry |
| brain | 1 agent, 3 events, batches of 2, 2 compiles, 1 restart | 102 718 | what was compiled was written, only what was approved runs, approvals go live |
| dashboard | 1 trader, 2 trades, 2 ticks, 3 loops, a log of 3, 3 requests | 638 457 | one loop, one chain of trades, rare suggestions, trades that come to rest |

Why the bounds are enough to meet the interesting cases:

- *Executor.*  Two jobs of one account contend for its lock; two attempts are a
  first try and a retry that its late answer may meet.  The blind resubmission
  needs three: one reverts and leaves its hash, the second times out, the third
  is the wrong one.  The clock only matters as before or after a deadline.
- *Policy.*  The values sit on both sides of every comparison, include a
  spelling that differs only in case, a budget that the position cap does not
  divide, and chains of any length (the state is one policy and the approved one).
- *SwapDesk.*  A memory of one key and four deliveries let a message come back
  after its key was forgotten; two offers let an answer meet the wrong one; a
  restart reuses SW1.  Messages that differ only in their text count as one
  message that is redelivered, and two identical quotes in flight as one.  One
  send that fails is a receipt that is lost and a message that takes its place; two,
  after which the owner hears nothing, are what `ApprovalIsAnswered` exempts.  The
  two texts are a sale and a chat: what an order says is read by pure operators, and
  the proofs are for any texts, prices and policies.
- *Orchestrator.*  Two overlapping ticks of two agents each give four turns; 101
  units make the rounding of a park visible; the presets of the code (aggressive
  and conservative) are the ratios.  Ticks are interchangeable, which the run
  uses as a symmetry; agents are not, because a tick takes them in order.
- *FloatClient.*  A limit of one, two callers and one recall that may time out: the
  bound is three, and four recalls within the hour, in four calls, would break it.
  Callers are interchangeable.
- *CircleCli.*  Two calls are what it takes for both to wait for the slot at
  once.  A timeout of two polls lets a call miss its receipt, replace the
  transaction, miss again and give up; one replacement is a first and a refused
  second.
- *GatewayRecall.*  Three recalls are one, a second beside it, and one more after
  either failed.  Five units are asked of a vault with three, so a withdrawal can
  revert, and one unit that was there before can be taken for withdrawn money.
- *Indexer.*  A pool with two spellings, two events in one second and two in one
  block, one that comes late, one on another chain.  Batches are any subset, any
  number of times.
- *ManagedFlow.*  Each quantity has a value below, at and above what it is
  compared with, and one at it; two calls are what a repeated key takes.
- *Brain.*  A batch cap below the number of events leaves some over for the
  second compile; two compiles overlap; a restart falls anywhere.
- *Dashboard.*  Constants of the code are scaled (a log of 3 for 100, a review
  every 2 loops for 10): the log is longer than a review asks for, so that of two
  overlapping reviews the shorter length may be recorded last.  That this lets a later
  suggestion come early takes one more tick than the run has, and is covered by the
  proof of `CooldownIsKept`.  Three requests are a start, a stop and a
  start, or a trigger at any point of them.

Fairness.  Executor assumes that receipts are looked up and reconciled jobs marked
(services/e2e/src/flow.ts does both right after it submits) and that the chain
mines what it accepted; nothing is assumed of timeouts, retries or cancels.
SwapDesk assumes that `settle` answers or throws, which an awaited promise of the
adapter does by its own timeout, and that a send ends, delivered or not. CircleCli
assumes that time passes and that each command and each read ends: the adapters set
neither a time limit, so this is assumed of the CLI and the RPC, and `EveryCallEnds`
says what follows from it. Dashboard assumes that timers fire and that a poll is
followed by the next; Brain that the watcher's timer does. Indexer's loop is
synchronous, so a step that can be taken is.
The other modules state safety only: their timers and callers promise
nothing.

Deadlock is checked for Orchestrator, Indexer and Policy, which never stop.  It is
not where the system may rightly do so: every job settled and the clock at its
bound, no message left to deliver, no call left to make.

## The proofs

Checked by tlapm for every value of the constants that the modules' assumptions
allow, so for any number of jobs, attempts, policies, offers, agents, wallets, trades,
ticks, callers, calls, recalls, events, batches and restarts.

**ExecutorProofs.**  `TypeCorrect`; `NeverResubmits`, `Serialized`,
`NoIdleHolder`, `Verdicts`, `DeadForGood`, and `ExecutesAtMostOnce`, the refinement
of OnceOnly.  All but `TypeCorrect`, `DeadForGood` and `Verdicts` assume
`CallersContract`: the callers keep to two of the three constants above.  With only
the third `NeverResubmits` fails, in executor_blind_resubmit; with only the second it
fails, too: the same configuration with `ConfirmedMeansExecuted = TRUE` and
`BareConfirmsOwn = FALSE` confirms on a stale hash.  `Verdicts` needs `ConfirmedMeansExecuted` and one of the other
two.  The properties are not inductive by themselves: nothing in
NeverBlindlyResubmitted says that a FAILED job has no open attempt, which is
what makes its retry safe.  `JobInv` adds, for each state, what it says about the
attempts, and `LockInv` who holds the account.  A step touches one job and the
lock (`StepsAreLocal`), so the proof has one step per operation for that job and
one lemma for all the others.

**FlowProofs, the policy.**  `PolicyTypeCorrect`, `NothingGainedSilently`,
`ReserveIsSafe`, over `PolicySpec`.  The invariant is that the policy in force is legal and `Narrower`, component by
component, than the approved one; that relation is reflexive and transitive, an
unreported change narrows (`UnreportedIsNarrower`), and a narrower policy permits
less (`NarrowerPermitsLess`, which needs that floored basis points are monotone).

**SwapDeskProofs.**  `TypeCorrect`, `SettlesOnce`, `SettlesWhatWasApproved`,
`SettlesWithinLimits`, `StaysAnswerable`, `DecidedOnce`.  `SettlesWhatWasApproved`
holds whether `approvalSkill` is registered or not: only with it may a reply of the
brain stand for the owner's, and only for an offer the owner was shown.  That no trade of an offer
is repeated is not inductive: nothing in it says that an id that still answers
stands for an offer that was not traded.  `DeskInv` adds what the cache and the
pending ids stand for: a cached id is that of the offer it names, which was not
traded; a pending id is of an offer that was shown and is undecided; and until a
restart the number of an offer is its id, so an answer to one id is an answer to
one offer.  The limits hold because the second gate is on the policy of that
moment, and because a settlement within the quote's own slippage is within any
wider one (the least amount out falls as the slippage grows).  Of the token screen
the same module proves that the skill never asks for what `screenTokens` throws on
(`RequestsAreAccepted`) and that filters which are all at least as strict let in no
token that was refused, although each token is dropped at the first that objects
(`StricterScreensKeepFewer`).

**OrchestratorProofs.**  `TypeCorrect`, `WalletExclusion`, `ParkKeepsReserve`,
`TxSucceeds`.  The exclusion is proved by classifying every step as one that
stays in, enters or leaves a transaction (`TickMoves`), and three facts about
these (`ExclusionKept`).  For the other two, `Reliable` says what a tick relies on
at each place while it is informed; it is kept because whatever lands on a wallet
uninforms the other ticks of that wallet, and because by the exclusion no other
tick approves there in between.  The arithmetic of a park is one lemma
(`ParkableFits`).  It uses the assumption that `minRouteAmount` is at least three
base units: below that, the rounding of a park to base units could take half a unit
from the reserve.

**FloatClientProofs.**  `TypeCorrect`, `OvershootBounded`.  The bound on recalls is not
inductive: the recalls that were let through and have not confirmed will be recorded,
too, and those that were given up may yet land.  `Limited` counts them with those
that have landed (`Underway`, and the recalls in `late`), and `Recorded` says that the
client's own history, of which it forgets only what is older than the hour, has at
every cutoff at least as many times as there were unforced recalls that confirmed.  A
caller that is let through saw fewer than the limit, those under way are callers, and
what it could not see had timed out; that gives the bound.  Every step that touches
no time is `Calm`, and one lemma (`CalmKeeps`) does for all of these.

**CircleCliProofs.**  `AdaptersKeepPromise`, the refinement of WalletPromise that
GatewayRecall builds on, and `CommandsAreSpaced`.  Every step of a call goes on,
broadcasts, answers or lets its transaction settle (`LoopMoves` and its siblings
show it, one action after the other), and each of these is a step of the promise
or none (`MovesRefine`).  What has to be added is `Forward`: a call whose
transaction is out never goes back to submitting one.  For the spacing, `WaitInv`
says that a call that waits for its slot unraced is due exactly when the gap ends.
`ReceiptsMissOnlyReplacements` needs to know which hash a call asks about: `SightInv`
says that one that still has all its attempts has asked for no replacement, so no
hash but the original exists; that a receipt is only asked of a known hash; and that
a missed one is of a transaction that has ended under the other hash.

**GatewayRecallProofs.**  `TypeCorrect`, `MoneyIsWhereItStopped`,
`CompleteIsMinted`, `AloneSucceeds`.  `Total` folds a set in an order that nothing
fixes; it is first shown to be the cardinality of a set of units, of which each
recall has as many as its amount (`TotalIsUnits`), because that cardinality solves
the equation of the fold, and the equation has one solution: of two that differ
somewhere, a smallest set where they differ gives a smaller one (the strict subsets
of a finite set are well founded).  Adding and removing a recall is then arithmetic
(`TotalAdd`, `TotalRemove`).  The invariant is what each recall has behind it
(`Trail`: what was told complete landed, a deposit comes after its withdrawal and
approval, an attestation after its deposit), that the queues hold each pending
transaction once (`Queued`), and for a recall that was never disturbed that
everything pending is its own and that its deposit is the next to run (`Alone`).
The property alone does not say why the allowance is still there when a recall has
given up and another has begun; the order of the nonces does.

**FlowProofs, the indexer.**  `IndexerTypeCorrect`, `CursorsAreRight` and
`SnapshotsForget`, over `IndexerSpec`.  The cursors alone are not inductive: a pool
without events must still have its first cursor, or the first event might not move
it (`UntouchedIsNoCursor`).  That a snapshot forgets how its events came needs that
of a key only one is ever ingested (`OncePerKey`), and that a sum folded over the
places of a log depends on the events alone: it is the number of units of the
positive fields less that of the negative ones (`Tally`), which is shown to solve
the recursion of the fold (`TallyFolds`) and, by the smallest subset on which another
solution would differ, to be its only solution (`FoldIsTally`).  Two logs of the same
events, each once, then have the same snapshots (`SnapshotsAgree`).

**FlowProofs, the managed flow.**  `OneNet`, `SizeIsTheCap`, `GateAgrees`, `LedgerTakes`,
for every goal text, log, age, fee and haircut that `FlowAssumption` types.  A call's
record is written by one stage and read by later ones, so the invariant (`Stands`)
says of each stage what the earlier ones have made true: the goal is a draft with
typed figures (`DraftTyped`), an accepted policy is `Lawful` and `Built` from that
goal, a snapshot that got past the age gate is fresh, a quote is `Quoted` from what was
asked, and what is planned is `Weighed`: the candidate's and the simulation's figures
are one.  `SizeIsTheCap` is arithmetic of `validatePolicy`: a cap in basis points of
the same budget that the reserve is taken from.  `GateAgrees` takes each gate of
`checkAction` to the stage that has applied the same cap before.

**DashboardProofs, the loop, the simulator and the critic.**  `OneLoop`, `OneChain`
and `CooldownIsKept`.  `LoopInv` adds that, until a stop has crossed a start, the one
interval that runs is the one the handle holds, so that clearing it leaves none.
`ChainInv` adds that of an agent's timers only as many are lost as trades began during
another, and that a stopped simulator holds none: without it, a start that finds lost
timers could exceed the bound.  For the cooldown the log is capped and the count that
a review brings back was read before its await; `CriticInv` says that each suggestion
but one per overlap has been paid for by decisions, both in what is recorded and in
every count that a review in flight may still record, so that the order in which
the answers come does not matter.

**DashboardProofs, the second brain.**  `NothingCompiledIsLost` and `ApprovalsAreRun`,
an action property.  `FileInv` says that the file, and the owner's buffer when there
is one, say approved what was granted, no more and no less: a save of a stale buffer
undoes a compile but no approval.  `LedgerInv` says of each job in progress that a
decision of its batch is told or its agent is still to be narrated and, while compiles
do not overlap, that the history the narration has read is the one that it will write
over.

`Picked` (Brain) and `Scored` (YieldLoop) are what `SelectSeq` and an update inside an
update would say; the prover has neither.  What `Picked` returns is proved from its
definition (`PickedHolds`): the rank of an index is an injection of a finite set into
an interval as large.

Model-checked only: liveness under fairness (`SubmittedJobSettles`,
`ApprovalIsAnswered`, `EveryCallEnds`, `TradesComeToRest`, `ApprovalsGoLive`,
`GoodPrefixIsIngested`), which the prover does not do; and the ranking of the token
screen, which sorts by an operator parameter.

## What is left out

- Executor: the eviction of a transaction from the mempool after it was seen; the
  loss of the in-memory store.
- Policy: digests and serialization; daily budgets, counts and cooldowns, which
  no gate of the code counts; `expiresAt`, which `checkAction` does not read.
- SwapDesk: the wording of replies, the conversation, `propose()` and the help,
  status and pause skills, which only reply or set what the policy provider sets.
  The policy provider is outside the
  repository: it is assumed to give each policy but a paused or resumed one a new
  version.
- Orchestrator: the score of an action and the market data it comes from; the
  vault's simulated yield.  A trade is its status signals.
- FloatClient: the adaptive reserve (`calculateTargetReserve`), which no payment
  uses.
- GatewayRecall: the layout of the typed data.
- Managed flow and its parts: the texts of the explanations, `markPortfolio`,
  which nothing calls, tick mathematics, decimal formatting, `summarizePosition`.
- Brain: the wording of narratives, the status page, the index, the commit to git.
- Dashboard: the verdict on a decision and its yield estimate, the figures of
  `getStats`, a simulator that a hot reload replaces, the market snapshot.

Not modelled as a whole: the chat webhook (its signature check is cryptography);
the state route, which reads, and the legacy agent, which nothing of the float loop calls; pages, scripts and the test
token, which hold no protocol state.

## Where code and prose, or two parts of the code, differ

What was met while modelling.  The first is shown by a run:

- A retry keeps the hash of the attempt before it, and a timeout without a hash is
  then reconciled against the wrong transaction (executor_blind_resubmit).  A
  confirmation without a hash leaves the stale one in the job as well, whose reverted
  receipt then fails what has executed (executor.ts:329).

For these a module states what the doc or comment says, and no run checks it, because
the code does not keep it: add the definition to the module's configuration, as an
INVARIANT or, where it speaks of steps or of what comes to be, as a PROPERTY, and TLC
shows how.

- When the receipt of a swap cannot be sent, the owner reads "Nothing was executed"
  (shell.ts:105; `FailedMeansNotSettled`).
- "Recall rate limit is a hard limit" (FloatClient.ts:459; `RecallLimitIsHard`, with
  one caller, too): recalls that time out are not counted and may land.
- wrapPayment "guarantees the wallet has the balance" (sdk/README.md:116;
  `PaymentIsCovered`): two payments may rely on the same money.
- "Idempotency key dedupes retries" (executor.ts:10; `OneBroadcastPerKey`): each flow
  call has a store of its own, and a call that is BLOCKED may have broadcast.
- "Never park more than this %" (types.ts:23; `ParkRatioIsKept`) is computed from
  balances that go stale.
- A restart is to "restore previously approved strategy changes" (Orchestrator.ts:662;
  `RestartRestores`), and applies them in the order of the file; "each newly-checked
  approval" is to be applied (AuditWatcher.ts:97; `EveryApprovalGoesLive`), unless its
  version is taken.
- "Prevent concurrent trades on the same agent" (TradeSimulator.ts:229;
  `NoConcurrentTrades`): a trigger does not end the trade in progress.
- "stop - halts the loop" (dashboard/README.md:126; `StopHaltsTheLoop`): a stop during
  the await of start leaves a loop that nothing stops.
- "10-decision cooldown" (Orchestrator.ts:473; `CooldownIsTen`): overlapping reviews
  share one.

And money is to move "only through APPROVE <id>" (shell.ts:9), but a reply of the brain
may name the skill that approves (brain.ts:82): `OwnerApprovedThisOffer` admits that,
and without its first alternative TLC shows such a reply.

The others are in the models as the code has them, or are noted where a model leaves
them out.

- Executor: `cancelJob` of a job in SUBMITTING or RECONCILIATION_REQUIRED frees the
  account, and the awaited promise later sets it SUBMITTED (executor.ts:239; the
  header, line 11, has one active job per account).  A RECONCILIATION_REQUIRED job
  whose transaction never reached the chain leaves that state only by a cancel.
- Policy: `authorityIncreased` does not compare `pauseState`, so a resume is not
  reported (validate.ts:105 against 6-8).
- Swap desk: the quote is gated with constant ages, so a stale one passes the
  second gate for up to a minute (skillsSwap.ts:264); a swap between two other
  tokens is gated in the wrong unit (:280); buy amounts are read with the six
  decimals of USDC whatever the token.  A settlement that broadcast and then threw
  is reported, too, as "Nothing was executed" (shell.ts:105).  A swap that the brain
  suggests is announced, but its pending approval is dropped (shell.ts:182).
- Orchestrator: the status of an agent is read once, before the approval
  is awaited (:215); a failed read-back logs a landed transaction as failed (:320).
- Evaluator: a decision is logged with the agent's status at the time of logging,
  after the read-back (Orchestrator.ts:391, 428), and scored by it; it is always told
  that no trade was missed.
- FloatVault: simulated yield is credited without USDC behind it (line 58).
- Indexer: `buildSnapshot` does not look at the chain that `ingestEvents` recorded
  for the pool (line 122); of two events of one second the first one ingested gives
  the snapshot its block number (line 134).
- Managed flow: the planner allows an ENTER that the compiled permissions refuse
  when `allowNewPoolEntry` is false (planner.ts:62, compile.ts:55).
- Goals: "reserve 30%, limit 5%" reads 30% as the limit (goals.ts:73); "2 $500"
  reads two USDC (:39); "don't ask me" reads as a wish to be asked.
- Adapters: two commands that wait at once leave together in spite of the minimum
  gap (CircleAgentAdapter.ts:41-49); a failed replacement uses up an attempt.
- Dashboard: the log is capped at 100 while the
  critic compares its length with a count that only grows (Orchestrator.ts:442).
- Brain: an undecided recommendation is dropped by the next compile, or by the save of
  a stale buffer; of two compiles that overlap one writes over what the other told
  (BrainCompiler.ts:106, 223).
- Gateway: two recalls of one wallet at once spend each other's allowance
  (FloatClient.ts:297).
- Screener: the cents of an amount are dropped, so "liq over $0.5" sets no minimum
  at all (skillsScreener.ts:47); only the characters next to a keyword are looked
  at, so "older than 30 days" is not read as an age and nothing says so (:74).
- SDK: `wrapAgent` passes 0.40 as a static reserve in dollars (wrapAgent.ts:47).
