# HELIS: a verification project

HELIS runs a portfolio of small ventures for one operator: it discovers
opportunities, validates them with experiments, builds and publishes previews,
contacts prospects, and divides a budget of cash and model calls among the
ventures. All its state is in one SQLite file. There is no server: processes
come and go (a wake from cron, an autopilot, any of the command line tools) and
they meet only in the database. This directory holds TLA+ models of the parts in
which that is hard, the TLC runs that check them, and proofs checked by TLAPS.

## The system

| component | its state | operations | modules |
| --- | --- | --- | --- |
| treasury: `portfolio`, `resource_envelope`, `cash_reservation` | plans, envelopes, consumptions, cash reservations, three triggers | plan, activate, consume, reserve, settle, release, revoke | `Treasury`, `Totals` |
| reallocation: `portfolio_reallocation` | none of its own | `reconcile`, at the start of every scheduler wake | `Reallocation` |
| wake leases: `scheduler_wake`, `discovery_wake` | one lease row and a log of wakes each | `wake` = acquire, tick, finish, record | `WakeLease` |
| validation: `validation_machine`, `validation_execution`, `validation_cash`, `decision`, `followup` | experiments, runs, results, decisions, the venture's stage | `tick`; `approve`, reject, `complete_external`; release or settle a run's cash by hand | `Validation` |
| outreach: `gtm_runtime`, `gtm_outreach`, `gtm_store` | leads, drafts, outreach runs, responses, revenue, suppressions | `tick`; prepare, approve, dispatch, poll-result, suppress | `Outreach` |
| scheduler: `portfolio_scheduler`, `scheduler_backoff` | reports, backoffs | `tick` picks envelopes by priority and advances their ventures | `Scheduler`, `Upkeep` |
| commerce: `commerce_manager`, `commerce_store`, `commerce_gateway` | offers, checkout runs, bindings, revenue events | `advance_prebuild`, approve, create, poll | `Checkout`, `Launch` |
| builder: `builder_machine`, `build_execution`, `builder_review`, `builder_sandbox` | specifications, runs, artifacts, reviews, manifests, a workspace | `tick` | `Builder`, `Launch` |
| preview publishing: `preview_publisher`, `preview_gateway` | publication runs, publications | prepare, approve, publish | `Publication`, `Launch` |
| child agents: `child_agents`, `bot_architecture`, `child_agent_factory`, `child_agent_orchestrator`, `child_agent_worker` | architectures, bundles, artifacts, orchestrations; a queue of files | plan, materialise, advance a graph of steps, supply a result; enqueue, work, recover | `Architecture`, `Orchestration`, `WorkQueue`, `ChildAgents` |
| self-improvement: `self_improvement_machine` and its branch and merge managers | proposals, candidates, evaluations, branch and merge runs; the repository | propose, materialize, evaluate; prepare, approve, create; prepare, attest, approve, merge | `Improvement`, `ReviewBranch`, `Integration`, `SelfImprovement`, `Upkeep` |
| GTM decisions, feedback, experiments: `gtm_decision`, `gtm_metrics`, `gtm_feedback`, `gtm_experiment`, `gtm_channel_experiment`, `gtm_experiment_planner` | decisions, both tables of tests, assignments, the venture's stage | refresh, after every response and before every scheduler's tick; plan a test; assign leads | `MarketTests`, `Learning`, `Upkeep` |
| prospect discovery and drafting: `gtm_discovery`, `outreach_drafter` | leads, drafts | `tick`: search, qualify, assign, draft | `Learning`, without the search itself |
| engine, store, domain, policy, dedup, scoring | the tables | single-row writes | used by the others |
| discovery brain cycle, model access, gateways | observations, model calls, HTTP | one call after the other | environment |
| operator inbox | none of its own | approves through the managers above; rejects: a run that waits for approval becomes `cancelled` | an action in each module that has such runs |
| dashboard, live readiness | views | listing | not modelled |

How they interact. A host timer starts a wake. The wake takes the lease,
`reconcile` brings the plan and its envelopes up to date, and the scheduler
advances at most a few ventures: the stage of a venture decides whether its
validation machine, commerce, builder, publisher or GTM runtime ticks. Each of
them charges the venture's envelope for model calls, and validation reserves cash
in it for paid experiments. Operators work on the same tables without the lease:
they plan, activate, consume, revoke, release and settle reservations, approve and
reject runs, hand in results, send and suppress. Child agents and self-improvement
are driven by the operator's commands alone. Everything is by calls and shared rows;
there are no callbacks and no threads.

What is hard about it:

- a method is one transaction (`BEGIN IMMEDIATE`), or it reads on one connection
  and writes on another; whatever it has read may be old by then, and many
  methods write the whole row back;
- a process may die between any two transactions; nothing cleans up, the next
  tick has to make sense of what it finds;
- gateways do their work and lose the acknowledgement;
- SQLite may keep a transaction waiting, so that the clock it judges by is late;
- a tick may run longer than its lease.

`PROJECT.json` lists these hazards at their lines, with the properties that
cover each one.

## What makes each part correct

- Treasury: spending plus promises never exceed what a plan allots; no envelope
  is closed under an open commitment; counters are the sums of their rows; all
  live envelopes belong to one plan; what is closed or resolved stays so.
- Reallocation: no money appears by rolling over; the last plan is never
  deleted; the plan follows the portfolio in the end; it implements the treasury.
- Wake leases: in time there is one tick; a tick that says it ran was alone; a
  dead wake does not stop the others.
- Validation: nothing unapproved reaches the gateway; a paid run is funded while
  its answer is outstanding, unless a human takes the money back, and charged what
  was reported, once; evidence is judged unless the venture waits for a human; a
  verdict is final.
- Outreach: nothing unapproved reaches a prospect; caps hold across ventures; who
  refused is left alone; a completed run has left all its traces; outcomes stand.
- Scheduler: a venture is not starved by others that find nothing to do.
- Learning: every test is concluded once its answers decide it, by enough answers
  in each arm, and stays so; nobody is drafted for past a test that runs; the stage
  comes to be the one that the answers call for.
- Commerce: the provider creates a checkout only for what was approved; a payment
  is booked once, under the offer it was made for.
- Builder and publication: the site shows exactly the bytes that were reviewed and
  approved; an approved publication is carried out if the venture gets its turn.
- Child agents: an agent's step runs once; the common ceiling of model calls is
  kept; outputs fit the inputs they are stored beside; receipts stand.
- Self-improvement: what is pushed or merged is exactly what was prepared,
  attested and approved; a merge puts the evaluated file in the place of the file
  that it was evaluated against.

## The modules

### Totals, Treasury

`Total(f)` is the sum over a table's rows (`SUM` of the triggers). `Treasury` has
the five tables: `planState` and `content` are `portfolio_plans` (the content
stays when a row is deleted, as a process may hold the plan in memory),
`envelope` is `resource_envelopes`, one possible row per plan and venture, and
`consumption` and `reservation` hold at most one row per envelope and idempotency
key. `checked` and `snapshot` are the local variables of processes that are
between two transactions: `activate` checks that its plan is the latest before
its transaction, and `revoke` reads the row on another connection. `Consume`,
`Reserve`, `Settle` and `Release` are one transaction each and contain the
triggers' conditions. The order of plans is the order in which they were saved;
the code orders by `created_at`, which is taken just before.

Abstracted: the currency (one), names of sources (part of the key), the audit
trail, `max_ventures`. The allocator's arithmetic is the assumption
`PlanAssumption`: a plan never allots more than its budget. It is true of
`_allocate_integer`, which hands out at most what it is given; checking that
function itself is planned.

### Reallocation

`reconcile` step by step: one action per database access, with what was read in
`task`. `Discard` is the trigger's error path, in which the plan just made is
deleted again. `Charge` is any step of the ledger, in a tick (`leased`) or by
anybody (`~leased`); `leased` is chosen in the initial state and never changes.
`OperatorPlan` is `helis-portfolio plan`, the only source of money. `inputs`
stands for all that the allocator reads of the portfolio; it changes by itself.
The run checks `Spec` of `Treasury` as a property: the refinement mapping is the
identity on the treasury's variables.

### WakeLease

The protocol of both leases. Time is relative to now so that it can go on for
ever: what the lease has left, the time since the last attempt and since each
wake read its clock. `Take` judges and grants the lease at the time the wake read
its clock, which may be up to `MaxWait` ago (SQLite's busy timeout). A tick may
take arbitrarily long: `FinishLost` is what it does when another wake has taken
over meanwhile. `Die` leaves the lease to `Stranger`, as every wake draws a new
owner id.

### Validation

One venture. A tick judges the results, runs at most one experiment and judges
again; `tick` holds the place it is at and what it has read, and every save of
the code is one action. `Verdict` is the decider with its real thresholds, in
hundredths. `run` is indexed by the experiment, as ticks do not overlap and a tick
makes a run only where it finds none. `config` says how a wake was set up: whether
a gateway is linked, and the cash it may spend. A result has an outcome, a
confidence, a pivot signal and a cost; texts are left out. Costs are in hundredths
of a cent, as the code takes a float: `Settle` compares it as it is with what was
reserved, and books it rounded up to whole cents (`Cents`).

The operator approves a run (`ReadForApproval`, `SaveApproved`), rejects it in the
inbox (`ReadForReject`, `SaveCancelled`) or hands in its result (`ReadForResult` to
`CompleteExternal`). `ReleaseByHand` and `SettleByHand` are `helis-portfolio
release-cash` and `settle-cash`, which take any open reservation, also that of a run
whose outcome is outstanding; `freed` remembers which runs lost their money so. A
result that comes afterwards can no longer be settled and is refused for good, and
so is one whose cost exceeds the reservation (`RefuseResult`). Here the code and its
documents disagree: `docs/VALIDATION.md` says of a result that cost more than planned
that it is retained, but `_settle_cash_or_raise_overrun` raises before anything is
recorded, as `tests/test_validation_cash.py` expects. The model follows the code.

A tick begins in two ways. `Begin` is the scheduler's: the venture has a turn
(`due`, which `TurnChanges` gives and takes at any time) and is not `HeldBack` by an
open reservation or a run that waits or is running (`_skip_reason`). `BeginByHand` is
`helis validate` or `helis-venture advance`, which ask for neither. So a tick that
dies between a result and its run's completion leaves a result that the scheduler
never comes to judge, though a tick by hand would; `EvidenceIsJudged` excepts it, with
everything else that waits for a human, by name (`AwaitsHuman`).

Assumed: ticks of one venture do not overlap (wakes hold the lease; a command takes
none, so the model has none started while a tick is at work, and the overlap is
listed as a hazard), there is one validation command at a time, and the gateway is
the only executor with costs.

### Outreach

All ventures, since caps and suppressions are shared. `run`, `response`,
`revenue`, `stage`, `drafted` and `suppressed` are the tables; `accepted` and
`answer` are the world outside: what the gateway really sent, and what was
answered. `call` is where each of the two processes is, with the row it has read
and will write back. The operator prepares, approves, rejects (`SaveCancelled`) and
suppresses; `manual` is chosen once: whether the operator also sends and records by
hand, without the lease. The properties about caps, outcomes and
refusals are stated for `~manual`: two processes that send at the same time do
exceed the caps. A refusal is recorded in steps: a process that dies after the
response and before the suppression leaves nobody suppressed, and no retry makes up
for it. With `max_contacts_per_identity` at its default of 1 the cap keeps the
prospect from being contacted again, and that is what `RefusedIsLeftAlone` is
checked and proved for. The code admits 2 and 3, for which it does not hold.

Abstracted: drafts never change once they are made (nothing in the program edits
one), so the hash and endpoint checks always pass; all adapters are configured;
a meeting is like an interested answer, a bounce like a refusal, and a sale has
an amount; the tick takes any of the runs that qualify where the code takes the
one saved last; what an answer leads to next is in `Learning`; a step that raises
without saving anything is no step.

### Hosts, Incidents, GatedEffect

`Hosts` has the two variables that every later module shares: `at`, the next step
of a process, and `mine`, what its earlier steps have read into memory. One action
is one database transaction, one call of a gateway or model, or one file system
call, so that everything between two of them can be interleaved and lost.
`Incidents` bounds what disturbs a process that would otherwise work alone: a
second process that starts meanwhile, and a process that dies. `GatedEffect` is an
abstract specification: a content is examined, the operator approves exactly it,
and nothing else ever takes effect outside. Four parts of the program implement
it: checkout creation, publication, the review branch and the merge. Their
refinement mappings read `examined` and `approved` from what was ever saved as
examined or approved and `done` from the world outside, and none of the four can see
the rows a process holds. The audit events that follow a save in a transaction of
their own (`append_event`) are no steps: the only operation that reads any back is
self-improvement, whose signals `Improvement` leaves open.

### Checkout, Builder, Publication, Launch

One venture from validated to launched. `Checkout` is `CommerceManager`: the
offer, the one run (its `offer_id` is unique), the approval or rejection that reads a
run and writes it back later, the gateway call, the binding inserted after a lookup, the
recovery of a bound run, and the polling that books payments. `Builder` is
`BuilderMachine.tick`: a specification, up to `MaxAttempts` bundles, each checked
by the verifier against its template, written, executed if the template asks for
it, reviewed (the workspace is read, the model is asked and its verdict is stored, in
three steps), and promoted to a preview with a manifest. `files` is the workspace
itself, which a later process may rewrite after the review. `Publication` is
`PreviewPublisher`; the inspection before the gateway call reads the workspace
again. `Launch` composes them under `VentureRuntime.advance`, with a process for
the scheduler's ticks and one for the operator, who may run any phase out of turn.

Abstracted: bundles are names whose paths, bytes and scan findings are given by
`Output`; `content` hashes are the contents themselves; the payment provider keeps
to its idempotency key and the preview gateway publishes what it is given, or
refuses, or loses its answer. Prices and URLs are not computed. The architecture
checkpoint that `advance` takes before a build is in `ChildAgents`.

What the code does in the corners that the properties except: a process that dies
between a publication run's last save and its publication row leaves a live site
that no later tick can account for; one that dies between a ready preview and its
manifest, or the manifest and the stage, leaves the venture where it is; and an
approval read before a checkout became active and written after it puts the run
back to ready. `Stranded` names exactly these.

### Architecture, Orchestration, WorkQueue, ChildAgents

`Architecture` is `BotArchitect`, `AgentSpecPlanner` and `ChildAgentFactory`: the
graph policy (Kahn's algorithm, whose loop visits the least set closed under visiting),
and plans that are read,
asked for and saved in three steps while the venture changes. `Orchestration` is
one persisted run: an agent's step is claimed by comparing `updated_at` (`stale`),
every other save replaces the row whatever it has become. `WorkQueue` is the queue
of jobs on the file system: a rename takes a job, an exclusively created file is
its receipt, and a recovery by age may take a job from a worker that is alive. A file
is created first and written after that (`WriteJob`, `FillJob`): one that a dead
process left `blank` makes every worker that meets it raise.
`use` chooses at the start which of the two the agents are used for: they share no
state. "The first ready step" is any ready step, as the order is that of the
model's answer. A call that raises may have spent some of its turns (`spent`), which
the run's count never learns of; a task may be too large whether or not the step
depends on others.

Abstracted: prompts, outputs (numbered, with the outputs they were made from as
`basis`), and what an agent's tools do within its turn.

### Improvement, ReviewBranch, Integration, SelfImprovement

A change is one file: what it replaces and what it writes. `Improvement` is
`SelfImprovementMachine` (propose, materialize, evaluate, with the evaluator
outside), `ReviewBranch` the branch manager, `Integration` the merge manager with
the CI attestation, the approval and the second attestation before the merge; the
inbox may reject what waits for approval in both.
`main` is the history of the default branch, `reviews` the review branches with
the people's pushes. `SelfImprovement` lets two processes run all commands, die,
lose answers, and people push to either branch and tamper with a sandbox. Gateways
keep to the constraints of their request; that they make the branch or the merge and
lose the answer, or answer something that does not match it, so that the run is
blocked or fails although the effect took place, is included.

A proposal that has a run never gets another: a branch gateway whose answer was
lost leaves it failed for good, and a proposal that was accepted stays in
`waiting_merge_approval` after its merge, so that ticks find an active proposal
for ever. Nothing in the repository promises otherwise; the hazards say so.

### Scheduler

`Scheduler` is `PortfolioScheduler.tick` with `AdaptiveSchedulerBackoff`: ventures
in the order of the plan's priorities, the gates that skip one, the caps, and the
cooldown with its fingerprint, streak and growing delay. What a venture's runtime
would do is its `situation`, which changes by itself. A unit of time is the
minimum interval between two ticks of the timer (900 seconds by default), and
delays are multiples of it. `Record` computes the fingerprint after the runtime
has returned, as the code does, and a cooldown keeps which caller's gateways are
in it.

### MarketTests, Learning

`MarketTests` is the two experiment managers: the test of two arms of an offer and,
after it, the test of two channels. `drafts` is a bag, as only the label of a draft
in each test and what came of it matter; `pool` is the set of qualified leads
without a draft; `tests` holds the rows of both tables, latest update last, so that
`Latest` and `Running` find what `latest()` and `active()` do. `Spreads` is the assignment of
leads to arms and `Conclusions` the evaluation, with the scores in quarters and the
lift multiplied out; where the code compares floats, a lift of exactly a fifth
counts or not.

`Learning` is one venture's loop through them. A tick refreshes before it schedules
(`RefreshTick`): `Evaluate`, `SaveDecision` and `ApplyStage` are the decision engine,
whose decision and stage are two transactions, `Judge` and `Conclude` the tests, the
offer's before the channels'. Then comes the venture's turn (`MarketTurn`): an answer
is recorded, which refreshes again and looks at the tests twice, or a test is saved
(`SaveOffer`, `SaveChannel`), or leads are searched for, assigned under each test and
drafted for (`Search`, `Assign`, `AssignChannel`, `SaveDraft`). `LearnByHand` is the
operator's `discover`, `poll-result` and `record-response`, which need no lease.
`judged` says whether a decision on the metrics as they are exists, since the engine
never repeats one.

This leaves a gap, which `EvidenceTakesHold` excepts: a process that dies after the
decision and before the stage leaves the stage behind until the next answer, as the
decision is found and never applied again. And tests are kept fair only by processes
that do not overlap: an operator's `discover` beside a tick assigns from the same
counts and may fill an arm beyond its maximum. A second way to the same end needs
nobody else: the drafting model may answer with two drafts for one lead, and both are
saved (`SaveDraft`'s second disjunct; nothing in `outreach_drafter` or
`gtm_discovery` looks for a repetition). `upsets` remembers which of the two has
happened. `TestsStayFair` claims the minimal sample and the order of the tests
whatever happens (`SamplesStand`, which the venture's past satisfies and every step
leaves true); the finality of conclusions, and that nobody is drafted for past an
active test, where nobody overlapped; and the maximum of an arm where no lead was
drafted for twice either. Crashes are included throughout.

Abstracted: the approval and the dispatch of a run, which are in `Outreach`; the
texts of offers, arms and drafts; contacts without an answer, which are counted but
decide nothing; the ranking of leads, of whom the oldest are taken first (`Oldest`).

### Upkeep

`Upkeep` explores three loops side by side: the scheduler, one venture's learning,
and self-improvement. Scheduler and self-improvement share only the audit log, which
decides nothing in either model. A venture's learning changes what the scheduler
finds, and `situation` there takes any change as it comes; the scheduler decides
when the venture has a turn, and here any tick may give it one. So each behaviour of
all three is a shuffle of one of each, and every property here is about one of them.

## The runs

| run | states | shows |
| --- | --- | --- |
| `treasury` | 159,819 | the ledger's invariants and action properties |
| `revoke_race` | | a revocation forgets what was charged since its read |
| `reallocation` | 179,983, with liveness | refinement, conservation, the last plan, following the portfolio |
| `rollover_mint` | | a charge outside the lease is budgeted twice |
| `rollover_stuck` | | a portfolio that returns to an earlier state is never followed |
| `wake_lease` | 168,066, with liveness and deadlock | one tick in time, and always another |
| `validation` | 114,848, with liveness | approval, money and evidence under crashes and commands by hand |
| `run_stuck` | | an experiment that was running at a crash runs for ever |
| `outreach` | 857,735 | approval, caps, refusals and traces under crashes |
| `launch` | 749,647, with liveness and deadlock | two gates refined, sales as bound, approved publications carried out while the venture's turn comes round |
| `child_agents` | 2,121,588, with deadlock | a graph that hangs together, its ceiling, receipts |
| `upkeep` | 603,714, with liveness | two gates refined, evaluated changes, idle ventures that yield, answers that take hold, fair tests |

Eight of the runs pass; the other four each show one place where
the code does not do what a document says, quoted under `findings`.

Bounds, and why they are enough. Two plans in `treasury` give every relation
between an older and a newer one; the shares of its two ventures in the first plan
use up the budget exactly, so that one cent too many is seen. Two keys let a
commitment be open beside another. Amounts are 1 and 2; that an amount of 0 does no
harm is left to the proofs. The constraint `LittleActivity` limits the rows of
consumptions and reservations to two, and those rows together with the processes
that are between two transactions to three, so that every pair of commitments meets
one racing process, and a pair of races one commitment. Keys and clients are
symmetric. `reallocation` has three plans, the least for "a plan was made, discarded
and made again", two ventures, one key, two processes, two rows of which one is
charged outside the lease, and one crash. `wake_lease` has three workers: one that
holds the lease, one that takes it over and one that finds it held; durations are a
few units, so that every order of expiry, due time and late transaction occurs.
`validation` has three experiments (free, paid, a
follow-up), two crashes and room for three results per experiment where one is
expected; of the reported costs two are different fractions that round up to the
reserved cents, one rounds up to fewer, and one is an overrun. `outreach` has two
leads of one organisation under two ventures, caps of
one, two runs, two days and a crash; two runs are enough for one contact too many.

`launch` has two processes, two bundles that would pass and one template that
executes, two attempts of two runs, one payment and one incident: with one the
operator's process may overlap the ticks at every step, or a process die at every
step, and every state of `Stranded` is reached. One payment is enough for two processes
to book it at once, or for one to find it booked; with two, `SoldAsBound` and
`GatesHold` hold as well (1,082,711 states), and the proofs are for any number.
`child_agents` has two agents around a
human step, the least with an output that depends on an output, and a graph with a
cycle and one with a dangling edge for the policy; three model calls where two
agents of two turns could make four; crashes are not bounded. Both processes are
symmetric. `upkeep` has two proposals, three contents (old, better, refused by the
policy) and three mishaps, enough for an overlap, a push and a crash in one
behaviour; and three ventures, so that two wait together ahead of the third, with
one disturbance, two rounds of the autopilot and a streak of three, after which the
delay is at its maximum. Its venture starts at one of four points (`MCPast`): before
its first answer; an offer test one answer short of a conclusion; an offer test just
concluded; a channel test half way. From these, one more lead, two kinds of answer
(a sale and none) and samples of two per arm reach every decision and conclusion; one
upset makes one overlap, at any two steps, one death, or one lead drafted for twice.
`PastStands` keeps, of the pasts given, those the program can have left behind; all
four are. The samples that scale, pause
and kill are 2, 4 and 5, in the order of the code's 6, 8 and 15.

Deadlock is checked in `wake_lease`, `launch` and `child_agents` (in `validation` a
turn can always change, so that there is none to find); in the others the bounds on
plans, rows, runs and mishaps make everything come to an end, or the operator, who starts everything in self-improvement, may stop.

Fairness. `WF(TickStep)` in `Reallocation` says that the host wakes HELIS again and
again and that a tick which runs goes on: this is what the cron or systemd timer
installed by `helis-scheduler` gives, and every wake begins with `reconcile`. A
venture gets less from the timer. The scheduler gives by default one advance per tick
to the first venture it does not skip, so one of a higher priority that is never
skipped may take them all. No fairness is therefore stated of a venture's turns; where
a liveness property needs them they are its antecedent. In `Validation`, `WF(TickStep)`
says that a tick which runs goes on and that the scheduler begins one while the venture
is `due` and not `HeldBack`; `EvidenceIsJudged` and `RunsResume` speak of behaviours in
which the venture keeps its turn from some point on (`<>[]due`). Nothing is assumed of
operators, gateways or crashes; crashes are bounded, so that in the end a tick
gets through. `WakeLease` also assumes that time passes and that a tick returns.
`Launch` assumes that a tick or command which was started goes on; nobody need
approve, command or pay, and `ApprovedIsLaunched` has `TurnsComeRound`, that the
venture is advanced again and again, as its antecedent. `Upkeep` assumes the clock,
the timer and that a tick goes on, and nothing of self-improvement, which no timer
runs. That the tick which refreshes starts again and again is strong fairness: the timer waits for
no operator's command, but overlapping starts are bounded in the model, so that its
action is not always enabled.
`Treasury`, `Outreach` and `ChildAgents` state no liveness and need no fairness.

What `IdleOnesYield` assumes of the ventures ahead is what the code needs: that they
are skipped, or return for a reason that has a cooldown. A venture that raises, one
that waits in `ready_preview` for its publication, and one that returns for any
other reason is first again in every tick, and the property without that assumption
fails.

Each checked property has a faulty variant of an operation in its module ("Faulty
variant: ..."), a bug that could have been written there, with which TLC finds it
violated; `PROJECT.json` pairs them.

## The proofs

- `TreasuryProofs`: first what happens to a sum when one row changes, that sums are
  monotone, split along any division of their rows, and do not grow when rows are
  filed under other names. A row `x` of `f` stands for the set of cents `<<x, 1>>` to
  `<<x, f[x]>>`, and `Total` is the cardinality of them all: the library's facts
  about cardinalities do the work of an induction over the rows. Then all of
  `treasury`'s properties for any number of ventures, keys, processes, plans and
  amounts. `TypeOK` is inductive by itself. The others
  follow from `LedgerInv`: plans that were not saved have no content; for every
  envelope, what was never active has no rows, the limits are the plan's allotment,
  commitments are open only while the envelope is active (`CommitmentRow`), the
  counters of an unrevoked envelope are the sums of its rows (`Conserved`), and
  spending plus open commitments stay within the limits (`Covered`); a revoker's
  snapshot, however old, has the envelope's limits; and one plan is active. `Covered`
  alone is not inductive. `consume` compares the amount with the stored counter,
  which says something about the rows only by `Conserved`. And a consumption that
  reaches the limit marks the envelope exhausted: this leaves no commitment open
  under it only because an open commitment, which is positive, keeps the counter
  below the limit. There is one lemma per kind of step; steps that touch one
  envelope share `OneEnvelopeStep`.
- `ReallocationProofs`: `ReallocTypeOK`, then that every step of `reconcile` is a
  step of the treasury or none, so that `ReallocSafety => Spec`, and with it all
  theorems of `TreasuryProofs` hold of the composition. Then the properties of
  `reallocation` that are its own, for any processes, plans, inputs and crashes:
  - `PlanRemains` by `RemainInv`: who discards a plan was refused by an open
    commitment, so some envelope was opened; the plans of opened envelopes are not
    all discarded, since a plan with an envelope never is; and before the first
    envelope nothing is discarded at all.
  - `RevokedKeepsSpending`, which `revoke_race` refutes when somebody revokes by hand:
    without that (no action of `Reallocation` reads a row to revoke it) the counters
    of revoked envelopes stay those of their rows.
  - `ConservedUnderLease` by `MoneyInv`. `TotalSpent <= granted` says nothing of what
    may still be spent, so the invariant is about budgets: a plan is `Backed` when its
    whole budget plus the spending of all other plans is within what was granted. Every
    plan with a live envelope is, which makes charging it harmless; and so is the
    latest plan, if it can be activated at all. A plan that a rollover stored reuses
    what its predecessor has left, so the two are not backed at once: the predecessor
    must be unable to spend before the new plan is active. It has no open commitment
    (so nothing blocks the activation) and nobody works meanwhile, also when the process
    dies in between and another one activates the plan. A plan that an operator stored
    in the meantime has money of its own (`Spare`), whatever plan is live. `Reads` says
    which of these holds at each stage of a tick. This is where the lease is needed:
    `rollover_mint` shows the same rollover minting money when a charge comes between.
    The sums over the ledger are split by plan (`SpentUnder`, `SpentOutside`), and
    `PlanWithinBudget` bounds what one plan adds to them.
- `WakeLeaseProofs`: `OneTickInTime` and `RanAlone` for any lease, interval, busy
  timeout and number of workers, from `LeaseInv`: a wake whose tick is younger than
  the lease owns it, and what the lease has left is what the tick has left
  (`HoldsInTime`); nobody has joined the tick of the wake that owns the lease
  (`OwnerAlone`); and `RanAlone` itself.
- `ValidationProofs`: all of `validation`'s properties except `EvidenceIsJudged`,
  for any experiments, results, costs and crashes, and whatever is released or settled
  by hand. `ValidationInv` says of every experiment what its run, hold, results and
  gateway rows mean together (`RowInv`);
  of the tick, that the experiment it works on is still as it has read it
  (`TickInv`), and that the money and the result of the run it has under way are
  there (`FlightInv`); and of the operator's command, that the run it works on waits
  for it (`CommandInv`). None of the listed properties is inductive without the last
  three: every save trusts what was read one or more transactions before.
- `OutreachProofs`: all of `outreach`'s properties, for any leads, ventures, caps,
  runs, days and crashes. `OutreachInv` holds whoever sends: what the tables say of a
  run (`RunInv`), and what a process that holds a run knows of it (`Knows`), which
  nobody takes back because runs, answers and traces only grow (`Grows`). The caps,
  final outcomes and single revenue events need `AloneInv` as well, which holds while
  only ticks send and record: the row in a process's hand is the stored one
  (`Current`), as two processes never hold one run (`Apart`). What the operator
  approves or rejects has not been decided meanwhile (`Undecided`). `CapInv` adds that a
  tick about to send still has room for one more contact, also when the day changes
  under it. `RefusedAlwaysLeftAlone` has the assumption `IdentityCap = 1`, the
  default, as explained under the module.

- `UpkeepProofs`: first both properties of self-improvement for any processes,
  contents, proposals and mishaps: every reachable state integrates only as
  evaluated, and branch and merge refine `GatedEffect` step by step. `SelfInv` says of
  every stored run what was ever prepared, attested or approved of it (`BranchKnown`,
  `MergeKnown`), and
  the same of the row in a process's hand (`InHand`), which may be older than the
  stored one: it stays true since the default branch, the evaluations and the
  approvals only grow (`Grows`). Without `InHand` nothing is inductive, as every approval and
  every gateway call works from the row that was read before.

  Then `TestsStayFair`, for any processes, tests, leads, answers, upsets, sample sizes
  and ventures' pasts, by `LearnInv`. Its parts are as strong as what has happened
  allows. Whoever overlaps, a process about to conclude a test holds enough answers in
  each arm, although it read them earlier, because answers never become fewer
  (`LearnGrows`), and one about to plan a channel test knows of a concluded offer test
  (`LearnHand`). While nobody has overlapped, the test in its hand is still active, so
  saving it undoes no conclusion, and every lead it drafts for has its arm
  (`LearnAlone`). And while no lead was drafted for twice, the drafts it has still to
  save have their places: those of an arm, saved and to be saved, are at most
  `MaxAssigned` (`LearnCap`), which `Spreads` establishes for all leads of the pool
  before the channel test and `Oldest` choose among them. `LearnMove(p)` is a step of
  p alone, and `ProcessKeeps` shows that every operation makes one that keeps to both
  action properties. Counts are sums over a bag, so one draft more or less, or one
  whose answer comes, is a fact about sums: `TotalOfOneMore` and `TotalOfOneLess`
  count them cent by cent as `Totals` does, and `OneDraftMore` and `OneDraftLess` are
  the bags they are applied to. Two mistakes of the model were found here: that an
  answer may repeat a lead, and that a past with two rows of one id would have been
  taken for a venture's.

- `ChildAgentsProofs`: all properties of `child_agents`, for any capabilities, graphs,
  processes, jobs and crashes. `RunHangsTogether` by `GraphInv`: a process works on a
  copy of the run that others may have replaced since, and writes it back, so
  everything the stored run must be is shown of every copy in a process's hand as well
  (`Fits`). That a run never deadlocks rests on its graph: `Visited` is the least set
  closed under visiting, and if no pending capability could go on, the completed ones
  would be closed without the others. `CeilingHolds` by `CeilingInv`: a process that was
  not overtaken (`stale`) holds the stored run itself (`Held`), one that calls an agent
  was not overtaken and everybody else who held a copy was (`Alone`), so nothing but the
  answer is written between a claim and its answer and the row counts every call
  (`Counted`). `ReceiptStands` by `QueueInv`: a finished job lies only where its receipt
  says (`Filed`), what a worker finishes a job with is in the receipt (`WorkerKnows`),
  and one worker fills a receipt (`OneWriter`), also when recovery has given the job to
  a second one.

- `LaunchProofs`: `SoldAsBound` and `GatesHold` for any processes, bundles, templates,
  attempts, payments and mishaps, by `LaunchInv`, which has a part for each of the three
  machines: what their tables say (`CheckoutKnown`, `BuildKnown`, `PublishKnown`), and
  what the row in a process's memory says, depending on where the process is
  (`CheckoutInHand`, `BuildInHand`, `PublishInHand`). A row in memory may be older than
  the stored one; what is known of it stays known because approvals, checkouts, reviewed
  contents and the files of a workspace only grow (`Grows`). Two facts are not visible in
  the code. Two processes may each plan a checkout run, the second replacing the first,
  which the first may save again later; but no process plans two, as a run once planned
  is never gone (`PlannersFew`: runs planned and processes about to plan one are together
  no more than the processes), and this bounds what can be put to the operator. And a
  verified build's paths are in its workspace although others write there, as workspaces
  never lose a path (`Written`). That rows are found by their
  ids, however they are reordered by updates, is `RowReplaced`, `RowAdded` and `RowFound`.
  `GatedEffect` is then refined twice, one lemma per kind of step.

The proofs assume only the named assumptions of the modules: finite sets of
ventures, keys and leads, natural amounts and bounds, and `PlanAssumption`.

Model-checked only: everything about liveness (`PlansFollowInputs`, `KeepsTicking`,
`EvidenceIsJudged`, `ApprovedIsLaunched`, `IdleOnesYield`, `EvidenceTakesHold`), which
needs fairness and is out of TLAPS's reach as `ENABLED` is. Every safety property of
the passing runs is proved.

## Not modelled

- The search for prospects, the discovery brain cycle, model access and adapters:
  sequential I/O whose outcomes the models take as nondeterministic answers.
- `_allocate_integer`, scoring and value estimates: arithmetic, partly in floating
  point, without state; `PlanAssumption` is what the treasury needs of it.
- The dashboard and the readiness reports: views of the tables. Of the inbox, the
  answers to input requests, which are one row each.
- The composition of a wake with the machines it ticks: `reconcile` is composed with
  the treasury, and `Launch` with its three machines, but a wake that ticks
  validation under an envelope is two runs that share the reservation steps.
