# Verification of Inflector

TLA+ models of the parts of Inflector that keep state across processes, crashes
and operator commands, and of the functions that derive what they store, checked
with TLC on small instances and, where it matters most, proved with TLAPS for
every value of the constants. Inflector discovers research opportunities
among NSE companies: it ingests filings and market data, builds point-in-time
evidence, scores companies, ranks them per cycle, detects changes and notifies
an operator. Paths below are relative to the repository.

## 1. The system

### Components, their state and how they interact

| Component | State | Operations | Interacts with |
|---|---|---|---|
| Operations ledger (`operations_repository.py`, `production_operations.py`) | `operational_runs` (status, lease), `operational_run_stages`, `operational_run_symbols` | create run, acquire / recover / renew lease, start and finish stage, block, finish run | calls the executor of every stage; freezes the release of the cycle; read by health and CLI |
| Monitoring (`opportunity_discovery.py`, `opportunity_change.py`, `opportunity_monitoring.py`) | discovery and change runs with immutable items | rank a cycle, choose its baseline, classify changes | is two stages of the cycle; reads release bindings; feeds the outbox |
| Notification outbox (`research_notifications.py`, `notification_operations.py`) | `research_notification_outbox` | project change items to events, reuse on resume | stage of the cycle; read by delivery |
| Notification delivery (`research_notification_delivery*.py`, `notification_delivery_operations.py`, `telegram_*.py`) | `research_notification_deliveries`, their attempts | prepare, claim, send, record delivered / retry / dead letter | stage of the cycle and launch smoke; Telegram |
| Model release governance (`model_release.py`) | candidates, shadow runs and events, burn-ins, approvals, deployments, `active_model_release`, cycle bindings, production scores | bootstrap, create candidate, shadow, burn-in, approve, activate, roll back, freeze, project score | operator commands; the cycle freezes and scores |
| Ingestion and archive (`service.py`, `ingestion_repository.py`, `archive.py`) | ingestion runs, source records, normalized rows, files by content hash | ingest per source, quarantine, detect duplicates, put artifacts | first stages of the cycle, CLIs |
| Acquisition (`nse_*.py`, `gdelt_attention.py`) | HTTP session, retry counters | bounded retries, session renewal | feeds ingestion |
| Documents (`document_*.py`) | assets, extractions | acquire, extract, reuse | stage of the cycle |
| Point-in-time reads, snapshots, TTM, features (`pit.py`, `*_pit.py`, `ttm.py`, `financial_*.py`, ...) | none: functions of the database and a cutoff | select what was known | feed scoring |
| Scoring and orchestration (`core/*_scoring.py`, `score_orchestration.py`, `production_research.py`) | immutable score snapshots | compose components, persist or reuse | research stage |
| Historical evaluation (`backtest_*.py`, `historical_*.py`, `multibagger_labels.py`) | backtest runs, observations, outcomes, labels, splits | freeze past research, compute outcomes and labels, split | judges models; reads snapshots and facts |
| Challenger and holdout (`multibagger_challenger.py`, `multibagger_holdout.py`) | experiment, candidates, freeze, holdout run, decision | register, develop, seal, validate, freeze, open, decide | give release governance its candidates |
| Health (`production_health.py`) | none | verdict over ledger, delivery and release rows | operator |
| Deployment (`scripts/inflector_linux_deploy.py`, ...) | release directories, `current` link, service units | install, switch, restore | starts the processes |
| Schema (`models.py`, migrations), read API, web frontend | declarations; none; none | queries | all |

`PROJECT.json` lists every component with its files and its status.

Processes share nothing but PostgreSQL, at READ COMMITTED, and the file system.
The SQLAlchemy session keeps the rows a transaction has read until its next
commit, decides on them in Python, and writes the changed columns, mostly with
no condition in the UPDATE. Everything hard about this code follows from that:
a process can be held up or killed between a read and its commit, another can
take over in between, and the first then decides on what no longer is. Timers
run cycles and deliveries; an operator resumes runs and issues release commands
by hand, in any order.

### What makes each component correct

* *Ledger*: one process at a time drives a cycle; stages run in order and a
  completed one is never undone; a failed cycle shows why; attempts and leases
  are bounded; a resumed cycle settles.
* *Delivery*: every event is announced, and at most as often as the policy
  allows; the audit says what happened; settled rows stay settled; nothing is
  left behind in the backlog.
* *Release governance*: production is scored by the champion or by a challenger
  that has earned it and only once; a cycle is scored by one release whatever
  happens between its attempts.
* *Monitoring and outbox*: the baseline of a change run is a closed discovery
  before it and stays so; each change between two runs is announced once.
* *Archive*: an object holds the content it is named after.
* *Ingestion*: a run counts what became of each record, and none is lost; a reader
  sees the latest revision known at its cutoff, and no older one again; a security
  has one identity a day.
* *Series and other evidence*: a value is a function of what was known since the
  day it says; quarters, reported or derived, are those of the books.
* *Scoring*: scores stay on their scale whatever is missing, and an improvement
  never costs a company points.
* *Score snapshots*: what is written is what the repository accepts; scores of one
  cutoff are by one configuration, and components of one score by one session.
* *Historical evaluation*: what was committed stays; labels and splits rest on whole
  windows; a build that died is taken up again with the same result.
* *Challenger and holdout*: the holdout is opened once, after all it judges is
  settled; who passes has earned it; nobody is stranded halfway.
* *Deployment*: what is deployed and run is a whole reviewed release, and a cycle
  records the commit it really ran.

The hazards these properties are for are listed line by line in `PROJECT.json`.

## 2. Modules

| Module | What it is |
|---|---|
| `OperationsLedger` | one logical cycle and the processes that drive it |
| `CycleContract` | what the operations layer promises about a cycle (abstract) |
| `MCOperationsLedger` | instances of the ledger for TLC |
| `OperationsProofs` | proofs about `OperationsLedger` and `MonitoringCycle` |
| `NotificationDelivery` | outbox events, delivery rows, attempts, drains, the provider |
| `MCNotificationDelivery`, `NotificationDeliveryProofs` | instances and proofs |
| `ModelRelease` | release candidates, burn-in, approval, deployments, the pointer, bindings |
| `ReleasePromise` | what governance promises about production scoring (abstract) |
| `MCModelRelease`, `ModelReleaseProofs` | instances, and what commands that overlapped excuse; proofs |
| `MonitoringCycle` | successive cycles: snapshots, discovery runs, baselines, the outbox |
| `MCMonitoringCycle` | an instance |
| `RawArchive` | one content-addressed object, step by step |
| `Ingestion` | runs, source records, facts, identities, readers |
| `FinancialSeries`, `MCFinancialSeries` | quarters, trailing months, ratios, snapshots, endpoint; an instance |
| `EvidenceFeatures`, `MCEvidenceFeatures` | market structure, attention, size of events; an instance |
| `ComponentScoring`, `MCComponentScoring` | the eight scorers, confidence, eligibility; an instance |
| `ScoreSnapshots`, `MCScoreSnapshots` | policies, the five algorithms, kept snapshots; an instance |
| `MultibaggerLabels` | visible facts, split adjustment, forward returns, labels (operators) |
| `RankingMetrics` | ranking, selection, confusion classes, metrics (operators) |
| `HistoricalEvaluation` | backtest builds, labels, evaluation, temporal split |
| `HoldoutPromise` | what a temporal holdout is for (abstract) |
| `ChallengerHoldout` | the experiment and the holdout, command by command |
| `Deployment` | release trees, `current`, units, preflight, gate, the cycle |
| `RecordProofs` | proofs about what is kept: `RawArchive`, `Ingestion`, `Deployment`, `ChallengerHoldout` |
| `ResearchProofs` | proofs about `ScoreSnapshots`, `HistoricalEvaluation` and `FinancialSeries` with their operators |
| `EvidenceProofs` | proofs about `EvidenceFeatures`, over those of the labels and the series |
| `ScoringProofs` | proofs about `ComponentScoring` and its decimal arithmetic |
| `MCResearchData` | the instances of the last nine components, side by side |
| `ResearchDataProofs` | from the proofs about each of them to the composition |

`HistoricalEvaluation` and `EvidenceFeatures` take facts and their visibility from
`MultibaggerLabels`, `ChallengerHoldout` its ranking from `RankingMetrics`,
`EvidenceFeatures` market cap and figures from `FinancialSeries`.

Operators commented `Fault:` or `Mutant:` are mistakes the code could have made; they
are not part of any specification, and each is refuted by the property it is meant for.

### OperationsLedger

`run`, `stage` and `symbol` are the rows. `pc`, `at` and `view` are the state of
a process: where `_execute` stands, the stage its loop has reached, and the rows
as the session holds them. `ReadLedger`, `ReadAfterStage` and `ReadAfterFailure`
are the three calls of `_required_run`; every other action of a process is one
commit of `_execute`, `start_stage`, `finish_stage`, `block_remaining_stages` or
`finish_run`, decided on `view[w]` and written to the rows as they are.
`AcquireLease` and `RecoverLease` are conditional UPDATEs and so one step. `Die`
is every exception that ends the process: an illegal transition, a lost lease, a
refused insert. `Tick` lets the lease run out; `Overrun` says whether a stage may
outlast the lease that was renewed at its start, `CrashMidStage` whether a
process may die while a stage executes.

The executors are a nondeterministic result: success, failure, and for the
financials and research stages the set of symbols that failed inside. The
release binding made at the head of `run` and `resume` touches no ledger row
and is in `ModelRelease`.

### NotificationDelivery

`delivery` and `attempt` are the rows, `accepted` counts the messages the
provider has taken, the rest is the state of a process in `drain_notification_
deliveries` or in a launch smoke. A claim is one conditional UPDATE and one
commit; the request follows; the result is recorded from `view[w]`, what
`_active_claim` had read, in two steps. Responses are abstracted to the classes
`_failure_semantics` tells apart; a response that failed as far as the transport
can tell may still belong to a message the provider took. The order by due time
is abstracted: any eligible row may be claimed.

### ModelRelease

A command reads (`Read...`), decides and commits; `work[o]` is what it has read.
All it reads is read in one step; other commands may commit before it does.
Activation holds the row lock of the pointer from its read to its commit, so no
activation or rollback starts in between (`Locked`). A column is written only if
its new value differs from the one that was read (`Written`), as SQLAlchemy does.
Unique keys (one shadow run, burn-in and approval per challenger, one event per
cycle, one binding per run) refuse the second of two inserts. A command repeated
with its own arguments is a case of its action, with other arguments it is
refused. Events are those of one security, `flagged` standing for any of the
limits of the policy; the duration and latency gates are the boolean `envelope`.
The revalidation of the holdout evidence, checksums and fingerprints of immutable
rows are not modelled: immutable rows cannot change in the model.

### MonitoringCycle

The other three modules look at one cycle, one outbox or one pointer; this one
at what successive cycles make of each other. `due` is the first stage a cycle
has not completed, `driver` whether a process drives it; that stages keep their
order and at most one process drives a cycle is `OperationsLedger`. A stage is
one step, except the change stage: `FreezeBaseline` is the commit of the
selection to the stage row, `ReuseBaseline` a later attempt that finds it there,
`Compare` the rest. The SELECTs before that commit, and those of a discovery,
one per symbol, are one step with it. `Fail` is a stage that
fails and a process that is killed; whatever a research stage committed stays,
and a killed cycle being resumed here although the ledger refuses it only adds
behaviours. `ResearchByHand` stands for `run-current` by hand.

Discovery and change runs are immutable and their keys are checksums of what
they hold, so a run is modelled by its value: cutoff, stream, release identity
and an item per security. Two cycles without a binding and with equal cutoff,
snapshots and symbols share a discovery run; bound ones do not, since the
identity of the binding is part of the key. `Stream` stands for the profiles,
the model family and the semantics that must agree between two runs. An item has
its reason, score and rank, and a change is announced if they differ: eligibility,
coverage and component changes, invalid snapshots and changed symbols are left
out. The score is the same number with and without a binding; which release
computes it is `ModelRelease`. `Bootstrap` may happen at any time, and
`FreezeRelease` is the head of `run` and `resume`.

### RawArchive

One content and the two names of `LocalRawObjectStore.put`: the object and its
temporary file, which is named after the content too. Files are inodes: opening
the temporary file truncates whoever's it is (`OpenLeftover`, `OpenTemporary`),
writing writes the inode that was opened, a rename moves the name, and fails when
somebody else has moved it. A killed writer leaves its file as it is. That two
puts of one content overlapped is remembered in `overlapped`.

### Ingestion

`table` holds what is committed, `work[r]` what a run has written itself, `run` its
audit row, committed on its own at the start and at a failure. `Skip` and
`Write` are `_ingest_batch` for one record: an exact duplicate is counted, any other
gets the verdict of its kind (accepted, quarantined, duplicate_economic) and its
consequences (listings opened and closed, renames, successions). An insert whose
unique key another open transaction has inserted waits for it (`MustWait`,
`Proceed`), and fails if that one commits. `Verdict`, `Known` and the order of
revisions are the conditions of the eight handlers; the readers are those of
`pit.py`, `attention_pit.py`, `announcement_pit.py` and `corporate_action_pit.py`,
which do not order revisions alike. `raced` remembers that two runs overlapped,
`Reassigned` that an action or an attention record took the id of another event: the
correction moves with the id, and what it had superseded is read again.

### FinancialSeries and EvidenceFeatures

Both have one kind of action: facts arrive, late, corrected or not at all; everything
else is operators over the facts known at a cutoff. A filing becomes facts as the
NSE adapter stores them, `QuarterSeries` is `FiscalQuarterNormalizer`, `Trailing` the
TTM constructor, and so on to multiples; a value is a set with at most one element,
`{}` where the code returns None, and carries the `available_at` the code gives
it. Evidence covers the windows of `market_structure_features.py`, counts of news and
analysts with the reader's refusals, and the size of announced events.

### ComponentScoring and ScoreSnapshots

A bundle of evidence goes to one of eight scorers, to the confidence or to the
eligibility; decimals have `SignificantDigits` digits and round half to even, as the
default context does, so that what rounding may do is part of the model. An action
of `ComponentScoring` changes one item of a bundle, so that action properties can
compare two bundles.

`ScoreSnapshots` takes the scores as evidence. Its processes run `init-model` (read,
then commit) and `research` (resolve the policy, assemble, compose, insert) with
ingestion in between; `Composed` is one of the algorithms V1 to V5 with what it
refuses, `ValidSnapshot` is what `score_repository.py` refuses. Research commands call
V5 only; the others are methods the package keeps.

### MultibaggerLabels and HistoricalEvaluation

One security, and facts that become known over time. A builder works through the
cutoffs of a run: resolve, research, freeze the observation, one commit each;
outcomes likewise. `Die` may fall between any two commits, the build is then begun
again and finds rows it left; two builds of one run may overlap. A run is keyed by
the state of its sources (`SourceState`), so facts that are new make another run, and
facts that arrive late, known as of a day before they arrive, do not: `late`
remembers their kinds. Corporate actions are read as `corporate_action_pit.py` does:
first the latest revision of an external record, then one action for each event.
`Labels`, `Evaluate` and `Partition` follow from what was frozen.

### ChallengerHoldout

A command reads, checks and commits, as in `ModelRelease`, and nothing is locked:
`command[o].view` is what it read, and its update writes the columns it assigns
whatever they hold by then. `seen` are the cohorts whose labels somebody has read;
`truth` picks one of the possible outcomes of the world, which nobody knows before.
`overtaken` says that a command committed on rows another had changed since it read
them. The split, the champion's evaluation and the error analysis exist, as the
tests seed them; in production the session calendar refuses every request
(`verify_historical_session_calendar` always raises), so that no split comes to be.
The refinement maps `trial.subject` to the settled subject, the opening commit to
`Open`, the labels of a holdout cohort in `seen` to `Look` and the decision to `Rule`.

### Deployment

`trees` are the release directories, `current` the link, `told` the commit in the
environment file, `api` the release the API service runs. `install-release` builds in a
staging directory of its own, validates, renames and activates; `BuildByHand`,
`Repoint`, `Tell`, `RestartApi` and `SwitchTimer` are the operator's steps in
`docs/production-linux-deployment.md` and `docs/production-activation-runbook.md`
(external). A cycle loads modules through `current` before and after it verified its
commit; an activation in between is remembered in `moved`. `verdict` is what the launch
gate said last. Two `install-systemd` at once, the PostgreSQL audit and git's check of a
tree that another user owns are not modelled.

## 3. Runs

| Run | Instance | Shows |
|---|---|---|
| `ledger` | 2 processes, 4 stages (one optional), 2 symbols, 2 attempts, lease 2 ticks, 2 crashes, no overrun | one driver (`SingleDriver`); the outcome tells the stages (`OutcomeTellsStages`: a completed cycle is whole, a failed one has a cause); refinement of `CycleContract`, which says that stages go in order and completed ones stay |
| `ledger_overrun` | 2 processes, 2 stages, overrun, 1 crash between stages | attempts bounded, the cycle settles |
| `ledger_crash_mid_stage` | crash while a stage executes | **violated**: `RunSettles` |
| `ledger_revoked` | overrun | **violated**: `LeaseNotRevoked` |
| `delivery` | 2 drains of two cycles and smokes, 2 events, 2 attempts, 1 crash, no overrun | one in flight, audit tells status, settled rows are silent, every event settles |
| `delivery_overrun` | 2 drains of one cycle (same token), 1 event, 3 attempts, overrun | the audit is true (`AuditIsTrue`: no message without an attempt, nothing delivered that was not accepted), backlog claimable |
| `delivery_terminal_overwritten` | overrun | **violated**: `TerminalStays` |
| `release` | 2 commands at a time, 2 challengers, 2 cycles of which 1 is needed, 4 deployments | activations earned, one release per run, a burn-in stays the judgement of all its events unless commands overlapped (`BurnInStandsAlone`), refinement of `ReleasePromise` |
| `release_burn_in_repeated` | 1 challenger | **violated**: `BurnInIdempotent` |
| `monitoring` | 3 cycles of one stream, 2 securities, 5 possible snapshots and a second one of a day by hand, age limit 1 day, 1 failure, bootstrap at any time | baselines are closed earlier cycles and stay frozen, a bound cycle announces only what it discovered under its binding, the outbox is exactly the changes |
| `research_data` | the nine components below, side by side | see the next table |
| `financial_fourth_quarter` | the filings of `research_data` with the quarter that the NSE adapter gives annual columns | **violated**: `FourthQuarterDerived` |

What `research_data` shows, by component:

| Component | Instance | Shows |
|---|---|---|
| archive | 3 writers, 2 puts each, killed anywhere | `StoredIsWhole`: an object is whole unless puts of it overlapped, and then torn only while one is still writing or if it was killed |
| ingestion | 3 runs, 13 batches of one to three records of all kinds but events, cutoffs 1 to 4 | `RunTellsRows`, `ReadersSeeLatest`, `IdentityHistorySound` |
| series | 8 quarters, 12 filings, late, missing, restated, in two scopes, 9 days | `NoLookahead`, `QuartersTellBooks` |
| evidence | 11 bundles of bars, deliveries, splits, attention, loaded in any order; 4 announcements | `EvidenceTellsSince` |
| scoring | 3 digits, 2 to 5 items a metric, falling and rising curves with plateaus | `ScoreOnScale`, `ImprovementPays` |
| snapshots | 2 processes, 3 commands, 3 activations of 2 policies, 6 successive states of the evidence | `WritesAreValid`, `ComparableScores`, `OneSession` |
| evaluation | 2 builders, 3 cutoffs, 1 new run and 1 failure, facts that come later, late or corrected, contracts of 2, 3 and 5 days | `FrozenOnceBuilt`, `MaturityIsSound`, `SplitIsMature`, `ResumeAgrees` |
| challenger | 2 operators, 3 candidates of which 2 may register, 3 worlds, 2 moments | `KeepsHoldoutPromise`, `PromotedOnMerit`, `NeverStranded` |
| deployment | 2 commits, 2 installers, 2 units, 3 operations, host set up or not | `DeployedAsTold` |

Side by side means: `part` picks a component at the start and only that one moves.
They change none of each other's rows, so nothing is lost by that, and every
behaviour of a component is a behaviour of the run.

Bounds. Two processes are enough for every race here: each race is between the
holder of stale rows and one other. Two attempts show a first and a last one,
three also one in the middle. A lease of two ticks has an active, an almost
expired and an expired state. Four deployments allow bootstrap, activation,
rollback and an activation of the same or another challenger with an old
approval. Three cycles are a baseline, one in between that may be
backfilled, and one that compares; its snapshots may tie, be missing, ambiguous or
a day too old. `MaxCrashes`, `MaxFailures`, `MaxDeployments` and `ByHand`
are the only bounds on behaviour of these modules that the code does not have; the
attempts of a stage and of a delivery are bounded by the profile and the policy.

In `research_data`, two processes are again the holder of stale rows and one other; the
third writer and the third run come before, between or after them. `MaxPuts` 2 lets a
put find what a killed one left. Batches hold corrections as late as, and later than,
what they correct, values that return, listings that overlap and successions that would
close a circle. Eight quarters are two fiscal years, enough for growth over a year and
its acceleration; `LastDay` 9 is when the last filings are due. Three significant digits
make roundings that 28 digits make too, only rarely. `MaxCommands` 3 are two init-models
and a research, or the reverse. `Present = {"past"}` are the facts there at the start,
`ReturnCutoff` and `LabelCutoff` the one late outcome cutoff; contracts of 2, 3 and 5
days stand for the horizons of 2, 3 and 5 years, of which one matures, one may and one
cannot. Three candidates, two of them with the same weights, of which two may register;
in the three worlds the preferred one passes, is beaten on the holdout, or falls short
on one horizon of the validation. `MaxOperations` 3 are an installation, another step of
an operator and a cycle. `MaxRuns`, `MaxFailures`, `MaxPuts`, `MaxCommands` and
`MaxOperations` are not in the code. Deadlock is not checked: a settled cycle, a settled
outbox and a full history are ends the system may reach.

Symmetry is used in the runs without liveness only (`ledger`, `release`,
`research_data`), over processes, challengers and shadow cycles, which no
definition tells apart. In `research_data` it is over `x` and `y`, in whatever part they
are processes; `z`, the third run, has batches of its own and is left out of it.

### Fairness

* `OperationsLedger!Fairness`: a process that is up goes on, and every executor
  returns, since the clients under it have timeouts; time passes; the operator
  answers `recovery_required` with `resume-run` until a process has the lease
  (strong fairness, because others may take it first). A run that failed need
  not be taken up again: `RunSettles` counts it as settled.
* `NotificationDelivery!Fairness`: the same for a drain; the timer starts cycles
  again and again; the credentials are there infinitely often (strong fairness
  of `PrepareAndDrain`, since `transport_unavailable` is the other outcome).
* `ModelRelease` has no liveness: its commands are given by hand. Nor has
  `MonitoringCycle`: that a cycle settles is `RunSettles` of the ledger.

### Where the code and its documents differ

1. *A crash while a stage executes* (`ledger_crash_mid_stage`).
   `docs/production-operations.md:70-74` says that resume retries what is not
   completed within the attempt bound. The stage row is `running`, which
   `STAGE_TRANSITIONS` does not let start again, so every resume takes the lease
   and dies at that stage; the run never settles. Crashes at any other place
   are recovered from (`ledger_overrun`).
2. *Leases that are revoked* (`ledger_revoked`). "An active, non-expired lease is never
   stolen": a process whose stage outlasted its lease does not steal the lease of its
   successor, but its `finish_run` ends it. With overruns `KeepsContract` and
   `OutcomeTellsStages` do not hold either, for the same reason: rows read before
   another process took over are written after it. The theorems about them therefore
   assume `~Overrun`.
3. *Terminal deliveries that are overwritten* (`delivery_terminal_overwritten`).
   "Delivered and dead-letter rows are terminal", but a result is written with
   no condition on the row: a process held up past its lease turns a dead
   letter made meanwhile into `delivered` or `retry_wait`.
   `BacklogClaimable` and the theorem `EveryRetryHasDelay` say that it does no further harm.
4. *Burn-in completed again* (`release_burn_in_repeated`). The test calls the
   command idempotent, but it writes the candidate's status each time, so that
   an approved or active candidate becomes `burn_in_complete` again. Activation
   does not look at that status, so `ActivationEarned` is not affected.
5. *The fourth quarter* (`financial_fourth_quarter`). The NSE adapter labels annual
   columns with fiscal quarter 4 (`nse_financials.py:667`), the normalization looks
   for annual facts whose quarter is None (`period_normalization.py:233`). "Q4 =
   annual - 9M YTD" (`docs/period-normalization.md:34`) is therefore never derived
   from these facts, nor the trailing twelve months that need it. `research_data`
   checks the series with the label the normalization expects.

Not contradicted by any document, but worth knowing: an optional stage that has used up
its attempts fails the run at the next resume (`FailAtLimit`); a shadow event recorded
while a burn-in is judged leaves a burn-in that can be neither validated nor repeated
(`BurnInStandsAlone` is for commands that do not overlap); an approval or a shadow run
bound to a champion deployment that has been replaced can never be used again, and a
second one is refused. A release that is bootstrapped after a cycle has its discovery
binds that cycle at its next resume; its change stage then refuses the unbound discovery
at every attempt, and the cycle never closes (`LineageKept`). If it is bootstrapped
after the projection, the cycle closes with a binding that none of its facts carry
(`NotifiedUnderBinding` is about what a step adds for that reason). A cycle that
projected but failed in its delivery is not closed, hence no baseline: the next cycle
compares with the one before it and announces the changes of both (`OutboxIsTheChanges`
counts them per pair of runs).

The same of the other components, each an exception its property names:

* *Archive*. Overlapping puts of one content share a temporary file; a put that opens
  it while another renames it leaves a torn object until it has written it.
* *Ingestion*. Overlapping runs decide on what the other has not committed, so two
  listings may overlap. A source quarantined once counts as a duplicate when it comes
  again, also after its security has become known. A value that returns to a former
  one is dropped as an economic duplicate (`service.py:1259`). An action whose external
  id moves to another event leaves the old event without it, or with the observation
  that it had corrected.
* *Series*. A balance sheet is stored under the longest column of its filing
  (`nse_financials.py:635`), so that filings of different columns may leave no common
  period; the endpoint may move back when another scope becomes the preferred one.
* *Other evidence*. Relative strength and independent delivery count their
  `available_at` from the ends of their window only (`market_structure_features.py:321`).
  Two attention records of any company that tie block all reads of the provider
  (`attention_pit.py:91`). Prices are divided by split factors with the rounding of
  the context (`market_adjustments.py:309`), which `docs/architecture.md:548` does not
  mention.
* *Policies*. Two init-models that race leave two active configurations; from then on
  every resolution is refused, and no command retires one
  (`docs/scoring-policy.md:53-55`).
* *Evaluation*. A failure of research is frozen as an observation, so that a build that
  then dies conflicts with it when it is taken up again. The note whether a snapshot was
  created differs after a crash (`research_cli.py:262`). A status is written over
  whatever it has become (`set_status`). The key of a label run omits the end of the
  listing. A corporate action whose revision says another day or another type (a rights
  issue that becomes a split) changes a label after it has matured. No gap is left
  between the windows of development labels and the holdout. Universe intervals are
  closed where listings are half-open (`historical_universe.py:418`), and a corrected
  MII snapshot of a day can never be ingested.
* *Challenger*. A registration can commit after the seal, a development evaluation
  overtake it, a candidate be there without validation metrics so that the freeze fails
  with a KeyError, and two evaluators open the holdout together; hence
  `~overtaken` in `NeverStranded`. `KeepsHoldoutPromise` holds all the same.
* *Deployment*. A cycle that an installation overtakes may load modules of two
  releases; a preflight of the release alone passes the launch gate; a preflight reads
  its facts at different moments.

## 4. Proofs

All theorems are `THEOREM Spec => ...` for every value of the constants that
satisfies the named assumption of the module (`LedgerAssumption`,
`DeliveryAssumption`, `ReleaseAssumption`, `MonitoringAssumption` with
`NullAssumption`).

*OperationsLedger*, in `OperationsProofs`. Without a further assumption: `TypeCorrect`,
`LeaseRowCoherent`, `AttemptsBounded`, `TakenOnlyExpired`; the first, the second and the
last are stated by the proofs only. The attempts are bounded although they are counted
in Python, because a start writes one more than a count that was below the limit when it
was read, however old that read is. With `~Overrun`: `OneDriver`, `StagesInOrder`,
`ClosedIsWhole`, `FailureHasCause`, `OutcomeIsTrue` (the last two in one, as the run
checks it), `CompletedStagesKept`, `ActiveLeaseKept` and the refinement `ContractKept`.
The heart of it is that a process that is not idle owns an unexpired lease, hence is the
only one, hence its `view` equals the rows; the rest of the strengthening says what each
`pc` knows about the stages before `at[w]`.

*NotificationDelivery*, with overruns and shared tokens: `TypeCorrect`,
`EveryMessageAudited`, `DeliveredIsTrue`, `AuditTrue` (both of them), `EveryRetryHasDelay`,
`BacklogStaysClaimable`. A claim a process holds never has a
higher number than the row counts, nor than the row it has read; a row has
attempts exactly up to its count, so that counting them tells whether another
claim was taken since the row was read; and who was told that the provider took
the message knows that it is among the accepted ones. With `~Overrun`:
`OneProcessInFlight`, `AuditTells`, `SettledStaysSilent`, `TerminalKept`. All four follow
from `LeaseInv`: a process between its claim and its record still holds the claimed
row, whose lease has not run out; so nobody else can claim or bury it, what
was read of it is what it is, and the last attempt tells the status.

*ModelRelease*, with any number of racing commands: `TypeCorrect`,
`PointerIsHistory`, `ActivationsEarned`, `RunHasOneRelease` and the refinement
`PromiseKept`. The invariants alone are not inductive: a command commits on what
it has read. `WorkSound` says what survives between the two: burn-ins and
approvals are inserted once, so what was read of them still is; a deployment
that was the champion's stays so; and while an activation is under way the
pointer cannot move. A challenger is active at most once because a deployment
of it replaces the deployment its single approval names (`NotPromotedYet`).
`AloneBurnInStands` says, for any number of operators, that a burn-in stands as long as
no two commands overlapped: what the command that is alone has read is still what is
there when it commits (`ReadIsCurrent`), and `overlapped` never goes back.

*MonitoringCycle*, in `OperationsProofs`, for any cycles, cutoffs, evidence and number
of failures: `MonitoringTyped`, `BaselinesClosed`, `RunsStayFrozen`, `NotifiedBound`,
`OutboxExact`. The step from one state to the next rests on `RunsFrozen`: a discovery is
made only while nothing is frozen (`NotYetFrozen` is the strengthening that says so),
and a baseline is selected only then. A closed cycle therefore keeps the discovery that
others took as their baseline, and what a cycle projected stays the changes between its
runs. `NullAssumption` says that SQL NULL is no run.

*RawArchive*, in `RecordProofs` (`RawArchiveAssumption`: finitely many writers):
`ObjectsWhole`, and `ObjectsApart`, that the object never is the temporary file. What is
under the temporary name is whole, or left by a put that died, or still being written
(`LeftoverExcused`); and a put that is alone holds it (`HoldsTemporary`,
`AloneUnlessOverlapped`), so that what it renames is what it wrote.

*Ingestion*, in `RecordProofs` (`IngestionAssumption`: finitely many runs, batches that
are finite sequences of records of the known kinds): `RunsTellRows`, with any runs that
overlap, wait for each other, fail and die. `Tallied` says what has become of the
records an open transaction has done with, `Progress` that it has done with them in the
order of the batch and each has arrived, `Held` that the rows of a transaction that
waits are those of its next record; a commit then adds rows and takes none away. With
runs that follow each other (`~raced`): `HistoriesStaySound` and `ReadersSelectLatest`,
from one invariant (`SerialInv`) that the committed rows and the rows a run sees are
sound alike. Listings (`HistorySound`) need besides that intervals and successions name
securities that are there; readers (`FactsSound`) that facts are numbered in the order
they were accepted, and that of two rivals the later one is ordered last by what its
reader compares (`InOrder`). That a reader then selects exactly the latest is a lemma
for each reader.

*ChallengerHoldout*, in `RecordProofs` (`ChallengerHoldoutAssumption`: numbered
candidates, constants that are apart, a holdout cohort): the refinement
`HoldoutPromiseKept`, with any commands that overlap and die. A command that makes a
holdout run has read its subject in a freeze row (`CreatesKnown`); one that opens it is
past the durable opening before it reads a label, and has read the labels before it
decides (`OpensKnown`). `EarnedTwice` says that whoever passes is better by the true
labels. Most of it is about operators: the metrics of pooled rows are fractions of
counts, comparing fractions is a strict order, so that the sequential search for the
preferred candidate finds one that passes the gate if there is one (`SearchAssumption`:
at least one candidate and moment); `MeritInv` then ties each verdict that is stored or
held to the metrics it was given on. `NobodyStranded` needs `AgreeInv`: unless a command
was overtaken, what a command knows (`Knows`) is still so, and status, candidates,
freezes and trial are in step (`RowsAligned`, `TrialAligned`). `ChallengerTyped` rests
on `KindInv`, which kind of argument each command holds.

*Deployment*, in `RecordProofs` (`DeploymentAssumption`: Nowhere is no commit):
`DeploymentIsTold`, for any commits, installers, units and operators. A tree that was
validated is never touched again (`WholeStays`), since builds go to a staging directory
or to a tree that lacks a part; whoever remembers a release saw it validated.

*ScoreSnapshots*, in `ResearchProofs` (`SnapshotAssumption`: evidence whose items are
within their bounds, policies that pass their own validators): `SnapshotsTyped`,
`ScoresCompare`, `SessionsAgree`, `WritesPass`. The first three follow from `SnapshotInv`:
what a process holds was found among the configurations in force at its cutoff (`InForce`),
and a second configuration is only ever added to them, which makes every later
resolution fail, so that two snapshots of a cutoff never differ (`OneConfiguration`).
`WritesPass` shows that whatever the algorithms compose passes the repository's checks:
the sums of the parts of a component, of the components of a family and of the weights
are what the validator adds up. For this the sums of the community modules are shown to
be the unique function with their recursion (`SumsOver`), by induction over finite sets put as
the search for a smallest set that fails (`NoneIsBad`).

*HistoricalEvaluation*, in `ResearchProofs` (`HistoricalEvaluationAssumption`: finite
shipments of dated facts, research cutoffs that ascend): `EvaluationTyped`,
`RunsStayFrozen`, `SplitsAreMature`, `ResumesAgree`, `LabelsMature`. `EvInv` says how
far a builder is in its run (`InStep`) and which rows a run of each status has
(`Coherent`); its step lemma, that every commit only adds (`Keeps`), gives
`RunsStayFrozen`. `SplitsAreMature` adds `LabelInv`, where labels come from, and that
the cohorts of a split are a subsequence of the ascending cutoffs. `ResumeInv` says
that, as long as nothing arrived late, an observation is what research finds at its
cutoff (`Findings`, which do not change) and an outcome what its facts answer; the note
of what changed since the cutoff before is why a builder must remember it (`Remembers`).
`MaturityInv` says that a label run follows from the facts of its key and from the
listing end it read (`Follows`, `HasRead`). The rest of `LabelsMature` is about
operators: a label reads only facts up to its day of maturity, so that reading the same
facts at that day already gives it; splits multiply shares (`Worth`, `Reaches`), and
those that come later leave the comparison of two prices as it was.

*FinancialSeries*, in `ResearchProofs` (`SeriesAssumption`: filings due on days after
their quarter ended, whose columns end with it, over whole numbers; filings that rival
each other are not due on one day, since `_financial_later` accepts a changed fact only if
it is later than what it changes): `QuartersAreTheBooks` and `NothingKnownEarly`. The
only fact about behaviour they need is `SeriesInv`, that every figure is what one filing
of the calendar stated on a day it was due; the rest is about operators, from what is read
at a cutoff to what is made of it. For `QuartersAreTheBooks`: one figure is known of a
metric and period, a quarter found twice is found alike (`OneFact`, `FoundIs`), the
difference of two cumulative sums over one year is the quarter between them, and four
quarters that follow each other without a gap are four numbers of the books in a row.
For `NothingKnownEarly`, `Foreseen(A, B, c)` says of what is derived the day before a cutoff
and at the cutoff that whatever in `B` claims to be older than `c` is in `A`; it holds of
the figures because readers select by `available_at` (`EveningIs`), and each operator
preserves it: a quarter is as late as the later of its two parts, a window of quarters as
its latest. Sorted sequences are the awkward part: a quarter that becomes known moves all
that follow it, so windows are described by what they hold and not by where they stand
(`Windows`, `StretchesAre`), and a sequence of quarters by the set it sorts (`Rise`).

*EvidenceFeatures*, in `EvidenceProofs` (`EvidenceAssumption`: finite bundles of dated
facts, a day has one bar at a time; and `SeriesAssumption`): `EvidenceToldSince`, for
any evidence loaded in any order and windows of any length. Of the behaviour it needs
that what is gathered is finite and comes from the bundles, and `SeriesInv`. `Since(A,
B, c)` says of a feature that what it tells at a cutoff it told the day before, unless
it says it became available at the cutoff; each of the thirteen features of market and
attention has a lemma of that form. For prices the heart is `TailSince`: if no bar of a
window became known at the cutoff, the last bars were the same the day before, since a
day that has a bar keeps one; and a bar that does not count as rebased at the cutoff was
divided by the same splits, because a split that appeared would make it as late, and a
split that was superseded is replaced by one on the same day that is (`ActionReplaced`).
Here and for attention (`TellsStill`) the proof needs that no record came to tell of
something else (`StillAbout`), and it shows where the other two gaps of the property are
needed: strength and delivery count bars whose days of availability they do not take
over (`SameBars`), and a refused read says nothing. A record tells of something else
when its day changes, an action's type, or a count's company or metric (`Subject`). An
event is no older than the revenue it is measured by, because no quarter is later than
the cutoff it is read at (`RevenueKnown`).

*ComponentScoring*, in `ScoringProofs` (`PolicyAssumption`: policies that pass their own
validators, in whole percentages, and two significant digits or more;
`OfferedAssumption`: bundles of exact fractions, whole numbers and events of the known
types): `ScoringTyped`, `ScaleKept` and `Improvement`, for any policy, curves, bundles
and precision: TLC runs with 3 digits, the default context of the code has 28.
Everything rests on what one decimal operation does: `RoundsTo(r, n, d)` says that `r`
is the exact fraction `n/d` rounded half to even to `SignificantDigits` digits. Two
consequences carry the two properties.

* Rounding keeps order (`RoundedInOrder`): what is made of larger numbers is not smaller.
  So are interpolation on a rising curve, a product, a quotient and a sum term by term; an
  improvement of one figure moves each signal the way its curve expects, and leaves the
  set of subfactors that are available, hence the weights, as it was (`Improvement`).
* Rounding errs by half a unit of the last digit, and not at all on what is short enough
  already (`Short`). A part, weighed by a quotient of whole percentages, is therefore off
  by one unit of the last digit of a number below a hundred at most (`TermError`), and
  their sum, of seven at most, by less than the `slack` of `ScoreOnScale`
  (`AverageStays`). That the sum never exceeds a hundred by even that much is another
  argument: it is no larger than if every part were a hundred, and then it is a sum of
  rounded shares of a hundred; from 10 on short decimals below a hundred are multiples of
  its last digit (`OnTheGrid`), so that such sums gather less than four of it
  (`SumsNear`), and what is up to four of it above a hundred rounds to a hundred
  (`HundredAbsorbs`).

What the default context makes of the exponents (`Aligned`, `Divided`) is reasoned about on
a common scale: `On(a, k)` is the whole number `a` times `10^k`, for every `k` large enough.

*MCResearchData*, in `ResearchDataProofs`: its `Spec` implies the specification of each of
its nine components (`ComponentsApart`), since every step is a step of one and leaves the
rows of the others alone. `ResearchDataTyped` therefore follows from the type theorems of
the components (`ArchiveTyped`, `IngestionTyped`, `SeriesTyped`, `EvidenceTyped`,
`ScoringTyped`, `SnapshotsTyped`, `EvaluationTyped`, `ChallengerTyped`, `DeploymentTyped`),
and `ResearchDataSound` says that all that the run checks besides holds for every value of
the constants. It adds no argument of its own: components that hand over finished rows do
not interact in any other way here.

The assumptions of all modules are evaluated in the runs.

*Only model-checked*, and why:

* Liveness (`RunSettles`, `EventSettles`), which needs fairness and ENABLED.

## 5. Not modelled, and what is left

Not modelled, and why:

* *Documents*: assets and extractions are found by the checksum of their content and
  inserted under a unique key in one transaction, which `Ingestion` shows for source
  records; two acquisitions of changed content at once may both be accepted as
  unverified, since the conflict check reads committed rows. Download and the extraction
  of text are left to tests.
* *HTTP clients* of NSE and GDELT: bounded retry loops around a stateless request;
  `Fairness` relies on their timeouts. Parsing of the exchange's formats is
  conversion, but for the fiscal periods (`FactsOf`).
* *Event detection in text*, ages of features, units, per-share metrics, lineage,
  explanations, diagnostics, summaries, checksums and canonical JSON.
* *The historical universe and session calendar*: the universe's shards are
  immutable rows written once; the calendar always refuses.
* *Production health* and the *read API* are read-only queries without state, the
  *web frontend* renders the API. *Migrations* and the remaining tables are
  declarations.
* The readiness report of releases, the revalidation of the holdout evidence behind a
  candidate, payloads of notifications and the launch smoke's review of scores.

Left to do: a composition of `ChallengerHoldout` with `ModelRelease`, which takes its
candidates from a passed holdout; the launch smoke's review. A separate run per research
component would only repeat what `part` does: runs are kept to one per question.
