# MarketPilot: a TLA+ verification project

MarketPilot is a decision-support platform for same-day SPX option strategies.
It never trades; its answer is a candidate or NO_TRADE, and its value lies in
what it can prove afterwards: which model version decided, who approved it,
what data it saw, which alerts reached whom, and what the data cost. Nearly
every component is therefore an append-only record with a small state machine
recomputed from it, and the interesting failures are those of records written
by several threads, processes or crashed commands. This project models those
machines in TLA+, checks them with TLC and proves the central ones with TLAPS.

Paths below are relative to `src/marketpilot/` unless they name another
directory of the repository.

## 1. Inventory

| Component | State it keeps | Operations | Hard behaviour |
|---|---|---|---|
| Governance registry, in-process (`governance/registry.py`) | versions, champion and frozen champion per session, audit events, spent approvals | register, promote, rollback, freeze_session | shared by request threads without a lock; approvals must be spent once |
| Governance store (`services/postgres_governance_store.py`) | the same in four append-only tables | the same, as transactions | several processes, advisory locks, identity order, lost connections |
| Decision path (`services/api.py`, `decision/`, `models/strikepilot/`) | decision log, session freezes, capability report | run_decision, champion endpoint, probes | freeze and run are separate; midnight; restart with an in-memory registry |
| Alert engine (`alerts/engine.py`) | alert episodes, observation counts | observe, record_feedback, due_escalations | caller's times go back; cooldown against hysteresis |
| Alert stream (`services/stream_attribution_*.py`, `services/operations.py`) | feedback, stream events, deliveries | feedback, sync, stream | identity order against cursor, audit before frame, lost connections |
| Attribution reviews (same files) | tasks, reviews | create, review | check-then-append, reviews ordered by the time they carry |
| Alert outbox (`services/alert_delivery_service.py`, `_store.py`) | messages, attempts, events | enqueue, dispatch_due, acknowledge, escalate_due | times in any order; several commits per operation; retry and escalation share a budget |
| Collector (`services/collector_service.py`) with quote quality and calendar | connection state, retry budget, watermark, latest quotes | run over events | duplicates, times that go back, stop and reconnect, stale quotes |
| Audit repositories and start-up (`services/repository.py`, `postgres_repository.py`, `runtime_persistence.py`) | immutable rows, schema and denial triggers | appends, start | half-made files, competing appends, dropped triggers |
| Readiness (`services/readiness.py`) | hash-chained shadow ledger, manifest | shadow-record, evaluate | overlapping and dying commands, edited files |
| Restore drill (`restore_drill.py`) | docker resources, report file | run_restore_drill | failing commands, cleanup without a daemon, killed process |
| Ingestion (`ingest/`, `services/raw_landing.py`, `cli.py`) | object files, receipts, point-in-time ledger, cost ledger, reports | ingest-plan, ingest-run | crash between files, concurrent commands, provider failures, money spent before the gate |
| Replay (`services/replay.py`, `domain/point_in_time.py`) | point-in-time records | append, build, emit and replay manifests | look-ahead, late records |
| Label and feature batches (`validation/excursion_batch.py`, `features/entry_snapshot_batch.py`) | label and feature files | generate_labels, generate_entry_features | commands that overlap or die while history lands |
| Risk lock (`events/risk_lock.py`) | none | assess | order and boundaries of instants |
| Walk-forward, promotion gate, condor economics, exit rules (`validation/`) | none | pure functions | leakage, look-ahead, missing evidence, days that raise |
| Tail models, features, execution and risk economics | none | numerical functions | floating point |
| Adapters, authentication, web UI | external or none | I/O | outside a model's reach |

How they interact: the decision path freezes a session in the governance
registry and runs the loaded model only if it is the frozen one; its LIVE gates
read the capability report. Alerts and their feedback feed the stream
(projection of alert states) and the outbox (messages). The ingestion ledger
feeds replay manifests and the label batches, whose labels feed the day
economics and, through validation reports, the evidence a promotion cites. Shadow
sessions are what the readiness gate counts. Each cites the digests of its
drills, the restore drill's report among them; the code checks that a digest is
present and well-formed, not what it is the digest of.

What makes each component correct:

- governance: the audit trail alone determines the champion, is a chain per
  model, spends each approval once, justifies each promotion, and a session's
  frozen champion never changes; its durable store changes only by those atomic
  operations, whatever interleaves or fails, and no transaction waits forever;
- decision path: what was frozen is what ran, a session has one identity, LIVE
  fails closed, equal snapshots decide equally, the log survives;
- stream: one event per state, nothing skipped, repeated or sent unaudited, and
  a client catches up; outbox: bounded sending, nothing after a terminal event,
  nothing left without a next step, full time before each escalation, cooldown;
- collector: a permit rests on fresh quotes of both sources seen since the last
  fault; backoff, budget and watermark hold; a halt is final;
- audit: a half-made store is refused, an acknowledged row stays, verdicts stand;
- operations: the ledger chain and what was acknowledged survive overlapping and
  dying commands, edits stop recording, an admission verdict rests on what was
  recorded, and a drill's report says what the drill found;
- ingestion: what the ledger shows is completely there, recorded once and paid
  once; spending is within the recorded estimate and the ceiling;
- replay, batches and algorithms: no look-ahead, no drift, no silent day, no
  leakage between training and test, no pass without evidence.

`PROJECT.json` lists the hazards by line with the properties that cover them.

## 2. Modules

| Module | Models | Grain |
|---|---|---|
| `ChampionRegistry` | `governance/registry.py` | one step per call; abstract specification of governance |
| `RegistryThreads` | the same object under request threads | one step per dictionary, set or list operation |
| `PgGovernance` | `services/postgres_governance_store.py` | one step per SQL statement; refines `ChampionRegistry` |
| `DecisionPath` | `services/api.py` and what it calls | one step per access to shared state; uses `ChampionRegistry` through INSTANCE |
| `AlertStream` | feedback, projection, stream | one step per transaction or frame |
| `AuditRuntime` | audit stores, start-up, reviews | one step per statement |
| `Collector`, `DataQuality`, `TradingCalendar` | collector run, quote quality, session gates | one step per event |
| `Readiness` | shadow ledger and admission gate | one step per file operation |
| `RestoreDrill` | the drill | one step per docker command |
| `AlertOutbox` | alert outbox | one step per call, plus the crashes inside calls |
| `IngestPipeline` | ingestion commands | one step per file operation or provider request |
| `Replay`, `AlertEngine`, `LabelBatch` | state machines of the same names | one step per call or day |
| `RiskLock`, `WalkForward`, `PromotionGate`, `CondorEconomics` | pure algorithms | operators |
| `Workbench` | the previous two rows side by side | one job per behaviour |
| `Evidence` | `Readiness`, `RestoreDrill` and `Workbench` side by side | one part per behaviour |
| `...Proofs` | | TLAPS proofs |
| `MC...` | | instances for TLC |

Definitions whose names start with `Bug` are faulty variants of the definition
that follows them. They are not used by any specification; `PROJECT.json` pairs
each with the property that must fail when it takes the definition's place.

**ChampionRegistry.** The variables are the registry's five attributes.
`_versions` and the two champion dictionaries are functions with `None` for an
absent key. An approval's id is the hash of its content, so approvals are
identified with their content; an audit event carries exactly the fields of
its approval, so `events` is a sequence of approvals. A call that raises
changes nothing and is simply not enabled. `BootstrapRollback` is `FALSE` for
the in-process registry; it exists because the PostgreSQL store differs there
(section 4).

**RegistryThreads.** `services/governance_router.py` and `services/api.py`
declare synchronous handlers, which the framework runs on a thread pool, and
with the default backend they share one `FrozenChampionRegistry`. Each thread
looks up the target, reads the champion, checks, sets the champion, spends,
appends the event (or runs the steps of register and freeze) with arbitrary
switches in between. The module extends
`ChampionRegistry`, whose variables and checks it uses; its own initial
predicate, steps and specification are `ThreadInit`, `ThreadNext`, `ThreadSpec`.

**PgGovernance.** Each process has one connection under one lock, so one
transaction at a time. `db` is what is committed, `tx[c]` what connection `c`
has inserted since. Statements read committed rows (READ COMMITTED), inserts
with `ON CONFLICT DO NOTHING` wait for an uncommitted row with the same key,
advisory locks are FIFO queues released at the end of the transaction, and the
identity value of an event is drawn at the insert and never returned. `Crash`
loses a connection between any two statements. PostgreSQL's behaviour is
external to the repository and taken from how the store relies on it.

**DecisionPath.** A request thread reads the gates, then the clock, then
freezes, then runs and records; every other thread, the day's end, a probe, a
governance call or a restart may come between. The registry part is the
variables of `ChampionRegistry` and its operators; a governed change is one
step, since its own interleavings are the business of `RegistryThreads` and
`PgGovernance`. The two failure sentinels of the code are `Missing` and
`Unavailable`; the database may fail before the freeze is committed or after,
when its answer is lost. A snapshot is the record of what `freeze_snapshot` hashes. A
restart may load other rules (strike grid and wing, and so another artifact) and
empties the registry with the sqlite backend.

**AlertStream.** An event's identity is drawn when it is projected and becomes
visible when its process commits. A connection is the generator of
`stream_frames`: it projects, reads what is after its cursor, and for each
event records the delivery, yields the frame and moves the cursor. `Layouts`
lets both connections be served by one process or by two. Feedback carries the
instant and the place of its ISO string among the others, which differ when
offsets differ.

**AuditRuntime.** The schema is a set of objects (tables and denial triggers),
each created in its own transaction by a start that may be cut off. Appends of
the sqlite store look up and insert, those of PostgreSQL insert on conflict and
compare. Reviews are a set of rows with the time each carries. `hist` remembers
which tasks had overlapping reviewers or back-dated reviews.

**Collector.** `Receive` is one turn of the loop of `run`: duplicate, regression,
schema and halt checks, the transition of the event's kind, freshness, sticky
reasons. The quality report, capability and session gates make `RunPermitsDecision`.
`hist` is a history variable: the sources quoted since the last fault, losses
since the last connect, the newest source time, the last fault.

**Readiness.** Recording commands take the file lock, load and verify the chain,
and write one line; a line is torn, whole, or glued to an unterminated one, and
an edit changes, removes or cuts lines. Any session summary that
`domain/readiness.py` accepts may be recorded. What
`docs/operations/readiness-evidence.md` asks of operators, to cite the digest of
a drill that passed, is not checked by the code, so no property connects a
verdict with a drill.

**RestoreDrill.** The drill's steps, its cleanup and its report, for several
drills in a row over one report file. `_verify_restored_database` hashes four
projections (decisions, manifests, checkpoints, governance) and counts tables,
triggers and keys; a restored copy that differs elsewhere, in the rows of
another table, passes it. So `copy` is `"same"`, `"elsewhere"` or `"differs"`,
and PASS claims no more than the checks look at.

**AlertOutbox.** A message's events are kept as the store returns them, ordered
by `recorded_at` and then by insertion. Calls take any time in `0..MaxTime`, in
any order. Attempts are numbered by counting rows, so the count is kept. The
channel policy's numbers are constants; whether delivery is enabled is a
variable that a restart may change. `torn[i]` is a history variable that counts
the crashes inside an operation on message `i`.

**IngestPipeline.** A command is planned batch by batch (definitions bought,
landed and recorded during planning), passes the cost gate, then lands batch by
batch. Files are the five variables of `files`. `paid` is a history variable
with what the provider billed, `overlap` one that remembers whether two
commands ever ran at the same time: nothing in the code excludes it, and
`OneRecordPerKey`, `LandedDayNotBilled` and `ExclusiveLedgerVerifies` are
claimed only of histories without it. The other properties hold with
overlapping commands too. `Crash` ends a command anywhere and may leave a
partial object file. Lines of the JSONL files are appended by one write and are
taken as atomic.

**Workbench.** Components that share nothing and are small enough to be checked
exhaustively together. A behaviour picks one job, so that their state spaces
add up. The algorithms work on integers: prices in points, times in minutes;
floating-point rounding is not modelled. Their references are declarative: a
split is checked against "no training sample within the gap of a test sample
and no shared group", a gate against removing one slice at a time, required or
not, from passing and failing requests alike, an exit
against the same day with all later quotes taken away, an assessment against
assessments at later instants.

## 3. Runs

| Run | Bounds | What it checks |
|---|---|---|
| `registry` | 2 models, 3 versions, 6 candidate records, 10 approvals, 2 sessions; 23,688 states | `AuditChain`, `ApprovalSpentOnce`, `PromotionsCarryEvidence`, with a spent approval whose source is champion again after a rollback, rival registrations of a label, wrong evidence, late training |
| `pg_governance` | 1 model, 2 versions, 2 connections, 2 crashes; 134,561 states | `ImplementsRegistry`: the store refines `ChampionRegistry`; `TransactionsEnd` |
| `registry_threads` | 2 threads, 8 calls; 45,916 states | what survives without a lock: `FrozenWasInstalled`, `ReuseIsBounded` |
| `decision` | 2 threads, 2 decisions, 2 versions, 2 rules files, 2 days, 2 starts, both backends; 2,128,065 states | `GovernedRunsTheFrozenVersion`, `OneIdentityPerSession`, `LiveFailsClosed`, `SnapshotDeterminesDecision` |
| `stream` | 1 alert, 2 clients on 1 or 2 processes, 2 of 3 feedbacks, 1 failure, both backends; 341,664 states | `ClientsSeeTheLog`, `LatestFeedbackWins`, and under fairness `CatchesUp` |
| `collector` | 6 event identities, 5 instants, 2 sources, budget 2; 303,496 states | `PermitIsEarned`, `BudgetCountsLosses`, `BackoffBeforeStreaming` |
| `audit` | 2 processes, 2 tables, 1 key with 2 payloads, 1 task, 2 reviews, 1 crash, 1 dropped trigger; 690,433 states | `StartsAreSound`, `AckMeansStored`, `VerdictStands` |
| `outbox` | 2 messages of one key, times 0..3, 2 attempts, 2 escalations, 1 crash, 1 restart; 406,860 states | `AttemptBudget`, `NeverStuck`, `EscalationPacing`, `TerminalIsFinal` |
| `ingest` | 2 commands, one after the other or at once, 2 crashes, a day with contracts or one without, 6 batches; 1,064,562 states | `VisibleIsWhole`, `SpendIsAccounted`, `ReportMatchesLedger`, `LandedDayNotBilled` |
| `evidence` | 2 record commands, 3 sessions, 2 deaths, 2 edits; 2 drills, 1 kill, 2 outages; 3 records on 2 keys; 3 alerts; 3 label or feature commands over 4 days; every split of up to 4 samples in 3 groups, gate on up to 3 slices of which 2 are required, event timeline, quoted day and pair of days of the instance; 1,764,900 states | `LedgerIsWhole`, `AdmissionRestsOnTheLedger`, `ReportIsTrue`; `ReplayNeverDrifts`, `ClosedStaysClosed`, `LabelsAreRight`; `SplitIsSound`, `PassNeedsEverySlice`, `ClearsWhenPromised`, `HoldIsTheBaseline`, `ExitsAreFair` |
| `registry_reuse` (violation) | as `registry_threads` | `ApprovalRejectedTwice`, see section 4 |
| `stream_order` (violation) | 2 processes | `NeverReordered`, see section 4 |

The comment before each property says what it claims. `ClientsSeeTheLog`,
`PermitIsEarned`, `StartsAreSound`, `LedgerIsWhole`, `ReportIsTrue`,
`SplitIsSound`, `ClearsWhenPromised`, `ExitsAreFair` and `LabelsAreRight` are
conjunctions of properties stated just before them. The runs keep the
properties that take several steps or actors to break. The modules also state
plainer ones: the type invariants, and `LineageIsRooted`, `AtomicAudit`,
`EventIdsFollowCommits`, `FreezeIsStable`, `AckClosesHistory`,
`CooldownSpacing`, `LiveSessionsAreNotPreFrozen`, `StrikesAreTight`,
`DecisionsSurvive`, `OneEventPerState`, `StreamingIsFresh`,
`WatermarkIsNewest`, `HaltIsPermanent`, `RetainedIsKept`, `StartsEnd`,
`EditStopsRecording`, `AcceptedIsTheView`, `AlertsSpaced`. TLC
finds no error in any of them on the same instances when they are added to the
configuration; some are proved (section 5).

Why the bounds are enough: every property is about at most two events,
approvals, messages, rows or batches and their order; each instance has at
least two of each, plus one of a different kind to interleave. Two connections,
threads or processes are enough for a race between a check and its use, and for
one of them to wait on an advisory lock while the other waits on a unique key.
Two ingestion commands let the second meet everything the first left behind, or
run into it. Times 0..3 with timeout 1 and backoff 1 and 2 leave room for
delivery, two escalations and a late acknowledgment. Six events are enough for
the collector to connect, receive both sources, lose the connection and stream
again. Two starts are one restart; two days are one midnight.

Deadlock checking is on where the system never stops or has a `Done` step for
the end of its bounded work. It is off (`CHECK_DEADLOCK FALSE`) in `decision`,
`audit` and `evidence`, where a bounded number of requests, starts, drills or
jobs really ends and nothing is left to do.

Fairness, never of requests or faults, and weak unless said otherwise:
`pg_governance`: the statements of each connection, which a request thread
executes as soon as the server lets it, locks being granted in queue order.
`stream`: commits; and strong fairness of the turns of each connection, the
reconnect of its client included: an open generator keeps taking them, but each
needs its process's store lock, which other connections take and release.
`audit`: the steps of a start and of a request, which are straight-line code.

## 4. What the code does not keep

Two violation runs state the disagreements where the code's text is plainest;
the others are definitions of the modules that no run claims, and adding one to
the configuration of its module's run shows its counterexample.

| Statement | Source | What happens |
|---|---|---|
| `AlertStream!NeverReordered` (run `stream_order`) | `docs/operations/production-persistence.md:30-31`, "never reuse or reorder committed identifiers" | identities are drawn before commit and the lock is one process's: with two processes a smaller identifier commits after a larger one, and a cursor that has passed it skips it |
| `PgGovernance!DropInCounterpart` | docstring at `services/postgres_governance_store.py:564`, "Drop-in durable counterpart" | a rollback without source installs a model's first champion; the in-process registry raises |
| `RegistryThreads!ApprovalRejectedTwice` (run `registry_reuse`) | `tests/test_model_governance.py:157`, reused approval is rejected | the reuse check and the entry into the spent set are separate and no lock covers them: two threads present one approval and both are recorded; `ReuseIsBounded` says how far it goes |
| `AlertOutbox!IdempotentById` | `tests/test_alert_delivery_outbox.py:192`, idempotent by id | repeating the enqueue of a stored message raises after a newer one of the same dedupe key |
| `IngestPipeline!CostLedgerVerifies` | docstring at `ingest/cost_ledger.py:30`, hash-chained record | two overlapping commands break the chain; every later command fails on it |
| `IngestPipeline!PlanningIsIdempotent` | `docs/development/historical-ingestion.md:45-46` | planning again buys recorded definitions again |
| `IngestPipeline!LandedOrAbsent` | `docs/development/historical-ingestion.md:108-109` | a crash between landing and recording leaves an object nothing names |
| `AuditRuntime!VerdictIsFinal` | `_validate_review_transition` | two reviewers at once, or a back-dated review, give a task two verdicts |
| `Collector!RefusedIsSafe` | `services/collector_service.py:94` | a refused event with an earlier time is still the clock of the quality report and can turn the permit on |
| `RestoreDrill!CleanedAlwaysMeansGone` | `restore_drill.py:428` | a daemon that stops answering during the cleanup looks like absence |

Smaller observations: `rollback` never asks whether its target was champion
before or carries a report, so `PromotionsCarryEvidence` says nothing about
rollbacks. A shadow-record command that dies just before its newline makes the
next record unreadable together with its own (`LedgerIsWhole` excludes it). A
cut at the end of the shadow ledger is not detected. A shadow session may cite
any digest as its drill, and a restore drill passes although rows outside its
four projections, alerts for instance, were not restored. One day whose credit
exceeds the wing aborts the whole economics batch. On a debit, stop and profit
target of the exit rules change places. A P0 observation inside the cooldown of
a P1 alert is folded into it and never escalates.

## 5. Proofs

`RegistryThreadsProofs` proves in its first part about `ChampionRegistry`
(which `RegistryThreads` extends), with either value of `BootstrapRollback` and
for all values of the constants that satisfy its assumptions (candidates and
approvals are records of their types, `None` is not a version, a report or a
record):

- `RegistryTypeOK`, `ChampionIsAudited`, `AuditIsAChain`,
  `ApprovalsAreSpentOnce`, `PromotionsAreJustified`,
  `FrozenSessionsWereChampion`: invariants (section 3 says which the `registry`
  run checks);
- `HistoryIsAppendOnly`: the action property `HistoryOnlyGrows`.

The inductive invariant is `RegistryInv`, the conjunction of `TypeOK`, the five
invariants and `ChampionRegistered` (the champion of a model is a registered
version). They need one another: the chain extends because the champion is the
target of the last event and the approval's source is the champion; a freeze is
justified because the champion is audited and registered; approvals are unique
in the trail because the spent set is exactly the trail. `ChampionRegistered`
is the one strengthening that is not itself of interest: without it a session
could be frozen to a version that is audited but unknown. Promote and rollback
change the same four things in the same way, so both are reduced to one
`ChampionChange` lemma and the invariant is proved once for it.

Its second part proves for any number of threads and calls, under the same
assumptions, what the unlocked registry keeps: `FrozenIsAudited` and
`ReusesAreBounded`, the invariants of the `registry_threads` run; and
`FreezesAreStable`, the action property `FreezeIsStable`.
`FrozenWasInstalled` speaks of quiet states only and is not
inductive. `ThreadInv` says what holds between: the spent
set is the audit trail plus the approvals of the threads about to append their
event; a champion, a frozen session and a champion some thread has read are
installed by a change that is recorded or `Pending`; a target that passed its
check is still registered. `WriteStep` reduces every action to a move of one
thread that takes away nothing an installed version rests on (`Kept`).
`ReuseIsBounded` is not inductive either: that an approval has at most one event
per thread says nothing about the threads about to add one. `ReuseInv` counts
them too: once an approval is spent, its events and the threads past their check
of it are together no more than the threads. A spent approval passes no check,
so the sum does not grow; before it is spent it has no event, and the threads
past the check are some of the threads.

`PgGovernanceProofs` proves that the PostgreSQL store implements the contract:
`StoreImplementsRegistry` is `Spec => ImplementsRegistry`, for any models,
versions, sessions, records, connections and number of lost connections, under
`RecordsAssumption` (callers' records are well-formed) and the two assumptions
on connections and crashes. Every commit is one registry operation or changes
nothing, every other statement leaves the registry as it is (`MapsRegister`,
`MapsAction`, `MapsFreeze`, `OnlyCommits`). What makes a commit match is not in
the tables but in what the transaction read earlier, so the invariant
`StoreInv` says what each transaction knows at each of its statements
(`LocalOK`): the approval is unspent, the champion it read is still champion,
the target it validated is still registered, the session is not frozen yet, its
event's identity is larger than every identity of its model. `LocalKept` shows
that another transaction's commit cannot take this away: champion changes and
freezes of one model exclude each other because both hold the model's advisory
lock (`LockInv`; the session's lock adds nothing to safety), registrations,
which take no lock, because a transaction waits for an uncommitted row of the
same key (`KeysApart`). `ApprovalsCommitWithEvents` (`AtomicAudit`) and
`EventIdsInCommitOrder` (`EventIdsFollowCommits`), which section 3 lists among
the plainer properties, follow from the same invariant. Together with the first
part of `RegistryThreadsProofs` this gives the store every invariant
of the contract.

`IngestPipelineProofs` proves for any processes, windows, batches, prices,
ceiling, number of commands and number of crashes that satisfy
`IngestPipeline`'s two assumptions (definitions batches belong to the day of
one chain each and are not chains, windows are lists of other batches without
repetition, prices and bounds are naturals):

- `IngestTypeOK` and `RecordedBatchesAreWhole`, with any number of overlapping
  commands;
- `BatchesAreRecordedOnce`, `ExclusiveCommandsKeepTheChain` and the action
  property in `RecordedDaysAreNotBilledAgain`, for histories without overlap.

Its inductive invariant `IngestInv` adds to these properties what a command
knows at each of its steps. `Sound` is what no other process can take away:
from the receipt on, the batch in hand has a whole object of its own, from the
check on one with a receipt; files only grow, so a step of one process keeps it
for all others (`ProcStep`). `Fresh` is what a command read and still relies
on: at the gate it has read the whole cost ledger, before the download and
before the record the batch is not in the point-in-time ledger. It survives
only if the command is `Alone`, which is what ~`overlap` gives. `WriteStep`
reduces every action to what it does to the files and to its own process.

`ReportsMatchTheLedgers` (`ReportMatchesLedger`) holds with any overlap and
crashes and needs no exclusion. Its invariant `ReportInv`
follows the lists of a command: batches left and batches planned appear once and
have no outcome yet, no batch has two outcomes, what is called landed or present
is recorded, and only an approved plan runs. It speaks of the other files only
through the set of recorded batches and the set of approved plans, which never
shrink, so a step of one command keeps it for all others.

`SpendStaysAccounted` (`SpendIsAccounted`) holds with any overlap too, for a
finite set of batches. `SpendInv` gives each command an allowance, which says how
often each batch is in its estimate or in the total of its ledger entry: what it
has bought is in the allowance and so is every batch on its list that is not
recorded (`InBudget`); and each entry covers what its plan has paid
(`Covered`). Overlapping commands have run numbers of their own, so one does not
spend on another's entry.

`AuditRuntimeProofs` proves for any processes, tables, identities, payloads,
reviewers, crashes and dropped triggers, under `AuditAssumption` (the two groups
of tables are finite and disjoint, review times are naturals):

- `AcknowledgedRowsAreStored`: rows are only added, and a request about to
  answer "done" has its row (`DoneIsStored`);
- `SoundStarts`: until a trigger is dropped, a serving process and a PostgreSQL
  deployment have the complete schema (`StartInv`). The PostgreSQL check counts
  triggers instead of naming them; `CountingSuffices` shows that this is as
  good, from the cardinality of finite sets;
- `VerdictsStand`: while reviewers take turns and clocks agree, a verdict is the
  latest review of its task and nobody is reviewing a task that has one
  (`InTurn`).

`DecisionPathProofs` proves the four properties of the `decision` run for any
threads, requests, rules files, versions, days, restarts and probes, with either
backend, under `DecisionAssumption` (requests and records are well-formed, an
artifact hash determines its rules, the two sentinels are no version labels).
`DecisionInv` adds what a request knows between its steps (`JobOK`: the gates it
read allowed no more than a report that was saved, and the identity it froze is
still the session's, because a freeze is never changed) and what a recorded
decision says (`Explained`: reasons and output are those of its snapshot under
the rules of its artifact). `SnapshotsExplainDecisions` then follows because the
snapshot holds everything the run used. `LiveSessionsWaitForTheirDay`
(`LiveSessionsAreNotPreFrozen`) adds `DatesOK`: a request about to freeze has a
session of today or before, because it read the clock and the clock does not go
back. `DecisionsAreKept` is the action property `DecisionsSurvive`.

`EvidenceProofs` proves in its first part `LedgerIsWhole`,
`AdmissionRestsOnTheLedger` and `EditsStopRecording`, for any commands,
sessions, manifests, deaths and edits, under `ReadinessAssumption` (times are
naturals, `None` is not a command), and `ReportIsTrue`, for any number of
drills, kills and outages. `ReadinessInv` says that a command inside the file lock has the
next entry of the chain in hand and that nobody else can append meanwhile, that
every line is an entry some command wrote, perhaps edited, and, unless the end
was cut off, that no two entries were written for one place. `DrillInv` says how
far the cleanup has come, that what a clean sweep dealt with is gone, and that
the report is of this or an earlier drill, which the drills after it do not
change.

Its second part proves the eight properties of `Workbench`, for any jobs
and constants that satisfy `JobsAssumption` (requests are well-formed, as the
record models and constructors of the code enforce) and the assumptions of the
modules `Workbench` extends; `EconomicsAssumption` asks for wings of one width,
because `settle_condor` refuses others, and `LabelAssumption` for bars in time
order.

- `LockKeepsItsPromise`, `GateNeedsEverySlice`, `ExitsStayFair`,
  `HoldStaysTheBaseline` and `SplitStaysSound` are about pure functions. Their
  invariant `AnswerInv` says only that a request is answered with what its
  computation gives; the work is in lemmas about the functions. `CutLatest` and
  `CutExit` show that an exit is the same on the day without its later quotes,
  `ExitPays` and `SettlementBounds` on which side a target, a stop and an expiry
  pay. `EveryDayCounted`, `FeesComeOff` and `HoldPays` compare the two
  batches day by day and then in sum. `SliceLeftOut` and `EverySliceCounts` say
what a report without one slice has in common with the whole one. `GroupOrderIs`, `FoldFacts` and
  `TestedOnce` say where a group stands in the order of the split and that
  exactly one test window covers it.
- `ClosedAlertsStayClosed`: `EngineOK` types the episodes; what a step may do to
  one alert is `Follows`. `AlertsKeepTheirDistance` (`AlertsSpaced`, one of the
  plainer properties) adds `LatestOK`: `observe` compares with the latest alert
  of the fingerprint only, so no other may be later than that one.
- `ReplayIsStable`: `ReplayInv` says that what the manifest names has been
  appended; the records added since are visible at the manifest's instant only
  when back-dated.
- `LabelsKeepTheirPromise`: `LabelInv` says of each line that its anchor is the
  nearest day its command had read and that its window and excursion are those of
  the day's bars (`LabelSound`), and of each command that it knows what it read
  and has one outcome for each day it has passed (`BatchOK`). One line per day needs that commands of one kind are
  never two at a time, which ~`overlapped` gives.

The theorems are about `ReadinessSpec`, `DrillSpec` and `BenchSpec`;
`PartsAreIndependent` shows that `EvidenceSpec`, which the `evidence` run checks,
implies all three.

`AlertDeliveryProofs` proves in its first part the four properties of the
`outbox` run for any messages, policies, caller times in any order, crashes and restarts, under
`PolicyAssumption`, `BoundsAssumption`, `DelayAssumption` (powers of two are
positive, which the provers do not know) and `NoneAssumption`. The store returns
events ordered by time, so an event may be filed before earlier ones; `OutboxInv`
therefore keeps each history sorted, with every retry due no earlier than it was
scheduled, every escalation paced, and a message waiting for an attempt with one
left in its budget. `InitialPart` and the lemmas after it show, from the
cardinality of finite sets, where an inserted event lands. Two plainer
properties follow. `DeliveriesKeepTheCooldown` (`CooldownSpacing`) is inductive
together with `StoreOK`: `latest_message_for_dedupe` looks at one message of the
key, and that it finds one not before any other needs that times and stored
identities are bounded (`LatestExists`). `AcksCloseHistories`
(`AckClosesHistory`) follows each history with `AckLast`: an acknowledgment is
filed by its time, no delivery is later when it arrives, and the history of an
acknowledged message does not change any more.

Its second part proves the two safety properties of the `stream` run, for any
alerts, processes, clients, layouts, failures and amount of feedback, with
either backend, under `StreamAssumption` (feedback is well-formed).
`ClientsGetTheLog` rests on `StreamInv`: identities are drawn once (`RowsInv`), and
what a connection has read and not sent are committed rows after its cursor, in
order (`ClientInv`). With one writing process the insert under way comes after
every committed row (`WriterInv`), so a row that is not in the queue comes after
it and nothing can appear behind a cursor; two processes lose this (section 4).
`LatestFeedbackDecides` needs no more state than the type of the log
(`FeedbackInv`) but a fact about the projection: a fold over the feedback in
order leaves what the last status-changing record asks for (`StatusIsLast`).
`StatesAreProjectedOnce` (`OneEventPerState`) rests on `KeyInv`: a state is
committed once or in flight in one process, since an insert waits for an
uncommitted row of the same key.

`CollectorProofs` proves the three properties of the `collector` run, and
`HaltIsPermanent`, `StreamingIsFresh` and `WatermarkIsNewest`, for any events in
any order with any times, quotes, capability reports and calendars, under
`CollectorPolicyAssumption`, `BackoffAssumption` (powers of two) and
`EventAssumption` (times are naturals and `None` is not a number).
`PermitsAreEarned` is about the policy's default of two required sources.
`CollectorInv` says that after a fault the collector is halted or waits for a
retry time at least the base backoff away, that the quotes it holds are of the
sources heard since, and that the report is the evaluation of those quotes at
the time of the last event.

Data of any size. No leaf inducts over a sequence or a set. Where a claim is
about a fold, a sum or a sorted list, the proof takes a least counterexample:
`LeastNat` and `LeastNumber` get it from the well-founded order of the
naturals, `LeastBad` among subsets of a finite set. A sort is written as a rank
(the n-th element is the one with n elements not after it) and its order follows
from cardinalities. For sums and folds, which the libraries define as a chosen
recursive function, the proofs first show that such a function exists.

TLC has checked `StoreInv`, `IngestInv`, `ReportInv`, `SpendInv`, `ThreadInv`,
`DecisionInv`, `ReadinessInv`, `ReuseInv`, `OutboxInv` and `CollectorInv` as invariants on the
instances of the runs.

Only model-checked, and why. Liveness is outside the prover's reach:
`TransactionsEnd`, `CatchesUp`, `StartsEnd`. Every safety property
of the passing runs has a theorem. Of the plainer ones that section 3 names,
those that this section does not mention are checked on the instances only;
`LineageIsRooted` would need induction along the walk to the root, for the
others the invariants above have not been tried. The definitions of section 4
are not properties of the code.

## 6. Not modelled

Cryptography, hashing and JSON encodings (identities are the contents they
hash), HTTP and database drivers, the web UI. Floating-point statistics and
economics: tail models and calibration, the distance recommender, fee, risk and
execution economics, feature values; replacing their numbers by integers would
check other programs. `services/auth.py`, which is stateless. The market-data
adapter beyond the capability report it leaves. Inside the modelled parts:
read-only endpoints, the ingestion gateway's HTTP retries (a failed download is
one that failed after them), `enumerate_expiring` (an enumeration is empty or
not), `ingest-audit`, the sender's network gate beyond its outcome, and
attribution scores.

## 7. Plan

1. Proofs of the plainer properties from the invariants that are there:
   `StrikesAreTight` of `DecisionPath` (it needs the types of rules and inputs as
   assumptions and the facts about rounding to a grid), `RetainedIsKept` of
   `AuditRuntime`, `AcceptedIsTheView` of `Replay`.
2. `ingest-audit` and normalisation, if their file formats settle.
