# Formal model of the Kripto trading platform

TLA+ modules, TLC configurations and TLAPS proofs for the parts of the platform
whose correctness depends on order, failure and concurrency: the order execution
path, the risk gate, the books, feeds and ledgers around a position, the event and
audit stores, the market-data projections, the scripts that lock, update, roll back and
migrate an installation, and the release tooling that collects, transports and judges
acceptance evidence.

Paths below are relative to the repository; `app/` is `backend/app/`.

## 1. Inventory

### Components that carry the core logic

| Component | State | Operations | Hard behaviours | What makes it correct |
|---|---|---|---|---|
| Execution path (`execution/service.py`, `execution/persistent.py`, `exchange/binance.py`) | `orders` rows, the exchange's orders, an in-memory record cache, isolated symbols, halt | `submit`, `reconcile_existing`, `reserve_before_side_effect`, `mark`, restart recovery | two instances on one database; crash between row, order and mark; lost request, lost reply, commit of unknown result; risk state and lease read long before they are used | an intent is sent at most once and only after its row; no outcome is invented; a halt or a deposed leader lets at most one order through |
| Leader lease and fence (`persistent.py`) | lease row, per-process highest token | `acquire`, `validate`, `heartbeat`, `require_current` | clocks of instances are unrelated; restart forgets the guard | tokens are unique and grow on takeover |
| Risk machine and its drivers (`risk/state.py`, `execution/recovery.py`, `execution/emergency.py`) | risk state, recovery in progress, stream flags | halt, restrict, review, stop, restart recovery, reconnect, operator recovery | no lock: a check and its write are apart | new risk is re-allowed only by spending an approval |
| Recovery hysteresis gate (`risk/state.py`) | first green time, last time, count | `observe`, `reset` | clock going back | eligible only after a sustained green run |
| Outbox and DLQ (`database/outbox.py`, `dlq_operator.py`) | outbox rows, dead letters | `dispatch_once`, migrate, replay, resolve | overlapping dispatchers, one conflict loses a pass, stale operator views | everything is sent or dead-lettered; hashes match payloads |
| Idempotent consumer (`database/idempotent_consumer.py`) | receipts | `consume` | duplicate answered while the first handler may fail | at most one handling |
| Audit store (`database/audit_store.py`) | hash-linked rows | `append`, `verify` | timestamp taken before the lock | the chain verifies; tampering shows |
| Capital reservations (`execution/reservation.py`, `persistent.py`) | reservations with expiry | `reserve`, `release` | row, sum and commit apart | never more reserved than available, but for the checks that overlap |
| Private stream (`exchange/private_stream.py`) | order projection, seen trades | `project` | repeated, late, reordered reports | the newest report wins, fills once |
| Local order book (`data/orderbook.py`) | levels, last update id, validity | `load_snapshot`, `apply_delta` | overlap, gap, repetition | a valid book is the exchange's book |
| Operation lock (`scripts/operation_lock.py`, `operation_lock_exec.py`) | lock file, heartbeat thread | acquire, refresh, release, recover stale | crash anywhere, pid reuse, reboot, slow write | a live holder keeps its lock |
| Bounded commands (`scripts/bounded_subprocess.py`, `operation_lock_exec.py`) | a process group, pipes, installed signal handlers | the three capturing calls, `terminate_process_tree` | signals inside handlers and cleanups; descendants that outlive the leader or leave the group | a cancelled or timed-out call leaves no process of its group |
| Deployment (`scripts/transactional_release_update.py`, `database_migration_guard.py`, `deployment_transaction_state.py`) | trees, journals, receipts, database head, audit chain | update, rollback, migrate, recover | crash between two renames or writes; a migration's journal lies in a directory of its own | the accepted release is active or recoverable, and the database serves it |
| Sleeves (`execution/sleeves.py`) | lots per strategy | allocate, close, transfer, reconcile | fills booked twice or refused | the sleeves add up to what each strategy owns, a difference to the account shows |
| Public feed (`exchange/public_stream.py`) | connection, integrity counters, last update | run, observe, health | lost connections, poisoned and repeated messages, failing handlers, clock steps; one staleness clock for many streams | a depth update missed is counted; the depth is current up to the last depth message; a lost connection is noticed |
| Event buffer, rate budget (`core/backpressure.py`, `data/rate_limit.py`) | bounded heap; windows of used weight | put, get; acquire, configure | full buffer; a window boundary; exhausted primary | overflow loses the least urgent; any interval spends at most two limits |
| Paper broker (`paper/engine.py`) | positions, fills | open, mark | ladder and stop in one move | sells equal buys, each rung once |
| Escalation, confirmations (`monitoring/escalation.py`, `telegram_security.py`) | alert row; issued and used nonces | record, due, acknowledge, resolve; issue, confirm | statements that commit one by one; restart | an acknowledged alert is not paged again; a confirmation works once and for what was shown |
| Race classifiers (`execution/race_recovery.py`) | evidence read so far | the three resolvers | the exchange moves between reads | a safe replacement is safe, a finished order finished |
| Runtime checkpoint (`recovery/runtime_checkpoint.py`) | signed file, event log | create, evaluate restore | crash; a log put back to an older state | a restored position is the replayed one |
| Campaign (`release/campaign_*.py`, `scripts/external/phase265..267*.py`) | hash-chained collection, runtime state, receipts | protected commands, audits, seal | death between two appends; two writers; a seal over a growing file | samples continue one another; four receipts that verify agree |
| Evidence transport (`scripts/external/build_campaign_evidence_bundle.py`, `final_campaign_bundle_handoff.py`, `acceptance_return_*.py`) | archives, staged files, canonical tree, journal, import ledger | build, stage, hand off, promote, recover | files replaced between two reads; crash in the swap | what arrives is one seal; only ledgered evidence is installed |
| Acceptance pipeline (`scripts/external_acceptance_runner.py`, `merge_*`, `verify_*`, `production_acceptance_orchestrator.py`) | challenge, profile manifests, ledger, aggregate, checkpoint, release manifest | runs, merge, checkpoint, verify, gate | commands side by side; HEAD moves; evidence ages | what is accepted is one campaign of this commit |
| Dependency locks (`scripts/bootstrap_dependency_locks.py`) | two lock files, journal, backups | resolve, promote, roll back, recover | crash between two files; others write the locks meanwhile | both files or neither, unless others wrote while it looked |
| Packaging (`scripts/package_*.py`, `extract_source_package.py`) | archives, sums, destination | package, extract | edits, checkouts and checkouts back during a build, death while writing | a distribution is of one commit unless HEAD left it and came back; a verified tree is whole |
| TESTNET scenario (`scripts/external/binance_testnet_acceptance*.py`) | one scenario, its orders | size, preflight, place, poll, cancel | book and ticker move between calls | a PASS was earned, no order is left open, sells within the caps |
| Setup wizard (`services/setup_wizard.py`) | one row: completed steps, answers, current step, completion time | start or resume, complete a step | requests that overlap on one row | steps in order; complete only on a passed preflight while no two requests overlap |
| Research ledger, symbol metadata (`research/registry.py`, `universe/`) | registered hypotheses, hashed trials, versions by time | register, append, verify, record, read as of | callers that change what they passed; versions recorded late | trials counted without a gap against what was registered first; the past is answered with its own version |
| Legacy recorder (`release/campaign_evidence_recorder.py`) | hash-chained journal, receipts | initialise, append, finalise | two recorders, a write cut in the middle | a receipt says what its journal holds |
| Local evidence (`scripts/local_*_runner.py`, `merge_local_*`, `verify_local_*`, `test_inventory.py`) | shard files, merged manifest, inventory | run, merge, verify, count | shards run again or die in a merge; checkout under a run | what verifies was tested on this commit |

### How they interact

`submit` asks the risk machine, holds the account's in-process lock, asks the lease
registry, writes the ledger, asks the fence and calls the exchange; an ambiguous
answer isolates the symbol. Restart recovery compares ledger and exchange and drives
the risk machine; so do the stream coordinator, the audit store (a failed write
halts) and the operator. The outbox is fed in the transaction of its producer and
read by consumers. The deployment scripts exclude one another with the operation
lock; their journals add to that where they lie in one directory, the parent of the
active release, and a migration may keep its own elsewhere; commands run under the lock in a process group of their
own. Campaign receipts travel in a bundle to the acceptance host, whose pipeline runs
profiles under a challenge and merges them; its evidence comes back in a return bundle
that is promoted into the checkout the release manifest and the gate read.

The modules compose the same way: `DurableExecution` EXTENDS `LeaderLease` (its
lease steps are the lease actions themselves); `Deployment` abstracts `OperationLock`
to "one worker runs at a time", which is what `OperationLock` establishes, and adds
the one tool that does not take the lock.

### Parts that are not modelled

PROJECT.json lists every one with its reason. They are of three kinds: numerical code
over decimals (indicators, research, backtest, allocation, portfolio), whose verdict is
a nondeterministic input of these models; tooling and services whose operations read
their inputs once and keep no state (evidence documents, traceability, reports,
signatures, universe filters, API wiring, frontend); and small sequential pieces where a
property would restate a guard (live ramp, the row transactions of authentication).

Within modelled parts the following is left out. Two bootstraps, two packaging commands,
two promotions or two merges at the same time: nothing in the code serialises them and
nothing says they are supported. The child of a killed migration guard. Windows branches
of the process handling. `deployment_recovery_coordinator.py`, which only a test calls.
Balance snapshots of the private stream.

## 2. Modules

| Module | Models | Lines of thought |
|---|---|---|
| `LeaderLease` | lease row and fence | `Acquire`, `Heartbeat`, `RequireCurrent`; expiry is the boolean outcome of comparing unrelated clocks, so it may be true for one instance and false for another |
| `SubmitOnce` | abstract promise of the execution path | an intent is reserved, submitted at most once, perhaps placed, and its outcome learned from the exchange |
| `DurableExecution` | `submit` step by step | one job per instance (the account lock), one step per database or exchange call |
| `ApprovalGate` | abstract promise of the risk machine | closed until an approval is spent |
| `RiskControl` | the risk machine and all its drivers | single-transition calls are one step, evaluations are jobs |
| `RecoveryGate` | hysteresis | counters against the history of samples |
| `Outbox` | dispatcher and dead-letter operator | a pass reads, publishes, commits |
| `EventConsumer` | consumer | claim, handle, release |
| `AuditChain` | audit store | a digest is the sequence of what was hashed; `Verify` asks of every row that it links to the latest one before it |
| `CapitalReservations` | both ledgers | the variable `ledger` says which; `reserve` of the database ledger is the read of its row, the sum and the commit, for any number of processes |
| `PrivateStream` | projector | exchange emits, network delivers anything emitted |
| `LocalOrderBook` | book | history of the exchange's books, deltas over ranges |
| `OperationLock` | lock file | a process is a run of a pid; every look at the file is a step |
| `Deployment` | update, rollback, migration, recovery | one step per rename, write or command; one migration journal per state directory |
| `ProcessTree` | bounded commands and `operation_lock_exec` | a stack of running cleanups: a signal handler interrupts the call where it stands |
| `LocalEvidence` | shard runs, merge, verification, inventory | a digest is the content; each read of a file is a step |
| `StrategySleeves` | sleeve book | beside the account it is reconciled with |
| `PublicFeed` | public stream | a depth stream, a stream with times (trades, candles) and one without (best prices); messages of one connection in order, those of a lost one never |
| `ResourceLimits` | bounded event buffer, rate windows | history of what was lost and spent |
| `PaperBroker` | paper positions | a price is the band between stop and rungs it falls in |
| `Escalation`, `LiveConfirmation` | alert ledger, one-time confirmations | `SELECT` and the write after it are two steps; a restart forgets nonces |
| `RaceResolution` | replace, unknown and cancel races | every read sees another moment of the exchange |
| `RuntimeCheckpoint` | signed checkpoints | a chain hash is the log it hashes |
| `CampaignCollection` | collection, runtime state, seal | a row stands for its hash; a length names a content |
| `CampaignBundle`, `ReturnPromotion` | transport of evidence both ways | one step per file read, copied or renamed |
| `AcceptancePipeline` | challenge to release gate | a worker works off a list of steps |
| `CampaignJournal` | legacy evidence recorder | no lock: recorders read, append and derive in any order and may stop in the middle of a write; a record's hash is a number of its own |
| `ResearchLedger` | research registry, trial ledger and symbol metadata | an entry is hashed when it is appended and changed afterwards by a caller who kept the dict |
| `SetupWizard` | setup profile | a request is a read and a commit of the columns it changed |
| `DependencyLocks` | lock bootstrap | a lock is a version; each read of a lock is a step, others write between any two |
| `TestnetScenario` | acceptance scenario | integers for prices and quantities; the book may move between any two calls |
| `ReleasePackaging` | packages | a file is the commit that wrote it; HEAD moves to any commit and back |
| `*_proofs` | theorems | see section 5 |
| `MC_*` | values of function constants, symmetry, and the side-by-side runs of section 3 | |

A run names one invariant per component where its parts belong together: `OutboxInv`,
`DeploymentIsSafe`, `CollectionIsTrustworthy` or `PackagesAreCoherent` is the conjunction of named parts, each
stated with its own comment in the module, and most parts have a mutant of their own.
The inductive invariants of section 5 were checked with TLC before they were proved and are
not part of the recorded runs.

Definitions keep the names of the code where they can; PROJECT.json `map` gives the
source lines of each. A definition whose comment starts with "Mutation of" is a
plausible bug of the definition after it; it is not part of any specification and
exists to show that a property would notice.

### Abstractions worth knowing

- **Execution.** `PARTIALLY_FILLED` behaves like `ACKNOWLEDGED` (open) and `FAILED`
  like `REJECTED` (terminal) in every branch of `submit` and `reconcile_existing`, so
  one of each is kept. Price and size checks that only refuse are no step. An intent
  in `Unaligned` is one whose quantity `submit` rounds before it stores it.
- **Exchange.** The exchange accepts a client order id once, may lose a request or a
  reply and may take an open order to any state of `Outcomes`.
- **Databases.** Each session is READ COMMITTED and writes only the columns it
  changed, as SQLAlchemy does; a commit may fail, or succeed and not be reported.
- **Audit store.** Hashes do not collide.
- **Operation lock.** Locks of another host and of schema 1.0 are never stolen by the
  code and are left out; a process runs one operation.
- **Deployment.** A release directory is its release; package verification decides
  which releases are candidates. `Faults` names the operations that may crash or fail
  at an operating-system call. The child of a killed migration guard ends with it.
  `StateDirs` are the directories given as `--state-dir`; migrations look for journals in
  their own, updates and rollbacks in `ActiveParent`. Receipts and backups are named on the
  command line and are one set, wherever they lie.
- **Public feed.** One symbol. Candles have times and no update ids and are like trades.
  Where a message is poisoned is up to the model.
- **Dependency locks.** A read, a copy or a replacement of one file is one step; what others do between two of
  them is not restricted, and they may put an earlier content back.
- **Process trees.** A process may exit at any time, so SIGTERM forces nothing; SIGKILL
  to the group does, and does not reach a process that left the group. Output, decoding
  and the length of a time limit are left out.
- **Evidence.** Signatures and hashes do not collide, and a document is what its checks
  look at. Thresholds of campaigns are small counts (`Need`, `MinPairs`); a day stands for the
  24 hours a challenge, a checkpoint and most evidence live.
- **Acceptance.** One verdict stands for the commands of a profile. The orchestrator's
  `production_ready` cannot become true: `generate_release_manifest.py` always writes
  BLOCKED; `NeverSelfApproved` holds for that reason, and its mutant shows what notices
  a change there.
- **Packages.** An archive without a manifest is extracted, and reported as unverified;
  `VerifiedTreeIsWhole` speaks of trees reported as verified. A checkout replaces all sources in
  one step.
- **Trading books.** Prices, fees and profit are left out; quantities are counted.

## 3. Runs

Passing runs (each finishes in seconds to about three minutes):

| Run | Shows |
|---|---|
| `paper` | Two instances, two intents of one symbol, no lease, a crash, every kind of loss: at most once, nothing invented, and at most one order per running call after a halt |
| `live` | Lease expiry and takeover between any two steps of `submit`: no token has two holders, and a deposed leader sends at most one more order |
| `fair` | Every submit returns; the execution path refines `SubmitOnce` |
| `risk` | All drivers of the risk state interleaved: refinement of `ApprovalGate`. The hysteresis gate with clock readings in any order. And, one part each: sleeves, public feed, event buffer, rate budget, paper broker, escalation ledger, race classifiers, confirmations, checkpoints |
| `outbox` | Two dispatchers and two operators on one event, crashes and lost commits: what is marked published is accounted for, hashes match payloads |
| `outbox_fair` | Two events and two dispatchers: every committed event is sent or dead-lettered |
| `data` | Consumer (three threads, two events), audit store (two writers, three rows), both reservation ledgers (two processes in the database one; two amounts, so that a reserve can fill, exceed and change what another read), stream projector and order book under any delivery of what the exchange emitted, trial ledger and metadata history, setup requests that overlap |
| `operations` | The lock with three pids of two runs each, reboots and one recovering process; releases beside the installed one (one without migrations, one with compatible and one with incompatible ones, and one whose manifest does not agree with its tree), two updates, migrations with journals in two directories, a crash anywhere in an update or a migration; a process tree of three under two signals; test evidence of two shards with three runs, a merge and two checkouts |
| `evidence` | Campaign commands; the seal; bundle and handoff; return and promotion; dependency locks; TESTNET scenario; packages; the legacy recorder's journal: each with deaths at any step and other writers of its files |
| `acceptance` | Two workers run profiles, merges, checkpoints and orchestrations on shared files while HEAD moves, sources are edited and days pass: what the verifier accepts is one campaign of the present commit, the ledger only grows |

`risk`, `data`, `operations` and `evidence` put components side by side that share no variable. A
behaviour of their composition is a behaviour of each, interleaved with stuttering, so
the run chooses a `part` in the initial state and explores that part with the others at
rest: the states add up instead of multiplying, and no invariant of one part can depend
on a step of another.

Bounds. Two instances, dispatchers, operators or writers are what the races need: each
is between one step of one actor and one of another. Three pids let a recovering
process, a holder and a new starter meet. Two updates, each followed by rollbacks, migrations and
recoveries, let one be accepted and the other be rolled back or crash; the theorems of section
5 bound neither. Two state directories are the one updates look in and another.
Two checkouts take HEAD away and back, under a build and under a test run; two versions of a
lock and its absence let a writer put back what stood before. One message of another stream among the
depth messages is enough to keep the feed fresh. Three shard runs on two shards let one run again under a
merge; a commit with more and a commit with as many test files let a stale count and a
stale collection show. Two seals and two challenges let receipts of two seals lie side
by side; three promotions let one be committed, one fail and one recover. Two limits of
time are one interval and one boundary. In `operations` and `evidence` a part may
narrow the next state further (`LocalBounds`, `Short`): the same component is then
explored twice, once wide in one direction and once in the other. Two faults of the public feed
are explored without a stop and without trades, one with both; of two packages, two checkouts
and an edit a behaviour has three. Counters bounded "for model checking only" are named in
their modules; in the proofs they are arbitrary naturals. Deadlock checking is off
where a system may stop because its inputs or bounds are used up, and on in `risk`,
whose drivers can always act and whose bounded parts have an explicit step of rest. Symmetry (`paper`, `live`) is over instances and
intents, which the specification treats alike, and never in a
run that checks liveness.

Fairness. `FairSpec` of `DurableExecution` makes each instance's submit steps weakly
fair: the call runs on a thread that is scheduled and every call it waits for has a
time-out. Nothing obliges the exchange, the network, the lease, an operator or a
crash. `outbox_fair` assumes that dispatchers keep calling `dispatch_once` and that a
back-off ends, which a loop and a clock give; crashes and lost commits are bounded,
and operators may never act.

## 4. Where the code and its documents differ

Two runs state what a document or docstring says and end in a trace of the code doing
otherwise; PROJECT.json quotes the lines.

| Run | Property | What happens |
|---|---|---|
| `retry` | `RetryFindsItsRow` | an intent whose quantity was rounded collides with its own retry (`service.py:52`) |
| `pass_unverified` | `PassIsVerified` | the release manifest records PASS rows from an aggregate the verifier rejects (`generate_release_manifest.py:241`, `ACCEPTANCE_CLOSURE_RUNBOOK.md:3`) |

The modules also define properties that a document or docstring suggests and the code
does not have. They are not among the recorded runs; they are reproduced by checking the property named
with the changed constants given, everything else as in the configuration named.

| Property (module) | How to reproduce | What happens |
|---|---|---|
| `NoOvercommit` (`CapitalReservations`) | its constants of `MC_DataPlane.cfg`, `CapitalSpec` | two processes pass the same sum check (`persistent.py:47`, `reservation.py:19`) |
| `RecoveryHasTheTree` (`Deployment`) | `MC_Operations.cfg`, `Faults = {"update", "recover"}` | a crash inside a recovery leaves a journal no recovery accepts (`transactional_release_update.py:321`, `docs/UPDATE_ROLLBACK.md:25`) |
| `ActiveIsCommitted` (`Deployment`) | the same, `Faults = {"rollback"}` | a rollback renames twice without a journal |
| `ActiveIsCommitted` (`Deployment`) | the same, `Faults = {}`, `ToolMayOverlap = TRUE` | `--recover-only` takes no lock and runs beside an update |
| `ActiveWasAccepted` (`Deployment`) | the same | the tool gives up the journal of an update under way, and a release that is rejected stays active |
| `MigrationIsAudited` (`Deployment`) | the same, `Faults = {"migrate"}` | a migration found completed by a recovery gets no audit event (`docs/UPDATE_ROLLBACK.md:80`) |
| `OneTransactionAnywhere` (`Deployment`) | `MC_Operations.cfg` as it is | a migration with another `--state-dir` leaves its journal there, and an update begins (`database_migration_guard.py:321`, `transactional_release_update.py:351`, `docs/UPDATE_ROLLBACK.md:74`) |
| `HealthySeesSilentDepth` (`PublicFeed`) | `MC_RiskControl.cfg`, `MaxFeedTime = 3` | depth messages stop, trades and best prices go on, and each refreshes `last_message_at` (`public_stream.py:163`) |
| `BothOrNoneDespiteWriters` (`DependencyLocks`) | `MC_Campaign.cfg` as it is | another writes between two digests or after the backup, and a rollback installs a pair that never stood (`bootstrap_dependency_locks.py:340`, `288`) |
| `DistributionIsOneCommitAnyway` (`ReleasePackaging`) | `MC_Campaign.cfg` as it is | HEAD leaves the commit after the binding check, the sources are packed, and HEAD is back for the evidence and the verification (`package_distribution.py:70`, `73`, `79`, `219`) |
| `LedgerIsInstalled` (`ReturnPromotion`) | `MC_Campaign.cfg` as it is | recovery of a PREPARED journal removes the canonical tree before any backup of it exists (`acceptance_return_promotion.py:227`) |
| `StaleLeaderCannotSubmit` (`MC_DurableExecution`) | `MC_Execution_retry.cfg`, `Instances = {a, b}`, `MaxToken = 2`, `Unaligned = {}` | the lease is checked at `service.py:75`, lost, and the order sent at line 76 (`DEPLOYMENT_ARCHITECTURE.md:13`) |
| `HaltBlocksNewRisk` (`MC_DurableExecution`) | `MC_Execution_retry.cfg`, `Unaligned = {}` | a halt after line 29 does not stop the running submit (`README.md:75`) |
| `UnknownBlocksSymbol`, a PROPERTY (`MC_DurableExecution`) | `MC_Execution_retry.cfg`, `Intents = {n1, n2}`, `Unaligned = {}`, `Clearable = {}` | isolation is memory, and reconciliation to UNKNOWN isolates nothing (`ORDER_STATE_MACHINE.md:5`) |
| `DurableStatusIsLegal`, a PROPERTY (`MC_DurableExecution`) | as for `StaleLeaderCannotSubmit`, `Arrivals = {"ACKNOWLEDGED", "FILLED"}` | a slow `mark` takes a terminal row back (`execution/state.py:13`) |
| `StopHolds` (`RiskControl`, `Spec`, `MaxApprovals = 1`) | those constants | an approved recovery overwrites a later emergency stop (`risk/state.py:84`, `README.md:75`) |
| `UncertaintyIsMonotonic`, a PROPERTY (`RiskControl`, `Spec`, `MaxApprovals = 1`) | those constants | a disconnect makes HALTED into DEGRADED, which allows REDUCE (`RISK_STATE_MACHINE.md:5`) |
| `UnsentStaysPublishable` (`Outbox`) | `Outbox.cfg`, one worker and one operator | a replay that exhausts its attempts again can be neither dispatched nor replayed (`REQUIREMENTS_TRACEABILITY.md:938`) |
| `DroppedIsDone` (`EventConsumer`) | its constants of `MC_DataPlane.cfg`, `ConsumerSpec` | a duplicate is answered for an event whose handler then fails |
| `AppendedVerifies` (`AuditChain`) | its constants of `MC_DataPlane.cfg`, `AuditSpec` | two writers commit against the order of their timestamps, and `verify` rejects the log |
| `StaleRecoveryIsExact` (`OperationLock`) | its constants of `MC_Operations.cfg`, `LockSpec`, `Recoverers = {p1, p2}` | a second recovery unlinks a fresh lock (`docs/UPDATE_ROLLBACK.md:59`) |
| `HolderKeepsLock` (`OperationLock`) | the same, one recoverer, `SlowHeartbeat = TRUE` | a late heartbeat replaces the next holder's file (`docs/UPDATE_ROLLBACK.md:51`) |
| `NeverOrphans` (`ProcessTree`) | its constants of `MC_Operations.cfg`, `ProcessSpec` | a signal between `Popen` and the guard, or during a cleanup after the guard is removed, leaves the tree (`bounded_subprocess.py:258`) |
| `BrokerContinuity` (`MC_Campaign`) | `MC_Campaign.cfg`, `Runtimes = {p1, p2}` | two protected runtimes extend one collection from the same saved state, and the second opens a position the first has open |

Beyond the hazards PROJECT.json lists, the following are known and covered by no
property. The isolation of a symbol is memory of one process. Receipts of the consumer are
memory. An existing reservation is returned whatever amount is asked for. A malformed
level leaves half a delta in a valid book. A balance snapshot is applied without looking
at its time. A crash between the creation of the lock file and its first write leaves a
file only an operator removes. A campaign command that raises after its first event can
never be continued. The TESTNET scenario does not clean up after a call that raises. An
archive whose build raised is readable and is extracted as unverified. An event whose
handler raises is gone from the public stream, and a stream of only poisoned messages
does not see its stop event. An alert recorded again with a higher severity stays
acknowledged. The risk state in a checkpoint is compared with nothing. The verifier of
coverage accepts a shard that failed between the two reads of the merge.

The passing runs state what does hold in the same place: at most *one* order of a
deposed leader or after a halt, at most one amount overcommitted for every process but one, approvals are never spent twice, appends that commit
in timestamp order verify, one recovering process never takes a live lock, updates and
migrations survive a crash when recovery itself is left to finish, in whatever directory a migration keeps its journal, an update and a migration that share a directory are never both open, every depth update before the last depth message heard is there or counted (up to the delay limit), a build whose HEAD stays away is refused, a signal while the
guard stands leaves no tree, one runtime continues its own samples.

## 5. Proofs

All proofs are checked by TLAPS 1.4.5 with Z3, Zenon and LS4, for every value of the
constants allowed by the assumption each module names next to them (`LeaseAssumption`,
`ExecutionAssumption`, `AcceptanceAssumption` and so on; TLC evaluates every one of them in
the runs). They say that sets are disjoint, that a bound is a natural number, that a value
standing for "no file" is no file: what the code takes for granted. The bounds that TLC
needs are arbitrary naturals in the proofs.

| Proof module | About |
|---|---|
| `DurableExecution_proofs` | lease, execution path, its refinement of `SubmitOnce` |
| `RiskControl_proofs` | risk machine and its refinement of `ApprovalGate`, hysteresis gate, confirmations, alerts, race verdicts, feed health, event buffer |
| `DataPlane_proofs` | outbox, consumer, setup wizard, private stream, order book, research ledger, audit store |
| `Operations_proofs` | deployment, operation lock, process trees, local evidence |
| `Evidence_proofs` | acceptance pipeline, campaign bundles, return bundles, release packages, TESTNET scenario, campaign journal, campaign collection |
| `Books_proofs` | sums over finite sets; checkpoint, rate budget, reservations, paper broker, sleeves |
| `DependencyLocks` | lock bootstrap (theorem in the module itself) |

### Execution and risk

- **`FencingTokensAreUnique`, `TakeoverRaises`.** The inductive invariant `LeaseInv`
  says that grants lie at or below the row's token, that the holder of the row is the
  only one granted it, and that every guard is at or below the row. Uniqueness alone
  is not inductive: without the bound a takeover could repeat an old token.
- **`ExecutionIsSafe`, `AtMostOnce`, `RowBeforeOrder`, `OutcomesAreReported`.**
  `ExecutionInv` links each instance's program counter with rows, orders, requests on
  the wire and remembered reports: at most one instance is ever past a successful
  insert for an intent (its creator), and what an instance carries in its hands was
  reported. One lemma per group of actions; small lemmas say what changing one
  instance's job or one row keeps.
- **`AtMostOneStaleSend`, `AtMostOneLateSend`.** The properties count sends over the
  history, so the invariants say why the count stops: after a send under another's lease
  an instance is not past the fence (`FencedOut`), and after a late send the risk machine
  is closed and only intents that reduce risk are on their way (`HaltedOut`).
- **`ExecutionKeepsLease`.** Every step of the composed system is a lease step or
  leaves the lease alone, so the lease theorems hold inside it.
- **`Implementation`.** With `ExecutionInv`, every step maps to a step of
  `SubmitOnce` or stutters.
- **`RecoveryIsApproved`, `RiskImplementsGate`.** The invariant says that an evaluation
  past its decision is a clean one; from it every step of the drivers is a step of
  `ApprovalGate`.
- **`EligibleOnlyWhenSustained`.** `RunInv` relates the counters to the tail of the
  sample history.
- **`ConfirmationIsOneTime`.** `ConfirmationInv` says that an outstanding confirmation
  was shown and its nonce is unused, and so is a nonce never drawn. A restart forgets
  which nonces were consumed; it is safe because it forgets the issued ones with them.
- **`AlertsStayFaithful`.** `AlertInv`: an `UPDATE` of `record` that nothing overtook is
  made on an open alert. Whether a resolve came between the two statements is a history
  flag of the recording.
- **`VerdictsStayTrue`.** `RaceInv`: every piece of evidence is a past state of the
  exchange (`EvidenceIsPast`), and what a verdict needs of it is stable: a terminal order
  stays as it is, a cancelled order gets no more fills.
- **`HealthStaysTruthful`.** `FeedInv`: while nothing was counted as missed the updates
  observed are an interval that ends at the last one (`ObservedIsInterval`), depth messages on
  the wire are sections of what was emitted, whatever other messages lie between them, and
  times do not decrease while the clock does not step back. The last depth message heard ends
  the interval, so what may be missing was emitted after it or within the delay limit before
  it was heard.
- **`OverflowIsFair`.** An action property. `BufferInv` numbers the puts, so that the order
  of the heap is strict and total, and `WorstExists` shows by a least-element argument
  that a finite nonempty buffer has one worst item.

### Stores and projections

- **`OutboxIsAccountedFor`.** `OutboxIInv` adds to `OutboxInv` what a pass has in its hands
  (`PassOK`): what it has yet to do was unpublished with attempts left when it was read,
  what it will mark published was sent, and what it will exhaust has a dead letter or gets
  one in the same commit. `NotMigrated` says that before an event has a dead letter nobody
  changed its payload, in the row or in a copy; operators' calls name dead letters that
  exist.
- **`ConsumerIsIdempotent`.** A receipt is held exactly for an event handled or in
  hand, and at most one thread has it in hand.
- **`SetupInOrder`.** `WizardInv`: a request's working copy is as good as the row it was
  read from, and the row is whole while no two requests overlapped.
- **`StreamIsExact`.** `StreamInv`: the reports of an order follow one another in the
  order the projector compares them by, and what was seen is at or before the newest that
  arrived.
- **`BookIsExact`.** `BookInv` needs only types beyond the property. The step is about
  deltas that overlap: a level that no update of the range touched is unchanged between
  two books, shown by taking the least update at which it would differ.
- **`ResearchStaysHonest`.** `ResearchInv`: every entry stands in its place with a registration
  before it that admits it (budget, time, measure, periods), the trials of a hypothesis are
  numbered 1 to their number, metadata is sorted by time wherever a late version is inserted.
- **`AuditLogStaysSound`.** `AuditInv` carries the existence of a latest row instead of
  proving it by induction, and the link between the holder of the advisory lock and the
  newest hash it read. Tamper evidence is a lemma about any log that verifies: the row
  after a removed one no longer links to the latest before it.

### Operations

- **`UpdateIsAtomic`, `DatabaseServesRelease`, `DeploymentHolds`.** Assumed: `Faults
  \subseteq {"update", "migrate"}` and `ToolMayOverlap = FALSE`. `DeploymentInv` describes,
  for each place a worker can be at, where the three trees are, what the two journals say
  and which receipts and backups exist; releases, candidates, updates and
  state directories are unbounded. Every migration's journal is true on its own
  (`TrueJournal`), which is what a recovery in any directory rests on; only the exclusion of
  `OneTransaction` needs the directory to be the one the update looks in. Both
  assumptions are needed for the tree: section 4 has the counterexample of each without it.
- **`DatabaseStaysInStep`.** The part about the database needs neither assumption: recoveries and
  rollbacks may stop too, and the tool may run beside an operation. A tree may be lost then,
  but `EveryTreeServed` says that the database serves each one that is left, in the active, a
  rollback or a candidate directory or set aside; `OperationOK` keeps an update and a migration
  apart by what the operation that began was told to do next, since the journals can no longer be
  trusted to say it.
- **`EffectWasAccepted`.** Assumed: `ToolMayOverlap = FALSE` alone. What is in effect passed its
  binding and was audited, and at rest a release that was not accepted is active only while the
  journal says so (`Moved`), wherever recoveries and rollbacks stopped. `ReturnsOK` is the part
  for a recovery, which gives up the journal only with an accepted tree active or none;
  `InstallsOK` the part for an update or rollback, which knows what the journal says.
- **`LockIsNeverStolen`.** Under `Sheltered` (at most one recovering process, and
  heartbeat writes that end before the join) `IInv` says that a live holder's token is
  in the file, that what a recovery judged dead is dead, and that dead runs stay dead.
  The two lock entries of section 4 drop one half of `Sheltered` each and
  violate the property, so neither half can be left out.
- **`TreeIsEnded`.** `TreeInv`: a finished frame of `terminate_process_tree`, anywhere in
  the stack of interrupted cleanups, implies an empty group, which stays empty because
  only a member can fork one.
- **`LocalEvidenceHolds`.** `LocalInv` says of shard files, merges and inventories which
  commit they are of, unless a checkout came under the run; the coverage part rests on
  data files being numbered, so that one that was replaced never comes back.
- **`LocksSurviveFaults`.** `LocksInv` says which steps of the command run with a
  journal and which without: unless others wrote while the command looked (`disturbed`), the two
  locks are the standing pair while there is none, and the journal names that pair while there
  is one; its backups were verified before it was written, whatever others did. `BothOrNone`
  alone is not inductive, since a rollback that ends makes the locks the journal's pair. The
  theorem bounds neither faults nor versions.

### Acceptance evidence

- **`LedgerOnlyGrows`.** An action property: a writer still holds the lock under which it
  read what it writes back.
- **`AcceptanceHolds`.** `AcceptanceInv`: a document that names a challenge was begun at
  that challenge's commit (`ChallengeInv`), whatever checkouts and new challenges came in
  between; the verifier's checks then make one campaign of the documents it accepts.
- **`HandoffStaysCoherent`.** `BundleInv`: an archive has every file; what a handoff has
  copied so far is its archive's; and while a verified receipt stands no copy is under way.
  The last conjunct is the one that makes it inductive, and it holds because a handoff
  starts only when every destination is free and staging stops at the first that is not.
- **`PromotionStaysAccountedFor`.** `PromotionInv` says for each step of the promotion what
  the three directories, the journal, the lock candidates and the ledger are. A pending journal allows its own bundle, and
  nothing else, to be in the checkout without an entry, and the backup is free of it; so
  recovery may end either way, and may itself be interrupted anywhere. The proof also shows
  that a promotion never finds its lock candidate kept by an earlier one: a candidate is in
  the ledger, and a bundle in the ledger is not promoted.
- **`PackagesStayCoherent`.** `PackagingInv` says, as long as HEAD is still the commit the
  build began at (`Steady`), that what the build has read so far is HEAD's
  (`DistributionOK`), and tells the archive of sources from that of the evidence by the files under way
  (`SourcePhase`, `EvidencePhase`). A HEAD that is another at the end is refused by the
  verification; a HEAD that came back (`returned`) is what the theorem excludes, since nothing
  asks for it around the reading of the sources (section 4). The sources, the evidence and the
  provenance file are different files (`PackagingAssumption`).
- **`ScenarioStaysClean`.** Two halves. The arithmetic: `BoundedFits` shows that what
  `_bounded_quantity_for_price` returns, for every price, cap and filter, is within lot size,
  step and notional range (`SteppedDown` and `SteppedUp` for the two roundings), and
  `SpendableIsBounded` that the cap is within the operator's and 90 % of the balance. The proof
  shows besides that the code's test `minimum_quantity < min_qty` never applies: the quantity
  that was too small had reached `min_qty` already. The control: `ScenarioInv` carries
  the candidate and the size of the probe to the step that sends it (`ChoiceOK`), says what lies
  at the exchange at each step (`ProgressOK`), and that what was last seen of the probe can only
  have been filled further (`SeenOK`), which is why a verdict taken from an old answer is right.
- **`JournalStaysEvidence`.** `JournalInv`: what a recorder has loaded, and what a receipt was
  derived from, is a beginning of the file, because nothing truncates or rewrites it
  (`FileGrows`); and a line that was cut off stays, so that a journal that loads has swallowed
  nothing (`NothingSwallowed`). `MetricsGrow` is the lemma on `derive_metrics`: over a journal
  and a beginning of it, ids, passes and elapsed days only grow. The days need the times to rise
  from any record to any later one, of which `load_journal` checks neighbours only
  (`TimesRise`, by a least counterexample).

- **`SealedCollectionIsIntact`, `CollectionStaysTrustworthy`.** Three invariants. `FrozenOK`: the
  sealed source, the saved state and whatever a command is about to save are beginnings in
  which each record continues the one before it (`IntactIn`), and behind a break there are as
  many records as writers that had read before it and have appended since: the break and the
  writers still to append are together no more than the runtimes (`InFlight`, by cardinality;
  the audit writer is counted too, and the break itself used up one). `SealOK`: a receipt's
  metrics are of a beginning of its source, so a count over them is witnessed by the source's
  own attested records (`CountIsWitnessed`). `BrokerOK`: a broker that may begin a command or be
  saved has the fills of the last attested sample (`InSync`), and one that has begun will have
  them once the first event of its command is recorded (`Continues`); no command but the cycle
  records a sample, and the cycle records it first (`CommandEvents`). The second theorem assumes one
  runtime, as the run has: with two the continuity is false (section 4). The first holds for any
  finite number.

### Books that add up

Five components are right when a sum is: `SumFunctionOnSet` of the community modules, over
the events of a log, the grants of a span, the active reservations, the lots of a sleeve.
The prover cannot use an induction principle that takes a predicate, so `Books_proofs`
argues by smallest counterexample: `MinimalSubset` gives, of a set of bad subsets of a finite set,
one that stops being bad whatever is taken from it, and follows from the library's fact
that strict inclusion is well founded there. From it: the sum exists and is unique
(`TallyExists`, `TallyIsUnique`), any element may be taken out first (`SumRemove`), and the
sum over one element more, over disjoint sets, of a difference, of a part
(`SumAdd`, `SumUnion`, `SumMinus`, `SumOfPart`).

- **`RestartHoldsTheReplay`.** `CheckpointInv`: the signed positions are the replay of the
  signed chain, whatever is appended, saved, tampered with or restored, and what was
  restored is that replay.
- **`SpansStayWithinTwiceLimit`.** `RateInv` bounds what was granted since *any* moment
  (`GrantedSince`): after the start of the window by what the window used, before it by that
  and one limit for the window before and for each new configuration. The bound for a span
  alone is not inductive: a span that began in the window before must know how much of it
  this window may still add.
- **`OvercommitStaysBounded`, `CapitalIsNeverOvercommitted`.** However many processes reserve, the
  sum is at most one amount per *other* process beyond the balance; the run reaches the bound, so
  none smaller holds. `ReservedInv` says which of them have a claim: every process between its check and its commit
  may still add one amount (`Settled`), or the one that checked last has its own in the balance
  already (`SettlesWith`). A commit also writes over a row that it read long ago, which may take an
  amount the check never counted (`Peak`: the column that is not written keeps what another
  process put there). That costs no more than the check of that other process was allowed, but
  for one case: every process is inside `reserve`. `LastIsFresh` closes it: nothing is committed
  then, so the process that read its row last still sees it as it is. With one process, or the
  locked ledger, the bound is the documented promise, `NoOvercommit`; no assumption limits the
  number of processes of the first theorem.
- **`PaperBooksStayBalanced`.** `PaperInv`, `Climbed`: the levels sold are the first ones,
  two shares and then the rest; the stop takes what is left. The quantities are multiples of ten
  units, so that the 30 % shares are exact (`PaperAssumption`).
- **`SleeveBookStaysTrue`.** `SleeveInv`; the step that carries the weight is `close`. `ClosedTotal`
  shows, by a least index, that what the loop takes from its candidates adds up to the quantity of
  the exit; `OlderLotsFirst` that a lot is touched only when the older ones are used up.

### Only model-checked

- `SubmitReturns` and `EventuallySettled` are liveness, which the prover does not treat.

One assumption is on a caller the repository does not have: `FinishedIsTrue` of
`RaceResolution` holds when the fills are the last thing read for
`resolve_unknown_outcome`. Read before the status they may miss a fill that came in
between.

## 6. Running

In this directory: `tlc -config <cfg> <module>` for a run of PROJECT.json, `tlapm
<module>.tla` for the proofs.

## 7. Plan

Done: execution path and lease; risk control; event stores; reservations and
projections; operation lock and deployment; bounded commands; the books, feeds and
ledgers around a position; setup and research ledgers; campaign, transport, acceptance,
dependency locks, packaging, TESTNET scenario and local evidence.

Left to model, should the code around them grow: a caller for the checkpoint and the
race classifiers, a durable receipt store for the consumer, a lock for the commands of
section 1 that run unserialised.

Every safety property the runs check is proved, by name or part by part. A theorem that would
add to them: the continuity of the broker for several runtimes, once the commands take a lock.
