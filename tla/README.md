# Verification of GRAM Scope's durable state machines

GRAM Scope (repository `ton-tracker`) is a local-first investigation workspace for TON
wallets: a FastAPI backend over SQLite, a React frontend, and a set of operator commands that
deploy signed releases on one host. This directory holds TLA+ models of the parts of it that keep
durable state through concurrency, crashes and retries or that promise something about documents
computed from it, the TLC configurations that check them on small instances, and theorems that
TLAPS proves for all instances.

Every definition of a model is translated from the source. Paths below are relative to `src/`.

## 1. Inventory

| Part | State it keeps | Operations | Hard behaviour | Here |
|---|---|---|---|---|
| **CaseSync job queue and worker** `backend/services/case_sync_jobs.py`, `enqueue_sync`/`cancel_sync` in `wallet_cases.py` | rows of `wallet_case_syncs`: state, attempts, due time, lease token and end, cancellation, run, `status_version`; locals of the worker thread | recover, claim, load, validate, build with heartbeats, retry, publish, fail, cancel; HTTP enqueue and cancel; start, stop | two workers, lease that ends while its holder works, cancellation against publication, stop and kill anywhere, old clock readings | checked, proved |
| **Wallet Case lifecycle** `wallet_cases.py` | `wallet_cases` rows (live, archived) | create or open, update, archive, restore, delete | stale reads before a write, deletion under a busy worker | partly (`CaseSyncJobs`) |
| **CaseEvidence queue** `case_evidence_jobs.py`, `wallet_case_evidence.py` | rows of `wallet_case_evidence_verifications`: as above, plus the prefix of proof stages whose artifacts are bound | enqueue, compare-and-swap cancel, recovery with one closing transaction per row, stage loop, bind, finish | unfenced bind, bounded compare-and-swap, nested closings after storage errors | checked, proved |
| **Stream checkpoints, continuation plan, backfill** `wallet_case_stream_checkpoints.py`, `wallet_case_sync_manifests.py`, `wallet_cases.py:922-3600` | manifest and checkpoint per sync, chain of resumed syncs | resume a checkpoint, a plan, a schedule; read schedule, receipt, outcome, history floor | plan read earlier than resumed, documents recomputed later, chain across failed syncs | checked, proved |
| **Provider adapters** `adapters/*`, `wallet_activity_ingestion.py` | the acquisition in progress | fetch pages, normalize | errors in the middle of a walk, repeated and short pages, events in progress | pages checked, proved |
| **Reports, findings, activity views** `wallet_case_activity.py`, `wallet_case_report*.py`, `wallet_case_findings.py` | stored report revisions | page walks, build a report in three reads, store it, list revisions, findings, flows | syncs and attempts that commit between the reads | checked, proved |
| **TON liteclient process** `ton_liteclient_process.py`, strict proofs | slots, registry of children, request files, cache, trusted block, stored proofs | start, wait, stop, clean up; follow links; store | exit hook against start, orphaned children, torn cache files, liteservers that lie | checked, proved |
| **Deployment state** `ops/deployment_state.py`, `ops/deploy_release.py` | ledger of events, receipt, journal of the attempt, on the host's disk | authorize, prepare, checkpoint, record success, resume, rollback | kill or power loss between any two renames and fsyncs | checked, proved |
| **Recovery points** `ops/recovery_point.py`, `backup_sqlite.py`, `restore_sqlite.py` | backups, health records, archives with manifests | copy, prune, drill, publish, retain | two writers without a lock, kill between archive, record and pruning | checked, proved |
| **Migrations** `database_migrations.py`, `migrations/versions` | schema and revision | upgrade before start | an upgrade that dies at any statement | checked |
| **Case catalog** `wallet_cases.py:334-466`, `repositories/wallet_cases.py:86-142` | opaque cursor with a frozen cutoff | list a page | pages while cases change | - |
| **Operational checks** other `ops/*.py` | none | validate | sequential | - |
| **Interval coverage, history readiness** | none | pure | interval arithmetic | - |
| **PnL, clustering, ledgers** | none | pure | decimals | - |
| **Wallet ownership proof** | challenges | issue, verify once | replay, expiry | - |
| **Browser polling client** `frontend/src/useWalletCaseSyncJob.ts`, `useWalletCaseEvidence.ts` | shown job, pending idempotency key | start, poll, cancel | answers out of order, lost answers | its acceptance rule and its decoders |
| **Browser views** | component state | render | - | - |
| **Lifespan** `backend/main.py` | one worker and runner of each queue | start, stop with a 5 s join | the daemon thread may outlive its runner | partly |

How they interact: the HTTP handlers and the workers share nothing but the SQLite tables. A
handler reads in one transaction and writes in a later one; the unique indexes, the CHECK and
foreign-key constraints and the `WHERE` clauses of each UPDATE are the only coordination. A worker
claims a row by a conditional UPDATE that sets a random lease token and repeats state, token and
lease end in (almost) every later statement. The CaseSync worker runs a page acquisition and
publishes run, manifest and checkpoints in one transaction; a resume request continues a
checkpoint. The Evidence worker starts liteclient children and binds the proofs they return.
Activity, reports and findings are computed from both at read time. The browser polls and keeps
the answer with the highest `status_version`. The rollout migrates the database, stops and starts
the containers in which all of this runs, and ends with a recovery point.

What makes the parts correct, and is stated as properties: a job is claimed at most `MaxAttempts`
times and ends once (both queues); nothing active is ever unreachable for claim and recovery; only
the latest claim publishes; an accepted cancellation excludes a result; one active job per case;
what a polling browser sees never goes unnoticed; every job ends; a chain of continuations is one
walk without gaps, and what was computed from it can be computed again; what a reader is answered
is one snapshot, loses nothing and claims no more than was proven; children never outnumber their
slots and none outlives a shutdown; trust never leaves the chain; the deployment directory is always
one that the next command accepts and that names the running release; enough recovery points
survive; an interrupted upgrade is carried on.

## 2. Modules

| Module | Stands for | Proofs in |
|---|---|---|
| `JobContract` | what a durable job promises, without leases, clocks and transactions | (refined by both queues) |
| `CaseSyncJobs` | CaseSync queue, its workers, the requests and the case lifecycle around it | `CaseSyncJobs_proofs` |
| `CaseEvidenceJobs` | Evidence queue, second implementation of `JobContract` | `CaseEvidenceJobs_proofs` |
| `ProviderAcquisition` | the two page loops of the TonAPI adapter | `CheckpointBackfill_proofs` |
| `CheckpointBackfill` (extends it) | checkpoints, resume requests, their worker, chains, plans, schedules, receipts, outcomes | `CheckpointBackfill_proofs` |
| `CheckpointDocuments` (extends it) | the documents, the server's schemas and the browser's decoders | |
| `CaseActivity` | pages of Activity over a pinned snapshot | `CaseReads_proofs` |
| `CaseReports` (extends it) | reports, stored revisions, Evidence catalogs | `CaseReads_proofs` |
| `CaseFindings` (extends it) | findings and flows | `CaseReads_proofs` |
| `CaseReads` (extends it) | one case from any stored history: its syncs, attempts, archival and deletion together with all who read it | `CaseReads_proofs` |
| `LiteclientProcesses` | owners, children, slots, cache, exit hook, stored proofs of a trace | `ProofCapture_proofs` |
| `MasterchainProofs` | the links a client accepts and what a stored proof is said to show | `ProofCapture_proofs` |
| `DeploymentState` | ledger, receipt and journal through crashes | `DeploymentState_proofs` |
| `RecoveryPoints` | backup writers, watchdog, exporter of recovery points | `RecoveryPoints_proofs` |
| `SchemaMigrations` | the 28 revisions as scripts of statements, upgrades that die | `SchemaMigrations_proofs` |
| `MCCaseSyncJobs`, `MCCaseEvidenceJobs`, `MCCheckpointBackfill`, `MCDeploymentState` | instances of one module | |
| `MCLocalRunners`, `MCBackfillWorks`, `MCProofCapture`, `MCHostTools`, `MCCaseReads` | several parts in one run: a constant of the behaviour (`runner`, `work`, `part`, `tool`) selects the one that moves, because those parts share no state that both write, or because TLC cannot follow them all at once (`MCProofCapture`, `MCCaseReads`: the theorems are about the modules they extend, without `part`) | |

Left of the plan, in this order: the page walk of the case catalog; the browser polling client
composed with a queue; the ownership challenge; interval coverage as pure operators.

## 3. How the models correspond to the code

**Steps.** One action is one committed SQLite transaction together with everything its function
does up to the next database access, or one read whose result is used later. SQLite serialises
writers, and pysqlite does not open a transaction for a SELECT: a check that is made by SELECT
before an INSERT is therefore a step of its own (`BeginEnqueue`, `BeginDelete`, `CheckPublication`,
`ObserveForCancel`, `ReadForBinding`, `RecheckPlan`, `CheckTip`), and only the statement and the
constraints guard the write. Reads that commute with everything that can happen until the following
write are part of it. On the host a step is one rename, unlink, fsync or DDL statement.

**Time.** In the queues a column that holds an instant holds the ticks left until then; `Tick` lets
one tick pass for the whole system and the model's counters do not grow. Each handler reads the
clock and only then waits up to 30 s for the write lock, so every comparison and every new lease
end uses an instant that is `lag` ticks old, `0 <= lag <= MaxLag`. This over-approximates: the lag
of a reader that never waits is 0. The wall clock is monotone; a clock set back is not modelled.

**CaseSyncJobs.** `cases`, `syncs` are the two tables (columns that appear in no guard and that no
property mentions are left out). `worker[w].at` is the point of `run_once`/`execute_claimed`
between two transactions; its other fields are the locals alive there. `request[r]` holds what a
handler has read. `lastClaim` is a history variable. The run that a worker builds is named by the
lease token of its claim. An error in a closing statement leads to the next iteration and to
recovery, as `run_once` does. Left out: scopes, plans, progress, error texts, catalog events,
`updated_at`, and the Evidence verifications that also block archive and delete. The checkpoint
and manifest rows written with the run and the resume requests are in `CheckpointBackfill`.

**CaseEvidenceJobs.** `progress` counts the bound stages; whether stored artifacts pass their local
revalidation is a free choice wherever `_revalidated_artifacts` is called. `todo` holds the rows
that `recover_expired` collected and then closes one at a time. `lastTry` says that
`execute_claimed` or `run_once` is already closing the job after an error, so that another error
ends the iteration. `_bind` is two steps because its SELECT is fenced and its UPDATE (by primary
key) is not; what stops a late UPDATE are the CHECK constraints (`BindingAllowed`). The reads
`_cancelled` and `_has_binding` before a stage are one step. The case is only seen by its deletion;
the id of an erased row is not given again while a worker still holds it (bound).

**ProviderAcquisition, CheckpointBackfill, CheckpointDocuments.** A row of the provider is its
logical time; `FetchPage` lets the provider answer any page the constants allow (`Faults`:
error, malformed page, first page repeated, page cut short) and applies every check of the adapter.
A content-addressed id is the value it addresses: the checkpoint of stream `s` published by sync `n`
is `(n, s)`, a plan is its vector of tips, a schedule is `[tips, active, budget]`. A handler's reads
are separate steps, each of which sees the newest commit; the worker's validation, acquisition and
publication too. The lease protocol is left to `CaseSyncJobs`: a job here is claimed, runs, crashes,
is cancelled or publishes, one at a time. Documents keep the fields their readers compare; a schema
(`Schema...`) and a decoder (`Decodes...`) are predicates that must accept every document built.
Full syncs are bounded syncs only; plan-bound requests always carry a budget.

**CaseActivity, CaseReports, CaseFindings, CaseReads.** A row is a number into `Observable`: kind,
identity, time, one value for every field a filter compares, and whether its stored form agrees with
its raw form. A page is rebuilt from the rows of all usable syncs up to the pinned snapshot at every
request. A report joins three reads without a common transaction, each a step; content addresses are
the contents. Attempts move as readers may glimpse them between two reads (`Follows`); because `_bind`
does not look at a cancellation, an attempt may still bind a stage after one was accepted. Findings
and flows are the published rules over the same reads; `FindingsClaimTheirWeakest` states which
activities a rule is about apart from how the code groups them. `CaseReads` lets all of this happen in
any order, to a case that starts with any history a case can have stored (`Histories`). Texts, hashes,
decimals, amounts and the parsing of parameters are left out; ties that the code breaks by hash are
broken by number. The highest assurance level is unreachable, as in the code (`full_history_proven` is
`Literal[False]`).

**LiteclientProcesses, MasterchainProofs.** An owner is a thread that captures a proof, a child a
process; `slots`, `registry` and `files` are the semaphore, the registry and the directory. The
child's cache is whole, torn or newer files under a lock that dies with its holder. Cancellation and
deadline may strike at each check point. `trace` is the verification that the selected row ids name:
it may be deleted and made again under the same ids. A request reads the verification and then its
proofs, by SELECTs without a transaction; it reads them again after the capture, again without one
(`reading`, `reloaded`), and only the flush takes the write lock, so a deletion and a new verification
fall anywhere between (`late` marks an insert they have overtaken). Error codes are folded into one
failure. Links carry the blocks they start from and lead to; validators sign or not, faulty ones sign
anything; `SignedByTwoThirds` adds up weights as the code does. Cells, hashes, signatures and the
shuffle of validator sets are abstracted, and a proof of a block is a walk.

**DeploymentState.** One action per rename or unlink and one per fsync of its directory. `files` is
what a command reads, `survivors` what a power loss may leave, `torn` that a killed command left a
rename unsynchronized. The gates between journal and activation (preflight, backup, rehearsal,
health) are one step that passes or an interruption. Event digests identify an event with its
position. Journals of the old schema exist only as attempts that a v3 receipt proves committed.
The limit of 100000 events, permissions, timestamps and the fsync of a newly created ledger
directory are left out; `WriteBack` may happen at any time.

**RecoveryPoints.** A copy of the database is named by its order of completion. Writers, the
watchdog and the exporter take one step per file they publish or remove; a point that has lost a
file is no longer `whole`, a killed export leaves `debris`, and an operator may clean up. The
restore into an empty volume is left out. `MayCopy` bounds how many copies are made while another
writer is at work, as the intervals of the compose file do.

**SchemaMigrations.** A schema is a set of objects (tables, numbered columns and indexes, triggers);
each revision is a script of creations, drops, writes and checks with a predicate for the fragments
it adopts. SQLite commits DDL statement by statement until the first INSERT or UPDATE opens the
transaction of `engine.begin()`: `disk` is what is committed, `mine` what the run sees. Rows matter
only as far as an upgrade refuses them. Column types and two simultaneous upgrades are left out.

## 4. Runs

| Run | Instance | Checks |
|---|---|---|
| `lease_fence` | 1 case, 1 row, 2 workers, 1 request, 2 attempts, lag 1 | types; recoverable jobs; run of the last claim; cancellation before publication; versions rise; refinement of `JobContract` |
| `request_races` | either queue: 1 case or selection, 2 rows, 1 worker, 2 requests | one active sync; nobody works on a case that is not live; an accepted cancellation holds; with deletion and reuse of row ids |
| `runner_liveness` | either queue: 1 worker, 1 row, 2 attempts, fairness | every job and every verification leaves its queue |
| `archive_race` | finding | an archived case can have a queued sync |
| `backfill_works` | 1 case, 2 streams, 4 rows (two in one second), pages of 2; either one request at a time (cap 2, failing pages, 2 attempts) or two interleaved (cap 1, repeated pages); 3 syncs | complete chains have every row; chains are one walk and never fork; receipts and outcomes reproduce; every document is served and decoded |
| `unsettled_event` | finding | a continuation forgets an event in progress |
| `host_tools` | one tool per behaviour: rollouts (3 attempts, 3 releases, two of one version, 5 kinds of host), recovery (2 writers, 3 backups, 3 points, retention 2, 2 kills), upgrades (every revision to head 16 or 28, 2 deaths) | consistency; running release recorded; unmanaged database refused; every interruption can be resumed; recovery points survive; the exporter keeps the release; upgrades are carried on; proofs stay unique |
| `durable_publication` | finding | a journal removed before its event is durable |
| `evidence_queue` | 1 row, 2 workers, 2 attempts, 2 stages | recoverable jobs; bound artifacts kept in order; refinement of `JobContract` |
| `evidence_fence` | finding | a late binding reaches the row of another claim |
| `proof_capture` | 2 owners, 2 children, 1 slot (the code has 2). children: stops, kills and starts of the application, one verification. deletions: 3 verifications, the first and the last of the same transactions, while the application stays up. links: 3 blocks, 3 validators of which the faulty hold exactly two thirds, 2 links | live children bounded; shutdown misses none; readers find one whole file; stored proofs cover the trace unless overtaken; answers show proofs of their own transactions; trust stays on the chain; canonical proofs are of chain blocks |
| `case_reads` | activity: 2 syncs of up to 3 of 9 rows, pages of 1; reports: 2 requests, up to 4 attempts, 3 revisions, one sync published and one running | walks are frozen; nothing is lost; every document is accepted; every claim is proven |

*Why the bounds are enough.* Two workers and two attempts are the least with which a lease can be
lost, recovered and claimed again while the first holder still works; there are enough tokens
that a stale one never equals the current one. One lease tick and lag 0 or 1 give every order of
expiry and statement, because only the sign of the remaining time is compared. Two rows of one case
let an insertion race with another row, a deletion and the reuse of a rowid. Two proof stages let
a late binding hit a row that is ahead of it. Four provider rows on pages of two give a walk that is
interrupted, continued and ended, with rows of one second across a page boundary; three syncs give a
chain of three revisions or two streams that compete. Three deployment attempts give an upgrade and
a rollback after the first release, and an interrupted attempt at each place. A second child that
starts while the first is stuck or orphaned is the least that can exceed one slot. Two thirds held
exactly by the faulty is the boundary of the comparison. Random identities, workers and requests
are interchangeable, so safety runs use symmetry; liveness runs do not.

*Bounds that are guards of an MC module.* `MCCaseReads` cuts interleavings of its reports half, each
by a guard with a name: the worker and new verifications move while at most one request is in flight
(`Uncrowded`), a second request meets a first only where both store a report of one snapshot
(`Meets`), a traversal of revisions begins while one is inserted (`TraversalMeets`), the case is
archived while somebody reads it (`ArchivedWhileRead`), the sync that publishes between two reads
brings one conflicting row (`LateRows`); and the reports start from two fixed histories
(`MCHistories`). `MCProofCapture` separates stops and kills of the application from deletions of the
trace. `CaseReads` and `LiteclientProcesses` have none of this, so what is proved of them (section 5)
covers the interleavings that TLC is spared.

*Where a behaviour may stop.* Deadlock is checked except in `backfill_works`, `unsettled_event`,
`host_tools` and `case_reads`, whose models end at their bound on syncs, attempts, copies or
revisions. The properties of `CheckpointDocuments` are evaluated where the tables have just changed
(`AtRest`; all but the schedule where the last job has published): documents depend on nothing else.

*Fairness.* `Fairness` of either queue assumes that time passes; that the daemon loop and an executing
worker keep being scheduled (provider calls have transport timeouts, the liteserver child a 180 s
wall); that a dead process is started again (`restart: unless-stopped` in `compose.production.yml`);
and, as strong fairness of recovery and claim, that crashes, stops and storage errors do not strike
before every single one of them. Crashes, stops and errors themselves are unconstrained. HTTP
requests have no fairness. Not covered: starvation by a constant supply of other jobs; only one row
competes.

## 5. Proofs

Every theorem is about the specification of a component's own module, and holds for all values of
its constants that satisfy the named assumption of the module. So the values in section 4 are not
assumed, and neither are the guards and the choice of a `part` that only an MC module has. What
stays are the constants that a module itself uses as a bound; the theorems hold for each of their
values: `MaxLag` of both queues, `MaxSyncs` of `CheckpointBackfill`, `Children` and `MaxTraces` of
`LiteclientProcesses`, `Attempts` of `DeploymentState`, `MaxBackups`, `MaxPoints`, `MaxKills` and
`MaxOverlap` of `RecoveryPoints`, `MaxCrashes` of `SchemaMigrations`, and in `CaseReads` `Histories`,
`EarlierAttempts`, `RowSets`, `Published`, `Glimpses`, `MaxSyncs`, `MaxAttempts`, `MaxVersion` and
`MaxRevisions`. What section 3 calls left out or a bound of the model is absent from the theorems too.

| Module | Theorems | Property of a run |
|---|---|---|
| `CaseSyncJobs_proofs` | `TypeCorrect`, `JobsStayRecoverable`, `LeaseFenceHolds`, `CancellationHolds`, `OneActive`, `VersionsRise`, `HoldersCaseIsLive`, `QueueImplementsContract` | `TypeOK`, `ActiveJobsAreRecoverable`, `RunBelongsToLastClaim`, `CancelBeatsPublication`, `OneActiveSyncPerCase`, `VersionRisesWithEveryChange`, `HolderWorksOnLiveCase`, `ImplementsJobContract` |
| `CaseEvidenceJobs_proofs` | `TypeCorrect`, `VerificationsAreRecoverable`, `AttemptsAreRemembered`, `CancellationHolds`, `BoundProofsAreKept`, `EvidenceImplementsContract` | `ActiveVerificationsAreRecoverable`, `AcceptedCancellationHolds`, `ProofsAreKept`, `ImplementsJobContract` |
| `CheckpointBackfill_proofs` | `ChainStaysOneWalk`, `CompleteChainsHaveEveryRow` | `ChainIsOneWalk`, `CompleteChainHasEveryRow` |
| `ProofCapture_proofs` | of `LiteclientProcesses`: `LiteclientTypesAreKept`, `ChildrenStayBounded`, `ShutdownFindsEveryChild`, `ReadersFindWholeFiles`, `ProofsCoverTheirTrace`, `AnswersShowTheirTrace` | `LiveChildrenStayBounded`, `ShutdownLeavesNothingBehind`, `ReaderFindsOneWholeFile`, `StoredProofsCoverTheTrace`, `AnswersCoverTheirTrace` |
| | of `MasterchainProofs`: `ProofTypesAreKept`, `ClientsTrustTheChain`, `StoredProofsAreCanonical` | `TrustAdvancesOnTheChain`, `CanonicalProofsAreOnTheChain` |
| `DeploymentState_proofs` | `DeploymentTypesAreKept`, `DirectoryStaysConsistent`, `RunningReleaseStaysRecorded`, `ResumptionIsNoDeadEnd`, `UnmanagedDatabaseStaysRefused` | `StateStaysConsistent`, `RunningReleaseIsRecorded`, `InterruptedAttemptCanResume`, `UnmanagedDatabaseIsRefused` |
| `RecoveryPoints_proofs` | `RecoveryTypesAreKept`, `PointsSurvive`, `ExporterKeepsTheRelease` | `RecoveryPointsSurvive`, `ExporterKeepsRelease` |
| `CaseReads_proofs` | `ReadsAreFrozen`, `NothingIsEverLost`, `AnswersPassTheirSchemas`, `ClaimsAreProven` | `WalksAreFrozen`, `NothingIsLost`, `AnswersAreServed`, `EveryClaimIsProven` |
| `SchemaMigrations_proofs` | `UpgradesResume`, `ProofsAreUnique` | `InterruptedUpgradeResumes`, `ProofsStayUnique` |

Each inductive invariant was first checked by TLC on the instance of its run.

**CaseSyncJobs.** The argument has three layers. *Types and what workers remember:* `TypeInv` adds
to `TypeOK` that a worker past its claim knows a job and a token, and one that publishes has a result
that is not an error; the guards of the lease fence compare with these locals, so nothing else can
be said before it. *Row moves:* `EveryRowMoves` shows that each step does to each row one of ten
things (`RowStep`: unmoved, inserted, claimed, progressed, cancellation noted, put back, closed with
or without a run, erased); all later proofs are case splits over these moves and never open an
action again. *Inductive row invariant:* none of the safety properties is inductive, since a running
row whose token is not that of its last claim could be published. `RowInv` strengthens them: a
queued row has a due time, budget and no cancellation; a running row has token and lease and its
token is `lastClaim`; an active row has no run; a run is that of the last claim; a cancelled row has
no run. `HoldersCaseIsLive` adds `CaseInv` (every row and every pending insertion names a case) and
two lemmas: a case with a running row stays live, and a worker that still holds its lease keeps the
job it claimed. The refinement maps a running row with a recorded cancellation to `cancelling` and
every other state to itself; each row move is one contract step of that job or a stutter.

**CaseEvidenceJobs.** The same three layers. Every action is opened once, to show which move
(`RowStep`) it makes of each row and how requests and workers continue. The unfenced binding is why
more is needed here than in the other queue: a late `_bind` may write to the row of another claim.
What keeps the invariant is that it changes neither state nor attempts. `ScheduleRetry` compares the
attempt count that the worker *remembers* with the budget, so recoverability needs
`HoldersKnowTheirAttempt`: whoever still owns a row remembers its attempt count.

**CheckpointBackfill.** Neither property speaks of a job or an acquisition, and neither is inductive.
`WalkInv` says of the acquisition of a running row (`Acquiring`) that its pages are one walk from the
position of the row to the cursor where it stands; of a published row (`Walked`) that its pages are
such a walk of which the last alone may have failed; of a row that has started (`Continues`) that its
position is where the newest checkpoint of its stream ended and that no checkpoint of the stream lies
between the two. The last part carries everything: a request may have read its tip long before it
inserts (`Prepared` says no more than that the tip once existed), but a claim makes the part true by
validating, and it stays true because only the one active row can publish. Chains are recursive
functions of the rows, so the step from one revision to the next is made by a least counterexample:
the chain of a continuation is that of its source and one more (`ChainGrows`), and the walks join
(`WalksJoin`) because a resumable checkpoint ends at its last good page (`ReadyGoesOn`). `SweepInv`
adds what the pages of the transaction stream contain: an acquisition has seen exactly the rows
between its position and its cursor and accepted those inside the interval (`Sweeping`). It rests on
what a page is (`PageOf`: all rows down to its last) and on two facts about the provider's answers:
the n newest rows of a finite set are such a page (`FirstRowsArePage`, by counting newer rows), and a
repeated first page cannot pass for one below a cursor (`AnswerIsPage`). Then a complete chain has
the rows above the position of each revision from the earlier ones and those below from itself,
which also shows that no two share one. The theorem assumes that the provider's history does not
change while it is walked, as the model does. No bound on syncs, chain depth or budgets is used.

**LiteclientProcesses.** The invariant is a conjunction of named parts: `Holding` (who holds a slot),
`Storing`, `Locking`, `Fencing` (what the exit hook has not yet seen), `Attending`, `Filing`,
`Accounting` (free slots plus holders are all slots). The bound on live children is a cardinality
argument: the owners that hold a slot map onto the live children that are not orphans, stuck or
condemned, so those are no more than the slots taken. `Storing` relates what an owner holds to the
verification it was captured for. `ProofsCoverTheirTrace` says that stored proofs belong to the
verification they are stored with unless a deletion and a new verification overtook the insert, which
nothing in the code prevents (section 6); `AnswersShowTheirTrace` says that even then, and whatever is
deleted or captured between the two reads of an answer, nobody is shown proofs of other transactions.

**MasterchainProofs.** `ProofInv` consists of types, `Beliefs` (what a client trusts is on the chain,
at every trust level but the unproved) and `AnswersAreTrue`. The assumption `ChainAssumption` says
that no set of faulty validators holds more than two thirds, over *subsets* of the faulty ones:
that a subset weighs no more than the whole needs induction over a sum.

**DeploymentState.** The invariant says of the directory that it is `Good`: consistent, and
either without an attempt (`Settled`), with one that can be repeated (`Resumable`) or with one that is
proved (`Proven`); of the command at `Working` places what it has done to it; and of the survivors of
a power loss (`Surviving`) that each is good too, whatever of the last write it holds. One lemma per
write (`Prepared`, `Checkpointed`, `Activated`, `Published`, `ReceiptIsBound`, `Cleared`) says what
it makes of any good directory, whether the command or a power loss then reads it. Consistency,
running release and resumption have the hypothesis `~PowerLossAfterKill`, as in the runs: TLC
finds all three violated when the power is lost after a kill and before its unsynchronized rename
is written back (the resumed command goes on from a state that the loss takes away; the finding
`durable_publication` is the harmless half of this). The refusal of unmanaged databases needs no
such hypothesis and is proved from an invariant of its own.

**RecoveryPoints.** `RootInv` speaks of the points that are `Kept`: whole and not on the list of the
retention at work. Enough of them remain, and the record names one of them; a kill empties the list
and so only adds to them. What carries it is that every step before the retention finds all points
whole (`Phases`), that numbers are unique and no more than publications (`Numbered`), and two
lemmas about the operators: the n newest of a finite set are all of it or at least n (`NewestSize`,
by its greatest element outside), hence the retention takes nothing or leaves enough
(`RetentionLeavesEnough`). `BackupTypes` and `RootTypes` hold of the writers, the drill, the export
and the files what `RecoveryTypeOK` states: a run under way is about a copy made before, an export not
yet visible is bound to a release. The only assumption is that the retention is at least 1; the code
demands 2.

**CaseReads.** The theorems are about `ReadsSpec`: pages, reports, verifications, publications,
archival and deletion in any order, from any history, whatever `Observable`, the queries, the limits
and the requests are. `ReadsOK` is the inductive invariant. For Activity it says what a row of `syncs`
is and that the first `n` of them never change where a settled snapshot looks (`Frozen`); hence
whatever is computed from a snapshot, `Built`, `View` or a refusal, stays what it was (`FrozenBuilt`,
`FrozenView`, `FrozenRefusals`, each carried over by the lemma below it), and a traversal in progress
(`WalkOK`) has shown the first k elements of a view that a next page recomputes. For reports it says
of each request what it has read (`BuildingOK`), of each attempt that it is bound to a transaction of
its snapshot (`AttemptsOK`), of each stored revision that some read of its snapshot can give it
(`Storable`: two such of one snapshot have the same Activity), and of a traversal of revisions where
it stands (`HistoryOK`). Sorting is done once for all: `RankGrows`, `Ranks` and `ByRank` show that in
a finite set with a strict total order each rank has one element, and every order of the code (items,
pages, revisions, identifiers, strongest attempts, winners of a group) is shown to be such an order.
`NothingIsEverLost` adds what a sync stores (`StoredOK`) and follows a row to the item, the conflict
or the gap that accounts for it. `ClaimsAreProven` counts: transactions with a proof are transactions
of the snapshot, so as many as all of them are all of them (`ReachedAreTransactions`,
`ReachedAtMost`); and it shows that the count and the level of a finding are those of all activities
its rule is about, not of the support that is shown of them (`SaysOfAll`, `AffectedBy`). All but one
of the rules are about transfers and swaps, to which no attempt is ever bound (`OthersHaveNone`,
`PatternSays`); the one about transactions is capped at what a provider has observed, however much is
proven of its support (`AboutSays`). `AnswersPassTheirSchemas` needs that no request lists more
attempts than it then counts, although both reads are apart (`WellRead`: the attempts of a snapshot
only grow, and a deleted case answers nothing), that a stored attempt keeps its CHECK constraints
(`Consistent`, an invariant of the steps of the worker), and that no content is stored twice
(`StoredOnce`). Then each validator is a lemma about one document: an item, a list, a detail, a
report, a catalog, a history, a comparison, a flow, a finding. The assumptions are those of the
modules: types of the constants, limits of at least 1, earlier attempts that satisfy the CHECK
constraints of their table (`ReportAssumption`), and histories whose syncs are rows of their table,
one active at most and last, with rows that were asked for and lie in the period acquired, faults
excepted (`HistoryAssumption`).

**SchemaMigrations.** The properties are about the states an upgrade may leave behind, so `UpgradeInv`
describes them: a committed database (`Adoptable`) is the schema of its version plus what the first
m statements of the next revision made (`After(r, m)`), for some m, with no rows that a later
revision would refuse to adopt; what a running upgrade sees (`Upgrading`) is such a schema with m at
least as far as the statement it stands at. The argument has four layers. *What the scripts say:*
`At0001` to `At0028` compute what each revision creates, drops and does besides (the scripts are
concatenations, so that is one lemma per building block). Hence each object is created by one
revision (`MadeOnce`), no revision drops what it created (`OwnObjectsStay`), and a statement takes
`After(r, m)` to `After(r, k)` with k past it, or changes nothing because an earlier upgrade was there
already (`NextStatement`): this is why an upgrade that repeats a fragment goes on. *What a preflight
finds:* the parts it compares are found in the right order because of where they stand in the script
(parent tables first, then columns, then indexes and triggers), so `Adopts0002` to `Adopts0028` show
that each accepts every `After(r, m)`, save 0008 to 0014, which adopt no fragment (`AdoptsAll`); 0001
starts only where none of its tables is. *What
statements do besides DDL* (`StatementsAre`): they store rows that no later preflight looks at, or
refuse. Revision 0017 needs a part of its own, that a repeated upgrade has closed the second active
sync before it looks for one. *Steps:* each action keeps `UpgradeInv`; DDL is committed at once as long
as nothing was written, which is why the committed database moves inside a revision only when it is
the first one of an upgrade. `ProofsAreUnique` then only needs which of the three unique indexes
each `After(r, m)` has (`IndexesStay`). The one assumption is that the images are among the 28
revisions.

*Only model-checked.* Liveness (`EveryJobSettles`, `EveryVerificationSettles`) and whatever depends on
`ENABLED`, which the prover does not handle. `AnswersReproduce`: receipts and outcomes compare sums
that are folded over chains, and what a fold computes needs induction over data; it also says that
no answer is refused for its depth, which holds in the run because three syncs stay below the
revision limit (a chain at the limit may still be continued once and is then refused). The
documents of `CheckpointDocuments` (`DocumentsAreServed`) are made of the same folds.
`AcceptedCancellationHolds` is proved of `CaseEvidenceJobs`; the run `request_races` checks it of the
instance that `MCLocalRunners` makes of that module. The bodies of the migration scripts are data of
`SchemaMigrations`: that the 28 sequences are those of the code rests on the mapping, not on a proof.

## 6. Where code and documents disagree

* `archive_race`: RELEASE_NOTES says that a queued or running synchronization blocks archival.
  `enqueue_sync` inserts for a case it read earlier; archival in between is not noticed, and an
  archived case has a queued job (which the claim later closes as unavailable).
* `unsettled_event`: REAL_WALLET_INGESTION_PLAN says that in-progress events keep the provider stream
  incomplete. Whether one was left out is a local variable of one acquisition: when the page cap ends
  it, the continuation starts below the event and may call the chain complete.
* `evidence_fence`: RELEASE_NOTES speaks of fenced leases that preserve artifacts. The UPDATE of
  `_bind` compares neither token nor lease nor version. `ProofsAreKept` shows that the CHECK
  constraints nevertheless prevent a loss of bound artifacts.
* `durable_publication`: PRODUCTION_DEPLOYMENT.md says that event and receipt are durable before the
  journal is removed. A resumed command trusts a ledger event that was renamed but not yet
  synchronized by the killed one.

Observations without a run:

* A comment in `_build_with_heartbeats` says that a stopping worker's detached result is discarded and
  the lease left for recovery; if the detached call raises, the exception is handled first and the
  job is closed as failed (`DetachedResultIsDiscarded` in `CaseSyncJobs`).
* `_bind` sets `status_version` to one more than it read, so a cancellation recorded in between shares
  its version with the binding, and a browser that has seen the one ignores the other until the next
  change.
* Inclusion proofs may be stored under the row ids of another verification: the reload after the capture
  (`wallet_transaction_inclusion_proof.py:165-209`) reads without a transaction, and a deletion and a
  new verification under reused ids may commit before the flush at line 238 takes the write lock,
  although the comment at 136-137 says that exact coordinates are reloaded before persistence.
  Readers and later captures refuse such proofs as a conflict until the trace is deleted
  (`AnswersCoverTheirTrace`).
* Two backup writers share no lock, so the record of an older backup can replace that of a newer one
  (`backup_sqlite.py:97`), although PRODUCTION_DEPLOYMENT.md:178-180 says the newest is restored. A
  killed export leaves entries that refuse every later export until an operator removes them.
* Revisions 0008 to 0014 adopt no fragments of themselves: an upgrade that dies exactly there is
  refused ever after (stated as a case of `InterruptedUpgradeResumes`).
* The outcome endpoint fails for a schedule whose plan was stale when it published (the condition
  `current` of `AnswersReproduce`); a failed resume publishes a blocked tip that strands a ready
  stream; a chain deeper than the revision limit makes plan and progress unreadable.
* A filter on an explicit period does not load a conflicting observation outside of it, so a list can
  show an item whose detail is then 404.

## 7. Not modelled

Case catalog: `WalletCaseCatalogEvent.id` is an INTEGER PRIMARY KEY without AUTOINCREMENT
(`models.py:131-152`), so ids of deleted events are used again and a traversal in progress can lose
or gain a case; a model of the page walk is left of the plan. Operational checks, metrics,
configuration and browser views keep no state of their own. Interval coverage, history readiness,
PnL, clustering and ledgers are pure functions over decimals, intervals and hashes. The wallet
ownership challenge is a self-contained pair of requests. The wake and poll events of the runner
loops, the polling of the browser, normalization of provider payloads and the restore into an empty
volume are left out of the modules that model their surroundings.

## 8. Running it

    tlc -workers 2 -config MCLeaseFence.cfg MCCaseSyncJobs.tla
    tlapm CaseSyncJobs_proofs.tla

`PROJECT.json` lists every run with its module and configuration, the source lines behind each
definition (`map`), the hazards with the properties that cover them, and for each property a mutant:
the definition it replaces and the operator, defined just before it and marked *Mutant*, that
models a plausible bug and makes TLC find the property violated.
