# LilacMacro Services in TLA+

A specification of LilacMacro Services (`src/`), model-checked with TLC and, where
noted, proved with TLAPS. Paths such as `domain/control-state.ts` are relative to
`src/src/`; `migrations/`, `ops/` and `docs/` are in `src/`.

The verification follows the two parts of the services in which several processes
share state that no single test controls:

* **diagnostic archives**: uploads from clients, verified, offered and deleted by the
  API and the worker over a PostgreSQL table and an object store;
* **the control plane**: commands of administrators and of the worker that change one
  stored state, an audit log and the signed snapshot every client polls.

Around them stand smaller parts, each with a table, a file or a provider of its own:
admission to the diagnostic store, shares, telemetry, administrator keys, web sessions, the
console, deployments, provisioning and heartbeats. They share no state with each other.

`PROJECT.json` maps each definition to the lines it models, lists the runs, the
hazards with the properties that answer them, the mutants and the theorems.

## 1. Inventory

Four processes (`ops/`, `docs/ARCHITECTURE.md`): the public **API** (`apps/api-server.ts`),
the **control** service that alone holds the signing key (`apps/control-server.ts`), the
**worker** (`apps/worker.ts`, three loops) and the Discord **bot** (`apps/bot.ts`). They
share PostgreSQL; API, bot and worker call the control service over HTTP
(`infrastructure/internal-api-client.ts`, 15 s timeout); API and worker use the bucket.

| Component | State | Operations | Interacts with | Hard behaviour | Correct when |
|---|---|---|---|---|---|
| Diagnostic uploads, `domain/diagnostic-service.ts` | what a handler read before an await | create, partUrl, complete, moderate, requestDownload, preverification setting | table, bucket, worker through statuses | every await lets other requests and both worker loops run; a statement's answer can be lost | one life per archive, nothing revived, a granted session not aborted |
| Diagnostic table, `infrastructure/postgres-diagnostic-repository.ts` | `diagnostic_uploads` | conditional transitions, claims with leases, retry schedules, insert within quotas | all of the above | stale leases, SKIP LOCKED batches, deadlines against ages | every status is claimed by something; capacity lent is freed |
| Object storage, `infrastructure/backblaze-storage.ts` | sessions, object versions | begin, complete, abort, head, get, delete every version, list sessions | DiagnosticService, worker | an aborted call that the bucket still performs; a lost answer | no bytes behind a tombstone |
| Verification and maintenance, `domain/diagnostic-maintenance.ts` | loops, running verifications, claimed batch | verifyPending, rejectInvalid, cleanup, reconcileMultipartOrphans | table, bucket | `Promise.all` leaves a batch behind; crash between two steps; two unsynchronised lists | accepted means intact; every archive ends |
| Admission, `insertWithinQuota`, `domain/diagnostic-capacity.ts` | counts over the table, three advisory locks, row locks | quotas, choice of archives to evict, their deletion and its failure | create, worker | concurrent creates; greedy choice; capacity lent before the bytes are gone | quotas hold, eviction stops when the archive fits and takes none in use, no ring of waiters |
| Control state, `domain/control-state.ts` | codes, schedules, disablements, game, release, floor, evidence | nine commands, publication | repository | release progression over clears and re-sets | releases only move forward |
| Control tables, `infrastructure/postgres-repositories.ts` | `control_state`, `control_commands`, `published_snapshots` | executeAndPublish, republish, reads | control service, API | SERIALIZABLE transactions waiting for one row lock; replays; lost COMMIT answers | one chain, one publication per state |
| Control service, `apps/internal-routes.ts`, `domain/command-service.ts` | requests being served | api, bot, worker commands, republish, executeFresh | API, bot, worker | callers time out while their handler goes on; one retry after a conflict | the answer tells the truth |
| Operational synchronisation, `domain/operational-sync.ts`, `controlLoop` | position in the loop | syncRelease, clearRelease, syncPlayability, republish | GitHub, Roblox, control service | failure of any step, restart, late answers | a release nobody vouches for is withdrawn |
| Readiness, `apps/api-server.ts` | none between requests | `/health/ready` | control tables | two reads on two connections | ready means served |
| Service heartbeat, `apps/service-heartbeat.ts`, `scripts/check-heartbeat.mjs` | heartbeat file, overlapping refreshes | refresh, stop, check | process manager | a probe that hangs or answers late, a file that cannot be removed | silence turns unhealthy, the newest answer stands |
| Telemetry, `infrastructure/postgres-telemetry-repository.ts`, migrations 005, 010 | events, daily counters | record a batch, sweep | API, worker | reservation before insert, contract against CHECK, wrong clocks | counters are the stored events, retention is kept |
| Configuration shares, `infrastructure/postgres-configuration-share-repository.ts`, migration 007 | shares, daily counters | create with several codes, resolve, sweep | API, worker | concurrent creates, collisions, wrong clocks | counters are the shares made, a code keeps its share |
| Administrator API keys, `infrastructure/admin-api-key-store.ts` | keys, audit | create, create with a key, authorize, count, revoke | API, console | keys are revoked while requests use them | a child stays within its parent, revoked means dead, no use lost |
| Web sessions and OAuth, `infrastructure/auth-store.ts`, `apps/auth-routes.ts` | attempts, sessions, the browser's cookies | begin, callback, sign requests, sign out, cleanup | API, Discord | repeated and foreign callbacks | one session per attempt, to the browser that began |
| Administrator console, `public/admin.js` | each page's revision | load, command, reload | API, other administrators | a lost answer, a command sent again | a change is made once |
| Deployment, `ops/apply-release.sh`, `ops/deploy.sh`, `scripts/migrate.ts` | `app/`, `previous/`, a lock, the containers, the schema | deploy, restore | operator, CI | failure or kill at any step, two deployments | the candidate or the prior release is served, whole |
| Edge provisioning, `infrastructure/cloudflare-provisioner.ts` | tunnel, ingress, records, redirect rules, secrets | provision | operator, Cloudflare | stops half-way, runs again, lost answers | the public name leads only to a tunnel that routes it, the others only where their visitors are redirected to it |
| Storage keys, `scripts/provision-backblaze-keys.ts` | keys at the provider, secrets, lifecycle rule | provision, compensate | operator, Backblaze, Doppler | a secret that is not stored, a kill | stored secrets are a working pair |
| Upload authorisation, pseudonyms, proxy trust; bot; pages; configuration; in-memory repositories | none of their own | | | | not modelled, section 8 |

## 2. Modules

Diagnostic archives, each module EXTENDS the one above it:

| Module | Models | State |
|---|---|---|
| `DiagnosticRepository` | the table, one operator per statement | `row` |
| `ObjectStorage` | sessions and objects of the bucket, seen through the adapter | `object`, `session`, `sessionAge` |
| `DiagnosticService` | the API's operations, one action per await | `req`, `granted`, `preverify`, `faults` |
| `DiagnosticWorker` | verification loop, verifications, maintenance loop, crash | `vloop`, `task`, `mloop` |
| `Diagnostics` | composition, clock, late completions, fairness, properties | |
| `ArchiveLifecycle` | abstract specification of one archive's promised life | `phase`, `content` |
| `ArchiveInvariant` | the inductive invariant of the proofs | |
| `DiagnosticRepositoryProofs`, `DiagnosticsProofs`, `ArchiveProofs` | rows and types, the archive invariant, tombstones | |
| `ArchiveLifeProofs` | leases, budget, refinement, capacity, custody of sessions | |
| `MCDiagnostics` | small instances | |

Control plane:

| Module | Models | State |
|---|---|---|
| `ControlState` | commands, `Apply`, release progression, `Payload`, freshness; no variables | |
| `ControlRepository` | the three tables, the two transactions' effects and what they check | `control`, `commands`, `published`, `lock` |
| `ControlService` | handlers step by step, callers, administrators, errors | `handler`, `call`, `clock`, `faults` |
| `OperationalSync` | the worker's control loop and its source | `source`, `sync` |
| `ControlPlane` | composition, clock, fairness, properties | |
| `CommandLog` | abstract specification of what a commander is promised | `state`, `log`, `underway`, `told` |
| `Readiness` | the API's `/health/ready` beside the control plane | `ready` |
| `ControlInvariant` | the inductive invariant of the proofs | |
| `ControlPlaneProofs` | the tables' transactions, the invariant, its consequences, the refinement, readiness | |
| `MCControlPlane` | small instances | |

The smaller parts, each self-contained unless noted:

| Module | Models | State |
|---|---|---|
| `CapacityEviction` | `selectCapacityEvictions`: which archives its loop may choose next, when it stops, who holds how much | |
| `ArchivePhases` | what the two queries of admission tell apart in an archive's life, and its moves; no variables | |
| `Admission` | creates under the advisory locks, both queries, each round of the choice, eviction, later steps of an archive | `archive`, `draft`, `admissionTime` |
| `Shares` | create, resolve and sweep of configuration shares, with clocks that are off | `shares`, `daily`, `networkDaily`, `sharer`, `resolver` |
| `TelemetryContract` | which fields contract and CHECK allow or ask for, by kind of event | |
| `Telemetry` | requests, reservation, insert, sweep | `request`, `eventDaily`, `eventNetworkDaily` |
| `ApiKeys` | keys, their audit, bearer requests that read, count and then act | `keys`, `keyAudit`, `bearer` |
| `Sessions` | login attempts, callbacks, sessions, signed requests, cleanup | `attempts`, `sessions`, `jar`, `callback`, `asking` |
| `Console` | pages of the console and the commands they send | `page`, `wire`, `desk` |
| `Deployment` | `apply-release.sh`, `deploy.sh` and the migrations, step by step | `app`, `previous`, `holder`, `serving`, `schema`, `deployer` |
| `EdgeProvisioning` | a provisioning run against an account and a zone | `zone`, `secrets`, `run` |
| `StorageKeys` | a provisioning run against the bucket's provider and the secrets | `stored`, `doppler`, `lifecycle`, `provision` |
| `Heartbeat` | refreshes of the heartbeat file and its age | `refresh`, `file` |
| `ServicesProofs` | lemmas and theorems about `ApiKeys`, `Console`, `Sessions`, `Shares` | |
| `QuotaProofs` | the same about `Telemetry`, `Admission` with `CapacityEviction` | |
| `OperationsProofs` | the same about `Deployment`, `EdgeProvisioning`, `StorageKeys`, `Heartbeat` | |
| `MCServices`, `MCOperations` | small instances of several parts: a behaviour is one of the part named by `part`, the others stand still | |

`MCServices` also has the control plane with `Readiness`. The parts of one instance
read and write nothing of each other, so that checking them one at a time loses nothing.
For the proofs each part also has a specification of its own (`AdmissionSpec`, `KeysSpec`,
`DeploySpec`, ...), with the same initial states and steps.

### How state and actions correspond to the code

*Rows and time.* The diagnostic code compares timestamps only with bounds, so `row[u]`
keeps in ticks its age (`created_at`), idle time (`updated_at`) and the time left to
each due date; `Tick` moves all of them together. Ages stop at the largest bound they
are compared with. `Settled` puts back columns that no statement reads in the new
status, so rows the program cannot tell apart are one state.

*Handlers.* A request is a record with a program counter; every `await` that reads or
writes shared state is a step, and what was read before it stays in the record
(`req[c].seen`, `handler[h].seen`) and may be stale when the next step runs. A
conditional `UPDATE ... WHERE status = ANY(...)` is the guard `In(u, ...)`.

*Failures.* A failing provider call or statement takes a `Fault`. A statement or COMMIT
may fail after it was carried out (`InDoubt`, the second branch of `Break`), and so may a
call to the bucket that aborts or deletes (`InDoubtAtBucket`). The completion of a multipart upload may be performed after its caller's abort signal
(`LateCompletion`). The worker process may die between any two steps (`WorkerCrash`,
`SyncRestart`), and a crash of the API is a caller whose request is lost. A caller of
the control service may stop waiting while its handler goes on (`Abandon`).

*The table's transactions.* In the control plane a SERIALIZABLE transaction sees the
tables as at its first statement (`Begin`), waits for the row lock and fails if the row
has changed meanwhile (`NoLongerCurrent` in `Lock`); otherwise it holds the lock until
`Commit` or `Break`. PostgreSQL's further serialization failures are among `Break`.

Admission's transactions run at READ COMMITTED: each query sees what is committed when it
starts, and only the advisory locks (`AcquireLock`, in the order of the code) and the rows
locked by the second query (`RowLocked`) keep others away. A telemetry transaction locks the
counters of its day from the reservation to its end (`ReserveBatch`, `StoreBatch` or
`AbortBatch`); a share is made by one function of the database, which is one step. The
answer of either may be lost.

*Clocks.* `Shares` and `Telemetry` have the database's clock as time; API and worker give
the time of their host, which is `Skews` or `ClockSkews` ticks off.

*Scripts.* A deployment is a program counter over the lines of the scripts. `set -e` and
the EXIT trap decide what follows a failure; a kill runs no trap, frees the lock with the
process, and may leave the copy, the containers or a migration half done (`CutShort`,
`Mixed`). The health gate tests only that the containers are healthy and answer, so a
mixture of two trees may pass it, and brings any number of migrations. Provisioning runs are the same over provider calls whose answer may be lost.

*Data.* Bytes are `intact`, `corrupt` or `none`; codes, features, schedules are keys
with an expiry; a release is a version with an abstract tag, size, digest and commit;
sums of bytes and of events are counted one unit at a time, as the cardinality of a set of
pairs, which needs no recursion and can be reasoned about;
signatures, texts, hashes and authentication are left out, except that only the holder
of an upload grant can use it (`granted`) and only the worker may give system commands
(`Authorized`). The hash chain of the audit log is the identifier of the previous entry.

## 3. Properties and runs

Every run is an instance of one of the MC modules with the `.cfg` of its name. A property appears in one run where its hazard occurs, in a second only if another
hazard reaches it.

### Diagnostic archives

| Run | Question | Properties |
|---|---|---|
| `UploadRaces` | two requests on one archive, both loops, clock, one fault | `TerminalMeansGone`, `StoredMeansPresent`, `GrantedSessionKept`, `NeverRevived`, `DiscardedForAReason` |
| `Failures` | one request at a time, two faults anywhere, under `FairSpec` | `TypeOK`, `RetryBudgetKept`, `IntactNeverRejected`, `ImplementsLifecycle`, `EverythingEnds` |
| `Pairs` | a stored archive and a new one: batches of two, abandoned batches, stale leases, eviction | `OneVerificationPerArchive`, `CapacitySound` |

* `TerminalMeansGone`: a row that says Deleted or Invalid has no bytes in the bucket, and no
  completion still under way can bring them there.
* `StoredMeansPresent`: what is offered, or waits for verification, is in the bucket; what
  was accepted is intact. No deletion overtakes an acceptance.
* `GrantedSessionKept`: neither the compensation of create nor the sweep of orphans, with
  its two unsynchronised lists, aborts the session of a client that may still upload.
* `NeverRevived`: no late answer, retry or stale claim brings a discarded archive back.
* `DiscardedForAReason`: an intact stored archive is given up only by an administrator, for
  capacity, at the end of its retention or its verification, or with a spent retry budget.
* `RetryBudgetKept`, `IntactNeverRejected`: retries and takeovers stay within the budget;
  only a mismatch rejects.
* `OneVerificationPerArchive`: a lease outlasts the timer of the verification that holds
  it, also when that verification outlives its batch.
* `CapacitySound` is two properties. `ReleasedIsLeaving`: capacity lent to a new upload is
  counted again when the removal of the evicted archive fails. `MovesAsCounted`: whatever
  statement of the repository is applied to a row, in whatever order, is one of the moves
  (`ArchivePhases!MayBecome`) that `Admission` lets an archive make, so that what is checked
  and proved of quotas and capacity there holds for archives as they really behave.
* `EverythingEnds` (`EveryArchiveEnds`, `EverySessionEnds`): no archive and no multipart session, not even one
  whose identifier was lost, stays for ever.

`ImplementsLifecycle` is a refinement: `ArchiveLifecycle` promises, without requests,
leases, retries or sessions, that an archive is received, stored, released only if
intact, discarded and then gone, with its bytes present as long as it is on offer and
absent when it is gone. `Diagnostics` implements it under the mapping `PhaseOf`.

### Control plane

| Run | Question | Properties |
|---|---|---|
| `CommandRaces` | two administrators, identifiers reused, requests repeated, one fault | `AuditChained`, `AnswersTruthful`, `StateSignable`, `ImplementsCommandLog` |
| `Synchronization` | the worker's loop beside every kind of command; a source that goes back, changes assets or vanishes; one fault | `TypeOK`, `PublishedIsCurrent`, `NothingGoesBack` |
| `Withdrawal` | contention and one fault, under `FairSpec` | `WithdrawnReleaseLeaves`, `EveryRequestEnds` |

* `AuditChained`: one entry per revision, each naming its predecessor, no identifier twice.
* `AnswersTruthful` (`SuccessIsLogged`, `ConflictMeansNotDone`): who is told "done" finds the command in the
  log as it was asked for; who is told "conflict" may decide anew, because not even an
  earlier copy of the request was or will be carried out.
* `ImplementsCommandLog` is a refinement: `CommandLog` knows neither tables nor transactions,
  locks, repeats or copies of a request. In it an order is carried out in one step, at most
  once, while it is under way, on the state the log has made, and, if its caller named a revision, at that
  place of the log; what a client was told of its latest order is true in every later state in
  which the client may act on it. `ControlPlane` implements it with every unfinished
  handler's request as an order under way.
* `StateSignable`: no accepted command leaves a state the snapshot schema refuses.
* `PublishedIsCurrent`: the newest snapshot says what the stored state says.
* `NothingGoesBack` is two properties. `ReleasesMoveForward`: versions never go back and a version's assets never change, over
  the whole log, across withdrawals.
  `PublicationMovesForward`: revisions stay published, and only a new time stamp
  replaces a snapshot.
* `WithdrawnReleaseLeaves`: a release the source stopped vouching for is withdrawn for
  good. `EveryRequestEnds`: no handler waits for the control row for ever.

### The smaller parts

Two runs, each with several parts: `Services` (3.6 million states), what must never happen
between concurrent requests; `Operations` (155,000 states), what must happen in the end,
and the programs an operator runs.

| Part | In `Services` | In `Operations` |
|---|---|---|
| readiness | `ReadyMeansServed` | |
| admission | `QuotaHolds`, `OnlyRestoredExceed`, `EvictionSound`, `SomeCreateProceeds` | |
| shares | `SharesCounted`, `CodeStandsForLifetime` | `BacklogsLeave` |
| telemetry | `EventsAccounted` | `BacklogsLeave` |
| keys | `ChildWithinParent`, `KeysSound` | |
| sessions | `SessionsSound` | `BacklogsLeave` |
| console | `ChangeMadeOnce` | |
| deployment | | `OutcomesTruthful`, `TreesAndSchemaSound`, `StartedDeploymentsEnd` |
| edge | | `EdgeSound` |
| storage keys | | `StorageKeysSound` |
| heartbeat | | `HeartbeatHonest` |

Several of these are conjunctions; the parts are named and commented in the modules:

* `ReadyMeansServed`: 200 means that clients are served a valid snapshot, whichever
  publication came between the probe's reads.
* `QuotaHolds` (`DailyQuotaHolds`, `ReceivingBounded`): in no 24 hours are more archives or
  bytes admitted, and at no time more received, than install, network and service may,
  however creates run at once. `SomeCreateProceeds`: the locks leave no ring of waiters; of
  the creates under way one waits for no lock that another holds.
* `OnlyRestoredExceed`: what is retained exceeds the cap by no more than archives whose
  deletion failed. `EvictionSound` (`EvictionStopsWhenItFits`, `EvictionFair`): the choice
  ends as soon as the upload fits, none of it is in use, and no install gives up more than
  its share or a younger archive before an older one. It is not minimal (Findings).
* `SharesCounted`, and `EventsCounted` in `EventsAccounted`: after refusals, collisions,
  failures and COMMITs in doubt the counters are the rows made that day, within the limits.
* `CodeStandsForLifetime` (`CodeKept`, `FoundWithinLifetime`), `RowsKeptForLifetime` in
  `EventsAccounted`: no clock that is off lets a row be deleted early or answered late.
* `AcceptedEventsFit` in `EventsAccounted`: what the contract accepts of each kind the
  table's CHECK accepts, for every kind and every choice of its optional fields.
* `BacklogsLeave` (`ExpiredSharesLeave`, `OldEventsLeave`, `ExpiredAuthRowsLeave`): a
  backlog larger than one sweep leaves in the end.
* `ChildWithinParent` and, in `KeysSound`, `RevokedKeyIsDead`: what a request read of a key
  before it waited still bounds what it does. The rest of `KeysSound` (`AuditTellsKeys`,
  `UsesCounted`): the audit tells every key's life in order, and no concurrent use is lost.
* `SessionsSound` (`OneSessionPerAttempt`, `SessionOfStarter`, `LiveSessionKept`): a
  callback repeated, opened in another browser or racing with the cleanup.
* `ChangeMadeOnce`: a change sent again after a lost answer is refused by its revision.
* `OutcomesTruthful` (`SuccessServesRelease`, `RollbackServesPrior`), `TreesAndSchemaSound`
  (`SchemaCoversServing`, `RollbackTargetIntact`, `VerifiedReleaseKept`,
  `VerifiedOutlivesFaults`): whatever fails, whoever waits for the lock and whichever run was
  killed before, a deployment that reports success serves its release, and one that reports
  a rollback serves the very tree it found, on a schema that covers it (if that is a
  mixture, it is not the release whose name is reported: see Findings); and the
  last verified release stays on the disk until a kill or a copy cut short mixes two trees.
  After that too, no deployment that found it in `app/` loses it, killed or not: only one
  that finds another tree there puts that in the place of the verified one.
* `EdgeSound` (`NamedTunnelRoutes`, `DoneMeansConfigured`): at every step of a run that may
  stop and start again, with zones an operator may have. The configuration of a tunnel routes
  the public name and answers 404 to every other
  (`infrastructure/cloudflare-provisioner.ts:146`), so `NamedTunnelRoutes` says: the public
  name leads only to a tunnel that routes it, and apex and www lead to a tunnel, or their
  visitors are redirected, only when the public name is served. A run that stops after the
  records of apex and www and before the redirect (lines 75 and 76) leaves these two names
  answered with 404 until it is run again; no property says otherwise.
* `StorageKeysSound` (`StoredPairWorks`, `DoneMeansProvisioned`): under one fault or kill.
* `HeartbeatHonest` (`NewestAnswerStands`, `SilenceTurnsUnhealthy`): overlapping refreshes
  and a file that cannot be removed.

### Findings

Four runs expect a violation; each checks one sentence of the documentation.

* `ConcurrentVerifications`: `verifyPending` waits with `Promise.all`, which rejects at
  the first verification that throws. The others run on while the loop claims a second
  batch, so more than the documented eight archives are verified at once
  (`docs/OPERATIONS.md:100`).
* `LatePreverification`: background verification switched on when a stored archive is
  older than 24 hours. The claim sets no `acceptance_deadline`, `claimExpired` then
  bounds it by `created_at + 24 hours`, and an intact archive is discarded long before
  its 72 hours (`docs/OPERATIONS.md:94`).
* `BodylessAnswer`: an answer without a body throws a message that starts like an
  integrity failure; the archive is deleted as invalid although nothing is wrong with
  it (`docs/OPERATIONS.md:87`).
* `RetainedBudget`: an upload is admitted in the place of an evicted archive; the provider
  fails to delete that archive, `scheduleDeletionRetry` counts it again, and old and new
  together exceed the cap until a retry succeeds. `docs/OPERATIONS.md:115` says that
  retained allocation is capped, and line 38 that it never silently exceeds the cap
  because later uploads fail closed; they do, but the upload admitted first is already
  there. `OnlyRestoredExceed` is what does hold.
Two statements of the code about itself are more than it keeps; the properties state what
does hold.

* `selectCapacityEvictions` adds archives one by one until the incoming one fits and takes
  none back. A small archive chosen first is evicted although a larger one chosen after it
  makes room alone, where `domain/diagnostic-capacity.ts:10` promises "the minimum
  whole-archive eviction set". `EvictionSound` only says that the choice ends there.
* A deployment killed in the copy of the tree (`ops/apply-release.sh:70`) leaves files of
  two releases and the marker of one. The next one takes that marker for the prior release,
  fails, brings the mixture back, and the gate, which tests nothing but health, may let it
  pass: line 64 reports a release as restored that was never whole on disk.
  `OutcomesTruthful` therefore speaks of the name only when the tree is a release.

Two behaviours no document excludes are worth knowing. When the worker gives up a
`release.set` after 15 seconds and withdraws the release, the abandoned set may be carried
out after the withdrawal was answered; the release is offered again until the next round of
the loop five minutes later, and `WithdrawnReleaseLeaves` holds. And `/health/ready` reads
the state and the snapshot on two connections, so a command committed between the reads
makes a healthy API answer 503 once.

### Sensitivity

For each property of each passing run `PROJECT.json` names a mutant: a mapped definition
with a plausible bug (a forgotten `FOR UPDATE`, a replay that compares only the
identifier, a lock order that differs between creates, an update that is not conditional,
a cutoff left out, an off-by-one in the retry budget, a bound on a deadline not applied). TLC finds the property violated with
the mutant in place. Mutants stand before the definition they vary and are marked.

## 4. Bounds

*Diagnostic archives.* `DeletingLease` 1 <= `StaleLease` 2 <= `UploadWindow` 3 <=
`VerifyLifetime` 4 <= `Retention` 5 keep the order of 15 minutes, 6, 12, 24 and 72
hours and no two bounds fall together, so that every order of expiries is reached.
`VerifyDeadline` 1 is below `StaleLease`, as in the code (at most 2 hours against 6), and
`CallTime` 1 lets a request or a read be overtaken by any due date. `MaxAttempts` 2 makes "one left" and "spent"
distinct; backoffs are 0 or 1. `VerifyLimit` is 1, or 2 where a batch matters. One
archive and two callers show the races on a row, because statements of different
archives touch no common row; two archives are used where they meet, in a claimed batch
and in eviction (`Pairs`; `ConcurrentVerifications` needs more). One fault is enough to
leave any step half done while another actor runs; `Failures` allows two, for a failure of
the compensation of a failure (there the preverification setting is on or off for good;
`UploadRaces` switches it). Ages stop at their largest bound and need no further bound.

*Control plane.* One tick is about 3 minutes: `Lifetime` 3 (10 minutes), `CallTime` 1.
`MaxIds` bounds the commands of a behaviour; the last `Kept` of the identifiers are for
withdrawals, since a worker that could draw none would seem to be stuck. Two commands of two
administrators race on a revision and reuse identifiers (`CommandRaces`); two commands and a
withdrawal let a source go back across the withdrawal, and let a fresh command meet two
conflicts (`Synchronization`); two commands and three withdrawals suffice for an abandoned
set and a repeated withdrawal (`Withdrawal`). In `Services` one command
beside republications without number comes between the reads of the readiness probe.
`MaxCodes` is 1 for 100: the second code is
the one too many. `MaxFaults` is 0 or 1, with a COMMIT in doubt included. `MaxTime` is 0 where no property speaks of time, 1 where a
code must expire, 3 where a snapshot must.

*Smaller parts.* Two creates beside three earlier archives of four histories let two
installs meet at each quota and let eviction choose twice (`SmallQuota` keeps every limit
within reach); an archive that is evicted and then not deleted takes two steps
(`MaxMoves` 2); every phase of an archive is among the histories or two moves away. Two sharers and two codes give a collision and a limit reached by
another; two telemetry requests the same. Lifetimes of one tick and counters of two keep a counter
longer than its share, as 31 days against 30; a sweep takes one row, so that two rows are
a backlog. Two keys and two bearers: one key makes the other, revokes itself or its maker,
while another request is between reading and acting. Two browsers, attempts and callbacks:
a repeat and a stranger. Three deployments, one with a release that never becomes healthy,
two failures and a kill: a deployment after a failed one after a killed one; one of the
three brings the release that is installed already. Three lost
answers or stops of edge provisioning from six zones, two faults of key provisioning (the
second may break the compensation itself, `provision-backblaze-keys.ts:71`, and half a
pair is left until the operator removes it: `StoredPairWorks` speaks of one fault).
`MaxAge` 4 keeps a heartbeat's allowed age longer than two intervals.

Symmetry over callers or uploads is used for safety only. `CHECK_DEADLOCK FALSE` is set
in the runs of the control plane and of the smaller parts, whose behaviours end when
administrators, clients or operators stop or the identifiers and the clock are used up; the diagnostic runs check deadlock.

## 5. Fairness

*Diagnostic archives*: the event loop runs every continuation that is ready (weak
fairness of each caller's request, each verification and both loops), the clock moves,
and the process manager starts a dead worker again (`WorkerCrash` leaves the loops at
their start). New requests, errors and crashes are never required.

*Control plane*: weak fairness of each handler and of the worker's loop, and strong
fairness of `Lock`: PostgreSQL queues those who wait for a row lock, so that a handler
gets it although others take it again and again. Without strong fairness a handler could
starve behind an endless succession of republications. Administrators, errors, the
source and the clock are free.

*Smaller parts*: the sweeps of the worker's loop run again and again with a clock that is
right (`SharesFairness`, `TelemetryFairness`, `AuthFairness`); a started deployment takes its
next step, by success or failure, and goes on when the lock it waits for is free
(`DeployFairness`); a heartbeat's file ages, and an answer that has come is applied
(`HeartbeatFairness`). Clients, operators, kills and errors are free, and a probe need not
answer.

## 6. What is proved

Every safety invariant and every action property of the passing runs, for every value of
the constants that satisfies the named assumptions of the modules. Those assumptions say what the code's own constants and schemas say: the order of the
leases (`LeaseAssumption`, `WorkerAssumption`), requests of minutes against upload windows of
hours (`CallersAssumption`) and against snapshots of ten minutes (`ReadinessAssumption`),
commands with every field `adminCommandSchema` asks for (`ControlPlaneAssumption`), and that
sets of identifiers do not overlap. Bounds such as `MaxIds`, `MaxTime` or `MaxMoves` are
constants like the others, so that the theorems hold for any bound.

Hardly any of the properties is inductive. Each proof has an invariant that says what every
actor has established at its step, what that rests on, and who could take it away; one lemma
per action or group of actions; and a last step that combines initial states, step and
consequence with PTL.

### Diagnostic archives

| Theorem | Says |
|---|---|
| `DiagnosticsProofs!TypeCorrect` | `Spec => []TypeOK` |
| `ArchiveProofs!ArchiveInvariance` | `Spec => []ArchiveInv` |
| `ArchiveProofs!TombstonesAreFinal` | `Spec => []TerminalMeansGone` |
| `ArchiveProofs!StoredIsPresent` | `Spec => []StoredMeansPresent` |
| `ArchiveLifeProofs!LeasesAreExclusive` | `Spec => []OneVerificationPerArchive` |
| `ArchiveLifeProofs!BudgetIsKept` | `Spec => []RetryBudgetKept` |
| `ArchiveLifeProofs!ReleaseIsForLeaving` | `Spec => []ReleasedIsLeaving` |
| `ArchiveLifeProofs!CapacityStaysSound` | `Spec => CapacitySound` |
| `ArchiveLifeProofs!DiscardingIsFinal` | `Spec => NeverRevived` |
| `ArchiveLifeProofs!Refinement` | `Spec => ImplementsLifecycle` |
| `ArchiveLifeProofs!CustodyIsKept` | `Spec => []GrantedSessionKept` |
| `ArchiveLifeProofs!RejectionsAreDeserved` | `Spec => []IntactNeverRejected`, if no answer lacks its body |
| `ArchiveLifeProofs!IntactIsGivenUpForAReason` | `Spec => DiscardedForAReason`, if no answer lacks its body |

The last two assume `BodylessAnswers = FALSE`. Without that hypothesis they are false: the
run `BodylessAnswer` shows the archive that is lost (section 3, Findings). All the others hold
for either value.

`DiagnosticRepositoryProofs` shows once what a stored row looks like (`SettledRow`,
`StatementsWrite`), so that later proofs never expand a statement of the repository for its
types. `TypeOK` is inductive by itself.

*Tombstones and bytes.* That no bytes can appear behind a tombstone depends on who may still
complete the session. `ArchiveInv` follows an archive along its life:

* `AbsentInv`: nobody holds an upload that was never announced;
* `CreationInv`: one caller creates an upload, opens its session once and grants it
  afterwards, so there is no second session and no early grant;
* `CompletionInv`: a completion belongs to whoever claimed the row, and the session's
  identifier is in the row until it is over. This is the key fact: the cleanup aborts
  exactly the session through which bytes could still arrive;
* `BytesInv`: what is in the bucket for each status;
* `VerificationInv`, `CleanupInv`: what a verification or the cleanup has already
  established at each of its steps, in particular that the cleanup reports success only
  if the abort succeeded or found no session, and the versions are gone.

Each conjunct relates a row to the actors working on it, so the proof has "calm" predicates
(`RowCalm`, `BucketCalm`, `RequestsCalm`, `TasksCalm`, `MaintenanceCalm`) that say what an
action leaves alone; `CalmKept` turns them into the conjuncts the action does not disturb.

*Leases and budget.* `LeaseInv`: a verification that has not been settled holds its row, and
the row has been idle exactly as long as the verification has run. Since `VerifyDeadline <
StaleLease` it ends before the row can be claimed again. The attempts it carries are those on
record, so that the retry it writes keeps the budget (`BudgetInv`).

*Refinement.* Every action is sorted by what it may do to a row (`Fate`) and to the bytes
(`ObjectFate`), and every pair of fates that can occur together is a step of
`ArchiveLifecycle` or leaves `phase` and `content` as they are. `NeverRevived` and
`DiscardedForAReason` follow from the fates too.

*Capacity.* The fates also say what a step makes of `capacity_released` (`Accounted`): only
the eviction sets it, on a row that is evictable and not released; only
`scheduleDeletionRetry` clears it; and a row that is being deleted goes nowhere but to its
grave or back into the count. With the course of the status this is `ArchivePhases!MayBecome`
(`FateIsCounted`).

*Custody.* A session is `Owned` from the moment its identifier is about to be recorded,
and `Guarded` as long as it has to be open. `CreatorInv`: until the grant is out the upload is
its creator's alone, so the compensation of a failed create aborts nobody else's session.
`AgeInv` and `ReconcileInv`: a session that somebody counts on and the reconciliation did not
see referenced was opened by a request that ran when the references were read, so it is younger than two
call times; the sweep takes only sessions older than `UploadWindow`, and `CallersAssumption`
says that this is longer.

### Control plane

| Theorem | Says |
|---|---|
| `ControlPlaneProofs!ControlPlaneInvariant` | `Spec => []ControlInv` |
| `ControlPlaneProofs!ControlPlaneTypeOK` | `Spec => []TypeOK` |
| `ControlPlaneProofs!LogIsAChain` | `Spec => []AuditChained` |
| `ControlPlaneProofs!AnswersAreTruthful` | `Spec => []AnswersTruthful` |
| `ControlPlaneProofs!StateStaysSignable` | `Spec => []StateSignable` |
| `ControlPlaneProofs!PublicationIsCurrent` | `Spec => []PublishedIsCurrent` |
| `ControlPlaneProofs!NothingIsTakenBack` | `Spec => NothingGoesBack` |
| `ControlPlaneProofs!CommandsAreAtomic` | `Spec => ImplementsCommandLog` |
| `ControlPlaneProofs!ReadyIsHonest` | `ReadinessSpec => ReadyMeansServed` |

`ControlInv` has five parts:

* `TablesInv`: the floor is the version of the last release the worker vouched for
  (`FloorInv`), no release in the log is ahead of it or has other assets under its version
  (`HistoryInv`), and the newest snapshot is that of the stored revision (`PublicationInv`).
  Together they make "the new release is not below the floor", which the code checks against
  one number, a statement about the whole log;
* `RoomInv`: there is room for the active codes; time only makes more, so that what
  a republication builds from a state that a command stored is within the schema's limit;
* `HandlersInv`: a transaction that waits for the row has seen a log that is still the log
  while the revision is unchanged; one that holds the row has seen the current revision,
  and its command was found applicable to the state as it is now (`TransactionInv`). This is
  what SERIALIZABLE and the row lock are used for;
* `CallsInv`: whom a caller waits for serves its request; an identifier is one
  administrator's; and a refused request is one whose revision was taken by another command,
  or that no handler has any more (`RefusalInv`), so that a repeat or a late copy of it is
  never carried out;
* `LoopInv`: the worker's position is one of the loop.

*Refinement.* Three facts about every step make it one of `CommandLog`. What it does to the
log is one order carried out, by a handler that holds the row and whose request still names
the revision (`PublishesOrder`, from `TransactionInv`). A handler goes on with the order it
has, also when `executeFresh` renews the revision of a worker's or bot's request, or takes one
that its caller sends in the same step; so no order comes under way that was not just given.
And a caller hears only of the order it waits for, which `CallsInv` relates to the log.

*Readiness.* What is published between the probe's two reads was stamped by a handler at most
`CallTime` earlier (`StampsRecent`), so it is valid for at least `Lifetime - CallTime` from
the probe's start, longer than the probe lasts: `2 * CallTime < Lifetime`.

### Keys, console, sessions, shares

| Theorem | Says |
|---|---|
| `ServicesProofs!KeysInvariance` | `KeysSpec => []KeysInv` |
| `ServicesProofs!ChildrenWithinParents` | `KeysSpec => []ChildWithinParent` |
| `ServicesProofs!RevokedKeysAreDead` | `KeysSpec => []RevokedKeyIsDead` |
| `ServicesProofs!KeysAreSound` | `KeysSpec => []KeysSound` |
| `ServicesProofs!ChangesAreMadeOnce` | `ConsoleSpec => []ChangeMadeOnce` |
| `ServicesProofs!SessionsAreSound` | `SessionsSpec => []SessionsSound` |
| `ServicesProofs!SharesAreCounted` | `SharesSpec => []SharesCounted` |
| `ServicesProofs!CodesStandForLifetime` | `SharesSpec => []CodeStandsForLifetime` |

* *Keys*: a child is made from what the request saw before it waited. `SeesKey` says that it
  stays true (issued, with the scope asked for, whatever was revoked since), `SeesAudit` and
  `RevocationsTold` that what it saw of the audit held no revocation of its key. `KeysGrow`
  is what every step does to the tables, and one lemma (`RequestKept`) shows that it
  preserves what all other requests have seen. For the account, entries and counted
  requests name keys that were issued (`TracesIssued`), so that a new key starts at zero.
* *Console*: a page shows every change made up to the revision it shows, and a request still
  under way that names the current revision asks for a change that was not made
  (`AsksForNew`); any other is refused.
* *Sessions*: an attempt has one winner (`OneWinner`), because consuming it is one statement
  guarded by its being unconsumed; a callback goes on only when its binding is with the
  browser that began the attempt (`CallbackInv`), and attempts keep their starter and their
  consumption (`AttemptsGrow`).
* *Shares*: a row lasts at most a lifetime from the day that counted it (`RowsInv`), which
  bounds when it can be found and when a sweep with a clock that is off may take it; the code of
  a share that lasts is its maker's (`CodesInv`). The counters equal sets of makers.

### Telemetry and admission

| Theorem | Says |
|---|---|
| `QuotaProofs!EventsAreAccounted` | `TelemetrySpec => []EventsAccounted` |
| `QuotaProofs!QuotasHold` | `AdmissionSpec => []QuotaHolds` |
| `QuotaProofs!CapHoldsButForRestored` | `AdmissionSpec => []OnlyRestoredExceed` |
| `QuotaProofs!EvictionsAreSound` | `AdmissionSpec => []EvictionSound` |
| `QuotaProofs!CreatesNeverDeadlock` | `AdmissionSpec => []SomeCreateProceeds` |

* *Telemetry*: a reservation stays within the limits while its transaction holds the counters
  of its day, because no other transaction of that day is under way (`ReservationsHold`).
* *Admission*: the advisory locks leave one create at a time between its first query and its
  COMMIT (`LocksExclude`), so the room it counted is still there when it inserts
  (`CountedRoom`); time only takes archives out of the window. The quotas of 24 hours are
  stated for the window of every archive: an archive inserted now is the youngest of
  every window it falls into, so one count at its insertion covers them all
  (`WindowsWithin`). The rows read for the choice stay as they are, because evictable rows
  are locked and nobody else inserts; only an eviction taken back may add one
  (`RowsCurrent`), which is the excess `OnlyRestoredExceed` allows.
* *Deadlock*: all creates take their locks from one order of kinds (`LocksOrdered`), so who
  waits waits for one that holds more of them (`WaitsForOneAhead`), and one that has all three
  waits for none: a create that has come as far as any other waits for nobody.
* *The choice*: each round of the loop keeps the set chosen so far fair and short of
  fitting until its last archive (`ChoiceSound`); the loop may therefore run any number of rounds over any archives, without
  induction over data. Bytes are counted unit by unit, with the cardinality lemmas of the
  library.

### Deployment, provisioning, heartbeat

| Theorem | Says |
|---|---|
| `OperationsProofs!TreesAndSchemaStaySound` | `DeploySpec => TreesAndSchemaSound` |
| `OperationsProofs!OutcomesAreTruthful` | `DeploySpec => OutcomesTruthful` |
| `OperationsProofs!EdgeStaysSound` | `EdgeSpec => []EdgeSound` |
| `OperationsProofs!StorageKeysStaySound` | `StorageKeysSpec => []StorageKeysSound` |
| `OperationsProofs!AnswersAreTheNewest` | `HeartbeatSpec => []NewestAnswerStands` |

* *Deployment*: the lock is with the one run under way (`AloneInv`); at each step it is known
  where the tree is that the run found, and what stands in its place (`TreesInv`); what is
  served has its migrations (`ServicesInv`); and the verified release is what the run under
  way found (`VerifiedInv`), unless a kill or a copy cut short mixed two trees. Whatever was
  mixed before, a run touches `app/` only when `previous/` has what it found there, and
  `previous/` only while `app/` has (`RunSparesWhatItFound`): this is `VerifiedOutlivesFaults`.
* *Edge*: what a run has reached by its step, including that its tunnel is the account's only
  one (`Reached`); names are set after the ingress, and a run that starts again repeats
  each step over what it finds.
* *Storage keys*: the roles a run has passed have their secrets, and what it read of the
  others is still what Doppler has (`RunReached`). Of the keys of a role one is in use or in
  the run's hands (`Credit`), and every further one took a fault (`KeysCounted`).
* *Heartbeat*: the flag is set while a call is under way, so that no two overlap and no answer
  is overtaken. The other half of `HeartbeatHonest` is a liveness property.

## 7. What is only model-checked

* Liveness: `EverythingEnds`, `WithdrawnReleaseLeaves`, `EveryRequestEnds`,
  `StartedDeploymentsEnd`, `BacklogsLeave`, and `SilenceTurnsUnhealthy` in
  `HeartbeatHonest`.
* The four expected violations, which are counterexamples.

ENABLED, fairness and induction over data are out of the prover's reach. Nothing proved
depends on a recursive definition.

## 8. What is not modelled

* In `Diagnostics` any evictable set may go when an archive is inserted, which covers every
  choice of the code; the choice itself, the quotas and the locks are in `Admission`, whose
  archives know only what the two queries read. That these archives move as the rows do is
  `MovesAsCounted`; the two modules are not composed into one instance.
* Pages of the bucket's session listing (one archive has one session here).
* Order and size of a claim: `SKIP LOCKED` passes over rows that another statement holds, so a
  batch of `claimVerification` is any set of eligible rows up to the limit, and a batch of
  `claimExpired` any set of due rows. The latter is not empty while a row is due: that all due
  rows stay locked at every claim is left out, for row locks here last one statement.
* Who overwrites the redirect rules of others: the provisioner sends back what it read
  (`test/cloudflare-provisioner.test.ts:229`), which the model, with one run at a time, could
  only repeat.
* Clocks of different hosts in the diagnostic modules and the control plane: the services
  share a host, and comparisons with another host's time have a margin of minutes. Where
  the database compares with its own clock (`Shares`, `Telemetry`), clocks may differ.
* Two provisioning runs at once: an operator runs one.
* Of the console: dialogs, tables, downloads and the API-key page (input and output).
* The HTTP layer, rate limits, authentication and signatures, pseudonyms and proxy trust;
  rendering, the bot's dialogues, configuration parsing and the provider check: input and
  output without shared state. The in-memory repositories are test doubles.
* The parsing and verification of what GitHub and Roblox answer: the source is an
  environment that shows anything verifiable or nothing.

## 9. Plan

What is left, in order of what a mistake would cost:

1. The readiness probe's false alarm (`api-server.ts:154`): a bound on how often it may answer
   503 while everything is in order needs a statement about rates, which no property here has.
2. Two provisioning runs at once, if operators ever do that.
