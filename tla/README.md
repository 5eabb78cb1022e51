# A TLA+ model of libAutoUpdater

libAutoUpdater is a C++ library that checks for, downloads and stages updates of
an application, and an external helper, `autoupdater_apply`, that installs them
while the application is not running. This directory holds TLA+ models of its
core, the TLC configurations that check them, and TLAPS proofs.

    tlc -workers 2 -config ApplyFaults.cfg MCApply     # any run of PROJECT.json
    for m in *Proofs.tla; do tlapm $m; done             # every proof

## 1. The system

| Part | State | Operations | Hard about it |
|---|---|---|---|
| Updater facade, `src/src/Updater.cpp` | lifecycle state, task queue, generations, cancel token, periodic run | `checkAsync`, `checkAndDownloadAsync`, `downloadAsync`, `applyAndRestartAsync`, `cancel`, `start/stopPeriodicCheck`, `markCurrentVersionHealthy`, `rollbackLastUpdate`, destructor | five locks, three kinds of threads, callbacks through a foreign dispatcher, results of superseded generations |
| State store, `default/JsonStateStore.cpp` | accepted version, pending update, snapshot, resume records | save/load/clear with compare-and-set | writes that fail after they became visible, several processes |
| Download executor, `DownloadExecutor.cpp` | staged files, partial files, resume records | `executeDownloads` | interruption between file and record, changed content |
| Planner, `UpdatePlanner.cpp`, `LocalSnapshotBuilder.cpp` | none | `planUpdate` | replay, downgrade, local modifications |
| Manifest fetcher, URL policy, redirects | none | `fetchAndVerifyManifest`, `authorizeTransition` | order of verification, scope of redirects |
| Plan writer and launcher | apply-plan.json | `writeApplyPlan`, `writeRollbackRequestPlan`, `launchApplyProcess` | identity of a plan |
| Apply executor, `updater/ApplyExecutor.cpp` | managed files, backups | install, recover, replay, roll back | a crash or failed write between any two steps, files changed by others, restart at most once |
| Apply journal, `updater/ApplyJournal.cpp` | `active.json`, `terminal.json`, `<tx>.plan.json`, `<tx>.json`, `<tx>.ops/<i>.json` | atomic writes, reads with validation | reported failure of a write that was published |
| Rooted file system, `default/RootedFileSystem*.cpp`, `StdFileSystem.cpp` | directory entries, temporary and quarantined files | prepare, commit, discard, reconcile and remove against an expected identity | another program between comparison and change, failed flushes, power failure |
| Network requests, `NetworkRequest.cpp`, `UrlPolicy.cpp`, `NetworkLimits.cpp` | redirect chain, bounded partial file | one request for a document or an artifact | redirects out of scope, servers that ignore ranges, bodies of refused answers |
| Versions and time, `Version.cpp`, `util/Rfc3339.cpp` | none | comparison, civil time to instants, health deadline | numeric identifiers of any length, leap centuries, overflow |
| Parsers, URL text, hash, network, process and signature adapters | none | functions and platform calls | text and platform detail |

The facade writes a plan and a pending record and launches the helper. The
helper waits until the application has exited, takes
`.autoupdater/update.lock`, recovers whatever transaction is active, and then
replays, rejects or runs the request. It leaves a terminal receipt. The restarted
application reads the receipt to decide whether its pending update was installed
(and may be confirmed or rolled back) or was rolled back (and is cleared).

What makes each part correct: the executor must be atomic over crashes, undoable
until the application was restarted, and must never overwrite what it did not
look at; the journal must always be something recovery accepts; the facade must
not lose requests, mix up generations, or outlive its destructor; the store must
keep a pending update exactly as long as it can be applied, confirmed or undone,
and acknowledge only what a power failure cannot take back; a staged file must be
the one the signed manifest names, whatever was interrupted; a request must stay in
the configured scopes, redirects included; a decision must not go back to an older
version unasked; a replacement must not destroy another program's file.
`PROJECT.json` lists the hazards line by line with the properties that cover them.

## 2. Modules

| Module | Models |
|---|---|
| `ApplyTransaction` | executor and journal, and the safety properties |
| `ApplyInvariants` | the inductive invariants `IndInv` and `SafetyInv` |
| `AtomicInstall` | what the helper promises of an installation |
| `ApplyRefinement` | the refinement mapping from `ApplyTransaction` to `AtomicInstall` |
| `UpdaterFacade` | the facade with the pending record, for one run of the application |
| `RootedReplace`, `RootedReplaceWindows` | one replacement or removal of a file, system call by system call |
| `StateStore`, `StateContract` | the state file and its snapshot; what the store promises |
| `ResumeEntries` | the records of the resume sidecar and their eviction |
| `Transfer` | one coordinated network request |
| `DownloadExecutor` | staging of the artifacts of a release |
| `UpdatePlanner` | snapshot, decision and operations, over the life of an installation |
| `ManifestFetch`, `ManifestPaths` | which documents are trusted; which paths a manifest may have |
| `VersionOrder`, `UtcClock` | comparison of versions; dates, instants and the health deadline |
| `Inputs` | behaviours of these four and of `ResumeEntries`, and their properties |
| `MCApply`, `MCFacade`, `MCRooted`, `MCStateStore`, `MCPlanner`, `MCInputs` | instances for TLC |
| `ApplyTransactionProofs`, `UpdaterFacadeProofs`, `StateStoreProofs`, `TransferProofs`, `DownloadExecutorProofs`, `UpdatePlannerProofs`, `RootedProofs`, `InputsProofs` | theorems, checked by TLAPS |

How they fit: `ApplyTransaction` uses a file commit as one compare-and-swap, which
`RootedReplace*` examines for a single call (on Windows the comparison and the
rename are two steps, a gap `ApplyTransaction` does not have); `DownloadExecutor` uses a transfer as one
step with the outcomes that `Transfer` allows, a publication with the outcomes of
`RootedReplace*`, and the store's resume operations as atomic, as `StateStore` shows
them; `UpdaterFacade` uses the pending record as the atomic value of
`StateContract`; `UpdatePlanner` takes any manifest that `ManifestFetch` and
`ManifestPaths` let through, and versions as numbers, since `VersionOrder` shows
their order to be total.

### ApplyTransaction

*State.* `install`, `backup`, `plans`, `summary`, `records`, `active` and
`terminal` are the disk. `pc`, `req`, `cur`, `idx`, `rec`, `seen` are the running
invocation: `pc` is the place in `start`, `recover`, `rollbackAll` or
`finishRestart`; the in-memory summary of the code equals the one on disk
wherever it is read, so only the disk's is kept. Since the lock admits one
invocation there is one set of these variables. `launches`, `touched`, `faults`
and `crashes` observe and bound.

*Actions.* One durable write, file commit or launch per action, with the reads
that lead to it; the outcome of a write is `ok`, `lost` or `shown` (an error after
publication, as `writeAtomic` and the rooted commits can report). A launch has the
same three: the POSIX launcher reports an error when it cannot read the status of a
child that runs already. `Invoke` is
`executeApplyPlanWithDependencies`; `Recover`, `ReplayTerminal`,
`RejectRollback`, `RejectStart` and `StartTransaction` are its branches; the
rest follow the code in order. `Crash` may happen at any `pc`.
`ForeignWrite` replaces, edits, creates or removes a managed file at any moment.

*Abstractions.* A file is its content, permissions included; digests are
equality. The identity of the observed file is the flag `sameId`: a replacement
clears it, an edit in place does not. `applyOne` also compares the identity
recorded during preparation; in the model a foreign write always changes the
content and each path is written at most once, so that comparison adds nothing.
`verifyAppliedState` is one observation. A read whose failure the code journals
or answers with a rollback is a fault of its own (`FailedCheck`, and `Recover`
with outcome `lost`); one that only ends the invocation has no effect on disk
and is covered by `Crash`. Test checkpoints can fail after a write; that is
`shown`. Commits are atomic, as the exchange on POSIX and the rename on Windows
are, so a missing file in the middle of a replacement only comes from another
program. An install plan has no preconditions and names each target once
(assumption `PlanAssumption`, from `writeApplyPlan` and
`validateApplyPlanResources`). Two plans of one release share a backup
directory. Left out: version 1 journals without completion time, resource
budgets, power loss that undoes an acknowledged write, waiting for the
application to exit. A helper that does not get the lock changes nothing.
`BackupUsable` asks that the installed file is the original also where a backup is
reused; the code compares only its identity there, and an edit in place is met by the
comparison of `applyOne`.

### UpdaterFacade

*State.* The members of `Updater::Impl`, where the worker is (`worker`, `task`,
`found`), the caller between capturing a generation and `start()` (`call`), the
caller between queueing and creating the worker (`spawning`), the trigger of a
periodic run after it read the state (`looking`) and after it read the queue
(`firing`), the pending record, the receipt, the callbacks on their way
(`posted`), and the calls of `start()` that have an error to report, before and
after `post()` looked for a shutdown (`refused`, `dispatching`).

*Actions.* What a thread does under one lock, or one call leaving the process.
A task runs from `BeginCheck`, `BeginDownload` or `BeginApply` through `health`,
`fetch`, `download`, `save`, `commit`, or `consume` and `launch`, holding
`operationMutex`. `Report`, `Refuse`, `BeginGeneration` and `SetGenerationState`
are the functions of the same names. `Shutdown*` are the steps of `shutdown()`,
which races the timer and the creation of the worker but not calls on the object,
since it runs in the destructor; a callback on the worker that destroys the
updater is `ShutdownDetach`. `shutdown()` joins the worker but not a timer's thread,
so the check and the dispatch of an error reported by `start()` are two steps
(`CheckPost`, `Dispatch`), and the dispatch may come after the return; the posts of
a task are one step with its check (`Post`), since the join waits for it. The helper's
launch may be reported as failed although it started.

*Abstractions.* A release stands for its plan and its digest: the plan has no
time or random part and the local files do not change. The receipt is fixed during
a run because the helper waits for the process. The network, the planner and the
downloads succeed or fail. The dispatcher is any first-in first-out queue,
`DirectDispatcher` delivering at once. `queueOverflowNotification` is kept as a choice:
an overflow may stay silent while another error is being reported. `CheckSucceeds`
stores the result, changes the state and posts in one step; the code takes its lock
for each, and a call that falls in between captures the same generation. Left out: setters,
progress callbacks, `reinstallRequired` (which behaves like no update), a failing
periodic thread creation.

### AtomicInstall and the refinement

`AtomicInstall` has a transaction change all files in one step (`Finish`) or none
(`GiveUp`); after `Restart` giving up is impossible; a later transaction may put
back exactly what a finished one replaced; a path written by another program is
unknown from then on (`AnyFile` in the mapping). The mapping shows, while a transaction is active, the
journaled originals as the installation, whatever is on disk; the change becomes
visible when `active.json` is cleared.

### RootedReplace, RootedReplaceWindows, MCRooted

*State.* The names a call deals with and the file behind each; `crash`, every file
a name may refer to after a power failure, that is, since its directory was last
flushed; the handle (`payloadPresent_`, `payloadIdentity_` or `deleteOnDestroy`) and
`RootedPublishStatus`; what `commit()` and `discard()` returned.

*Actions.* On POSIX: private directory, payload, flush, exchange or rename without
replacement, comparison of what was displaced, quarantine or restoration, the
directory flushes, then discard and the callers' reconciliation of a failed
commit. On Windows: open, compare, compare again, rename over the target, flush,
question the displaced file. Any call may fail; another program may replace, create
or remove the target between any two of them. `MCRooted` chooses the platform and
states the same promises for both. Windows has no exchange: a file that appears after
the second comparison is replaced, which `NoFileIsLost` says.

*Abstractions.* A file is one of four identities. Opening roots and parents,
listing, permission bits and symbolic links are left out. On Windows a failed
verification may always be reconciled, also where the code would not try because the
displaced handle is open, so the model has more behaviours.

### StateStore, StateContract, ResumeEntries

*State.* `disk` holds the state file, its snapshot and the sidecar, `afterCrash`
what each may be after a power failure; the mutex of each process, the lock file,
and for each thread where it is in its call and what it read.

*Actions.* `Call`, the mutex, each attempt at the lock, the read, the decision, each
replacement, the release; `Crash` of a process (the lock goes with it),
`PowerFailure`, `Foreign`. A write is `ok`, lost, or visible and reported as failed.
The sidecar's content is `ResumeEntries`: batches of one release that expire, clear,
add and evict records while the clock moves either way.

*Refinement.* `StateContract` is one value, accepted and pending, with the set of
values a power failure may restore and the request being served. A request changes
the value at most once; the commit of a healthy version and the conditional clear
compare the pending update with the expected one at that moment
(`IPendingUpdateCompareAndSet`), and a save needs that there is none. The request is
that of the holder of the lock file, and the value is the state file; the snapshot
never stands in for it (`FailsClosed`).

*Abstractions.* Documents are records with the two values, the schema and whether
they embed old resume data; the JSON text is left out.

### Transfer

*State.* The chain of URLs, the offset the next request resumes at, the partial
file with the request that wrote each byte, and the `BoundedRootedFile` counters.

*Actions.* `Authorize`, `Request`, any number of writes, any answer, then one of
`Reject`, `TransportFails`, `Redirect`, `Restart` (the range was ignored) and
`Accept`. The client writes a body with any status and reports any
effective URL; the coordinator has to judge it. URLs are members of sets by scheme
and scope; the text of scopes is left to tests.

### DownloadExecutor

*State.* For each artifact the final name, what it may be after a power failure,
the partial file (its length and whether all bytes are right), the record in the
store and the coordinator's cache, upserts and clears.

*Actions.* Admission with checked sums, examination of a staged file, an attempt
with or without resume, the transfer's outcomes, flush, verification of length and
digest, publication by copy or rename, reconciliation of an uncertain publication,
the flush of records; `Cancel`, `Crash`, `PowerFailure`, `ForeignFinal`,
`ForeignPartial`. The call is repeated over what it left. `spoiled` marks files
another program damaged after their digest was computed, and only those are excused;
a partial file that was verified and is being published keeps its mark. Artifacts may
be empty. A staged file found from an earlier run is reused without a barrier, as in
the code, so durability is claimed of what the run itself published.
Progress callbacks, delays between attempts and the text of keys are left out.

### UpdatePlanner

*State.* The configuration, the running and the last accepted version, the
content of the managed files, the manifest, the snapshot and the decision.

*Actions.* `Fetch` of any manifest, `buildLocalSnapshot`, `planUpdate`; the update is
applied (as `AtomicInstall` says), abandoned, confirmed or rolled back; another
program changes a file to any content. A manifest names a content for each target, its
removal, or nothing. The constants `MinVersions`, `Whitelists` and `Initially` say
which minimum versions, managed sets and first installations there are. Refusals for
identity, channel and platform are one.

`PlanIsExact` holds although files change after the snapshot, with one exemption: a
file the snapshot found up to date has no operation, and the code does not look at
it again.

### ManifestFetch, ManifestPaths, VersionOrder, UtcClock, Inputs

`ManifestFetch` has one action per request and check of `fetchAndVerifyManifest`,
against a server that may answer each request differently. `ManifestPaths` reads
entries one by one and compares the sort-based topology check with the pairwise
definition. `VersionOrder` compares the code's comparison with precedence by
definition, identifiers being sequences of characters. `UtcClock` walks the
calendar and compares `daysFromCivil`, the parsed instants and the health deadline
with a count; the unit is the hour, so minutes, seconds, fractions and offsets with
minutes are left out. The fields of a timestamp and its offset are validated, and
`healthConfirmationExpired` has the code's answers for a timeout out of range, a
journal without completion time, a deadline that cannot be represented and a clock
that fails (here, past the last year of four digits). `ManifestPaths` folds ASCII
letters only, as the code does (`docs/security-model.md` excludes Unicode folding), and
leaves `validateManagedPath`, the form of a single path, out; `ManifestFetch` has one set of
allowed URLs, the rules of a redirect being `Transfer`'s. Both accept more than the
code. They share no state, so `Inputs` gives each
behaviour one subject among them and `ResumeEntries`. `MCInputs` chooses the paths
and versions that are easily confused.

## 3. Runs

| Run | Instance | Shows |
|---|---|---|
| `ApplyInductive` | two plans sharing a backup directory, 3 transactions, 1 fault, 1 crash, foreign writes to one path | `TypeOK`, `SafetyInv` (which includes `IndInv`), `ImplementsAtomicInstall` |
| `ApplyFaults` | a plan that removes and replaces, 2 transactions, 2 stamps, 2 faults, 1 crash, fair | `RecoveryAccepted`, `RestartAtMostOnce`, `ReceiptTrustworthy`, `SuccessMeansInstalled`, `RecoveryTerminates` |
| `ApplyForeign` | the same, 1 fault, 1 crash, foreign writes to both paths | `EveryChangeIsUndoable`, `DurableBackupsKept`, `NoChangeAfterRestart`, `NoForeignLoss`, `CompletionIsFinal` |
| `FacadeThreads` | queue of 2, 3 requests, 1 periodic run | `NoLostTask`, `ReadyAgrees`, `PersistedUntilApplied`, `ObservedState`, `OneHelper`, `ShutdownCancelsWork`, `PeriodicKeepsReady`, `QuietAfterShutdown` |
| `FacadeLive` | queue of 1, 2 requests, 1 periodic run, all start states, fair | `RequestsServed`, `ShutdownEnds` |
| `FacadeStaleReceipt` | start states after a rollback | `PersistedUntilApplied` is violated, see below |
| `Rooted` | both platforms, 3 failing calls, 2 foreign changes, a power failure | `NoFileIsLost`, `ReplacementIsDurable` |
| `StateStore` | 2 processes, 2 calls, 3 releases (one of the old schema), 1 fault, 1 crash, 1 foreign change | `SuccessIsKept`, `SnapshotDiscipline`, `Refines` |
| `Transfer` | 5 URLs, a limit of 2 units, 1 redirect, 1 failing truncation, fair | `RequestsInScope`, `PartialFileSound`, `RequestEnds` |
| `DownloadExecutor` | 2 artifacts of 0 to 2 units, 2 runs, 1 retry, 1 fault, 1 crash, 1 foreign change | `RecordsCoherent`, `StagingSound` |
| `UpdatePlanner` (`MCPlanner`) | 3 versions, 2 files, 2 contents, 2 checks, 1 foreign change | `VersionsMoveForward`, `PlanIsExact` |
| `Inputs` | any answers of a server; manifests of 3 entries over 5 paths; 3 batches; pairs of versions; 1970 to 2101, all offsets | `TrustedManifest`, `ManifestInstallable`, `ResumeRecordsSound`, `VersionsOrdered`, `DeadlinesExact` |

Some properties are conjunctions of named parts, each with a comment in its module:
`PartialFileSound`, for example, is the type invariant together with
`NeverBeyondLimit`, `OneBody` and `RefusalKeepsPartial`.

*Bounds.* Executor: two operations are the least that distinguish a partly applied
plan; two transactions allow an install and its rollback, three also a retry or a
second plan on the same backup directory. Two faults let a failure be followed by
a failure of its handling; a crash may hit either. Facade: three requests fill the
queue of two beside a running task, and let a check, a download or application and
a competing check meet. Rooted: three faults let the change, its undoing and the
report of it fail. Store: two calls by two processes meet at the lock file; with one
thread in each, the process mutex is modelled but never contended. Downloads: the
second run meets whatever the first left; sizes are zero, reach the limits and exceed
the largest representable sum. Transfer: two units make a partial body, one redirect reaches
the limit. Planner: the second check meets an applied, rolled back or abandoned
update, and two contents tell an old release from a new one. Inputs: the paths are the ones that sorting and case folding confuse; the
walk passes the leap year 2000 and the ordinary year 2100, the end of representable
time (`MaxInstant`, on a day of 2100) and of the years (`MaxYear`).
Transaction identities, processes, threads, releases of the current schema and the
planner's contents are symmetric where a run says so; no run with liveness uses symmetry.

`CHECK_DEADLOCK FALSE`: an application may stop calling the facade, the store, the
download executor or the planner, and a single call (`Rooted`, `Transfer`,
`Inputs`) ends. The executor's runs check deadlock; a helper can always be invoked
again.

*Fairness.* `ApplyTransaction!FairSpec`: the running helper makes progress, and a
helper is invoked again when none runs. The second is a duty of the operator that
`docs/integration.md` states ("invoke an authorized helper plan again"); starting
the application does not recover. No fairness is assumed of faults, crashes or
other programs, and `RecoveryTerminates` is checked without foreign writes, which
can make recovery fail closed for good by design.
`UpdaterFacade!FairSpec`: the worker (network operations have time limits), calls
in progress, the steps of `shutdown()` and the dispatcher run. Nobody has to call,
stop a timer or shut down. `Transfer!FairSpec`: the coordinator runs, and a hop is
answered in the end, since network clients limit its time; a body is finite
because the byte limit cuts it off.

*A violation.* After a rollback of release r the terminal receipt stays that of the
rollback. Preparing r again yields a plan with the same digest, so its pending
record again looks like the one the rollback undid, and
`markCurrentVersionHealthy()` or `rollbackLastUpdate()` clears it although the
update is ready. `applyAndRestartAsync()` then refuses the ready generation. The
comment on `PendingUpdate` says the record is kept between download and
apply or rollback. From the other start states the property holds.

*Observed, and not contradicted by the repository's own words.*
`savePendingUpdate()` answers a repeated save of the same record without writing,
also when the first one was visible but not durable (JsonStateStore.cpp:767);
`commitHealthyVersion()` writes again in that case (:737), and the success of a
save is therefore not part of `SuccessIsKept`. A program that shares the staging
directory can change a partial file after its verification and before its
publication (DownloadExecutor.cpp:651); the helper compares digests again before it
installs. `cancel()` between the queueing of a task and its start has no effect on it
(Updater.cpp:275). A prepared release that is never applied blocks the preparation
of others until it is cleared (JsonStateStore.cpp:767).

## 4. Proofs

The theorems hold for every value of the constants that satisfies the named
assumptions: any paths, plans, releases, processes, artifacts, URLs and versions,
and any number of requests, faults, crashes and foreign changes.

| Module | Theorem | Statement |
|---|---|---|
| `ApplyTransactionProofs` | `Invariance` | `Spec => []IndInv` |
| | `TypeCorrect` | `Spec => []TypeOK` |
| | `RecoveryIsAccepted` | `Spec => []RecoveryAccepted` |
| | `RestartsOnce` | `Spec => []RestartAtMostOnce` |
| | `NoChangeOnceRestarted` | `Spec => NoChangeAfterRestart` |
| | `CompletionStays` | `Spec => CompletionIsFinal` |
| | `SafetyInvariance` | `Spec => []SafetyInv` |
| | `ReceiptIsTrustworthy` | `Spec => []ReceiptTrustworthy` |
| | `SuccessIsInstalled` | `Spec => []SuccessMeansInstalled` |
| | `ChangesAreUndoable` | `Spec => []EveryChangeIsUndoable` |
| | `BackupsAreKept` | `Spec => []DurableBackupsKept` |
| | `ForeignFilesAreKept` | `Spec => NoForeignLoss` |
| | `ExecutorIsAtomic` | `Spec => ImplementsAtomicInstall` |
| `UpdaterFacadeProofs` | `FacadeInvariance`, `SafeInvariance` | `Spec => []FacadeInv`, `Spec => []SafeInv` |
| | `TasksAreNotLost` | `Spec => []NoLostTask` |
| | `ReadyIsChecked` | `Spec => []ReadyAgrees` |
| | `TimerKeepsReady` | `Spec => PeriodicKeepsReady` |
| | `HelperIsStartedOnce` | `Spec => []OneHelper` |
| | `ApplicationKnowsTheState` | `Spec => []ObservedState` |
| | `ShutdownReachesTheWorker` | `Spec => []ShutdownCancelsWork` |
| | `JoinedMeansQuiet` | `Spec => QuietAfterShutdown` |
| | `ReadyIsPersisted` | `Spec => []PersistedUntilApplied`, under a hypothesis, see below |
| `StateStoreProofs` | `StoreInvariance` | `Spec => []StoreInv` |
| | `SuccessStays` | `Spec => []SuccessIsKept` |
| | `SnapshotNeverStandsIn` | `Spec => SnapshotDiscipline` |
| | `StoreImplementsContract` | `Spec => Refines` |
| `TransferProofs` | `TransferInvariance` | `Spec => []TransferInv` |
| | `RequestsStayInScope` | `Spec => []RequestsInScope` |
| | `PartialFileIsSound` | `Spec => []PartialFileSound` |
| `DownloadExecutorProofs` | `DownloadInvariance` | `Spec => []DownloadInv` |
| | `StagingIsSound` | `Spec => []StagingSound` |
| | `RecordsAreCoherent` | `Spec => []RecordsCoherent` |
| `UpdatePlannerProofs` | `PlannerInvariance` | `Spec => []PlannerInv` |
| | `InstallationMovesForward` | `Spec => VersionsMoveForward` |
| | `PlansAreExact` | `Spec => PlanIsExact` |
| `RootedProofs` | `RootedInvariance` | `MCSpec => []RootedInv` |
| | `ReplacementsAreDurable` | `MCSpec => []ReplacementIsDurable` |
| | `FilesAreKept` | `MCSpec => []NoFileIsLost` |
| `InputsProofs` | `AcceptedManifestIsTrusted` | `Spec => []TrustedManifest` |
| | `AcceptedManifestIsInstallable` | `Spec => []ManifestInstallable` |
| | `ResumeRecordsAreSound` | `Spec => []ResumeRecordsSound` |
| | `VersionsAreOrdered` | `Spec => []VersionsOrdered` |
| | `DeadlinesAreExact` | `Spec => []DeadlinesExact` |

### The executor

None of its properties is inductive. Whether an interrupted transaction is
acceptable depends on where the invocation was, so `IndInv` has two halves.
`JournalInv` speaks about the disk: nothing precedes the snapshot, the active
transaction is accepted, a launch is preceded by a durable intent. `PointInv` ties
the disk to `pc`: which transaction is worked on, how many records exist during
preparation, which file and restart state the summary has at each point. A crash
keeps the first half and makes the second empty, which is why recovery from any
point works. The proof has one lemma per action; lemmas such as `JournalSummary`,
`JournalOperation` and `FileStateSummary` say what one kind of write preserves.
The action properties follow from `IndInv` and one case per writing action.

`IndInv` says that the journal is acceptable, not that it is true. `SafetyInv` adds
that, again in two halves. `DiskEvidence`: a record calls a backup durable only if
the backup holds the original, a file of the active transaction that differs from
its original was announced and can be undone, a summary claims no more than its
records do, and every plan is one that was asked for or inverts a completed
transaction. `PointEvidence`: the record in memory agrees with the one on disk, the
operations before (when applying) or after (when rolling back) the index are done,
and what the next compare-and-swap expects is what was observed. Paths another
program wrote are excused, so the parts speak of files only through `touched`.
That two plans share a backup directory is the delicate part: a backup is
written only where none exists or an equal one does, which is what keeps the
records of the earlier transaction true.

`ExecutorIsAtomic` maps each concrete step under `SafetyInv`. Publishing
`active.json` is `Begin`, the launch is `Restart`, clearing `active.json` is
`Finish` or `GiveUp` according to the summary, a foreign write is one; all others
leave the abstract state alone. `Walk` shows that at the clearing the files are the
goals or the originals, so that what becomes visible is what `Finish` or `GiveUp`
says; `Inverts` shows that an explicit rollback puts back what its source
replaced.

### The facade

`NoLostTask` is not inductive: `workerBusy` alone must already mean that a worker
exists or is being created, also while the queue is empty (`QueueInv`).
`ReadyAgrees` needs what the worker holds in each phase (`ReadyInv`): nothing is
ready while it prepares or launches an update, and from the download on the plan
in hand is the one the current generation's check stored. `PeriodicKeepsReady`
uses both, and that the timer only asks for checks.

`SafeInv` adds who holds `operationMutex` (`LockInv`), the token of a running task
(`ShutdownInv`), what the pending record is while somebody works on it
(`PendingInv`), that a generation whose helper was launched is spent and cannot be
downloaded or applied again (`HelperInv`), and that the last callback on its way,
or else the last one handled, shows the state (`ViewInv`).

`JoinedMeansQuiet` says what the join is worth: once `shutdown()` returned, the pending
record, the launches, the state and the worker stay, callbacks are only delivered, and
the number of errors on their way to the dispatcher only falls. It does not say that
nothing is posted, which would be false of the code.

`ReadyIsPersisted` assumes that no start state has the receipt of a rollback of a
release in `Releases`, the releases that may be offered. It needs no more; with
such a receipt the property fails, which is the violation described above.

### The store

`StoreInv` says who holds the lock file and what the holder knows: the files are as
it read them, or another program interfered and it has noted so (`HolderInv`); the
document it is about to write is what its operation makes of the one it read.
Then every replacement of the state file is an operation of `StateContract`
applied to its present value, with the comparison the request asks for, whatever
happened since the call began, and the last one of its request; a write that
is lost changes nothing, and one that is visible but not durable adds to
`restorable`. Locks, snapshot and sidecar are invisible there.

### Transfer, downloads, planner

`TransferInv` follows the chain: every URL asked was authorised and is among the
visited ones, the range is alive only while the first URL is asked, and each byte
of the partial file behind the resumed ones is of the current request.

`DownloadInv` says which artifacts are staged at each index of the loop, what the
verified partial file is until it was published, and, as long as nothing failed,
that the records to be written are those of partial files. The sums of the sizes
are recursive functions; that the checked sum is the exact one, or that the sum is
refused, is proved by induction over the artifacts (`SetInduction`), which rests on
the well-foundedness of `<` on the naturals.

`PlannerInv` says that the snapshot is what is installed, but for what others
changed, and that a decision was made from the present configuration and still
holds when it is carried out. A target has at most one operation, which is why
`PlansAreExact` can speak of disturbed files: what an operation writes does not depend
on what it finds.

### The replacement of a file

`RootedInv` is one invariant for each platform. On POSIX (`PosixInv`) the prepared
file is at the payload name or at the target, never at both, and is gone only from
a call that withdrew it (`PreparedFile`); what the handle calls the payload is the
prepared file before the exchange and the displaced one after it (`HandleSound`),
which is why `discard()` cannot unlink a published target; `StatusSound` relates
`publishStatus()`, the flushes and what a power failure may leave, at each system
call; `GivenUpSound` says that the old file goes only after that is settled. Another
program's file stays linked because each unlinking step first compared what is
behind the name. On Windows (`WindowsInv`) nothing is published before the rename
(`WindowsUnpublished`), and success needs the displaced file to have been the
expected one (`WindowsDisplaced`); the same part dates another program's file
at the target of a rename to after the second comparison.

### The inputs

The subject of a behaviour never changes, so each theorem has an invariant of its own.

*Manifest fetcher* (`FetchInv`). `SignatureSound` follows the flag: it is about the
bytes at hand, is set before they are parsed where signatures are required, and was
set for the index that led to the second phase. That `selectIndexTarget` returns
the one most specific target is proved for an index of any length, by induction over
the targets looked at (`ConsiderOneMore`, `BestOfAll`).

*Manifest* (`PathInv`). The code sorts the keys and compares neighbours only. A key
that lies between another and one of its descendants is a descendant itself, since
the separator is folded to the least character (`BetweenFollows`); so if any two
keys conflict, some two neighbours do (`NeighboursSuffice`). That a sorted order
exists is proved by induction (`SortExists`). Without the folding the lemma is
false, which is what the mutant of `managedPathLookupKey` shows.

*Resume records* (`ResumeInv`). `BatchSound` speaks of a batch in progress: its
records are fresh, the protected ones are present with its time, and the limit on
entries holds once records are evicted for their bytes.

*Versions* (`VersionInv`). Numeric identifiers are compared as texts, by length and
then by character. `DifferenceDecides` shows by induction over the digits that this
is the order of the numbers: after the first different digit no later one matters
(`SmallerStaysSmaller`), and without leading zeros the longer number is larger
(`LongerIsLarger`). `TextTrichotomy` gives the trichotomy of all comparisons.

*Health deadline* (`ClockInv`). The civil time and the count of hours agree, also for
the instants remembered. The step is the arithmetic of `daysFromCivil` from one day
to the next, across month ends, leap days and centuries, up to any year; an instant
beyond the last year has no value. Every offset of whole hours lands in the day before
or after, and the guard of the deadline is exact up to the largest instant.

### Assumptions

All are stated in the modules that declare the constants, and TLC evaluates them
in the runs. `SentinelAssumption`, `ContentAssumption`, and parts of
`FacadeAssumption`, `StoreAssumption`, `DownloadAssumption` and `PlannerAssumption`:
sentinels are not values. `PlanAssumption`: install plans have no preconditions and
name each target once. `TransferAssumption`: the scopes are disjoint, and a write
has a byte. `DownloadAssumption`: the artifacts are numbered, their sizes and the
limits are representable and not negative. `PlannerAssumption`: contents are not the
marks of a manifest entry, and what is installed at first is a content of each target.
`RootedAssumption`: no file is the missing one.
`InputsAssumption`, of five parts: the first URL is in scope, none is the override, and
a document is signed or not; paths and identifiers are sequences of characters;
the keys of resume records are finitely many, as the sidecar's are; the walk starts in 1970
and remembers an instant, and the absence of an instant is not one. The rest say that bounds are natural numbers.

### What attempts at proofs corrected

`OneHelper` used to say that all launched helpers have one intent. That holds with
three requests, not with more: after a rollback request whose helper was launched,
`markCurrentVersionHealthy()` confirms the running version, and a download may then
be applied. The property now says so. `Transfer` relied on the order of the arms of
a `CASE`, which TLA+ does not define; its verdict is an ordered choice like the
code's. In `DownloadExecutor` a file that was damaged while it was being published
lost its mark when another program put the right content beside it;
with two foreign changes TLC confirms the false alarm, which concerned the mark
and not the code. `comparePrerelease` in `VersionOrder` also relied on the order of
`CASE` arms; they are disjoint now, as the code's early returns make them. Sorting
and choosing the best target were library operators; they are stated by what they
yield (`Sorted`, `InOrder`) or as a recursive function (`BestOfFirst`), with the
same values.

### Only model-checked

Every invariant and every action property of a passing run has a theorem, and so
have the two refinements. What is left to TLC is liveness: `RecoveryTerminates`,
`RequestsServed`, `ShutdownEnds` and `RequestEnds` rest on fairness, which is out
of the prover's reach. Inductions over data are done on sets of numbers
(`SetInduction`), since the library's induction schemes take an operator as a
parameter, which the provers do not instantiate.

## 5. Not modelled, and the plan

`PROJECT.json` lists every component.

Models to come: `UpdateLifecycle`, which composes facade, helper and store over
several runs of the application (prepare, apply, confirm, expire, roll back);
termination of the store's calls when the lock is released fairly.

Left to tests: the JSON parser and writer, URL text and the canonical form of
scopes, hashing and signature algorithms, bounded reads. They are functions on bytes
without protocol state; the models use them as functions that succeed or fail.
Network clients, process creation and the command line bind to platform libraries
and keep no state of their own. The release tools are offline scripts.
