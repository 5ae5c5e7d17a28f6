# AllureDeck: verification project

AllureDeck (`src/api`, Go) receives Allure and Playwright results from CI,
generates a report per upload with the allure command line tool, keeps the
reports of every project as numbered builds, and derives branches, histories,
defects, runs and webhooks from them. It runs as one or several replicas
("pods") over one PostgreSQL database and one report storage (a directory or an
S3 bucket). Jobs are queued in the database by River, so any replica may run any
job, and a job whose pod dies is given to another one.

This directory holds TLA+ models of that program, the TLC runs that check them
and TLAPS proofs about them. Section 1 is the inventory of the system, 2 the
plan and how the modules are put together, 3 to 5 what is modelled, checked and
proved, 6 what the checks found, and 7 what is left out.

## 1. Inventory

Paths are under `src/api/internal` unless they start with `src/`.

| Component | State | Operations | Module |
|---|---|---|---|
| **Report generation, builds, branches, retention** (`runner/allure.go`, `runner/playwright.go`, `store/pg/{build,branch,lock,sync}.go`, `src/api/cmd/api/main.go`) | rows of `builds` and `branches`, directories `reports/<n>`, the advisory lock of a project | GenerateReport, IngestReport, retention, DeleteReport, CleanHistory, the daily sweep, SyncMetadata, SetDefault, deletion of branches | `BuildLifecycle` |
| **Storage on S3** (`storage/{s3,s3_helpers,migrate,overlay}.go`, `src/api/cmd/gcstorage`) | objects under keys | publishing, renaming, migrating, deleting and sweeping, each a program of many calls | `ObjectStore` |
| **Result rows** (`store/pg/test_result.go`, `parser`, `runner/shelltwin_cleanup_worker.go`) | rows of `test_results` and their children | storing the generator's entries, enriching from the uploaded files, the daily clean-up of twins | `Results` |
| **Job queue, staged uploads** (`runner/river_jobmanager.go`, `runner/staged_tar_gz_worker.go`, `handlers/result_upload_handler.go`) | River's job rows, `job_progress`, the blob `staging/<batch>.tar.gz` | asynchronous upload, work, error handler, Retry, Cancel, Delete, the hourly clean-up | `StagedUpload`, `Upload` |
| **Batches and the watcher** (`handlers/result_upload_handler.go`, `runner/watcher.go`, `runner/allure.go`) | directories `results/<batch>`, the watcher's hash | upload, generation of a batch, polling, CleanResults | `Batches` |
| **Playwright staging** (`runner/playwright.go`, `handlers/playwright.go`) | `playwright-reports/latest` and `/<n>` | upload, ingestion, the copy to a build from Allure results, deletion | `Staging` |
| **Sessions** (`handlers/auth.go`, `handlers/oidc.go`, `handlers/users.go`, `store/pg/refresh_token_families.go`, `store/pg/blacklist.go`, `src/ui/src/api/client.ts`) | refresh-token families, the blacklist, `users`, the browser's cookies | login, refresh, logout, password change and reset, deactivation, deletion | `Sessions` |
| **Caches and limiters before the handlers** (`middleware/{user_active_cache,auth,account_throttle,ratelimit}.go`) | a cache of `users.is_active` per process, failures per account, a token bucket per address | lookups, invalidation, eviction, Check, RecordFailure, clean-ups | `ActiveCache`, `LoginLimits` |
| **Defects** (`store/pg/defect.go`, `runner/fingerprint.go`, `src/api/cmd/backfill`) | fingerprints with counters and a resolution, occurrences | upsert, link, counting clean builds, resolving, detecting regressions, edits, backfill | `Defects` |
| **API keys and proposals** (`handlers/api_keys.go`, `handlers/proposals.go`, `mcp/tools/{mutating,confirm}.go`, `store/pg/*_proposal.go`) | keys; pending, approved and rejected proposals of three kinds | create and delete keys, propose, approve, reject | `Proposals` |
| **Projects** (`handlers/project_handler.go`, `handlers/project_parent.go`, `store/pg/project.go`) | rows, storage keys, directories | create, delete, rename, re-parent, registration by the watcher | `Projects` |
| **Webhooks, digests** (`runner/webhook_worker.go`, `store/pg/webhook.go`, `handlers/webhook_handler.go`) | subscriptions, deliveries and their log | editing, event selection, delivery in five attempts, the daily digest | `Webhooks` |
| **Failure summaries** (`failure/service.go`, `store/pg/failure_summary.go`) | cached summaries with the hash of their evidence, flights | SummaryFor | `FailureSummary` |
| **MCP server** (`mcp/tools/diagnose*.go`, `mcp/tools/pipeline.go`) | none | diagnose_failure, diagnose_pipeline | `Diagnosis`, `Pipelines` |
| **Runs** (`store/pg/pipeline.go`, `handlers/pipeline_handler.go`, `src/ui/src/features/runs`) | none of their own: builds with one pipeline id or commit | the page of runs, awaited suites, origins of failures | `Pipelines` |
| **In-process jobs** (`runner/mem_job_manager.go`) | a map under a mutex | used by tests only | - |
| **Other read models, preferences, audit log, profile fields** | rows | single statements | - |
| **Web interface, deployment** (`src/ui`, `src/charts`, `src/docker`) | browser state; none | HTTP interface | - |

Uploads and administrators' requests come in through HTTP handlers; they write
storage and enqueue jobs. Job workers of any replica take the project's advisory
lock and generate a build; generation writes the rows of tests, defects and
branches, then enqueues webhooks. The sweep, the deletions and SyncMetadata write
the same rows and directories without the lock. The MCP server and the page of
runs read what is there, statement by statement.

### What is hard

- **Generation and builds.** A number is reserved (`MAX+1`, a unique constraint,
  a retry), its directory is published, its row is filled, `is_latest` moves, old
  builds are pruned, and a deferred rollback removes the row of a failed
  generation, each in a statement or storage call of its own. A pod may die, many
  failures are only logged, half of the writers take no lock, and numbers are
  given again.
- **Storage on S3.** A directory is a prefix; renaming or deleting it takes a
  call per object or page and may stop anywhere.
- **Job queue.** The archive must outlive every attempt that needs it, a job
  must not build its batch twice, and the requests of administrators come in any
  order.
- **Sessions.** Tabs refresh at once, with a grace window for the previous
  token; logout, reset and deactivation fall between the check and the rotation;
  best-effort writes fail; the cache of another replica lags behind.
- **Decisions on what was read before**: limits counted in one statement and
  exceeded in another, proposals reviewed twice, hierarchies checked before they
  are written, histories read after newer builds have come.
- **Counters over sequences**: a defect is resolved and reopened by increments,
  computed in build order, by a sequence of statements that may break off.
- **Requests that share work**: lookups and summaries wait for another request's
  flight, which must end whatever happens to its leader.

`PROJECT.json` lists the hazards line by line with the properties that cover
them, and the reason where none does.

## 2. Plan and composition

Every module of the table exists. The order in which they were written is
`BuildLifecycle` and `BuildLog`, `StagedUpload` and `Upload`, `Sessions`, `ActiveCache`,
`LoginLimits`, `Defects`, `Proposals`, `Projects`, `Webhooks`, `FailureSummary`,
`Staging`, `Batches`, `Diagnosis`, `Results`, `Pipelines`, `ObjectStore`.

Components that share no state and no caller are checked in one run: an MC
module instantiates them, and a variable `part` that never changes says which of
them moves; the others stay in an initial state. Nothing is lost by that, since a
behaviour of one is not influenced by another, and a run of `n` parts has the sum
of their states, not the product.

| Module | Parts |
|---|---|
| `MCBuildLifecycle` | `BuildLifecycle` with the jobs that are tried |
| `MCBuildRuns` | that, and `Pipelines` |
| `MCSessions` | `Sessions` with its symmetry |
| `MCProjects` | `Projects`, `ObjectStore` |
| `MCRecords` | `Proposals`, `Defects`, `Diagnosis`, `Results` |
| `MCProgress` | `ActiveCache`, `Webhooks`, `FailureSummary`, `Batches` with the watcher: what must end |
| `MCSafety` | `ActiveCache`, `Staging`, `Batches` without the watcher, `LoginLimits` |

Where components do meet, one of them is a step of the other: generation is one
step of `StagedUpload` and `Batches`, and `BuildLifecycle` is that step in
detail; an approved proposal edits a defect, which `Defects` has as an edit; the
rows that generation writes between publication and the latest flag are
`Results`.

Every invariant and action property that a passing run checks is proved (section
5), under the hypotheses named there, and so are both refinements: `StagedUpload`
implements `Upload`, and `BuildLifecycle` implements `BuildLog`. The second says why
generation may be one step of `StagedUpload`: a project's generations take turns, and
one that returns without an error leaves its build as the newest.

## 3. The models

A step is one statement, one transaction, one storage call or one request to
another service, unless the module says otherwise; what a handler keeps between
two of them is in its record. Writes whose failure the code only logs may fail
separately. A definition marked *Mutant* is not part of the model: it is a
changed form of the next definition, and `PROJECT.json` says which property it
breaks. Bounds are constants and named as such.

### BuildLifecycle and BuildLog

One project: the rows of `builds` and `branches`, the directories `reports/<n>`,
the advisory lock, and each process that writes them. Projects share no row,
lock or directory here.

| TLA+ | code |
|---|---|
| `lock` | the session-level advisory lock taken by `AcquireLock` |
| `builds` | rows of `builds`: number, whose reservation, `branch_id`, `ci_branch`, `is_latest`, whether older than the age limit |
| `dirs[n]` | `reports/<n>`, as the set of generations whose files it holds (publication copies over, it does not clear) |
| `branches`, `dflt` | rows of `branches`; the one with `is_default` |
| `pc`, `job`, `bid`, `num`, `todo`, `names`, `committed`, `err` | where a process is, and the local variables of its call |

- **Generations** (`Gens`): `Start`, `AcquireLock` or `AcquireCancelled`,
  `ReserveSelect`, `ReserveInsert`, `ReserveConflict` or `ReserveFails`,
  `Generate`, `ResolveBranch`, `PublishReport` or `PublishFailsEarly`,
  `FillBuild`, `SetLatest`, retention, `Rollback`, `Unlock`. The kinds are
  `allure` (GenerateReport), `record` (storing off: recordBuild) and
  `playwright` (IngestReport, whose steps come in another order and whose
  pruning errors are only logged).
- **Retention** (`Prune(p)`): PruneBuildsBranch, PruneBuildsByAge and
  PruneStaleBranches, each a selection, a deletion of rows and a removal of
  directories. Generations run it under the lock, the sweep without it and
  followed by `DeleteOrphanBranches`.
- **Administrators**: DeleteReport (storage, then the row, twice), CleanHistory,
  SetDefault, branch deletion in two statements. **Importer**: SyncMetadata.
- **Environment**: a build passes the age limit, a lock session is lost, a
  generation or the sweep dies.

`BuildLog` is what the generations promise of the project's history while nothing
unlocked runs: they write it one after another at its newest end; a writer takes
back an entry it has not kept, and removes older ones only after it has kept its
own; one that succeeds (with `KeepHistory`) leaves the newest entry its own. The
refinement mapping keeps the number and the generation of a row (`Entries`), and of
a generation's label and commit flag how far it has come (`Stages`): a row is in
the history from `ReserveInsert` on and kept from `SetLatest` on.

### StagedUpload and Upload

`StagedUpload` has the uploads of one project and their jobs. Generation is one
step, which makes a build, fails without one, or fails after its commit.

| TLA+ | code |
|---|---|
| `reply` | what `sendResultsAsync` answered (a synchronous upload takes the same steps without an archive) |
| `blob` | `staging/<batch>.tar.gz`: absent, or younger or older than `stagingCleanupRetention` |
| `state`, `attempt`, `limit`, `asked`, `output` | the job row: River's state, attempt, max attempts, cancel request, recorded report id |
| `phase` | the row of `job_progress` |
| `pc`, `live`, `made` | the worker: where it is, whether its context is live, whether it has a report id |
| `builds` | builds in the order of their numbers, with the batch of each |
| `sent`, `notices`, `deleting` | deliveries of completed and failed reports; delete requests between check and deletion |

River is external: `Fetch` counts the attempt, `Complete` and `Settle` record its
outcome, `Rescue` takes a job from a dead pod. `Upload` is what the queue promises
for an upload when nothing interrupts it but a request to cancel: `open` until it
is `completed` with exactly one build, or `failed` with none. The refinement
mapping is `Fate`, the names the job list shows, and `builds` itself.

### Sessions

One user, one browser with its tabs, one administrator. `fams` are the rows of
refresh_token_families with `current_jti`, `previous_jti`, whether the grace
window is open, and the `sub` of the login, which is the numeric id for a
password and an email address for the identity provider; token pairs are numbers
in the order of issue. `req` are the requests in flight with their handler's
variables, `jar` the cookies, `holder` the Web Lock of the tabs. Logins
(`LoginCheck`, `UpsertByOIDC`, `HandleEmailCollision`, `CreateFamily`), `Refresh`
in its five statements, `Logout`, `ChangeMyPassword`, `EndAllSessions`, the
administrator's reset, deactivation, reactivation and deletion, `Deliver` and
`GiveUp` of an answer, `GraceEnds`. `over` in a request is history: how its
session had ended when the request was sent.

### ActiveCache and LoginLimits

`ActiveCache` is the recheck of `users.is_active` before every authenticated
request: `cache` per process and key, `flight` the shared lookup, `call` the
requests, `stale` and `clean` history. Instants are kept as ages and remaining
times; `Tick` waits for lookups at their time limit and for steps that take no
time. `LoginLimits` is
the token bucket and the failure counter: `Attempt` passes both, `RecordFailure`
and `RecordSuccess` come after the comparison, `CleanupAccounts` and
`CleanupBuckets` remove entries; `kept` and `keptBucket` are what there would be
had nothing been removed.

### Defects and Results

`Defects` has computeDefectFingerprints as its five statements over the builds
of a project, edits of people and deletions between them, and the backfill
command, which runs it again for every build from the newest on. `Results` has
the rows of one build's tests: `Publish` makes the generator's entries out of the
uploaded files, `StoreEntries` and `Enrich` write the rows from the two sources,
each with its failures, `Clean` is the daily removal of bare twins.

### Proposals and Projects

`Proposals` has the API keys of one account (`CountKeys`, `CreateKey`,
`DeleteKey`, the cascade), the propose tools with the confirmation gate
(`AskUser`, `Propose`, `Expire`, `InsertProposal`), and reviews (`BeginApprove`,
`Approve`, `Reject`) of each of the three kinds. Each tool has its own table, so
`kind` is chosen at the start. `Projects` has rows, storage keys and directories:
`Create` with `SetKey` and `MakeDir`, `Delete`, `Rename`, `Move` with the trigger
check_no_nested_parent, the watcher's `Register`, and `Stop` of a request between
any two of its steps. A directory remembers whose data came first, for the
projects in `Traced`.

### Webhooks and FailureSummary

`Webhooks`: editors (`CreateCount` and `CreateInsert`, `UpdateLoad` and
`UpdateSave`, `Delete`), jobs that notify (`List` per event, `Enqueue`) and
deliveries (`Fetch`, `Load`, `Post`, `Record`, `Crash`); `posts`, `taken` and
`died` are history. `FailureSummary`: `Arrive` reads the evidence, `Serve` looks
at the row, joins or leads the replica's flight, calls the model, writes the row
and answers; `Change` alters the evidence, `Leave` is a client that goes.

### Staging and Batches

`Staging` has `playwright-reports/latest` and the directories of builds as an
index and the set of uploads whose data files they hold; uploads write file by
file without a lock, ingestion and generations list, copy and clean file by
file. `Batches` has the directories of `results/` with their files, uploads, jobs,
generations with their steps (`Lock`, `Download`, `Prepare`, `KeepHistory`,
`RunAllure`, `Publish`, `CleanBatch`), CleanResults, crashes, and the watcher: its
hash of `results/` is the directories and how often each was made.

### Diagnosis and Pipelines

`Diagnosis` is diagnose_failure: `Diagnose` lists and collapses the failing
tests, `Examine` reads the history of one after the other, `Conclude` clusters and
gives the verdict, while `Ingest` adds builds. `Pipelines` has builds that are
described part by part, deleted, and put on default branches by people, a request
for a page of runs (`ListRuns`, `Await`, `CountOrigins`, `NextPage`) and a call of
diagnose_pipeline (`ListBuilds`, `TagFailures`, `ListTests`).

### ObjectStore

Keys are sequences of segments, a prefix is a sequence too, and operations are
programs: `op[o].todo` is the sequence of their stages (list pages, copy, delete
pages, read, send, look at the rows), which the steps `FindPage`, `CopyOne`,
`ReadOne`, `SendOne`, `ListToDelete`, `DeletePage`, `Look` and `End` execute call
by call, and `Fail` ends anywhere. `Served` is the overlay: what a request for a
file of a build gets.

## 4. The runs

| Run | Question |
|---|---|
| `build_generators` | Do three generations under the lock, with crashes and all retention strategies, never delete the build GetLatestBuild returns (`LatestNeverPruned`), and keep types (`TypeOK`)? Do pages of runs say "passed" and "none new" only where it is so (`PageIsBacked`), and does diagnose_pipeline tag what it lists or warn (`TaggedUnlessWarned`)? |
| `build_committed` | Does a committed generation keep its row and report though logged-only writes fail (`PublishedKept`), does a waiting generation end and give the lock up (`WaiterEnds`), and is `BuildLog` implemented (`ImplementsHistory`)? |
| `build_unlocked` | Do `MutualExclusion` and `LatestPerBranch` hold against the sweep, deletions, the import and branch deletion? |
| `build_session` | Are rows kept apart when lock sessions are lost (`OwnRow`), and does the stale-branch transaction look again (`StaleRechecked`)? |
| `build_survivors` | a violation, section 6 |
| `upload_jobs` | Is the archive kept while a build may need it, has a completed job its report, does every job end (`ArchiveKept`, `CompletedHasReport`, `JobEnds`)? |
| `upload_once` | Is `Upload` implemented (`ImplementsUpload`), in which a batch is built once? |
| `sessions` | `CompromiseIsStable`, `EndedSessionsStayEnded`, `TabsKeepSession` |
| `projects` | `NoSharedHome`, `OneLevel`; on S3, is a published build served its own data, and does a move lose nothing (`ServedDataIsOwn`, `NothingDropped`)? |
| `records` | `FixesAreTold`, `DispositionKept` of defects; `ExcessBounded`, `VerdictIsEffect` of keys and proposals; `WholeUnlessTruncated`, `HistoryIsSupport` of a diagnosis; `RowPerTest`, `LastCopyKept` of result rows |
| `progress` | What must end: `EveryoneAnswered`, `NoticesEnd`, `BatchesDrain`; and `RepeatNeedsCrash`, `CallsAreNeeded` |
| `safety` | `FlagMeansReport` and `CleanedIsCopied` of staging, `ResultsKept` of batches, `AccessEnds` of the cache, `LimitsHold` of the limits |

### Bounds

- **Builds.** Three generations are one that holds the lock, one that waits, and
  one whose build came before; two branches are the default one and another. Two
  numbers are enough for a number to be deleted and given again, and for one build
  to be newer than another; `MaxBuild` only cuts off behaviours that would need a
  higher one.
- **Jobs.** Uploads meet only in `builds` and `sent`, so one is enough for what a
  job goes through and two for the order of builds. Three attempts are a first, a
  middle and a last one; two retry requests are one that raises the limit and one
  that need not. `upload_once` leaves out crashes, time limits, retention errors
  and retry requests, each of which can build a batch again; nothing in the
  repository promises otherwise.
- **Sessions.** Two requests race in every pair of handlers; three token pairs
  are a login, a rotation, and one more that makes the first too old for the
  grace window. Families do not read each other's rows, so one is checked and the
  proofs cover any number.
- **Projects.** Three rows are a parent, a child and the project that moves;
  `Arrangers` has one of the two requests, since `OneLevel` is false with two
  (section 6). On S3 two operations of every kind meet, pages have two keys, and
  one call fails; numbers 1, 9 and 10 sort before, between and inside each other.
- **Records.** Four builds with a threshold of two, which the code has at three,
  let a defect be resolved and come back; two calls race at a limit of one key;
  three builds are one to compare with, one diagnosed and one that overtakes it;
  two files are two tests, or two attempts of one.
- **What must end.** Two requests share a lookup and three a summary; a delivery
  has two attempts; two batches are one that is generated and one that waits.
- **Cache and limits.** Times are the smallest that tell their order apart:
  lookups of 1 and 2, a lifetime of 2; a lock that outlasts the window it counts in.

Constants that widen a model beyond the default of a run (`Wide`, `Watching`,
`Traced`, `TwinSays` for the ways tests fail) are there for the configurations of section 6.

`CHECK_DEADLOCK FALSE` is set wherever the system may come to rest: when nobody
asks for anything and every job has ended, nothing happens. `safety` and
`records` contain such parts. Symmetry is used only in runs without liveness.

### Fairness

Weak fairness is assumed of what goes on by itself and bounded in time, never of
requests, crashes, edits, clean-ups, ageing or failures:

| Module | Fair | Why |
|---|---|---|
| `BuildLifecycle` | `Work(g)` | statements have time limits, the allure command is killed after its own; the lock is polled, and only finitely many generations compete |
| `StagedUpload` | `Fetch`, `Attempt`, `Rescue` | River polls its queue and runs its rescuer; a step of a worker ends with the attempt's time limit |
| `ActiveCache` | `Proceed(c)` | a lookup is bounded by its timeout |
| `Webhooks` | `Attempt(n)` | as for jobs; the request to the receiver has ten seconds |
| `FailureSummary` | `Serve(r)` | statements and the requests to the model have time limits |
| `Batches` | `Advance(g)`, `Served(j)`, `Poll` | as for generations and jobs; the watcher is a ticker |

In `MCProgress` each of these is conjoined with the part it belongs to.


## 5. The proofs

TLAPS checks every theorem below for all values of the constants that satisfy the
module's named assumption, which TLC evaluates in a run. Each is proved from one
inductive invariant: it holds initially, every action keeps it (a step per
action, and under it one per conjunct the action can disturb), and it implies the
property. AutoFixedWasClean, PassedIsClean, OneNoticePerSource and BuiltOnce are in no run:
the last follows from ImplementsUpload, the others are proved only.

| Module | Theorem | Property | Needs |
|---|---|---|---|
| `BuildLifecycle_proofs` | TypeCorrect | TypeOK | |
| | GenerationsExclude, GenerationsOwnTheirRow, OneLatestPerBranch | MutualExclusion, OwnRow, LatestPerBranch | `~SessionLoss` |
| | CommittedBuildsStay | PublishedKept | `~SessionLoss`, `Unlocked = {}` |
| | BuildsImplementHistory | ImplementsHistory (the refinement) | `~SessionLoss`, `Unlocked = {}` |
| | StaleIsRechecked | StaleRechecked (of steps) | |
| | LatestSurvives | LatestNeverPruned (of steps) | `~SessionLoss`, `~Faults`, `Unlocked = {}` |
| `StagedUpload_proofs` | UploadTypeCorrect, CompletedJobsReport | TypeOK, CompletedHasReport | |
| | ArchivesAreKept | ArchiveKept | `~Cleanup` |
| | BatchesBuiltOnce, QueueKeepsPromise | BuiltOnce, ImplementsUpload (the refinement) | `Undisturbed` |
| `Sessions_proofs` | SessionsTypeCorrect | TypeOK | |
| | CompromiseStable, EndedStayEnded, TabsKeep | CompromiseIsStable, EndedSessionsStayEnded, TabsKeepSession | |
| `Projects_proofs` | ProjectsTypeCorrect, HomesAreOwn | TypeOK, NoSharedHome | |
| | OneLevelDeep | OneLevel | `OneArranger` |
| | NothingIsDropped, ServedIsOwn | NothingDropped, ServedDataIsOwn | |
| `Records_proofs` | ProposalsTypeCorrect | TypeOK | |
| | VerdictsAreEffects, ExcessIsInFlight | VerdictIsEffect, ExcessBounded | |
| | ClosedWasClean | AutoFixedWasClean | |
| | DispositionStays | DispositionKept (of steps) | |
| | FixesAlwaysTold | FixesAreTold | `Told` |
| | RowsPerTest | RowPerTest | |
| | LastCopiesKept | LastCopyKept (of steps) | |
| | WholeOrTruncated | WholeUnlessTruncated | |
| | HistorySupports | HistoryIsSupport | `HistoryRead` |
| `Runs_proofs` | TestsAreTagged, PassedRunsAreClean | TaggedUnlessWarned, PassedIsClean | |
| | PagesAreBacked | PageIsBacked | `Solid` |
| `Progress_proofs` | RepeatsNeedCrash, NoticesQueuedOnce | RepeatNeedsCrash, OneNoticePerSource (of steps) | |
| | PaidCallsNeeded | CallsAreNeeded (of steps) | `OneReader` |
| `Safety_proofs` | CacheTypeCorrect, AccessAlwaysEnds | TypeOK, AccessEnds | |
| | FlagsHaveReports, NothingUncopiedIsCleaned | FlagMeansReport, CleanedIsCopied (of steps) | |
| | ResultsStayKept | ResultsKept | |
| | LimitsAlways | LimitsHold | `LockOutlastsWindow` |

### BuildLifecycle

    LInv == TypeOK /\ LockHeld /\ Phase /\ OwnRowState /\ LatestPerBranch

`LockHeld` (a generation in its section holds the lock) gives mutual exclusion,
so two generations never hold numbers at once. `OwnRowState` is row ownership
with what the labels before the insert say of rows; `Phase` ties the commit flag
and the reserved number to the label. A row enters the table only in
`ReserveInsert`, under a free number, and in `SyncInsert`; it changes only in
`FillBuild` and `SetLatest` of its own generation; every other writer deletes rows
or clears columns (lemma `QuietRows`). `LatestPerBranch` needs ownership:
`SetLatestBranch` clears the flags of the branch the generation resolved, and it
is the generation's own row which it then marks.

    PInv == /\ TypeOK /\ LockHeld /\ Phase /\ Alone
            /\ \A g \in Gens : NewestIsOwn(g) /\ NotChosen(g) /\ ReportIsThere(g)

is for PublishedKept. `Alone`: without sweep, deletions and import, only the
generation that holds the lock touches rows or directories. `NewestIsOwn`: its
row carries the greatest number, since it was `MAX+1` when it was inserted and
nothing was inserted since. `NotChosen`: so no retention strategy has it among
the builds it is about to prune, and `ReportIsThere` follows.

`~SessionLoss` is needed: with a lost session two generations run at once.
`build_session` shows by model checking that row ownership survives it in the
checked instance, because of the unique constraint. `Unlocked = {}` is needed
too: the sweep breaks the property (section 6).

    MInv == PInv /\ \A g \in Gens : LatestMarked(g)

is for LatestNeverPruned: a generation that has set the latest flag and retains
has the row that is marked. By `PInv` that row is its own and the newest, so
neither strategy has it in its list. `~Faults` is needed, because SetLatest that
fails is only logged: the flag then stays on an older build, which may be chosen.

    HInv == PInv /\ \A g \in Gens : Sealed(g)

is for the refinement of `BuildLog`. `Sealed`: a generation that prunes has
committed, and so has one that returns without an error while history is kept.
Lemma `OwnStepWrites` maps each step of the lock's holder: `ReserveInsert` adds the
newest entry (`LockHeld`: nobody else is writing; `NewestIsOwn`: the number is
greater than all), `SetLatest` keeps it, a retention step trims (`PruneSpares`),
and `Rollback` takes the newest entry back exactly when the commit flag is unset.
`Unlock` without an error succeeds, since `Sealed` and `NewestIsOwn` put its entry at
the end. `FillBuild`, `SetLatest` and ageing rewrite rows, but no number and no
generation (`EntriesStay`). No `~Faults` is needed: a rollback whose statement fails
is a failure that `BuildLog` admits under the same constant.

### StagedUpload

`SInv` is `TypeOK /\ Counters /\ Reported` with `Archived` for the archive and
`Exact` for the refinement. `Counters`: only an accepted upload has a job, and a
queued job has attempts left. `Reported`: a worker past generation has a build and
a report id, which is what `Complete` records. `Archived` says more than
`ArchiveKept`: from the answer on, without a build, the archive is there, because
`DropBlob` alone removes it and `Reported` gives it a build. `Exact`: a batch with
a build is `Past` its attempt, in the steps after generation, failing with its
cancellation asked for, or ended; generation is not among those, so it builds a
batch without a build (`Build` of `Upload`), and `Settle` discards only jobs
without one (`Fail`). `Undisturbed` (no crash, time limit, retention error or
retry request) is needed, because each of them can build a batch again.

### Sessions

    Inv == TypeOK /\ TokensIssued /\ CompromiseIsStable /\ EndIsKnown /\ TabsInv

`TokensIssued`: nothing names a token pair that was not issued, and whoever
refreshes presents one. `EndIsKnown`: of a refresh that was sent after its session
ended, the reason is still there when the refresh looks: the user is inactive, or
the family it has yet to load is no longer active; and none of them is past its
checks. `TabsInv` speaks of browsers with Web Locks that lost no answer: one
refresh is under way at a time and its tab holds the lock (`OneRefresh`); what is
presented or in the jar is the current token of its family, or is about to be
replaced by the answer of the refresh that made it old (`CookieIsCurrent`); so no
family is compromised. A token of a family whose row could not be written counts
as current, since the refresh is refused before it is compared.

### Projects

    Homes == NoSharedHome /\ FreshUnnamed /\ Carried /\ OneSetter

`FreshUnnamed`: no row, directory or request uses an id as a name before its child
has got it as its key. `Carried`: what a request has in hand between two
statements fits its label. `OneSetter`: an id waits for its key in one request.
`Flat` is `OneLevel /\ MovesAreFlat`: what a request that puts a project under
another has found, that it has no children and the parent is no child, is still
so when it writes, except for what only removes edges. With two such requests the
property is false (section 6), which is why `OneArranger` is assumed.

The attempt to prove NoSharedHome found a mistake of an earlier form of the
model: the deletion of an id that was already gone removed every row. `Below` is
now defined on any id.

### Storage on S3

The keys are those of `MCProjects` (a project, its child, the directories and
files of a report); the operations, how often each is begun, the kinds of
operation and whether reports have data files are any.

    StorageInv == StorageTypes /\ MovesAreSafe

is for NothingDropped. `MovesAreSafe` follows a rename or migration from call to
call: until it clears the old prefix, every object it found is there or copied or
was taken by another operation; once it clears, everything it found is at its new
key or was taken, and what a page lists is under the old prefix.

    ServedInv == StorageInv /\ Claims /\ ReportsKept

is for ServedDataIsOwn. `Claims` says what operations are to each other whatever
call they are at: one publication at a time, and none that would disturb a
published number. `ReportsKept`: a report's object holds what its number's
publication wrote, a published build has all its files, and the program of each
operation, at its remaining calls, can only delete numbers that nobody is shown
(`ProgramOf`, with a form for each kind of operation).

### Proposals

    TypedVerdicts == TypeOK /\ Verdicts
    Inv == TypeOK /\ Verdicts /\ KeysAndCalls /\ PropsAndCalls

`Verdicts`: the approved proposals are exactly those that were applied. The limits
are proved from a count of what is in the table together with what may yet be put
there: the keys and the calls that have counted and not inserted are at most
`MaxKeys - 1 + Cardinality(Calls)`; the pending proposals of a subject and the
calls past their check for it are at most `Cardinality(Calls)`.

### Defects

    DefectInv == DefectTypes /\ References /\ Computing /\ CleanIsCovered

`CleanIsCovered`: the count of clean builds never runs ahead of the builds a
defect was absent from, but for one where a link may fail; in a computation,
between the upsert and the count, a defect of the build has none. AutoFixedWasClean
follows, since a defect is closed at the threshold. `ReturnInv` is for
FixesAreTold: the builds that are left are the newest, and, until a backfill has
run, the build computed is the newest and a defect that comes back (`ComesBack`)
has no occurrence in the build before. `Told` has the two assumptions that need: builds are
deleted oldest first, and a threshold that one failed link cannot reach (the code
has 3). Where a newer build is deleted first, the build that shows the regression
has no predecessor to be compared with.

### Results

    ResultsInv == /\ FilesOK
                  /\ at # "uploaded" => Listed
                  /\ at \in {"uploaded", "published"} => DOMAIN rows = {}
                  /\ \A k \in DOMAIN rows : HasFields(rows[k])
                  /\ at = "stored" => EntriesOK
                  /\ at = "done" => BothOK

`Listed` is what is known of the generator's report: an entry for every test, with
one of the ids the generator gives, of an attempt no file of the test ended after.
`EntriesOK`: when the entries are stored a row has the key that the file of its
test will be written to, because `AdoptedId` took the raw id wherever names leave
no doubt; so enrichment meets the row of the entry instead of adding one
(`BothOK`). The last of the attempts that ended last exists by an induction over
positions, for which the least number of a set is enough. The clean-up spares one
row of every name since of two rows at most one is the poorer.

### Diagnosis

    DiagnosisInv == /\ TestedOK
                    /\ req.at \in {"tests", "count"} => Gathered
                    /\ req.at = "answered" =>
                         WholeUnlessTruncated /\ (HistoryRead => HistoryIsSupport)

and the labels. `Gathered`: the tests examined and those to be examined fail in
the build and are apart, by history id and, where no name stands for two failures,
by name; and each test examined is `TestOK`: its last passing build and its gap are
those of the tables, and one that is said to have passed at most a run ago, in the
newest build, has failed at most once since. `TestOK` stays true when builds come
(`IngestStands`), which is what makes one statement after the other harmless.
Truncation is then a matter of counting: the examined names are as many as the
tests, so there are fewer of them than failing names exactly when one is missing.
That the listing is collapsed to tests that are apart needs `Turns`: the places of
the rows that stay are the numbers from one. `HistoryRead` (the history statement
does not fail, and reaches three builds back; the code asks for 20) is needed: a
test without history is taken for one that passed a run ago, as
RegressionPassedBefore shows (section 6).

### Runs

    TablesOK == what is written of a build and what is still to be written of it
                make up its description, and an older build of a suite is described

with `ToolOK` for diagnose_pipeline and `PageOK` for the page. `ToolOK`: of the
builds that were described when the tags were read, all failing rows are tagged, or
a warning is given; a described build gets no more rows, so this outlives the
listing. `PageOK`: a run said to have no new failure has none that is truly new.
The baseline of a run is an older build of its suite, and its rows are what that
build sent. `Solid`: where the statement that stores a branch, the rows or the run
fails, the tables do not say what was sent, and the baseline is another one.

### Webhooks and failure summaries

    DeliveryInv == DeliveryTypes /\ UsedOnce /\ AcceptedEnds

`AcceptedEnds`: an attempt whose notification was accepted is the current one and
about to complete, or its worker died; so a second acceptance needs a death.
`UsedOnce`: a slot that has been used is not chosen again, because the listing of
a completed job is over and that of a failure passes over whoever has been found.

    SummaryInv == SummaryTypes /\ Led /\ NotAnswered

`Led`: a flight is led by a request of its replica that waits for it.
`NotAnswered`: the row does not answer a call that is about to be made, unless the
client of its leader left before the row was read again. Two replicas' flights do
not know of each other, and a row that cannot be read answers nothing:
`OneReader` excludes both.

### ActiveCache

`Inv` is `TypeOK /\ AnswersAreRecent /\ EntriesExpire /\ AccessIsRecent /\
CleanMeansInactive /\ InvalidatedRefuses`. Times are ages: a lookup that found the
user active began before the deactivation and is no older than its time limit;
an entry it leaves expires within that limit and a lifetime of the deactivation;
so does the access of a request that finds the entry. A process that has dropped
its entries after the deactivation, with no old answer on its way, lets nobody
through.

### Staging, Batches and LoginLimits

`Safety_proofs` proves three parts of `MCSafety`, each from an invariant that only
its own steps can disturb.

    StagingInv == StagedTypes /\ IndexWritten /\ CopyUnderWay /\ FlagMeansReport

`IndexWritten`: a numbered upload that has written its index has put one there,
which is what marking the build at the end relies on. `CopyUnderWay` follows a
copy: what is still to be copied is staged, since only the work that holds the
lock empties staging; what has been copied is in the directory of the build; so a
build has an index and all that was listed when it gets its flag, and when staging
is emptied. Files and flags change apart, so most steps need only that files grow
and that no build gets a flag (`ReportsGrow`, `FlagsStay`).

    BatchesInv == BatchTypes /\ OwnBatch /\ WrittenThere /\ NothingSkipped /\ ResultsKept

`OwnBatch`: a generation reads the batch of its own job, which was queued when the
upload had ended, so nothing is written to a batch that is read or removed.
`NothingSkipped` follows a generation: from the download on an object store, and
from the allure command on the local storage, it has read what is in no build yet;
before it removes the batch, a build has all of it. The watcher is off, as in the
run: with it the property is false (section 6).

    LimitsInv == TypeOK /\ \A u : Bounded(u) /\ SameEntry(u) /\ SameBucket

`Bounded`: failures counted in the window that is open, with the requests on their
way, are at most `Threshold - 1 + Cardinality(Attempts)`. That needs a lock that
outlasts the window of the failures it was set for, `LockTime > Window`: `main.go`
has 15 minutes for both, and a lock starts with the failure that reaches the
threshold, after the one that opened the window. In the model's whole units of
time that is one more. `SameEntry` and `SameBucket` compare with what would be
there without the clean-up: the same, or what every request takes for nothing.

### What stays with TLC

- Liveness (WaiterEnds, JobEnds, EveryoneAnswered, NoticesEnd, BatchesDrain) needs
  fairness and ENABLED, which the prover does not handle.
- What a recursive definition, a fold or a sort computes needs induction over
  data, and the library's induction theorems cannot be instantiated with the
  installed provers. `Results`, `Diagnosis` and `Pipelines` are therefore written
  with sets of positions and least elements, of which the existence is proved from
  the well-foundedness of the numbers; the sort of a test's attempts (`Attempts` of
  `Results`) stays a sort, which no theorem speaks about.
- What the hypotheses of the table exclude: `build_session` and `build_unlocked`
  check OwnRow, LatestPerBranch and PruneSparesSurvivors with lost sessions and
  unlocked deletions, on their instances.
- On S3, other keys than those of `MCProjects`.

## 6. What the checks found

`build_survivors` is a run with `expect` `violation`: the sweep deletes the newest
row and commits, a waiting generation is given the same number, and the sweep then
removes the directory of the new build. The comment at `store/pg/build.go:756-757`
says "storage pruning can never run for surviving builds".

The definitions below state what the repository says of the program, and TLC
refutes each under a configuration that is not a run. A configuration lists
several of them: check one at a time, with the constants its comment names
(`tlc -config <file> <module>`). A counterexample is an execution of the model,
and says what to look at in the code.

| Configuration | Property | The code's behaviour | What the repository says |
|---|---|---|---|
| `BuildLifecycle_gaps` | DefaultNeverDeleted | a branch promoted while it is being deleted is deleted | "Delete deletes a non-default branch by ID" (`branch.go:166`) |
| | NoPhantomBuild | a failed publication leaves files, and SyncMetadata makes a build of them | "so a crashed/failed job leaves no phantom build" (`allure.go:518`) |
| | LatestNeverPruned | the sweep counts the row a generation has reserved, and deletes the only published build | "never deleted by either strategy" (`docs/features.md:594`) |
| | LatestIsNewest | deleting the latest build leaves none, or an older one, as the latest | `build.go:299-301` |
| `StagedUpload_gaps` | FailedKeepsArchive | the pod dies between the deletion of the archive and the record of completion | "staging blob retained for inspection" (`docs/async-uploads.md:64`) |
| | PhaseWhileRunning | an attempt whose context has ended cannot write its phase | `runner/job.go:29` |
| | RetainedForRetries | the clean-up deletes the archive of a job waiting for its next attempt | `docs/async-uploads.md:198` |
| | AcceptedIsQueued | the insert of the job fails and the client is told 202 | `result_upload_handler.go:450-452` |
| | OnlyTerminalDeleted | a retry falls between the check and the deletion | `river_jobmanager.go:1085-1087` |
| `StagedUpload_delivery` | DeliveredOnce | two jobs notify after both generated: one build twice, the other never | `docs/features.md:572` |
| `Sessions_gaps` | AnyTabsKeepSession | without Web Locks a second tab sends its refresh before it has the answer of the first, and is read after the window | "absorbs benign multi-tab races" (Refresh) |
| | OldPasswordEnds | a login checked before a reset makes its family after it | "invalidate every active refresh-token family" (ResetUserPassword) |
| | OnlyActiveRotate | a refresh that read its family before the logout rotates it | `auth.go:525-526` |
| `LoginLimits_lock` | LockHolds | a failure after the window drops the lock of the old entry | `docs/security.md:85` |
| `Projects_gaps` | ExistsMeansTaken | a unique violation of the storage key, as of the "0" of another child, is reported too | `project.go:45-46` |
| | NamesNotNumeric | the watcher registers the directory of a child whose row is gone as a project named by its number | `0034_storage_key.sql:10-11` |
| | OwnDataOnly | a directory renamed before its row is registered by the watcher, or left behind and taken over by a project of the same slug | `0034_storage_key.sql` |
| | OneLevel | two requests, each checked before the other is written | `docs/features.md:229` |
| | PrefixGone | keys that S3 refused to delete are not reported | `s3_helpers.go:20` |
| | InterruptedMoveResumes | a move that stopped while it deleted is not taken up again | `migrate.go:17-18` |
| | WrittenMeanwhileKept | what is uploaded while a rename copies is deleted with the old prefix | - |
| | DeletedServesNothing | a deleted build's address serves the latest report's assets | `docs/storage.md:27` |
| | SweptHadNoRow | a failed publication's number is listed, reserved again, and deleted | "deletes directories whose build no longer exists" (`gcstorage`) |
| `Records_gaps` | MutedStays | the only build a muted defect is linked to is pruned before the next one is written: the defect goes with it and is made again, open | `docs/defects.md:26` |
| | FixedAfterThreshold | the link of a failing build fails, and the build is counted as clean | "clean for 3 consecutive builds" |
| | FailingNotFixed | a computation stops after its first statement, and a defect that failed stays fixed | `docs/defects.md:56` |
| | CascadeDeletesKeys | the deletion of the keys fails, which is only logged | `docs/security.md:64-65` |
| | ReviewsAccepted | an administrator of the configuration file has no row to refer to | `docs/audit-log.md:55` |
| | TruncationTold | two failures of one name are examined twice and counted once | `diagnose.go:214` |
| | SummaryAgrees | the step by which clusters are compared is left out of a summary | `diagnose.go:62`, `:232` |
| | PrecedingPassed | the history of an older build begins with later ones | `diagnose_verdict.go:347` |
| | InfraOnSameCode | only the first member with a commit is looked at | `diagnose_verdict.go:207` |
| | RegressionPassedBefore | a test without history has a short one | `diagnose_verdict.go:276` |
| | SameAttempt | of attempts that end together the two sides take different ones | `test_result.go:652-654` |
| | SplitsKept | the clean-up removes rows of tests that share their name | `allure.go:268-278` |
| | EveryTestKept | a test with nothing but a status is taken for a twin's shell | `test_result.go:984-985` |
| `Pipelines_gaps` | MergedSuiteFails | a shard whose counts could not be stored does not fail its suite | "one failing shard is enough" (`pipeline_handler.go`) |
| | AwaitedHasNotUploaded | filtered by a branch, suites that uploaded under another are awaited | "the suites that have not uploaded yet" (`docs/features.md`) |
| | TaggedOrWarned | rows a build gets after it joined the run are listed without tags | `mcp/tools/pipeline.go:96-101` |
| | EachTestPlaced | of two tests of one name, one of them new, none is called new | canSayNoneNew (`rowFormat.ts`) |
| `Webhooks_gaps` | AttemptsLogged | an attempt whose URL is refused or whose template does not render leaves no entry | delivery log, `docs/webhooks.md` |
| | LimitKept | two requests count before either inserts | the limit of CreateWebhook |
| | DoneMeansDelivered | a failure to read the webhook completes the delivery as if it had been deleted | `webhook_worker.go:49` |
| | InactiveSilent | a delivery does not look whether its webhook is active | `docs/webhooks.md:82` |
| | PartialUpdate | two updates of different fields, and one is lost | UpdateWebhook |
| `FailureSummary_gaps` | OwnContent | a request that joins a flight gets the summary of its leader's evidence | "keyed on the failure's content" |
| | SummarizedOnce | two replicas each call the model | `docs/configuration.md:420` |
| `Staging_gaps` | SelfContained | a report is copied, or written over, while its upload is under way | `docs/storage.md:27` |
| | OwnResults | an upload that names the number of a running ingestion makes its build a report's | `handlers/playwright.go:246` |
| | PairedWithStaged | a report is paired with what a deleted build left | `allure.go:994-995` |
| `Batches_gaps` | WatcherFindsResults | a generation of everything that failed left a directory with nothing but a history, and the watcher makes a build of it | `docs/features.md:733` |
| | DrainMeanwhile | an upload that is removed before the listing leaves the hash as it was | `watcher.go:126-127` |
| | JobReportsWhole, ResultsKept, BuiltOnce | the watcher generates from a batch that is being uploaded and removes it, as the upload's own job does later | `docs/features.md:733` |
| | PendingListed | files are counted, and batches are directories | `admin.go:76-77` |

Without a model: `docs/features.md:584` says that the test action of a webhook
queues a delivery, `docs/webhooks.md:86` that it sends nothing, which is what the
code does.

## 7. What is not modelled

`PROJECT.json` gives each component's remainder. In short: the in-process job
manager, which only tests construct; read models other than the page of runs and
the histories triage reads; access tokens and their blacklist; Playwright jobs'
progress, the digest's contents, River's own cleaner, shutdown, the assembly of a
job's status; the decoding of uploaded files, the text of fingerprints, templates
and prompts; the serving of reports beyond the overlay; the CSRF check; roles,
preferences and audit rows, which are single statements; the web interface beyond
the refresh of a session; deployment. Generated code (swagger) and configuration
keep no state that interleaves.

A behaviour that needs two components at once is not seen where the components
are parts of one run (section 2), for instance a project renamed while one of its
generations publishes. `ObjectStore` has that case for one project's objects.
