--------------------------- MODULE BuildLifecycle ---------------------------
(***************************************************************************)
(* The life of the builds of ONE project: the rows of the builds and       *)
(* branches tables, the numbered report directories in storage, and every  *)
(* process that writes them.                                               *)
(*                                                                         *)
(*   Gens    report generations (runner/allure.go, runner/playwright.go):  *)
(*           each is one attempt, serialised by the project's advisory     *)
(*           lock; a River retry is another member of Gens.                *)
(*   Sweep   the daily retention sweep (cmd/api/main.go), unlocked.        *)
(*   Admin   DeleteReport and CleanHistory requests, unlocked.             *)
(*   Syncer  SyncMetadata at the start of a replica, unlocked.             *)
(*                                                                         *)
(* A step is one database statement or transaction, or one storage call;   *)
(* each may fail where the code handles the failure.                       *)
(***************************************************************************)
EXTENDS Naturals, FiniteSets

CONSTANTS
  Gens,           \* generation attempts
  Branches,       \* CI branch names; a branches row is identified by its name
  NoBranch,       \* the NULL branch_id / the empty ci_branch
  NoGen,          \* owner of the free lock
  Import,         \* origin of a row SyncMetadata inserted
  Sweep, Admin, Syncer,
  MaxBuild,       \* bound on build numbers
  Keep,           \* KEEP_HISTORY_LATEST; 0 turns count pruning off
  KeepHistory,    \* KEEP_HISTORY
  MaxAge,         \* KEEP_HISTORY_MAX_AGE_DAYS > 0
  Watching,       \* CHECK_RESULTS_EVERY_SECONDS is not NONE
  ObjectStore,    \* STORAGE_TYPE = s3: deleting an absent report succeeds
  Jobs,           \* what generations are asked for: a kind and a CI branch
  Unlocked,       \* which of the unlocked processes run
  SessionLoss,    \* whether a lock holder's database session may be lost
  Crashes,        \* whether processes may crash
  Faults          \* whether writes whose failure is only logged may fail

Numbers == 1..MaxBuild
Procs == Gens \cup {Sweep, Admin, Syncer}
Pruners == Gens \cup {Sweep}
AllKinds == {"allure", "record", "playwright"}
AllUnlocked == {"sweep", "delete", "clean", "sync", "promote", "drop"}

ASSUME ConstantsAssumption ==
  /\ MaxBuild \in Nat
  /\ Keep \in Nat
  /\ {KeepHistory, MaxAge, Watching, ObjectStore, SessionLoss, Crashes,
      Faults} \subseteq BOOLEAN
  /\ Jobs \subseteq [kind : AllKinds, ci : Branches \cup {NoBranch}]
  /\ Unlocked \subseteq AllUnlocked
  /\ NoBranch \notin Branches
  /\ NoGen \notin Gens
  /\ Import \notin Gens
  /\ Sweep \notin Gens /\ Admin \notin Gens /\ Syncer \notin Gens
  /\ Sweep # Admin /\ Sweep # Syncer /\ Admin # Syncer

VARIABLES
  lock,      \* holder of the project's advisory lock
  builds,    \* rows of the builds table
  dirs,      \* reports/<n>: the generations whose files it holds
  branches,  \* rows of the branches table
  dflt,      \* the branch whose row has is_default
  pc,        \* where each process is
  job,       \* what a generation was asked for
  bid,       \* the branch id a generation resolved
  num,       \* the build number a process works on, 0 before it has one
  todo,      \* build numbers a pruner or the importer has selected
  names,     \* branch names a process has selected for deletion
  committed, \* a generation's flag that keeps its reserved row
  err        \* whether a generation is returning an error

store == <<builds, dirs, branches, dflt>>
local == <<job, bid, num, todo, names, committed, err>>
vars == <<lock, builds, dirs, branches, dflt, pc,
          job, bid, num, todo, names, committed, err>>

Row == [order : Numbers, gen : Gens \cup {Import},
        branch : Branches \cup {NoBranch}, ci : Branches \cup {NoBranch},
        latest : BOOLEAN, old : BOOLEAN]

NewRowAtMax(n, g) == [order |-> n - 1, gen |-> g, branch |-> NoBranch,
                      ci |-> NoBranch, latest |-> FALSE, old |-> FALSE]
NewRow(n, g) == [order |-> n, gen |-> g, branch |-> NoBranch, ci |-> NoBranch,
                 latest |-> FALSE, old |-> FALSE]

Orders(rows) == {r.order : r \in rows}

\* What a statement with WHERE build_order = n reads or writes.
RowsAt(n) == {r \in builds : r.order = n}

\* DELETE FROM builds WHERE build_order = ANY(S).
DeleteOrders(S) == {r \in builds : r.order \notin S}

GenPc == {"idle", "waiting", "reserve", "insert", "generate", "resolve",
          "publish", "fill", "latest", "rollback", "release",
          "done", "failed", "crashed"}
PrunePc == {"count_sel", "count_del", "count_dirs", "age_sel", "age_del",
            "age_dirs", "stale_sel", "stale_tx", "stale_dirs", "orphans"}
AdminPc == {"idle", "del_row", "del_again", "clean_rows", "regen",
            "drop_row"}
SyncPc == {"idle", "existing", "insert"}

\* A generation between AcquireLock and its deferred unlock.
Terminal == {"done", "failed", "crashed"}
InSection(g) == pc[g] \notin ({"idle", "waiting"} \cup Terminal)

\* A generation that has inserted its row and has not given it up.
HasNumber(g) == InSection(g) /\ pc[g] \notin {"reserve", "insert", "release"}

Goto(p, l) == pc' = [pc EXCEPT ![p] = l]

\* A job that is not running, and a generation's variables before it is called.
NoJob == [kind |-> "allure", ci |-> NoBranch]

\* The call returns or its process dies: its local variables are gone.
Forget(g) ==
  /\ job' = [job EXCEPT ![g] = NoJob]
  /\ bid' = [bid EXCEPT ![g] = NoBranch]
  /\ num' = [num EXCEPT ![g] = 0]
  /\ todo' = [todo EXCEPT ![g] = {}]
  /\ names' = [names EXCEPT ![g] = {}]
  /\ committed' = [committed EXCEPT ![g] = FALSE]
  /\ err' = [err EXCEPT ![g] = FALSE]

\* The tables a write may leave when its failure is only logged.
MayFail(before, after) == IF Faults THEN {before, after} ELSE {after}

-----------------------------------------------------------------------------
Init ==
  /\ lock = NoGen
  /\ builds = {}
  /\ dirs = [n \in Numbers |-> {}]
  /\ branches = {}
  /\ dflt = NoBranch
  /\ pc = [p \in Procs |-> "idle"]
  /\ job = [g \in Gens |-> NoJob]
  /\ bid = [g \in Gens |-> NoBranch]
  /\ num = [p \in Gens \cup {Admin} |-> 0]
  /\ todo = [p \in Pruners \cup {Syncer} |-> {}]
  /\ names = [p \in Pruners \cup {Admin} |-> {}]
  /\ committed = [g \in Gens |-> FALSE]
  /\ err = [g \in Gens |-> FALSE]

-----------------------------------------------------------------------------
(* The advisory lock (store/pg/lock.go).                                   *)

\* A job reaches GenerateReport, GenerateReportFromLocalDir or IngestReport.
Start(g, j) ==
  /\ pc[g] = "idle"
  /\ job' = [job EXCEPT ![g] = j]
  /\ Goto(g, "waiting")
  /\ UNCHANGED <<lock, store, bid, num, todo, names, committed, err>>

\* What pg_try_advisory_lock answers.
TryLock == lock = NoGen

AcquireLockUnchecked(g) ==
  /\ pc[g] = "waiting"
  /\ lock' = g
  /\ Goto(g, "reserve")
  /\ UNCHANGED <<store, local>>

AcquireLock(g) ==
  /\ pc[g] = "waiting"
  /\ TryLock
  /\ lock' = g
  /\ Goto(g, "reserve")
  /\ UNCHANGED <<store, local>>

\* The job's context ends while it polls for the lock.
AcquireCancelled(g) ==
  /\ pc[g] = "waiting"
  /\ Goto(g, "failed")
  /\ Forget(g)
  /\ UNCHANGED <<lock, store>>

\* The lock after the deferred unlock.
FreedOnSuccess(g) == IF lock = g /\ ~err[g] THEN NoGen ELSE lock
Freed(g) == IF lock = g THEN NoGen ELSE lock

\* The deferred unlock, which runs after the deferred rollback.
Unlock(g) ==
  /\ pc[g] = "release"
  /\ lock' = Freed(g)
  /\ Goto(g, IF err[g] THEN "failed" ELSE "done")
  /\ Forget(g)
  /\ UNCHANGED store

\* PostgreSQL ends the session that holds the lock; the generation goes on.
LoseSession(g) ==
  /\ SessionLoss
  /\ lock = g
  /\ lock' = NoGen
  /\ UNCHANGED <<store, pc, local>>

-----------------------------------------------------------------------------
(* ReserveBuild (store/pg/build.go): INSERT ... SELECT MAX(build_order)+1. *)
(* Under READ COMMITTED the maximum is read from a snapshot, and the       *)
(* unique constraint on (project_id, build_order) decides at the insert.   *)

IsNextOrder(n) ==
  /\ \A r \in builds : r.order < n
  /\ n = 1 \/ n - 1 \in Orders(builds)

ReserveSelect(g) ==
  /\ pc[g] = "reserve"
  /\ \E n \in Numbers : /\ IsNextOrder(n)
                        /\ num' = [num EXCEPT ![g] = n]
  /\ Goto(g, "insert")
  /\ UNCHANGED <<lock, store, job, bid, todo, names, committed, err>>

\* The unique constraint lets the insert through.
Unconstrained(n) == TRUE
OrderIsFree(n) == n \notin Orders(builds)

ReserveInsert(g) ==
  /\ pc[g] = "insert"
  /\ OrderIsFree(num[g])
  /\ builds' = builds \cup {NewRow(num[g], g)}
  /\ Goto(g, "generate")
  /\ UNCHANGED <<lock, dirs, branches, dflt, local>>

\* SQLSTATE 23505: another transaction took the number; compute it again.
ReserveConflict(g) ==
  /\ pc[g] = "insert"
  /\ ~OrderIsFree(num[g])
  /\ Goto(g, "reserve")
  /\ UNCHANGED <<lock, store, local>>

\* Any other database error, or the end of the attempts: no row was written.
ReserveFails(g) ==
  /\ pc[g] \in {"reserve", "insert"}
  /\ err' = [err EXCEPT ![g] = TRUE]
  /\ Goto(g, "release")
  /\ UNCHANGED <<lock, store, job, bid, num, todo, names, committed>>

-----------------------------------------------------------------------------
(* Generation proper: PrepareLocal, the allure command, PublishReport, the *)
(* row's metadata, SetLatestBranch.                                        *)

Fail(g) == /\ err' = [err EXCEPT ![g] = TRUE]
           /\ Goto(g, "rollback")

AfterGenerate(g) ==
  CASE job[g].kind = "playwright" -> "publish"
    [] OTHER                      -> "resolve"

\* PrepareLocal or history download, executor.json, config, allure generate;
\* for Playwright, reading and parsing the staged report.
Generate(g) ==
  /\ pc[g] = "generate"
  /\ \/ Goto(g, AfterGenerate(g)) /\ UNCHANGED err
     \/ Fail(g)
  /\ UNCHANGED <<lock, store, job, bid, num, todo, names, committed>>

AfterResolve(g) ==
  CASE job[g].kind = "playwright" -> "fill"
    [] ~KeepHistory               -> "rollback"
    [] job[g].kind = "record"     -> "latest"
    [] OTHER                      -> "publish"

\* BranchStore.GetOrCreate: the project's first branch becomes its default.
\* A failure only leaves the build without a branch.
ResolveBranch(g) ==
  /\ pc[g] = "resolve"
  /\ LET b == job[g].ci IN
     \/ /\ b # NoBranch
        /\ bid' = [bid EXCEPT ![g] = b]
        /\ dflt' = IF branches = {} THEN b ELSE dflt
        /\ branches' = branches \cup {b}
     \/ /\ b = NoBranch \/ Faults
        /\ UNCHANGED <<bid, dflt, branches>>
  /\ Goto(g, AfterResolve(g))
  /\ UNCHANGED <<lock, builds, dirs, job, num, todo, names, committed, err>>

AfterPublish(g) == IF job[g].kind = "playwright" THEN "resolve" ELSE "fill"

\* PublishReport copies the generated files over reports/<n> without clearing
\* it first; a failure may leave some of them there.  Playwright reports go to
\* playwright-reports/<n>, a tree no other process of this module touches.
PublishReport(g) ==
  /\ pc[g] = "publish"
  /\ dirs' = IF job[g].kind = "playwright" THEN dirs
             ELSE [dirs EXCEPT ![num[g]] = @ \cup {g}]
  /\ \/ Goto(g, AfterPublish(g)) /\ UNCHANGED err
     \/ Fail(g)
  /\ UNCHANGED <<lock, builds, branches, dflt, job, bid, num, todo, names,
                 committed>>

PublishFailsEarly(g) ==
  /\ pc[g] = "publish"
  /\ Fail(g)
  /\ UNCHANGED <<lock, store, job, bid, num, todo, names, committed>>

\* The foreign key refuses UpdateBuildBranchID when the branch row is gone.
WithBranch(rows, b) ==
  IF b \in branches THEN {[r EXCEPT !.branch = b] : r \in rows} ELSE rows

WithCI(rows, c) == {[r EXCEPT !.ci = c] : r \in rows}

\* UpdateBuildBranchID and UpdateBuildCIMetadata; either may fail, which is
\* only logged.
FillBuild(g) ==
  /\ pc[g] = "fill"
  /\ \E rows \in MayFail(RowsAt(num[g]), WithBranch(RowsAt(num[g]), bid[g])) :
     \E filled \in MayFail(rows, WithCI(rows, job[g].ci)) :
       builds' = DeleteOrders({num[g]}) \cup filled
  /\ Goto(g, "latest")
  /\ UNCHANGED <<lock, dirs, branches, dflt, local>>

\* The rows whose is_latest flag SetLatestBranch clears before it sets one.
NothingCleared(r, b) == FALSE
LatestCleared(r, b) == r.branch = b \/ b = NoBranch

SetLatestRows(n, b) ==
  {[r EXCEPT !.latest = \/ r.order = n
                        \/ r.latest /\ ~LatestCleared(r, b)] : r \in builds}

\* recordBuild always calls SetLatestBranch with a nil branch.
LatestScope(g) == IF job[g].kind = "record" THEN NoBranch ELSE bid[g]

\* SetLatestBranch, one transaction whose failure is only logged; the build is
\* now kept whatever happens to it later.
SetLatest(g) ==
  /\ pc[g] = "latest"
  /\ builds' \in MayFail(builds, SetLatestRows(num[g], LatestScope(g)))
  /\ committed' = [committed EXCEPT ![g] = TRUE]
  /\ Goto(g, IF KeepHistory THEN "count_sel" ELSE "rollback")
  /\ UNCHANGED <<lock, dirs, branches, dflt, job, bid, num, todo, names, err>>

\* Which rows the deferred DeleteBuild names.
RolledBackAlways(g) == {num[g]}
RolledBackOnError(g) == IF err[g] THEN {num[g]} ELSE {}
RolledBack(g) == IF committed[g] THEN {} ELSE {num[g]}

\* The deferred rollback, at every exit; its own failure is ignored.
Rollback(g) ==
  /\ pc[g] = "rollback"
  /\ builds' \in MayFail(builds, DeleteOrders(RolledBack(g)))
  /\ Goto(g, "release")
  /\ UNCHANGED <<lock, dirs, branches, dflt, local>>

-----------------------------------------------------------------------------
(* Retention: KeepLatestHistory and IngestReport under the lock, and       *)
(* runRetentionSweep without it.                                           *)

SweepStart ==
  /\ "sweep" \in Unlocked
  /\ Keep > 0 \/ MaxAge
  /\ pc[Sweep] = "idle"
  /\ Goto(Sweep, "count_sel")
  /\ UNCHANGED <<lock, store, local>>

\* Only the Allure runner returns a pruning error; the others log it.
ErrorEnds(p) == p \in Gens /\ job[p].kind # "playwright"

\* A pruning step fails: the runner returns, or goes on with another step.
PruneError(p, other) ==
  /\ Faults
  /\ IF ErrorEnds(p)
     THEN Fail(p)
     ELSE UNCHANGED err /\ Goto(p, other)

AfterCount == IF MaxAge THEN "age_sel" ELSE "stale_dirs"

PruneScope(p) == IF p = Sweep THEN NoBranch ELSE bid[p]
ScopeRows(b) == {r \in builds : b = NoBranch \/ r.branch = b}

\* SELECT ... ORDER BY build_order DESC OFFSET keep.
BeyondKeepOldestFirst(rows) ==
  Orders({r \in rows : Cardinality({s \in rows : s.order < r.order}) >= Keep})
BeyondKeep(rows) ==
  Orders({r \in rows : Cardinality({s \in rows : s.order > r.order}) >= Keep})

CountSelect(p) ==
  /\ pc[p] = "count_sel"
  /\ \/ /\ todo' = [todo EXCEPT ![p] =
                      IF Keep = 0 THEN {} ELSE BeyondKeep(ScopeRows(PruneScope(p)))]
        /\ Goto(p, "count_del")
        /\ UNCHANGED err
     \/ PruneError(p, AfterCount) /\ UNCHANGED todo
  /\ UNCHANGED <<lock, store, job, bid, num, names, committed>>

AgeSelect(p) ==
  /\ pc[p] = "age_sel"
  /\ \/ /\ todo' = [todo EXCEPT ![p] =
                      Orders({r \in builds : r.old /\ ~r.latest})]
        /\ Goto(p, "age_del")
        /\ UNCHANGED err
     \/ PruneError(p, "stale_sel") /\ UNCHANGED todo
  /\ UNCHANGED <<lock, store, job, bid, num, names, committed>>

\* DELETE ... WHERE build_order = ANY(selected); nothing is checked again.
PruneDelete(p, here, dirStep, other) ==
  /\ pc[p] = here
  /\ \/ /\ builds' = DeleteOrders(todo[p])
        /\ Goto(p, dirStep)
        /\ UNCHANGED <<err, todo>>
     \/ /\ PruneError(p, other)
        /\ todo' = [todo EXCEPT ![p] = {}]
        /\ UNCHANGED builds
  /\ UNCHANGED <<lock, dirs, branches, dflt, job, bid, num, names, committed>>

\* PruneReportDirs removes the directories one by one and stops at an error.
PruneReportDirs(p, here, next, other) ==
  /\ pc[p] = here
  /\ \E gone \in SUBSET todo[p] :
       /\ dirs' = [n \in Numbers |-> IF n \in gone THEN {} ELSE dirs[n]]
       /\ IF gone = todo[p] THEN Goto(p, next) /\ UNCHANGED err
                            ELSE PruneError(p, other)
  /\ todo' = [todo EXCEPT ![p] = {}]
  /\ UNCHANGED <<lock, builds, branches, dflt, job, bid, num, names, committed>>

CountDelete(p) == PruneDelete(p, "count_del", "count_dirs", AfterCount)
CountDirs(p) == PruneReportDirs(p, "count_dirs", AfterCount, AfterCount)
AgeDelete(p) == PruneDelete(p, "age_del", "age_dirs", "stale_sel")
AgeDirs(p) == PruneReportDirs(p, "age_dirs", "stale_sel", "stale_sel")

\* Non-default branch names whose newest build is older than the cutoff.
StaleNames ==
  {b \in Branches : /\ b # dflt
                    /\ \E r \in builds : r.ci = b
                    /\ \A r \in builds : r.ci = b => r.old}

\* PruneStaleBranches: the names are read outside any transaction.
StaleSelect(p) ==
  /\ pc[p] = "stale_sel"
  /\ names' = [names EXCEPT ![p] = StaleNames]
  /\ Goto(p, "stale_tx")
  /\ UNCHANGED <<lock, store, job, bid, num, todo, committed, err>>

\* The rows pruneStaleBranch deletes; age and default are checked again.
StaleRowsUnchecked(b) == {r \in builds : r.ci = b}
StaleRows(b) == {r \in builds : r.ci = b /\ r.old /\ b # dflt}

\* Deleting a branches row sets branch_id to NULL on the builds it had.
DropBranch(b, rows) ==
  {[r EXCEPT !.branch = IF @ = b THEN NoBranch ELSE @] : r \in rows}

\* One transaction per stale name; a failure skips the name.
StaleTx(p) ==
  /\ pc[p] = "stale_tx"
  /\ \E b \in names[p] :
       /\ names' = [names EXCEPT ![p] = @ \ {b}]
       /\ LET rest == builds \ StaleRows(b)
              drop == b # dflt /\ \A r \in rest : r.ci # b IN
          \/ /\ builds' = IF drop THEN DropBranch(b, rest) ELSE rest
             /\ branches' = IF drop THEN branches \ {b} ELSE branches
             /\ todo' = [todo EXCEPT ![p] = @ \cup Orders(StaleRows(b))]
          \/ Faults /\ UNCHANGED <<builds, branches, todo>>
  /\ UNCHANGED <<lock, dirs, dflt, pc, job, bid, num, committed, err>>

StaleDone(p) ==
  /\ pc[p] = "stale_tx"
  /\ names[p] = {}
  /\ Goto(p, "stale_dirs")
  /\ UNCHANGED <<lock, store, local>>

\* Storage of the deleted stale builds; a failure is logged.
StaleDirs(p) ==
  /\ pc[p] = "stale_dirs"
  /\ \E gone \in IF Faults THEN SUBSET todo[p] ELSE {todo[p]} :
       dirs' = [n \in Numbers |-> IF n \in gone THEN {} ELSE dirs[n]]
  /\ todo' = [todo EXCEPT ![p] = {}]
  /\ Goto(p, IF p = Sweep THEN "orphans" ELSE "rollback")
  /\ UNCHANGED <<lock, builds, branches, dflt, job, bid, num, names, committed,
                 err>>

\* The branches rows no build refers to by name.  The one-hour guard spares
\* the branch of a generation in progress.
Orphans ==
  {b \in branches \ {dflt} : /\ \A r \in builds : r.ci # b
                             /\ \A g \in Gens : InSection(g) => bid[g] # b}

DeleteOrphanBranches ==
  /\ pc[Sweep] = "orphans"
  /\ branches' \in MayFail(branches, branches \ Orphans)
  /\ builds' = {[r EXCEPT !.branch = IF @ \in branches \ branches' THEN NoBranch
                                     ELSE @] : r \in builds}
  /\ Goto(Sweep, "idle")
  /\ UNCHANGED <<lock, dirs, dflt, local>>

-----------------------------------------------------------------------------
(* DeleteReport: the handler's storage delete, the runner's DeleteBuild,   *)
(* and the handler's own DeleteBuild of the same number.                   *)

DeleteReport(n) ==
  /\ "delete" \in Unlocked
  /\ pc[Admin] = "idle"
  /\ dirs[n] # {} \/ ObjectStore
  /\ dirs' = [dirs EXCEPT ![n] = {}]
  /\ num' = [num EXCEPT ![Admin] = n]
  /\ Goto(Admin, "del_row")
  /\ UNCHANGED <<lock, builds, branches, dflt, job, bid, todo, names,
                 committed, err>>

DeleteReportRow(here, next) ==
  /\ pc[Admin] = here
  /\ builds' \in MayFail(builds, DeleteOrders({num[Admin]}))
  /\ Goto(Admin, next)
  /\ num' = IF next = "idle" THEN [num EXCEPT ![Admin] = 0] ELSE num
  /\ UNCHANGED <<lock, dirs, branches, dflt, job, bid, todo, names, committed,
                 err>>

DeleteReportRunner == DeleteReportRow("del_row", "del_again")
DeleteReportHandler == DeleteReportRow("del_again", "idle")

\* CleanHistory: storage first, then all rows, then an empty generation.
CleanHistory ==
  /\ "clean" \in Unlocked
  /\ pc[Admin] = "idle"
  /\ dirs' = [n \in Numbers |-> {}]
  /\ Goto(Admin, "clean_rows")
  /\ UNCHANGED <<lock, builds, branches, dflt, local>>

DeleteAllBuilds ==
  /\ pc[Admin] = "clean_rows"
  /\ \/ builds' = {} /\ Goto(Admin, IF Watching THEN "regen" ELSE "idle")
     \/ UNCHANGED builds /\ Goto(Admin, "idle")
  /\ UNCHANGED <<lock, dirs, branches, dflt, local>>

\* GenerateReport with storeResults=false, run by the request itself.
Regenerate(g) ==
  /\ pc[Admin] = "regen"
  /\ pc[g] = "idle"
  /\ pc' = [pc EXCEPT ![Admin] = "idle", ![g] = "waiting"]
  /\ job' = [job EXCEPT ![g] = [kind |-> "record", ci |-> NoBranch]]
  /\ UNCHANGED <<lock, store, bid, num, todo, names, committed, err>>

-----------------------------------------------------------------------------
(* SyncMetadata: list the report directories, subtract the known rows,     *)
(* insert the rest.                                                        *)

SyncList ==
  /\ "sync" \in Unlocked
  /\ pc[Syncer] = "idle"
  /\ todo' = [todo EXCEPT ![Syncer] = {n \in Numbers : dirs[n] # {}}]
  /\ Goto(Syncer, "existing")
  /\ UNCHANGED <<lock, store, job, bid, num, names, committed, err>>

SyncSubtract ==
  /\ pc[Syncer] = "existing"
  /\ todo' = [todo EXCEPT ![Syncer] = @ \ Orders(builds)]
  /\ Goto(Syncer, "insert")
  /\ UNCHANGED <<lock, store, job, bid, num, names, committed, err>>

\* INSERT ... ON CONFLICT (project_id, build_order) DO NOTHING.
SyncInsert ==
  /\ pc[Syncer] = "insert"
  /\ builds' = builds \cup {NewRow(n, Import) :
                              n \in {m \in todo[Syncer] : OrderIsFree(m)}}
  /\ todo' = [todo EXCEPT ![Syncer] = {}]
  /\ Goto(Syncer, "idle")
  /\ UNCHANGED <<lock, dirs, branches, dflt, job, bid, num, names, committed, err>>

-----------------------------------------------------------------------------
(* SetDefault: an administrator makes another branch the default.          *)

SetDefault(b) ==
  /\ "promote" \in Unlocked
  /\ b \in branches \ {dflt}
  /\ dflt' = b
  /\ UNCHANGED <<lock, builds, dirs, branches, pc, local>>

\* BranchStore.Delete reads is_default, then deletes by id without it; the
\* builds of the branch keep their ci_branch and lose their branch_id.
DeleteBranchCheck(b) ==
  /\ "drop" \in Unlocked
  /\ pc[Admin] = "idle"
  /\ b \in branches \ {dflt}
  /\ names' = [names EXCEPT ![Admin] = {b}]
  /\ Goto(Admin, "drop_row")
  /\ UNCHANGED <<lock, store, job, bid, num, todo, committed, err>>

DeleteBranchRow ==
  /\ pc[Admin] = "drop_row"
  /\ \E b \in names[Admin] :
       /\ branches' = branches \ {b}
       /\ dflt' = IF dflt = b THEN NoBranch ELSE dflt
       /\ builds' = DropBranch(b, builds)
  /\ names' = [names EXCEPT ![Admin] = {}]
  /\ Goto(Admin, "idle")
  /\ UNCHANGED <<lock, dirs, job, bid, num, todo, committed, err>>

-----------------------------------------------------------------------------
(* Time and crashes.                                                       *)

\* A build passes the age cutoff, which is days; a generation takes minutes.
GrowOld(n) ==
  /\ MaxAge
  /\ \E r \in RowsAt(n) : ~r.old
  /\ \A g \in Gens : HasNumber(g) => num[g] # n
  /\ builds' = DeleteOrders({n}) \cup {[r EXCEPT !.old = TRUE] : r \in RowsAt(n)}
  /\ UNCHANGED <<lock, dirs, branches, dflt, pc, local>>

\* The pod dies: deferred calls do not run, PostgreSQL drops its sessions.
CrashGen(g) ==
  /\ Crashes
  /\ pc[g] \notin {"idle"} \cup Terminal
  /\ lock' = Freed(g)
  /\ Goto(g, "crashed")
  /\ Forget(g)
  /\ UNCHANGED store

CrashSweep ==
  /\ Crashes
  /\ pc[Sweep] # "idle"
  /\ Goto(Sweep, "idle")
  /\ todo' = [todo EXCEPT ![Sweep] = {}]
  /\ names' = [names EXCEPT ![Sweep] = {}]
  /\ UNCHANGED <<lock, store, job, bid, num, committed, err>>

-----------------------------------------------------------------------------
Prune(p) ==
  \/ CountSelect(p) \/ CountDelete(p) \/ CountDirs(p)
  \/ AgeSelect(p) \/ AgeDelete(p) \/ AgeDirs(p)
  \/ StaleSelect(p) \/ StaleTx(p) \/ StaleDone(p) \/ StaleDirs(p)

Work(g) ==
  \/ AcquireLock(g) \/ Unlock(g)
  \/ ReserveSelect(g) \/ ReserveInsert(g) \/ ReserveConflict(g) \/ ReserveFails(g)
  \/ Generate(g) \/ ResolveBranch(g) \/ PublishReport(g) \/ PublishFailsEarly(g)
  \/ FillBuild(g) \/ SetLatest(g) \/ Rollback(g)
  \/ Prune(g)

UnlockedStep ==
  \/ SweepStart \/ Prune(Sweep) \/ DeleteOrphanBranches
  \/ (\E n \in Numbers : DeleteReport(n))
  \/ DeleteReportRunner \/ DeleteReportHandler
  \/ CleanHistory \/ DeleteAllBuilds \/ (\E g \in Gens : Regenerate(g))
  \/ (\E b \in Branches : SetDefault(b) \/ DeleteBranchCheck(b))
  \/ DeleteBranchRow
  \/ SyncList \/ SyncSubtract \/ SyncInsert

Environment ==
  \/ \E n \in Numbers : GrowOld(n)
  \/ \E g \in Gens : LoseSession(g) \/ CrashGen(g)
  \/ CrashSweep

Next ==
  \/ \E g \in Gens, j \in Jobs : Start(g, j)
  \/ \E g \in Gens : Work(g) \/ AcquireCancelled(g)
  \/ UnlockedStep
  \/ Environment

\* A goroutine that can run runs: its statements have timeouts and the allure
\* command a five minute limit.  Nothing cancels a waiting job for certain.
Spec == Init /\ [][Next]_vars
FairSpec == Spec /\ \A g \in Gens : WF_vars(Work(g))

-----------------------------------------------------------------------------
PcOK ==
  /\ pc \in [Procs -> GenPc \cup PrunePc \cup AdminPc \cup SyncPc]
  /\ \A g \in Gens : pc[g] \in GenPc \cup (PrunePc \ {"orphans"})

TypeOK ==
  /\ lock \in Gens \cup {NoGen}
  /\ builds \subseteq Row
  /\ dirs \in [Numbers -> SUBSET Gens]
  /\ branches \subseteq Branches
  /\ dflt \in Branches \cup {NoBranch}
  /\ PcOK
  /\ job \in [Gens -> [kind : AllKinds, ci : Branches \cup {NoBranch}]]
  /\ bid \in [Gens -> Branches \cup {NoBranch}]
  /\ num \in [Gens \cup {Admin} -> 0..MaxBuild]
  /\ \A g \in Gens : HasNumber(g) \/ pc[g] = "insert" => num[g] \in Numbers
  /\ todo \in [Pruners \cup {Syncer} -> SUBSET Numbers]
  /\ names \in [Pruners \cup {Admin} -> SUBSET Branches]
  /\ committed \in [Gens -> BOOLEAN]
  /\ err \in [Gens -> BOOLEAN]

\* The stale-branch prune deletes no build newer than the cutoff and none of a
\* branch that became the default after its name was selected.
StaleRechecked ==
  [][\A p \in Pruners :
       pc[p] = "stale_tx" /\ names'[p] # names[p] =>
         \A r \in builds : ~r.old \/ r.ci = dflt => r.order \in Orders(builds')]_vars

\* At most one generation of the project is between its AcquireLock and its
\* deferred unlock, whatever crashes: pg_try_advisory_lock on a session of its own.
MutualExclusion ==
  \A g, h \in Gens : InSection(g) /\ InSection(h) => g = h

\* The row a generation updates, marks latest or rolls back under its number is
\* its own reservation or one SyncMetadata imported, never another
\* generation's: the deferred DeleteBuild cannot take a published build away,
\* although numbers are reused after deletes.
OwnRow ==
  \A g \in Gens, r \in builds :
    HasNumber(g) /\ r.order = num[g] => r.gen \in {g, Import}

\* is_latest is set on at most one build of a branch, whatever SetLatestBranch,
\* recordBuild, branch deletion and the unlocked deletions do in between.
LatestPerBranch ==
  \A r, s \in builds :
    r.latest /\ s.latest /\ r.branch = s.branch /\ r.branch # NoBranch
      => r.order = s.order

\* While no unlocked process runs, a generation that has committed keeps its
\* row, and an Allure build its report, through its own retention steps.
PublishedKept ==
  \A g \in Gens :
    InSection(g) /\ committed[g] =>
      /\ \E r \in builds : r.order = num[g] /\ r.gen = g
      /\ job[g].kind = "allure" => g \in dirs[num[g]]

\* The build history as BuildLog sees it.
Entries == {[number |-> r.order, gen |-> r.gen] : r \in builds}

Stage(g) ==
  CASE pc[g] \in Terminal  -> pc[g]
    [] pc[g] = "release"   -> "closing"
    [] HasNumber(g)        -> IF committed[g] THEN "kept" ELSE "writing"
    [] OTHER               -> "open"

Stages == [g \in Gens |-> Stage(g)]

History == INSTANCE BuildLog WITH log <- Entries, state <- Stages

\* Without unlocked processes the generations write the history one after
\* another at its newest end: the deferred DeleteBuild takes only an uncommitted
\* build back, retention begins after the commit and spares the writer's build,
\* and a job succeeds only with its build as the newest.
ImplementsHistory == History!Spec

\* A generation that waits for the lock ends, and gives the lock up.
WaiterEnds ==
  \A g \in Gens : pc[g] = "waiting" ~> pc[g] \in Terminal /\ lock # g

\* The build GetLatestBuild returns: the highest number with is_latest.
IsLatestBuild(r) == r.latest /\ \A s \in builds : s.latest => s.order <= r.order

\* docs/features.md of the count and age strategies: "The latest build per
\* project is never deleted by either strategy."  PruneBuildsBranch and
\* PruneBuildsByAge delete what an earlier SELECT chose.
LatestNeverPruned ==
  [][\A p \in Pruners :
       /\ pc[p] \in {"count_del", "age_del"}
       /\ pc'[p] # pc[p]
       => \A r \in builds : IsLatestBuild(r) => r.order \in Orders(builds')]_vars

\* BranchStore.Delete "Returns ErrCannotDeleteDefaultBranch if the branch is the
\* current default": a project that has a default branch keeps one.
DefaultNeverDeleted ==
  [][dflt # NoBranch => dflt' # NoBranch]_vars

\* PruneStaleBranches returns the numbers it deleted so that "storage pruning can
\* never run for surviving builds": none has a row when PruneReportDirs is called.
PruneSparesSurvivors ==
  \A p \in Pruners : pc[p] = "stale_dirs" => todo[p] \cap Orders(builds) = {}

\* The deferred rollback of GenerateReport is there "so a crashed/failed job
\* leaves no phantom build": between generations, a row with a report has files
\* of a generation that succeeded.
NoPhantomBuild ==
  \A n \in Orders(builds) :
    /\ \A g \in Gens : ~InSection(g)
    /\ dirs[n] # {}
    => \E g \in dirs[n] : pc[g] = "done"

\* "GetLatestBuild returns the project's newest published build", which is the
\* newest row whenever no generation is running.
LatestIsNewest ==
  (\A g \in Gens : ~InSection(g)) =>
    \A r \in builds : (\A s \in builds : s.order <= r.order) => IsLatestBuild(r)

=============================================================================
