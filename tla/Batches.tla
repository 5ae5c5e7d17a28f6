------------------------------ MODULE Batches ------------------------------
(***************************************************************************)
(* Uploads of result files, their jobs, and the watcher: results/B for     *)
(* each batch B of one project, in the local storage or an object store.   *)
(*                                                                         *)
(* An upload writes its files into a directory of its own and queues a job *)
(* with the name of it. The watcher finds directories of the local storage *)
(* by a hash of results/ and generates from them as well. A generation     *)
(* holds the project's lock, reads its directory in place or from a copy,  *)
(* and removes it at the end; uploads and clean-ups take no lock. With     *)
(* KEEP_HISTORY=false its report replaces the latest one and no build is   *)
(* recorded. A step is one listing, one write, removal or download, one    *)
(* run of the allure command, or one statement.                            *)
(*                                                                         *)
(* The hash covers the modification times of directories, which change     *)
(* with their entries: it is told by the directories and how often each    *)
(* was made.                                                               *)
(***************************************************************************)
EXTENDS Naturals, FiniteSets, FiniteSetsExt, Functions

CONSTANTS
    Uploads,      \* uploads, by the name of their batch: a random number
    History,      \* the name "history", which is after all random names
    Manual,       \* a generation that names no batch
    Watcher,
    ResultFiles,  \* the files of an upload
    Storages,     \* "local", "s3"
    Watching,     \* CHECK_RESULTS_EVERY_SECONDS is set
    Keeping,      \* the values KEEP_HISTORY may have
    Sweeping,     \* PENDING_RESULTS_MAX_AGE_DAYS is set
    MaxRequests,  \* bound: uploads and generations that name no batch
    MaxAttempts,  \* attempts of a job
    MaxCleans,    \* bound: requests to clean the results
    Crashes,      \* bound: crashes
    Faults        \* what may fail: "write", "insert", "prepare", "list", "allure", "empty",
                  \* "publish", "prune", "clean"

Assumption ==
    /\ Uploads \subseteq Nat /\ History \in Nat /\ \A u \in Uploads : u < History
    /\ Manual \notin Uploads \cup {History} /\ Watcher \notin Uploads \cup {Manual}
    /\ {MaxRequests, MaxCleans, Crashes} \subseteq Nat
    /\ MaxAttempts \in Nat \ {0} /\ {Watching, Sweeping} \subseteq BOOLEAN
    /\ Keeping \subseteq BOOLEAN
    /\ Storages \subseteq {"local", "s3"}

JobIds     == Uploads \cup {Manual}
Generators == JobIds \cup {Watcher}
Folders    == Uploads \cup {History}
None       == [at |-> "none"]

VARIABLES
    storage,  \* where results are, one of Storages
    keep,     \* KEEP_HISTORY, one of Keeping
    dir,      \* directories in results/, by name: result files and other entries
    top,      \* the executor.json of results/ itself: "none", "new", or "old"
    made,     \* how often each directory was made
    upload,   \* requests: label and files written so far
    job,      \* job rows of River
    run,      \* generations under way: label, batch, files read
    memory,   \* of the watcher: its goroutine, and the hash it remembers
    reports,  \* history: reports made, batch and files; builds where history is kept
    sweep,    \* the daily sweep: "idle", or about to "clean"
    aged,     \* history: uploads begun before the results were last as old as the limit
    wiped,    \* history: uploads whose directory a clean-up removed
    swept,    \* history: those of which the daily sweep did
    cleans, crashed  \* counters of the two bounds

vars == <<storage, keep, dir, top, made, upload, job, run, memory, reports, sweep, aged,
          wiped, swept, cleans, crashed>>

Present == DOMAIN dir
Hash    == [there |-> dir, made |-> [b \in Present |-> made[b]]]
NoHash  == [there |-> None]

(* Types; only one generation is past the lock. *)
TypeOK ==
    /\ Present \subseteq Folders
    /\ \A b \in Present : dir[b].files \subseteq ResultFiles /\ dir[b].own \subseteq {"executor", "history"}
    /\ \A u \in Uploads : /\ upload[u].at \in {"idle", "writing", "sent", "refused"}
                          /\ upload[u].files \subseteq ResultFiles
    /\ \A j \in JobIds : /\ job[j].state \in {"none", "available", "running", "completed", "discarded"}
                       /\ job[j].attempt \in 0 .. MaxAttempts
                       /\ run[j] # None => job[j].state = "running"
    /\ Cardinality({g \in Generators : run[g].at \notin {"none", "wait", "done"}}) <= 1
    /\ top \in {"none", "new", "old"} /\ sweep \in {"idle", "clean"}
    /\ aged \subseteq Uploads /\ swept \subseteq wiped /\ wiped \subseteq Uploads
    /\ \A x \in reports : x.batch \in Folders \cup {Manual} /\ x.files \subseteq ResultFiles

Init ==
    /\ storage \in Storages /\ keep \in Keeping
    /\ dir = <<>> /\ top = "none"
    /\ made = [b \in Folders |-> 0]
    /\ upload = [u \in Uploads |-> [at |-> "idle", files |-> {}]]
    /\ job = [j \in JobIds |-> [state |-> "none", attempt |-> 0]]
    /\ run = [g \in Generators |-> None]
    /\ memory = [at |-> "idle", seen |-> NoHash, hash |-> NoHash]
    /\ reports = {} /\ sweep = "idle" /\ aged = {} /\ wiped = {} /\ swept = {}
    /\ cleans = 0 /\ crashed = 0

sweeping == <<sweep, aged, swept>>
history  == <<storage, keep, reports, sweeping, wiped, cleans, crashed>>

-----------------------------------------------------------------------------
(* Directories. *)

(* A directory with one more entry; it is made if it is not there. *)
Entry(b, files, own) ==
    LET old == IF b \in Present THEN dir[b] ELSE [files |-> {}, own |-> {}] IN
    /\ dir' = [c \in Present \cup {b} |->
                  IF c = b THEN [files |-> old.files \cup files, own |-> old.own \cup own] ELSE dir[c]]
    /\ made' = IF b \in Present THEN made ELSE [made EXCEPT ![b] = @ + 1]

Without(gone) == dir' = [b \in Present \ gone |-> dir[b]]

-----------------------------------------------------------------------------
(* Uploads. *)

Requested == {u \in Uploads : upload[u].at # "idle"} \cup {j \in {Manual} : job[j].state # "none"}
MayRequest == Cardinality(Requested) < MaxRequests

(* SendResults: a batch of its own. *)
Begin(u) ==
    /\ upload[u].at = "idle" /\ MayRequest
    /\ upload' = [upload EXCEPT ![u].at = "writing"]
    /\ UNCHANGED <<dir, top, made, job, run, memory, history>>

(* WriteResultFile; the files of an archive are written side by side. *)
WriteResultFile(u, f) ==
    /\ upload[u].at = "writing" /\ f \notin upload[u].files
    /\ Entry(u, {f}, {})
    /\ upload' = [upload EXCEPT ![u].files = @ \cup {f}]
    /\ UNCHANGED <<top, job, run, memory, history>>

(* A body that cannot be read to its end, or a file that cannot be         *)
(* written: status 400, no job, and what was written stays.                *)
Refuse(u) ==
    /\ upload[u].at = "writing" /\ "write" \in Faults
    /\ upload' = [upload EXCEPT ![u].at = "refused"]
    /\ UNCHANGED <<dir, top, made, job, run, memory, history>>

(* Submit: when the insertion fails, the request is answered all the same. *)
Submit(j) ==
    \/ job' = [job EXCEPT ![j].state = "available"]
    \/ "insert" \in Faults /\ UNCHANGED job

Accept(u) ==
    /\ upload[u].at = "writing" /\ upload[u].files = ResultFiles
    /\ upload' = [upload EXCEPT ![u].at = "sent"]
    /\ Submit(u)
    /\ UNCHANGED <<dir, top, made, run, memory, history>>

(* GenerateReport of the handler: a job that names no batch. *)
GenerateAll ==
    /\ job[Manual].state = "none" /\ MayRequest
    /\ Submit(Manual)
    /\ UNCHANGED <<dir, top, made, upload, run, memory, history>>

Upload == GenerateAll \/ \E u \in Uploads : \/ Begin(u) \/ Refuse(u) \/ Accept(u)
                                            \/ \E f \in ResultFiles : WriteResultFile(u, f)

-----------------------------------------------------------------------------
(* Generations. *)

Reads(g) == run[g].batch

(* A worker takes a job. *)
Take(j) ==
    /\ job[j].state = "available"
    /\ job' = [job EXCEPT ![j] = [state |-> "running", attempt |-> @.attempt + 1]]
    /\ run' = [run EXCEPT ![j] = [at |-> "wait", batch |-> j, read |-> {}]]
    /\ UNCHANGED <<dir, top, made, upload, memory, history>>

Locked == \E g \in Generators : run[g].at \notin {"none", "wait", "done"}

Lock(g) ==
    /\ run[g].at = "wait" /\ ~Locked
    /\ run' = [run EXCEPT ![g].at = "prepare"]
    /\ UNCHANGED <<dir, top, made, upload, job, memory, history>>

Found(b) == IF b \in Present THEN dir[b].files ELSE {}

(* PrepareLocal of an object store: a copy of all results. *)
Download(g) ==
    /\ run[g].at = "prepare" /\ storage = "s3" /\ Reads(g) \in Present \cup {Manual}
    /\ run' = [run EXCEPT ![g].at = "history", ![g].read = Found(Reads(g))]
    /\ UNCHANGED <<dir, top, made, upload, job, memory, history>>

(* executor.json and the configuration, in place or in the copy; the       *)
(* directory is not made.                                                  *)
Prepare(g) ==
    /\ run[g].at = "prepare" /\ storage = "local" /\ Reads(g) \in Present \cup {Manual}
    /\ IF Reads(g) = Manual
       THEN top' = "new" /\ UNCHANGED <<dir, made>>
       ELSE Entry(Reads(g), {}, {"executor"}) /\ UNCHANGED top
    /\ run' = [run EXCEPT ![g].at = "history"]
    /\ UNCHANGED <<upload, job, memory, history>>

(* KeepHistory: a directory "history" beside the results, which is made    *)
(* with all above it; none in an object store without a report, and none   *)
(* where no history is kept: one that is there is removed.                 *)
HistoryCopied(b) ==
    \/ IF b = Manual THEN Entry(History, {}, {}) ELSE Entry(b, {}, {"history"})
    \/ storage = "s3" /\ reports = {} /\ UNCHANGED <<dir, made>>

HistoryRemoved(b) ==
    /\ dir' = [c \in Present \ (IF b = Manual THEN {History} ELSE {}) |->
                  IF c = b THEN [dir[c] EXCEPT !.own = @ \ {"history"}] ELSE dir[c]]
    /\ UNCHANGED made

KeepHistory(g) ==
    /\ run[g].at = "history"
    /\ IF keep THEN HistoryCopied(Reads(g)) ELSE HistoryRemoved(Reads(g))
    /\ run' = [run EXCEPT ![g].at = "allure"]
    /\ UNCHANGED <<top, upload, job, memory, history>>

(* The allure command reads the files it finds, in place or in the copy. *)
RunAllure(g) ==
    /\ run[g].at = "allure"
    /\ run' = [run EXCEPT ![g].at = "publish",
                          ![g].read = IF storage = "local" THEN Found(Reads(g)) ELSE @]
    /\ UNCHANGED <<dir, top, made, upload, job, memory, history>>

(* The report is published and the reserved row becomes a build. Where no  *)
(* history is kept the report is all there is, and the row is rolled back. *)
Publish(g) ==
    /\ run[g].at = "publish"
    /\ reports' = reports \cup {[batch |-> Reads(g), files |-> run[g].read, by |-> g]}
    /\ run' = [run EXCEPT ![g].at = "prune"]
    /\ UNCHANGED <<storage, keep, dir, top, made, upload, job, memory, sweeping, wiped,
                   cleans, crashed>>

(* CleanBatch, after the retention; a failure is logged. The lock goes     *)
(* with the return.                                                        *)
CleanBatch(g) ==
    /\ run[g].at = "prune"
    /\ \/ Without({Reads(g)})
       \/ "clean" \in Faults /\ UNCHANGED dir
    /\ run' = [run EXCEPT ![g].at = "done"]
    /\ UNCHANGED <<top, made, upload, job, memory, history>>

(* River completes the job; the watcher remembers the hash from before. *)
Remember(seen) == memory' = [at |-> "idle", seen |-> seen, hash |-> NoHash]

(* Mutant: the hash is taken again after the generation. *)
ReturnRehashed(g) ==
    /\ run' = [run EXCEPT ![g] = None]
    /\ IF g = Watcher
       THEN Remember(Hash) /\ UNCHANGED job
       ELSE job' = [job EXCEPT ![g].state = "completed"] /\ UNCHANGED memory

Return(g) ==
    /\ run' = [run EXCEPT ![g] = None]
    /\ IF g = Watcher
       THEN Remember(memory.hash) /\ UNCHANGED job
       ELSE job' = [job EXCEPT ![g].state = "completed"] /\ UNCHANGED memory

Done(g) ==
    /\ run[g].at = "done"
    /\ Return(g)
    /\ UNCHANGED <<dir, top, made, upload, history>>

Retried(j) == IF job[j].attempt < MaxAttempts THEN "available" ELSE "discarded"

(* What may stop a generation where it is: the lock, the reservation, the  *)
(* download, a directory that is gone, the allure command, which may also  *)
(* refuse a directory without results, and where history is kept the       *)
(* publication, and the retention after it.                                *)
MayFail(g) ==
    \/ run[g].at \in {"wait", "prepare"} /\ "prepare" \in Faults
    \/ run[g].at = "prepare" /\ Reads(g) \notin Present \cup {Manual}
    \/ run[g].at = "allure" /\ "allure" \in Faults
    \/ run[g].at = "allure" /\ "empty" \in Faults /\ run[g].read = {} /\ Found(Reads(g)) = {}
    \/ keep /\ run[g].at \in {"publish", "prune"} /\ run[g].at \in Faults

(* Mutant: the removal of the batch is deferred, so that failures do it. *)
FailCleans(g) ==
    /\ MayFail(g)
    /\ run' = [run EXCEPT ![g] = None]
    /\ IF g = Watcher
       THEN Remember(memory.hash) /\ UNCHANGED job
       ELSE job' = [job EXCEPT ![g].state = Retried(g)] /\ UNCHANGED memory
    /\ Without({Reads(g)})
    /\ UNCHANGED <<top, made, upload, history>>

(* The row is rolled back unless it became a build; the batch stays. *)
Fail(g) ==
    /\ MayFail(g)
    /\ run' = [run EXCEPT ![g] = None]
    /\ IF g = Watcher
       THEN Remember(memory.hash) /\ UNCHANGED job
       ELSE job' = [job EXCEPT ![g].state = Retried(g)] /\ UNCHANGED memory
    /\ UNCHANGED <<dir, top, made, upload, history>>

Advance(g) == \/ Lock(g) \/ Download(g) \/ Prepare(g) \/ KeepHistory(g) \/ RunAllure(g) \/ Publish(g)
              \/ CleanBatch(g) \/ Done(g) \/ Fail(g)

-----------------------------------------------------------------------------
(* The watcher. *)

(* Start; with an object store there is no watcher. *)
Polling == Watching /\ storage = "local"

(* checkProject: the first pass only remembers. *)
FirstPass ==
    /\ Polling /\ memory.at = "idle" /\ memory.seen = NoHash
    /\ Remember(Hash)
    /\ UNCHANGED <<dir, top, made, upload, job, run, history>>

Changed == Hash # memory.seen /\ Present # {}

(* A pass that finds no change, or nothing, remembers what it found. *)
Pass ==
    /\ Polling /\ memory.at = "idle" /\ memory.seen # NoHash
    /\ IF Changed THEN memory' = [memory EXCEPT !.at = "list", !.hash = Hash] ELSE Remember(Hash)
    /\ UNCHANGED <<dir, top, made, upload, job, run, history>>

(* The first directory is a batch, whoever made it. *)
ListResultBatches ==
    /\ memory.at = "list"
    /\ IF Present = {}
       THEN Remember(memory.hash) /\ UNCHANGED run
       ELSE /\ memory' = [memory EXCEPT !.at = "generate"]
            /\ run' = [run EXCEPT ![Watcher] = [at |-> "wait", batch |-> Min(Present), read |-> {}]]
    /\ UNCHANGED <<dir, top, made, upload, job, history>>

(* The project or its batches cannot be looked up. *)
ListFails ==
    /\ memory.at = "list" /\ "list" \in Faults
    /\ Remember(memory.hash)
    /\ UNCHANGED <<dir, top, made, upload, job, run, history>>

Poll == FirstPass \/ Pass \/ ListResultBatches \/ ListFails

-----------------------------------------------------------------------------
(* Others. *)

(* CleanResults: all that is in results/. *)
Clear ==
    /\ wiped' = wiped \cup (Present \cap Uploads)
    /\ Without(Present) /\ top' = "none"

(* An administrator's request. *)
CleanResults ==
    /\ cleans < MaxCleans /\ Present # {}
    /\ cleans' = cleans + 1
    /\ Clear
    /\ UNCHANGED <<storage, keep, made, upload, job, run, memory, reports, sweeping, crashed>>

(* The age limit passes since the only plain file of results/ was written; *)
(* generations have ended by then.                                         *)
DaysPass ==
    /\ Sweeping /\ top = "new" /\ \A g \in Generators : run[g] = None
    /\ top' = "old" /\ aged' = {u \in Uploads : upload[u].at # "idle"}
    /\ UNCHANGED <<storage, keep, dir, made, upload, job, run, memory, reports, sweep, wiped,
                   swept, cleans, crashed>>

(* The daily sweep looks at the plain files of results/, which batches are *)
(* not, and compares the newest with the limit ...                         *)
SweepLooks ==
    /\ Sweeping /\ sweep = "idle" /\ top = "old"
    /\ sweep' = "clean"
    /\ UNCHANGED <<storage, keep, dir, top, made, upload, job, run, memory, reports, aged,
                   wiped, swept, cleans, crashed>>

(* ... and then removes all that is there, batches too. *)
SweepCleans ==
    /\ sweep = "clean"
    /\ sweep' = "idle" /\ swept' = swept \cup (Present \cap Uploads)
    /\ Clear
    /\ UNCHANGED <<storage, keep, made, upload, job, run, memory, reports, aged, cleans,
                   crashed>>

Cleanup == CleanResults \/ DaysPass \/ SweepLooks \/ SweepCleans

(* The process dies: requests and generations end, the lock goes and the   *)
(* watcher forgets. Rows of running jobs stay as they are.                 *)
Crash ==
    /\ crashed < Crashes
    /\ crashed' = crashed + 1
    /\ upload' = [u \in Uploads |-> IF upload[u].at = "writing"
                                    THEN [upload[u] EXCEPT !.at = "refused"] ELSE upload[u]]
    /\ run' = [g \in Generators |-> None]
    /\ Remember(NoHash) /\ sweep' = "idle"
    /\ UNCHANGED <<storage, keep, dir, top, made, job, reports, aged, wiped, swept, cleans>>

(* River finds a running job that nobody runs. *)
Rescue(j) ==
    /\ job[j].state = "running" /\ run[j] = None
    /\ job' = [job EXCEPT ![j].state = Retried(j)]
    /\ UNCHANGED <<dir, top, made, upload, run, memory, history>>

Next ==
    \/ Upload
    \/ \E g \in Generators : Advance(g)
    \/ \E j \in JobIds : Take(j) \/ Rescue(j)
    \/ Poll \/ Cleanup \/ Crash

(* Every step of a generation has a time limit, River serves its queue,    *)
(* and the watcher is driven by a ticker.                                  *)
Spec == Init /\ [][Next]_vars

Served(j) == Take(j) \/ Rescue(j)

Fairness ==
    /\ \A g \in Generators : WF_vars(Advance(g))
    /\ \A j \in JobIds : WF_vars(Served(j))
    /\ WF_vars(Poll)

FairSpec == Spec /\ Fairness

-----------------------------------------------------------------------------
(* The files of an upload that was accepted are in its directory or in a   *)
(* report, which is a build where history is kept: neither an attempt that *)
(* fails at any step, nor a crash between the report and the removal of    *)
(* the batch, nor a generation of another batch loses one. Exempt is what  *)
(* an administrator or the daily sweep cleaned; the sweep takes also what  *)
(* it should not (OnlyOldSwept). Holds when the watcher is off.            *)
Reported(u) == UNION {x.files : x \in {y \in reports : y.batch = u}}

ResultsKept == \A u \in Uploads \ wiped :
                  upload[u].at = "sent" => Found(u) \cup Reported(u) = ResultFiles

(* "Process first batch; remaining batches will be picked up on the next   *)
(* poll cycle" (watcher.go): once uploads have ended, every batch that is  *)
(* there when a pass finds the results changed is removed in the end, by   *)
(* the watcher or by its own job. It takes one pass for each, and they     *)
(* come because the hash that is remembered is the one from before the     *)
(* generation.                                                             *)
Ended(u)  == upload[u].at \in {"sent", "refused"}
Listed(u) == u \in Present /\ memory.at = "list"

BatchesDrain ==
    \A u \in Uploads :
       (Listed(u) /\ memory.hash = Hash /\ \A v \in Uploads : Ended(v)) ~> u \notin Present

-----------------------------------------------------------------------------
(* Expectations that the code does not meet. *)

(* A build of the watcher has results: docs/features.md has it poll for    *)
(* new result files.                                                       *)
WatcherFindsResults == \A x \in reports : x.by = Watcher => x.files # {}

(* The same while uploads go on: one that comes between the hash and the   *)
(* listing, sorts first and is removed leaves the results as they were     *)
(* remembered.                                                             *)
DrainMeanwhile == \A u \in Uploads : Listed(u) ~> u \notin Present

(* The job of an upload reports all that was uploaded. *)
JobReportsWhole == \A x \in reports : (x.by \in Uploads /\ x.batch \notin wiped) => x.files = ResultFiles

(* An upload is one build. *)
BuiltOnce == \A u \in Uploads : Cardinality({x \in reports : x.batch = u}) <= 1

(* ListPendingResults: "returns those with pending result files". It       *)
(* counts plain files of results/, and batches are directories.            *)
PendingListed == (\E u \in Uploads : u \in Present /\ dir[u].files # {}) => top # "none"

(* The daily sweep deletes "uploaded but never-generated result files      *)
(* older than N days" (docs/configuration.md): no upload begun since the   *)
(* results were as old as that is among what it removes.                   *)
OnlyOldSwept == swept \subseteq aged
=============================================================================
