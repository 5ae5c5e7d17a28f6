---------------------------- MODULE StagedUpload ----------------------------
(***************************************************************************)
(* Uploads of ONE project and the jobs that turn them into builds: the     *)
(* request that stages an archive and enqueues a job, the job workers of   *)
(* all replicas, the hourly cleanup of staged archives, and the requests   *)
(* that retry, cancel and delete jobs.                                     *)
(*                                                                         *)
(* Generation itself (module BuildLifecycle) is one step here: it makes a  *)
(* build, fails without one, or fails after its build was committed. With  *)
(* KEEP_HISTORY=false it makes a report and gives its number back, but the *)
(* row of the build is rolled back; here the rollback does not fail.       *)
(* River, the queue, is a library: its transitions are modelled as this    *)
(* code relies on them (Fetch, Complete, Settle, Rescue, the effect of     *)
(* JobRetry, JobCancel and JobDelete).                                     *)
(***************************************************************************)
EXTENDS Naturals, Sequences

CONSTANTS
  Uploads,        \* uploads; each has a batch, and at most one job
  Staged,         \* those sent with async=true, as an archive
  MaxAttempts,    \* River's attempts before a job is discarded
  MaxRetries,     \* bound on the retry requests of a job
  Requests,       \* which administrators' requests are made
  Cleanup,        \* whether a staged archive may get older than seven days
  Crashes,        \* whether a worker's pod may die
  Timeouts,       \* whether an attempt may run into REPORT_GENERATION_TIMEOUT
  LateErrors,     \* whether retention may fail after a build was committed
  KeepHistory,    \* the values KEEP_HISTORY may have
  Storage,        \* STORAGE_TYPE: "local" or "s3"
  Faults          \* which writes may fail: their errors are only logged

ASSUME ConstantsAssumption ==
  /\ Staged \subseteq Uploads
  /\ MaxAttempts \in Nat \ {0}
  /\ MaxRetries \in Nat
  /\ Requests \subseteq {"retry", "cancel", "delete"}
  /\ {Cleanup, Crashes, Timeouts, LateErrors} \subseteq BOOLEAN
  /\ KeepHistory \subseteq BOOLEAN /\ Storage \in {"local", "s3"}
  /\ Faults \subseteq {"insert", "progress", "archive", "webhook", "notice"}

VARIABLES
  reply,     \* what the upload request was answered
  blob,      \* staging/<batch>.tar.gz: "absent", "fresh" or "old"
  state,     \* the job's River state, "none" before it is inserted
  attempt,   \* attempts begun
  limit,     \* the attempt that is the last one
  retries,   \* retry requests made
  asked,     \* whether cancellation of the running attempt was asked for
  phase,     \* the row of job_progress, "none" without one
  output,    \* whether the job row holds a report id
  pc,        \* where the worker that runs the job is
  live,      \* whether the context of the attempt is still live
  made,      \* whether the attempt has a report id to record
  keep,      \* KEEP_HISTORY of the deployment
  builds,    \* the project's builds, by number: whose batch each was made of
  ran,       \* history: uploads whose generation gave the number of a report
  reports,   \* uploads whose report such a generation left in the storage
  sent,      \* completed deliveries: which attempt, and of which build
  notices,   \* report_failed deliveries of a job that used all its attempts
  deleting   \* jobs a delete request has found finished

job == <<state, attempt, limit, retries, asked, output>>
work == <<pc, live, made>>
effects == <<keep, builds, ran, reports, sent, notices>>
vars == <<reply, blob, state, attempt, limit, retries, asked, phase, output,
          pc, live, made, keep, builds, ran, reports, sent, notices, deleting>>

Queued == {"available", "retryable"}
Final == {"completed", "cancelled", "discarded"}
States == {"none", "running", "deleted"} \cup Queued \cup Final
Phases == {"none", "extracting_staged", "generating_report", "completed", "failed"}
Steps == {"idle", "start", "open", "generate", "drop", "finish", "hooks",
          "return", "failing", "error", "settle", "dead"}
InWork(j) == pc[j] \notin {"idle", "dead"}

Goto(j, l) == pc' = [pc EXCEPT ![j] = l]

\* What the write w leaves: it may fail, and does once its context has ended.
Logged(j, w, before, after) ==
  IF ~live[j] THEN {before} ELSE IF w \in Faults THEN {before, after} ELSE {after}

Init ==
  /\ reply = [j \in Uploads |-> "none"]
  /\ blob = [j \in Uploads |-> "absent"]
  /\ state = [j \in Uploads |-> "none"]
  /\ attempt = [j \in Uploads |-> 0]
  /\ limit = [j \in Uploads |-> MaxAttempts]
  /\ retries = [j \in Uploads |-> 0]
  /\ asked = [j \in Uploads |-> FALSE]
  /\ phase = [j \in Uploads |-> "none"]
  /\ output = [j \in Uploads |-> FALSE]
  /\ pc = [j \in Uploads |-> "idle"]
  /\ live = [j \in Uploads |-> FALSE]
  /\ made = [j \in Uploads |-> FALSE]
  /\ keep \in KeepHistory
  /\ builds = <<>> /\ ran = {} /\ reports = {}
  /\ sent = {}
  /\ notices = [j \in Uploads |-> 0]
  /\ deleting = {}

-----------------------------------------------------------------------------
(* The upload request.                                                     *)

Written(j) == IF j \in Staged THEN [blob EXCEPT ![j] = "fresh"] ELSE blob

\* WriteRawBlob, which may leave a part behind when it fails; a synchronous
\* upload writes its results elsewhere.
Stage(j) ==
  /\ reply[j] = "none"
  /\ \/ /\ reply' = [reply EXCEPT ![j] = "staged"]
        /\ blob' = Written(j)
     \/ /\ reply' = [reply EXCEPT ![j] = "refused"]
        /\ blob' \in {blob, Written(j)}
  /\ UNCHANGED <<job, phase, work, effects, deleting>>

\* SubmitStagedTarGz and Submit: a failed insert makes a Job that is not in the
\* queue, and the handler answers with its empty id.
Submit(j) ==
  /\ reply[j] = "staged"
  /\ reply' = [reply EXCEPT ![j] = "accepted"]
  /\ \/ state' = [state EXCEPT ![j] = "available"]
     \/ "insert" \in Faults /\ UNCHANGED state
  /\ UNCHANGED <<blob, attempt, limit, retries, asked, phase, output, work,
                 effects, deleting>>

-----------------------------------------------------------------------------
(* An attempt.                                                             *)

\* River hands the job to a worker.
Fetch(j) ==
  /\ state[j] \in Queued
  /\ state' = [state EXCEPT ![j] = "running"]
  /\ attempt' = [attempt EXCEPT ![j] = @ + 1]
  /\ asked' = [asked EXCEPT ![j] = FALSE]
  /\ live' = [live EXCEPT ![j] = TRUE]
  /\ Goto(j, "start")
  /\ UNCHANGED <<reply, blob, limit, retries, phase, output, made, effects,
                 deleting>>

\* upsertJobProgress writes in the context of the attempt.
Progress(j, p) ==
  \E q \in Logged(j, "progress", phase[j], p) : phase' = [phase EXCEPT ![j] = q]

Begin(j) ==
  /\ pc[j] = "start"
  /\ Progress(j, IF j \in Staged THEN "extracting_staged" ELSE "generating_report")
  /\ Goto(j, IF j \in Staged THEN "open" ELSE "generate")
  /\ UNCHANGED <<reply, blob, job, live, made, effects, deleting>>

\* OpenBlob, the temporary directory and ExtractTarGzToDir; the blob stays.
Extract(j) ==
  /\ pc[j] = "open"
  /\ blob[j] # "absent" /\ live[j]
  /\ Progress(j, "generating_report")
  /\ Goto(j, "generate")
  /\ UNCHANGED <<reply, blob, job, live, made, effects, deleting>>

KeptOnFailure(j) == blob
DroppedOnFailure(j) == [blob EXCEPT ![j] = "absent"]
BlobAfterFailure(j) == KeptOnFailure(j)

ExtractErrorSwallowed(j) ==
  /\ pc[j] = "open"
  /\ Goto(j, "return")
  /\ UNCHANGED <<reply, blob, job, phase, live, made, effects, deleting>>

ExtractSnoozed(j) ==
  /\ pc[j] = "open"
  /\ state' = [state EXCEPT ![j] = "available"]
  /\ attempt' = [attempt EXCEPT ![j] = @ - 1]
  /\ live' = [live EXCEPT ![j] = FALSE]
  /\ Goto(j, "idle")
  /\ UNCHANGED <<reply, blob, limit, retries, asked, phase, output, made,
                 effects, deleting>>

ExtractFails(j) ==
  /\ pc[j] = "open"
  /\ blob' = BlobAfterFailure(j)
  /\ Goto(j, "failing")
  /\ UNCHANGED <<reply, job, phase, live, made, effects, deleting>>

\* PublishReport of an object store takes the report where it was generated. That
\* of the local storage copies it within the directory of the generation, which
\* is the project's for a synchronous upload and temporary for a staged one.
LeavesReport(j) ==
  IF Storage = "s3" THEN keep ELSE j \notin Staged

Generate(j) ==
  /\ pc[j] = "generate"
  /\ live[j]
  /\ builds' = IF keep THEN Append(builds, j) ELSE builds
  /\ ran' = ran \cup {j}
  /\ reports' = IF LeavesReport(j) THEN reports \cup {j} ELSE reports
  /\ made' = [made EXCEPT ![j] = TRUE]
  /\ Goto(j, IF j \in Staged THEN "drop" ELSE "finish")
  /\ UNCHANGED <<reply, blob, job, phase, live, keep, sent, notices, deleting>>

\* Generation may fail after its build was committed: retention fails, or the
\* context of the attempt ends by then.
MayFailLate(j) == keep /\ (LateErrors \/ Timeouts \/ asked[j])

GenerateFails(j) ==
  /\ pc[j] = "generate"
  /\ builds' \in {builds} \cup IF MayFailLate(j) THEN {Append(builds, j)} ELSE {}
  /\ Goto(j, "failing")
  /\ UNCHANGED <<reply, blob, job, phase, live, made, keep, ran, reports, sent, notices,
                 deleting>>
-----------------------------------------------------------------------------
(* The end of an attempt that has a report.                                *)

DroppedBlob(j) == [blob EXCEPT ![j] = "absent"]
AfterDrop(before, after) == "finish"

\* DeleteBlob; its failure is only logged.  A local file is removed even when
\* the attempt's context has ended.
DropBlob(j) ==
  /\ pc[j] = "drop"
  /\ \E b \in {DroppedBlob(j)} \cup IF "archive" \in Faults \/ ~live[j] THEN {blob} ELSE {} :
       /\ blob' = b
       /\ Goto(j, AfterDrop(blob, b))
  /\ UNCHANGED <<reply, job, phase, live, made, effects, deleting>>

Finish(j) ==
  /\ pc[j] = "finish"
  /\ Progress(j, "completed")
  /\ Goto(j, "hooks")
  /\ UNCHANGED <<reply, blob, job, live, made, effects, deleting>>

\* buildWebhookPayload reads GetLatestBuild, whoever made that build.
Notified(j) == Len(builds)

Delivery(j) == [job |-> j, attempt |-> attempt[j], build |-> Notified(j)]

\* Without a build there is nothing to tell, and the error is logged.
Delivered(j) == IF builds = <<>> THEN sent ELSE sent \cup {Delivery(j)}

WebhookErrorReturned(j) ==
  /\ pc[j] = "hooks"
  /\ sent' \in Logged(j, "webhook", sent, Delivered(j))
  /\ Goto(j, IF sent' = sent THEN "failing" ELSE "return")
  /\ UNCHANGED <<reply, blob, job, phase, live, made, keep, builds, ran, reports, notices,
                 deleting>>

\* enqueueWebhooksForProject, for one webhook that subscribes to everything.
EnqueueWebhooks(j) ==
  /\ pc[j] = "hooks"
  /\ sent' \in Logged(j, "webhook", sent, Delivered(j))
  /\ Goto(j, "return")
  /\ UNCHANGED <<reply, blob, job, phase, live, made, keep, builds, ran, reports, notices,
                 deleting>>

EndAttempt(j) ==
  /\ live' = [live EXCEPT ![j] = FALSE]
  /\ made' = [made EXCEPT ![j] = FALSE]
  /\ Goto(j, "idle")

\* The worker returned nil: River records the completion and the output.
Complete(j) ==
  /\ pc[j] = "return"
  /\ state' = [state EXCEPT ![j] = "completed"]
  /\ output' = [output EXCEPT ![j] = @ \/ made[j]]
  /\ EndAttempt(j)
  /\ UNCHANGED <<reply, blob, attempt, limit, retries, asked, phase, effects,
                 deleting>>

-----------------------------------------------------------------------------
(* The end of an attempt that failed.                                      *)

ReportFailure(j) ==
  /\ pc[j] = "failing"
  /\ Progress(j, "failed")
  /\ Goto(j, "error")
  /\ UNCHANGED <<reply, blob, job, live, made, effects, deleting>>

OutOfAttempts(j) == attempt[j] >= limit[j]

\* jobFailedErrorHandler.HandleError, in a context without cancellation.
HandleError(j) ==
  /\ pc[j] = "error"
  /\ notices' \in
       LET more == [notices EXCEPT ![j] = @ + 1] IN
       IF ~OutOfAttempts(j) THEN {notices}
       ELSE IF "notice" \in Faults THEN {notices, more} ELSE {more}
  /\ Goto(j, "settle")
  /\ UNCHANGED <<reply, blob, job, phase, live, made, keep, builds, ran, reports, sent,
                 deleting>>

\* River's verdict on an attempt that failed or is lost.
Verdict(j) == IF asked[j] THEN "cancelled"
              ELSE IF attempt[j] >= limit[j] THEN "discarded" ELSE "retryable"

Settle(j) ==
  /\ pc[j] = "settle"
  /\ state' = [state EXCEPT ![j] = Verdict(j)]
  /\ EndAttempt(j)
  /\ output' = [output EXCEPT ![j] = @ \/ made[j]]
  /\ UNCHANGED <<reply, blob, attempt, limit, retries, asked, phase, effects,
                 deleting>>

-----------------------------------------------------------------------------
(* Cancellation, timeouts and crashes.                                     *)

\* The context of the attempt ends: its time is up, or the request to cancel
\* it has reached the worker.
EndContext(j) ==
  /\ InWork(j) /\ live[j]
  /\ Timeouts \/ asked[j]
  /\ live' = [live EXCEPT ![j] = FALSE]
  /\ UNCHANGED <<reply, blob, job, phase, pc, made, effects, deleting>>

Crash(j) ==
  /\ Crashes
  /\ InWork(j)
  /\ Goto(j, "dead")
  /\ live' = [live EXCEPT ![j] = FALSE]
  /\ made' = [made EXCEPT ![j] = FALSE]
  /\ UNCHANGED <<reply, blob, job, phase, effects, deleting>>

\* River's rescuer finds a running job whose worker is gone; no error handler
\* runs.
Rescue(j) ==
  /\ pc[j] = "dead"
  /\ state' = [state EXCEPT ![j] = Verdict(j)]
  /\ Goto(j, "idle")
  /\ UNCHANGED <<reply, blob, attempt, limit, retries, asked, phase, output,
                 live, made, effects, deleting>>

-----------------------------------------------------------------------------
(* Administrators' requests.                                               *)

\* Retry asks River for any job that is not running, finished or not; a job
\* that has used its attempts gets one more.
Retry(j) ==
  /\ "retry" \in Requests
  /\ retries[j] < MaxRetries
  /\ state[j] \in Final \cup {"retryable"}
  /\ state' = [state EXCEPT ![j] = "available"]
  /\ limit' = [limit EXCEPT ![j] = IF attempt[j] >= @ THEN attempt[j] + 1 ELSE @]
  /\ retries' = [retries EXCEPT ![j] = @ + 1]
  /\ UNCHANGED <<reply, blob, attempt, asked, phase, output, work, effects,
                 deleting>>

\* Cancel ends a queued job at once and asks the worker of a running one.
Cancel(j) ==
  /\ "cancel" \in Requests
  /\ \/ /\ state[j] \in Queued
        /\ state' = [state EXCEPT ![j] = "cancelled"]
        /\ UNCHANGED asked
     \/ /\ state[j] = "running" /\ ~asked[j]
        /\ asked' = [asked EXCEPT ![j] = TRUE]
        /\ UNCHANGED state
  /\ UNCHANGED <<reply, blob, attempt, limit, retries, phase, output, work,
                 effects, deleting>>

\* Delete reads the job's state in one call ...
DeleteCheck(j) ==
  /\ "delete" \in Requests
  /\ state[j] \in Final
  /\ deleting' = deleting \cup {j}
  /\ UNCHANGED <<reply, blob, job, phase, work, effects>>

\* ... and deletes it in another, which refuses running jobs only, and then
\* its progress.
DeleteJob(j) ==
  /\ j \in deleting
  /\ deleting' = deleting \ {j}
  /\ \/ /\ state[j] \notin {"running", "deleted"}
        /\ state' = [state EXCEPT ![j] = "deleted"]
        /\ \E p \in {"none"} \cup IF "progress" \in Faults THEN {phase[j]} ELSE {} :
             phase' = [phase EXCEPT ![j] = p]
     \/ /\ state[j] \in {"running", "deleted"}
        /\ UNCHANGED <<state, phase>>
  /\ UNCHANGED <<reply, blob, attempt, limit, retries, asked, output, work,
                 effects>>

-----------------------------------------------------------------------------
(* Staged archives get old while their job waits between attempts: River's *)
(* default of 25 attempts backs off by attempt^4 seconds, for three weeks. *)

Age(j) ==
  /\ Cleanup
  /\ blob[j] = "fresh"
  /\ ~InWork(j)
  /\ blob' = [blob EXCEPT ![j] = "old"]
  /\ UNCHANGED <<reply, job, phase, work, effects, deleting>>

\* StagingCleanupWorker deletes by age alone.
CleanUp(j) ==
  /\ blob[j] = "old"
  /\ blob' = DroppedBlob(j)
  /\ UNCHANGED <<reply, job, phase, work, effects, deleting>>

-----------------------------------------------------------------------------
Attempt(j) ==
  \/ Begin(j) \/ Extract(j) \/ ExtractFails(j) \/ Generate(j) \/ GenerateFails(j)
  \/ DropBlob(j) \/ Finish(j) \/ EnqueueWebhooks(j) \/ Complete(j)
  \/ ReportFailure(j) \/ HandleError(j) \/ Settle(j)

Request(j) == Retry(j) \/ Cancel(j) \/ DeleteCheck(j) \/ DeleteJob(j)

Next ==
  \E j \in Uploads :
    \/ Stage(j) \/ Submit(j)
    \/ Fetch(j) \/ Attempt(j) \/ EndContext(j) \/ Crash(j) \/ Rescue(j)
    \/ Request(j)
    \/ Age(j) \/ CleanUp(j)

Spec == Init /\ [][Next]_vars

\* River keeps fetching and rescuing jobs, and a worker's steps have time limits.
Fairness ==
  \A j \in Uploads :
    WF_vars(Fetch(j)) /\ WF_vars(Attempt(j)) /\ WF_vars(Rescue(j))

FairSpec == Spec /\ Fairness

-----------------------------------------------------------------------------
TypeOK ==
  /\ reply \in [Uploads -> {"none", "staged", "refused", "accepted"}]
  /\ blob \in [Uploads -> {"absent", "fresh", "old"}]
  /\ state \in [Uploads -> States]
  /\ attempt \in [Uploads -> Nat]
  /\ limit \in [Uploads -> Nat]
  /\ \A j \in Uploads : attempt[j] <= limit[j]
  /\ retries \in [Uploads -> 0..MaxRetries]
  /\ asked \in [Uploads -> BOOLEAN]
  /\ phase \in [Uploads -> Phases]
  /\ output \in [Uploads -> BOOLEAN]
  /\ pc \in [Uploads -> Steps]
  /\ \A j \in Uploads : state[j] = "running" <=> pc[j] # "idle"
  /\ live \in [Uploads -> BOOLEAN]
  /\ made \in [Uploads -> BOOLEAN]
  /\ keep \in BOOLEAN
  /\ builds \in Seq(Uploads)
  /\ ran \subseteq Uploads /\ reports \subseteq ran
  /\ sent \subseteq [job : Uploads, attempt : Nat, build : Nat]
  /\ notices \in [Uploads -> Nat]
  /\ deleting \subseteq Uploads

BuildsOf(j) == {n \in DOMAIN builds : builds[n] = j}

\* As long as no generation of an archive has given the number of its report, and
\* its job may still run, the archive is there: Work deletes it only after that, and
\* keeps it in every failure, crash, cancellation and timeout, also in one that
\* comes after the build was committed.
ArchiveKept ==
  \A j \in Staged :
    state[j] \in Queued \cup {"running"} /\ j \notin ran => blob[j] # "absent"

\* Without crashes, and unless generation fails after its commit, a batch is
\* built at most once, although deleting the archive, writing progress and
\* enqueuing webhooks may fail: those failures must not fail the attempt.
BuiltOnce == \A n, m \in DOMAIN builds : builds[n] = builds[m] => n = m

\* What a job's state says of its upload (module Upload).
Shown(s) == CASE s \in Queued \cup {"running"} -> "open"
              [] s = "discarded" -> "failed"
              [] s = "deleted" -> "removed"
              [] OTHER -> s

Fate == [j \in Uploads |-> Shown(state[j])]

Worked == ran \cup {j \in Uploads : BuildsOf(j) # {}}

Promise == INSTANCE Upload WITH fate <- Fate, worked <- Worked

\* Without crashes, time limits, late errors and retry requests the queue keeps
\* its promise: a job is completed when a report was made of its batch once, and
\* fails when none was, although attempts repeat and the worker's last steps (the
\* archive, progress, webhooks) may each fail. With KEEP_HISTORY the report is one
\* build, without it there is no build.
ImplementsUpload == Promise!Spec

\* A job comes to an end: no error, missing archive, crash or lost worker keeps
\* it among the queued and running jobs for ever.
JobEnds ==
  \A j \in Uploads :
    state[j] \in Queued \cup {"running"} ~> state[j] \in Final \cup {"deleted"}

\* A job River shows as completed holds the number of a report that was made of its
\* batch, whatever attempts, crashes and requests came before. With KEEP_HISTORY
\* there is a build of the batch; without, the number is all there is.
CompletedHasReport ==
  \A j \in Uploads :
    state[j] = "completed" => output[j] /\ j \in ran /\ (keep <=> BuildsOf(j) # {})

\* docs/async-uploads.md on the phase publishing_report: "Uploads the generated
\* report back to storage". A completed job's report is there to be looked at.
CompletedIsReady ==
  \A j \in Staged : state[j] = "completed" => j \in reports

\* docs/async-uploads.md: "the staging blob is retained for River retries (up to
\* the River max-attempts limit, default 25)".  StagingCleanupWorker asks no job.
RetainedForRetries ==
  \A j \in Staged :
    state[j] = "retryable" /\ j \notin ran => blob[j] # "absent"

\* docs/async-uploads.md on the phase failed: "Extraction or generation failed;
\* staging blob retained for inspection".  Work drops the blob before River
\* records the completion.
FailedKeepsArchive ==
  \A j \in Staged :
    state[j] = "discarded" /\ phase[j] = "failed" => blob[j] # "absent"

\* runner/job.go: "Phases other than "completed" and "failed" only occur while
\* JobStatus is "running"".  upsertJobProgress uses the context of the attempt.
PhaseWhileRunning ==
  \A j \in Uploads :
    phase[j] \in {"extracting_staged", "generating_report"} => state[j] = "running"

\* docs/features.md: "Each build produces one delivery per webhook".  The payload
\* is built from GetLatestBuild when the job gets there.
DeliveredOnce ==
  \A s, t \in sent : s.build = t.build => s = t

\* Delete "removes a terminal job (completed, failed, or cancelled)" and answers
\* ErrJobNotTerminal "if the job is still active".
OnlyTerminalDeleted ==
  [][\A j \in Uploads :
       state[j] # "deleted" /\ state'[j] = "deleted" => state[j] \in Final]_vars

\* sendResultsAsync "enqueues a River job ... It returns 202 with {job_id,
\* batch_id} on success."
AcceptedIsQueued ==
  \A j \in Uploads : reply[j] = "accepted" => state[j] # "none"

=============================================================================
