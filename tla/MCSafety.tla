------------------------------ MODULE MCSafety ------------------------------
(***************************************************************************)
(* Parts that are checked for safety alone, for TLC: the is_active cache   *)
(* itself, staged Playwright reports, batches of result files and the      *)
(* limits before the login. They share no state and no caller, so that     *)
(* nothing is lost when a behaviour moves only one of them.                *)
(***************************************************************************)
EXTENDS ActiveCache, FiniteSets

CONSTANTS
    Uploads, Jobs, Allure, MaxNumber, MaxAttempts, MaxGenerations, MaxDeletions, Crashes,
    Faults, Nobody,
    UploadIds, History, Manual, Watcher, ResultFiles, MaxRequests, Storages, MaxCleans, Keeping, Sweeping,
    BatchFaults,
    Accounts, Attempts, Window, Threshold, LockTime, Rate, Burst, IdleTime, NoAccount

VARIABLES
    part,                                                   \* what moves
    latest, report, row, upload, job, work, generations, deletions, crashed,  \* Staging
    storage, keep, dir, top, made, sent, queued, run, memory,
    reports, sweep, aged, wiped, swept, cleans, fallen,  \* Batches
    entries, bucket, attempt, kept, keptBucket              \* LoginLimits

S == INSTANCE Staging
B == INSTANCE Batches WITH
        Uploads <- UploadIds, Watching <- FALSE, Faults <- BatchFaults,
        upload <- sent, job <- queued, crashed <- fallen
L == INSTANCE LoginLimits

ASSUME SafetyAssumption == Assumption /\ S!Assumption /\ B!Assumption /\ L!Assumption

stagingVars == <<latest, report, row, upload, job, work, generations, deletions, crashed>>
batchVars   == <<storage, keep, dir, top, made, sent, queued, run, memory, reports, sweep,
                 aged, wiped, swept, cleans, fallen>>
limitVars   == <<entries, bucket, attempt, kept, keptBucket>>
allVars     == <<part, vars, stagingVars, batchVars, limitVars>>

(* What does not move is in one state. *)
AllInit ==
    /\ part \in {"staging", "batches", "cache", "limits"}
    /\ Init /\ S!Init /\ B!Init /\ L!Init
    /\ part # "batches" => storage = "local" /\ keep

AllNext ==
    /\ \/ part = "staging" /\ S!Next /\ UNCHANGED <<batchVars, vars, limitVars>>
       \/ part = "batches" /\ B!Next /\ UNCHANGED <<stagingVars, vars, limitVars>>
       \/ part = "cache"   /\ Next   /\ UNCHANGED <<stagingVars, batchVars, limitVars>>
       \/ part = "limits"  /\ L!Next /\ UNCHANGED <<stagingVars, batchVars, vars>>
    /\ UNCHANGED part

AllSpec == AllInit /\ [][AllNext]_allVars

-----------------------------------------------------------------------------
FlagMeansReport == S!FlagMeansReport
CleanedIsCopied == S!CleanedIsCopied
ResultsKept     == B!ResultsKept
LimitsHold      == L!LimitsHold

(* Refuted under the same cfg. *)
LockHolds == L!LockHolds
=============================================================================
