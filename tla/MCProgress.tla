----------------------------- MODULE MCProgress -----------------------------
(***************************************************************************)
(* Requests and notifications that must end, for TLC: lookups of the       *)
(* is_active cache, deliveries to webhooks, summaries of failing tests and *)
(* batches of results that the watcher finds.                              *)
(* The parts share no state and no caller, so that nothing is lost when a  *)
(* behaviour moves only one of them.                                       *)
(***************************************************************************)
EXTENDS Naturals, Sequences, FiniteSets

CONSTANTS
    Procs, Elsewhere, Callers, TTL, LoadTimeout, KeyTimeout, Horizon, NoCaller,
    Hooks, OldHooks, Editors, Sources, Kinds, MaxHooks, MaxAttempts, MaxEdits,
    DeliveryFaults, Crashes, NoHook,
    Replicas, Requests, Contents, Partial, Bare, MaxChanges, SummaryFaults, NoContent,
    UploadIds, History, Manual, Watcher, ResultFiles, MaxRequests, Keeping, BatchFaults

VARIABLES
    part,                                                   \* what moves
    active, ago, cache, flight, call, adm, stale, clean,    \* ActiveCache
    hooks, used, edit, source, note, logged, edits, crashes, posts, taken, died,  \* Webhooks
    content, changes, cached, flights, visit, called, written, \* FailureSummary
    storage, keep, dir, top, made, sent, queued, run, memory,
    reports, sweep, aged, wiped, swept, cleans, fallen  \* Batches

C == INSTANCE ActiveCache
W == INSTANCE Webhooks WITH Faults <- DeliveryFaults
F == INSTANCE FailureSummary WITH Faults <- SummaryFaults, flight <- flights
B == INSTANCE Batches WITH
        Uploads <- UploadIds, Storages <- {"local"}, Watching <- TRUE, Sweeping <- FALSE,
        MaxAttempts <- 1, MaxCleans <- 0, Crashes <- 0, Faults <- BatchFaults, upload <- sent, job <- queued, crashed <- fallen

ASSUME ProgressAssumption ==
    C!Assumption /\ W!Assumption /\ F!Assumption /\ B!Assumption

cacheVars   == <<active, ago, cache, flight, call, adm, stale, clean>>
hookVars    == <<hooks, used, edit, source, note, logged, edits, crashes, posts, taken, died>>
summaryVars == <<content, changes, cached, flights, visit, called, written>>
batchVars   == <<storage, keep, dir, top, made, sent, queued, run, memory, reports, sweep,
                 aged, wiped, swept, cleans, fallen>>
vars        == <<part, cacheVars, hookVars, summaryVars, batchVars>>

(* What does not move is in one state. *)
Init ==
    /\ part \in {"cache", "webhooks", "summaries", "batches"}
    /\ C!Init /\ W!Init /\ F!Init /\ B!Init
    /\ part # "webhooks" => used = {}
    /\ part # "summaries" => content = Partial
    /\ part # "batches" => keep

Next ==
    /\ \/ part = "cache"     /\ C!Next /\ UNCHANGED <<hookVars, summaryVars, batchVars>>
       \/ part = "webhooks"  /\ W!Next /\ UNCHANGED <<cacheVars, summaryVars, batchVars>>
       \/ part = "summaries" /\ F!Next /\ UNCHANGED <<cacheVars, hookVars, batchVars>>
       \/ part = "batches"   /\ B!Next /\ UNCHANGED <<cacheVars, hookVars, summaryVars>>
    /\ UNCHANGED part

Spec == Init /\ [][Next]_vars

(* As in the parts; nothing of a part is enabled unless it moves. *)
FairSpec ==
    /\ Spec
    /\ \A c \in Callers : WF_cacheVars(part = "cache" /\ C!Proceed(c))
    /\ \A n \in W!Ids : WF_hookVars(part = "webhooks" /\ W!Attempt(n))
    /\ \A r \in Requests : WF_summaryVars(part = "summaries" /\ F!Serve(r))
    /\ \A g \in B!Generators : WF_batchVars(part = "batches" /\ B!Advance(g))
    /\ \A j \in B!JobIds : WF_batchVars(part = "batches" /\ B!Served(j))
    /\ WF_batchVars(part = "batches" /\ B!Poll)

-----------------------------------------------------------------------------
(* All parts keep their types. *)
TypeOK == C!TypeOK /\ W!TypeOK /\ F!TypeOK /\ B!TypeOK

(* Requests are answered: lookups of the activity flag, and visitors of a  *)
(* failing test (see ActiveCache and FailureSummary).                      *)
EveryoneAnswered == C!CallersAnswered /\ F!VisitorsAnswered

RepeatNeedsCrash == W!RepeatNeedsCrash
NoticesEnd       == W!NoticesEnd
CallsAreNeeded   == F!CallsAreNeeded
BatchesDrain     == B!BatchesDrain
=============================================================================
