------------------------------- MODULE Defects -------------------------------
(***************************************************************************)
(* The defects of one AllureDeck project: the failures of a build, grouped *)
(* by fingerprint, and what becomes of a fingerprint over the builds.      *)
(*                                                                         *)
(* computeDefectFingerprints (the same code in both runners) is a sequence *)
(* of statements, each committed by itself, run under the project's lock   *)
(* once for every build. People edit defects and delete builds between the *)
(* statements; the backfill command runs the same sequence again, for      *)
(* builds that have failures, the newest first, and may be run repeatedly. *)
(***************************************************************************)
EXTENDS Integers, FiniteSets, FiniteSetsExt

CONSTANTS
    Hashes,       \* fingerprints
    MaxBuilds,    \* bound: builds the project ever gets
    Threshold,    \* clean builds after which a defect is fixed (3 in the code)
    MaxEdits,     \* bound: edits by people
    Decisions,    \* bound: resolutions people give
    MaxRuns,      \* bound: runs of the backfill command
    LinksFail     \* LinkTestResults may fail for one fingerprint

Assumption ==
    /\ {MaxBuilds, Threshold} \subseteq Nat \ {0}
    /\ {MaxEdits, MaxRuns} \subseteq Nat
    /\ LinksFail \in BOOLEAN
    /\ Decisions \subseteq {"open", "fixed", "muted", "wont_fix"}

VARIABLES
    next,    \* id of the next build; build_order follows it
    builds,  \* builds that exist
    fails,   \* test_results: the fingerprints of the failed tests of a build
    fp,      \* defect_fingerprints, by fingerprint_hash
    occ,     \* defect_occurrences
    job,     \* the computation in progress
    runs,    \* times the backfill command has been started
    todo,    \* builds it has still to do
    edits,   \* edits so far
    since,   \* history: builds without the defect, counted since it was last seen
    auto,    \* history: defects whose resolution is AutoResolveFixed's
    back,    \* history: defects the computation in progress reopened from there
    silenced \* history: defects a person has muted and nobody reopened

vars == <<next, builds, fails, fp, occ, job, runs, todo, edits, since, auto, back, silenced>>

BuildIds    == 1 .. MaxBuilds
Resolutions == {"open", "fixed", "muted", "wont_fix"}
Steps       == {"idle", "upsert", "link", "count", "resolve", "close", "detect", "done"}

None == [res |-> "none"]
Idle == [pc |-> "idle", build |-> 0, link |-> {}]

Fingerprint == [res : Resolutions, clean : 0 .. MaxBuilds, first : BuildIds, last : BuildIds]

Known == {h \in Hashes : fp[h] # None}

(* Types, and the foreign keys. *)
TypeOK ==
    /\ next \in 1 .. MaxBuilds + 1
    /\ builds \subseteq 1 .. next - 1
    /\ fails \in [BuildIds -> SUBSET Hashes]
    /\ fp \in [Hashes -> Fingerprint \union {None}]
    /\ \A h \in Known : {fp[h].first, fp[h].last} \subseteq builds
    /\ occ \subseteq [hash : Known, build : builds, regression : BOOLEAN]
    /\ job \in [pc : Steps, build : 0 .. MaxBuilds, link : SUBSET Hashes]
    /\ runs \in 0 .. MaxRuns /\ todo \subseteq BuildIds
    /\ edits \in 0 .. MaxEdits
    /\ since \in [Hashes -> SUBSET BuildIds]
    /\ auto \subseteq Known /\ back \subseteq Known
    /\ silenced \subseteq Hashes

Init ==
    /\ next = 1
    /\ builds = {}
    /\ fails = [b \in BuildIds |-> {}]
    /\ fp = [h \in Hashes |-> None]
    /\ occ = {}
    /\ job = Idle
    /\ runs = 0 /\ todo = {}
    /\ edits = 0
    /\ since = [h \in Hashes |-> {}]
    /\ auto = {} /\ back = {} /\ silenced = {}

-----------------------------------------------------------------------------
(* A build's results are stored and its failures listed. *)
Compute(b) ==
    job' = [pc |-> IF fails'[b] = {} THEN "count" ELSE "upsert", build |-> b, link |-> fails'[b]]

NewBuild(F) ==
    /\ job = Idle /\ todo = {}
    /\ next <= MaxBuilds
    /\ next' = next + 1
    /\ builds' = builds \union {next}
    /\ fails' = [fails EXCEPT ![next] = F]
    /\ Compute(next)
    /\ back' = {}
    /\ UNCHANGED <<fp, occ, runs, todo, edits, since, auto, silenced>>

(* backfillFingerprints: ListBuilds, then build after build, none older    *)
(* than -since-build. No build comes in meanwhile, as the command asks     *)
(* for. It may be interrupted, and run again.                              *)
StartBackfill(from) ==
    /\ runs < MaxRuns
    /\ job = Idle /\ todo = {}
    /\ runs' = runs + 1
    /\ todo' = {b \in builds : b >= from /\ fails[b] # {}}
    /\ UNCHANGED <<next, builds, fails, fp, occ, job, edits, since, auto, back, silenced>>

StopBackfill ==
    /\ job = Idle /\ todo # {}
    /\ todo' = {}
    /\ UNCHANGED <<next, builds, fails, fp, occ, job, runs, edits, since, auto, back, silenced>>

BackfillBuild ==
    /\ job = Idle /\ todo # {}
    /\ todo' = todo \ {Max(todo)}
    /\ UNCHANGED fails
    /\ IF Max(todo) \in builds THEN Compute(Max(todo)) ELSE UNCHANGED job
    /\ back' = {}
    /\ UNCHANGED <<next, builds, fp, occ, runs, edits, since, auto, silenced>>

(* UpsertFingerprints, one transaction: a new row, or last seen in this    *)
(* build, the count of clean builds reset and what was fixed open again.   *)
Reopened(res) == IF res = "fixed" THEN "open" ELSE res

(* Mutant: the row that is already there keeps its count. *)
SeenNotReset(row, b) ==
    IF row = None THEN [res |-> "open", clean |-> 0, first |-> b, last |-> b]
    ELSE [row EXCEPT !.last = b, !.res = Reopened(@)]

Seen(row, b) ==
    IF row = None THEN [res |-> "open", clean |-> 0, first |-> b, last |-> b]
    ELSE [row EXCEPT !.last = b, !.clean = 0, !.res = Reopened(@)]

UpsertFingerprints ==
    LET b == job.build IN
    /\ job.pc = "upsert"
    /\ b \in builds
    /\ fp' = [h \in Hashes |-> IF h \in fails[b] THEN Seen(fp[h], b) ELSE fp[h]]
    /\ job' = [job EXCEPT !.pc = "link"]
    /\ since' = [h \in Hashes |-> IF h \in fails[b] THEN {} ELSE since[h]]
    /\ back' = auto \intersect fails[b]
    /\ auto' = auto \ fails[b]
    /\ UNCHANGED <<next, builds, fails, occ, runs, todo, edits, silenced>>

(* GetByHash and LinkTestResults for one fingerprint. A row that has gone  *)
(* with a deleted build is passed over, and so is a failure.               *)
Link(h) ==
    LET b == job.build IN
    /\ job.pc = "link" /\ h \in job.link
    /\ job' = [job EXCEPT !.link = @ \ {h}]
    /\ IF fp[h] # None /\ b \in builds /\ ~ \E o \in occ : o.hash = h /\ o.build = b
       THEN occ' = occ \union {[hash |-> h, build |-> b, regression |-> FALSE]}
       ELSE UNCHANGED occ
    /\ UNCHANGED <<next, builds, fails, fp, runs, todo, edits, since, auto, back, silenced>>

LinkFails(h) ==
    /\ LinksFail
    /\ job.pc = "link" /\ h \in job.link
    /\ job' = [job EXCEPT !.link = @ \ {h}]
    /\ UNCHANGED <<next, builds, fails, fp, occ, runs, todo, edits, since, auto, back, silenced>>

(* UpdateCleanBuildCounts: the open defects without an occurrence here. *)
SeenIn(b) == {o.hash : o \in {o \in occ : o.build = b}}

UpdateCleanBuildCounts ==
    LET b     == job.build
        clean == {h \in Known \ SeenIn(b) : fp[h].res = "open"}
    IN
    /\ job.pc \in {"count", "link"} /\ (job.pc = "link" => job.link = {})
    /\ fp' = [h \in Hashes |-> IF h \in clean THEN [fp[h] EXCEPT !.clean = @ + 1] ELSE fp[h]]
    /\ since' = [h \in Hashes |->
                    IF h \in Known \ fails[b] THEN since[h] \union {b} ELSE since[h]]
    /\ job' = [job EXCEPT !.pc = IF @ = "count" THEN "close" ELSE "resolve"]
    /\ UNCHANGED <<next, builds, fails, occ, runs, todo, edits, auto, back, silenced>>

(* Mutant: every defect that has been clean for long enough is fixed. *)
ToResolveAny == {h \in Known : fp[h].clean >= Threshold}

ToResolve == {h \in Known : fp[h].res = "open" /\ fp[h].clean >= Threshold}

(* AutoResolveFixed; a build without failures is done after it. *)
AutoResolveFixed ==
    /\ job.pc \in {"resolve", "close"}
    /\ fp' = [h \in Hashes |-> IF h \in ToResolve THEN [fp[h] EXCEPT !.res = "fixed"] ELSE fp[h]]
    /\ auto' = auto \union ToResolve
    /\ job' = IF job.pc = "close" THEN Idle ELSE [job EXCEPT !.pc = "detect"]
    /\ UNCHANGED <<next, builds, fails, occ, runs, todo, edits, since, back, silenced>>

Before(b) == {c \in builds : c < b}

PrevBuild(b) == IF Before(b) = {} THEN 0 ELSE Max(Before(b))

(* DetectRegressions: seen here, not new here, not seen in the build       *)
(* before. MarkRegressions follows at once: what happens between the two   *)
(* changes neither.                                                        *)
Regressed(b) == {h \in SeenIn(b) : fp[h].first # b /\ h \notin SeenIn(PrevBuild(b))}

DetectRegressions ==
    LET b == job.build IN
    /\ job.pc = "detect"
    /\ occ' = {[o EXCEPT !.regression = @ \/ (o.build = b /\ o.hash \in Regressed(b))] : o \in occ}
    /\ job' = [job EXCEPT !.pc = "done"]
    /\ UNCHANGED <<next, builds, fails, fp, runs, todo, edits, since, auto, back, silenced>>

(* Any statement may fail, and so may the process: the rest is left out.   *)
(* It is not done again; the build stands.                                 *)
EndCompute ==
    /\ job # Idle
    /\ job' = Idle
    /\ back' = {}
    /\ UNCHANGED <<next, builds, fails, fp, occ, runs, todo, edits, since, auto, silenced>>

-----------------------------------------------------------------------------
(* UpdateDefect and BulkUpdate set a resolution whatever it was. An edit   *)
(* that leaves every row as it is counts for nothing.                      *)
Edit(H, res) ==
    /\ edits < MaxEdits
    /\ H \subseteq Known /\ \E h \in H : fp[h].res # res
    /\ edits' = edits + 1
    /\ fp' = [h \in Hashes |-> IF h \in H THEN [fp[h] EXCEPT !.res = res] ELSE fp[h]]
    /\ auto' = auto \ H
    /\ back' = back \ H
    /\ silenced' = IF res \in {"muted", "wont_fix"} THEN silenced \union H ELSE silenced \ H
    /\ UNCHANGED <<next, builds, fails, occ, job, runs, todo, since>>

(* The rows that reference a build go with it: ON DELETE CASCADE. *)
Gone(b) == {h \in Known : b \in {fp[h].first, fp[h].last}}

(* DeleteReport takes any build, and so do the Prune functions. *)
DeleteBuild(b) ==
    /\ b \in builds
    /\ builds' = builds \ {b}
    /\ fails' = [fails EXCEPT ![b] = {}]
    /\ fp' = [h \in Hashes |-> IF h \in Gone(b) THEN None ELSE fp[h]]
    /\ occ' = {o \in occ : o.build # b /\ o.hash \notin Gone(b)}
    /\ since' = [h \in Hashes |-> IF h \in Gone(b) THEN {} ELSE since[h]]
    /\ auto' = auto \ Gone(b)
    /\ back' = back \ Gone(b)
    /\ UNCHANGED <<next, job, runs, todo, edits, silenced>>

Next ==
    \/ \E F \in SUBSET Hashes : NewBuild(F)
    \/ \E from \in BuildIds : StartBackfill(from)
    \/ BackfillBuild \/ StopBackfill
    \/ UpsertFingerprints
    \/ \E h \in Hashes : Link(h) \/ LinkFails(h)
    \/ UpdateCleanBuildCounts \/ AutoResolveFixed \/ DetectRegressions \/ EndCompute
    \/ \E H \in SUBSET Hashes, res \in Decisions : Edit(H, res)
    \/ \E b \in builds : DeleteBuild(b)

Spec == Init /\ [][Next]_vars

-----------------------------------------------------------------------------
(* A defect that AutoResolveFixed closed had been absent from that many    *)
(* different builds since it was last seen, whatever people edited or      *)
(* deleted meanwhile and wherever a computation broke off: from Threshold  *)
(* of them while the backfill has not run, and each of its runs lets a     *)
(* build count once more and no oftener. A link that failed counts as one  *)
(* clean build, the defect's own.                                          *)
Missed == IF LinksFail THEN 1 ELSE 0

FixedWasClean ==
    \A h \in auto : Cardinality(since[h]) * (1 + runs) >= Threshold - Missed

(* No computation takes back what a person decided: a muted defect stays   *)
(* so until the next edit, unless its row goes with a build.               *)
Muted(row) == row # None /\ row.res \in {"muted", "wont_fix"}

DispositionKept ==
    [][\A h \in Hashes :
          Muted(fp[h]) /\ ~Muted(fp'[h]) => edits' # edits \/ fp'[h] = None]_vars

(* AutoResolveFixed, after its comment in computeDefectFingerprints:       *)
(* "clean for 3 consecutive builds".                                       *)
FixedAfterThreshold == \A h \in auto : Cardinality(since[h]) >= Threshold

(* docs/defects.md: a fixed defect that comes back is flagged as a         *)
(* regression of the build it comes back in.                               *)
ReopenedIsRegression ==
    job.pc = "done" =>
        \A o \in occ : o.build = job.build /\ o.hash \in back => o.regression

(* docs/defects.md: a defect is created the first time its fingerprint     *)
(* appears, and later occurrences update it; so a fingerprint that a       *)
(* person has muted is not open again when it appears in a later build.    *)
MutedStays == \A h \in silenced \intersect Known : fp[h].res # "open"

(* docs/defects.md: the clean builds of a defect are those since its last  *)
(* occurrence; so one that fails in the newest build is not fixed.         *)
FailingNotFixed ==
    job = Idle /\ todo = {} /\ builds # {} => \A h \in auto : h \notin fails[Max(builds)]

=============================================================================
