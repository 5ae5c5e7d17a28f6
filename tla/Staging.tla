------------------------------ MODULE Staging ------------------------------
(***************************************************************************)
(* Playwright reports of one project: playwright-reports/latest, where     *)
(* uploads without a build number are staged, and the directories of the   *)
(* builds.                                                                 *)
(*                                                                         *)
(* Uploads take no lock, and staging is shared by all of them. Two kinds   *)
(* of work take staged files, both under the project's lock: the job of an *)
(* upload that names its CI run (IngestReport), and every generation from  *)
(* Allure results (copyPlaywrightReport). A report is told by its index    *)
(* and by its files under data/, whose names no two reports share. A step  *)
(* is one statement, or one listing, copy or removal in the storage.       *)
(***************************************************************************)
EXTENDS Naturals, FiniteSets, FiniteSetsExt

CONSTANTS
    Uploads,         \* requests, each with one archive
    Jobs,            \* those of them that name their CI run
    Allure,          \* the generations from Allure results
    MaxNumber,       \* bound: build numbers
    MaxAttempts,     \* attempts of a job (3 in the code)
    MaxGenerations,  \* bound: generations from Allure results
    MaxDeletions,    \* bound: administrators' deletions of builds
    Crashes,         \* bound: workers that die
    Faults,          \* what may fail: "write", "insert", "read", "copy", "exists",
                    \* "flag", "clean"
    Nobody           \* no upload, or no worker

Assumption ==
    /\ Jobs \subseteq Uploads /\ Allure \notin Uploads /\ Nobody \notin Uploads \cup {Allure}
    /\ {MaxNumber, MaxAttempts} \subseteq Nat \ {0}
    /\ {MaxGenerations, MaxDeletions, Crashes} \subseteq Nat

VARIABLES
    latest,     \* playwright-reports/latest
    report,     \* playwright-reports/N
    row,        \* rows of builds
    upload,     \* requests
    job,        \* job rows of River
    work,       \* who holds the lock, and how far it is
    generations, deletions, crashed  \* counters of the three bounds

vars == <<latest, report, row, upload, job, work, generations, deletions, crashed>>

Numbers == 1 .. MaxNumber
Files   == {"index", "data"}
Empty   == [index |-> Nobody, data |-> {}]
NoRow   == [there |-> FALSE, flag |-> FALSE, by |-> Nobody, parsed |-> Nobody]
NoWork  == [by |-> Nobody]
Idle    == [at |-> "idle"]

IsReport(d) == d.index \in Uploads \cup {Nobody} /\ d.data \subseteq Uploads

(* Types; only a job that runs has the lock, and its build was reserved. *)
TypeOK ==
    /\ IsReport(latest) /\ \A n \in Numbers : IsReport(report[n])
    /\ \A n \in Numbers : ~row[n].there => row[n] = NoRow
    /\ \A u \in Uploads : /\ upload[u].at \in {"idle", "write", "refused", "done"}
                          /\ job[u].state \in {"none", "available", "running", "completed", "discarded"}
                          /\ job[u].attempt \in 0 .. MaxAttempts
                          /\ job[u].state # "none" => u \in Jobs /\ upload[u].at = "done"
                          /\ work.by = u => job[u].state = "running"
    /\ work # NoWork => work.at \in {"read", "list", "copy", "flag", "clean"} /\ work.number \in Numbers

Init ==
    /\ latest = Empty
    /\ report = [n \in Numbers |-> Empty]
    /\ row = [n \in Numbers |-> NoRow]
    /\ upload = [u \in Uploads |-> Idle]
    /\ job = [u \in Uploads |-> [state |-> "none", attempt |-> 0]]
    /\ work = NoWork
    /\ generations = 0 /\ deletions = 0 /\ crashed = 0

counters == <<generations, deletions, crashed>>

-----------------------------------------------------------------------------
(* Uploads. *)

(* The regular files of an archive; it has an index. *)
Archive == Files

(* UploadReport: the archive is spooled and checked; one with a build      *)
(* number goes to the directory of a build that exists.                    *)
Begin(u) ==
    /\ upload[u] = Idle
    /\ \E to \in {0} \cup {n \in Numbers : row[n].there} :
          upload' = [upload EXCEPT ![u] = [at |-> "write", to |-> to, todo |-> Archive]]
    /\ UNCHANGED <<latest, report, row, job, work, counters>>

With(d, u, f) == IF f = "index" THEN [d EXCEPT !.index = u] ELSE [d EXCEPT !.data = @ \cup {u}]

(* WritePlaywrightFile: files are written side by side, onto what is       *)
(* there.                                                                  *)
WriteFile(u, f) ==
    /\ upload[u].at = "write" /\ f \in upload[u].todo
    /\ LET n == upload[u].to IN
       IF n = 0
       THEN latest' = With(latest, u, f) /\ UNCHANGED report
       ELSE report' = [report EXCEPT ![n] = With(@, u, f)] /\ UNCHANGED latest
    /\ upload' = [upload EXCEPT ![u].todo = @ \ {f}]
    /\ UNCHANGED <<row, job, work, counters>>

(* A write fails, or the client goes: what was written stays. *)
WriteFails(u) ==
    /\ upload[u].at = "write" /\ "write" \in Faults /\ upload[u].todo # {}
    /\ upload' = [upload EXCEPT ![u] = [at |-> "refused"]]
    /\ UNCHANGED <<latest, report, row, job, work, counters>>

(* SubmitPlaywright: an upload that names its CI run queues a job, or is   *)
(* accepted without one.                                                   *)
SubmitPlaywright(u) ==
    \/ job' = [job EXCEPT ![u].state = IF u \in Jobs THEN "available" ELSE @]
    \/ "insert" \in Faults /\ UNCHANGED job

(* A numbered upload marks the build, if it is still there; a staged one   *)
(* may queue a job.                                                        *)
Finish(u) ==
    /\ upload[u].at = "write" /\ upload[u].todo = {}
    /\ upload' = [upload EXCEPT ![u] = [at |-> "done"]]
    /\ LET n == upload[u].to IN
       IF n # 0
       THEN /\ \/ row' = [row EXCEPT ![n].flag = row[n].there]
               \/ "flag" \in Faults /\ UNCHANGED row
            /\ UNCHANGED job
       ELSE SubmitPlaywright(u) /\ UNCHANGED row
    /\ UNCHANGED <<latest, report, work, counters>>

Upload == \E u \in Uploads : \/ Begin(u) \/ WriteFails(u) \/ Finish(u)
                             \/ \E f \in Files : WriteFile(u, f)

-----------------------------------------------------------------------------
(* Work under the lock. *)

(* ReserveBuild: the highest number there is, and one. *)
NextNumber == 1 + Max({0} \cup {n \in Numbers : row[n].there})

Reserve(by) ==
    /\ work = NoWork /\ NextNumber \in Numbers
    /\ row' = [row EXCEPT ![NextNumber] = [NoRow EXCEPT !.there = TRUE, !.by = by]]
    /\ work' = [by |-> by, number |-> NextNumber, parsed |-> Nobody, listed |-> {}, todo |-> {},
                at |-> IF by = Allure THEN "list" ELSE "read"]

(* A worker takes the job of an upload: lock, then reservation. *)
StartIngest(u) ==
    /\ job[u].state = "available"
    /\ Reserve(u)
    /\ job' = [job EXCEPT ![u].state = "running", ![u].attempt = @ + 1]
    /\ UNCHANGED <<latest, report, upload, counters>>

(* A generation from Allure results that has published its report. *)
StartGeneration ==
    /\ generations < MaxGenerations
    /\ Reserve(Allure)
    /\ generations' = generations + 1
    /\ UNCHANGED <<latest, report, upload, job, deletions, crashed>>

(* What River makes of a failed attempt. *)
Failed(u) ==
    job' = [job EXCEPT ![u].state = IF @ = "running" /\ job[u].attempt < MaxAttempts
                                    THEN "available" ELSE "discarded"]

(* An ingestion that fails drops its row; a generation goes on without the *)
(* Playwright report, and leaves staging as it is.                         *)
GiveUp ==
    /\ IF work.by = Allure
       THEN UNCHANGED <<row, job>>
       ELSE row' = [row EXCEPT ![work.number] = NoRow] /\ Failed(work.by)
    /\ work' = NoWork

(* ReadPlaywrightFile and the parsers: the results of the build are those  *)
(* of the index that is staged now. Without an index there are none.       *)
ReadIndex ==
    /\ work # NoWork /\ work.at = "read"
    /\ \/ /\ latest.index # Nobody
          /\ work' = [work EXCEPT !.at = "list", !.parsed = latest.index]
          /\ UNCHANGED <<row, job>>
       \/ /\ latest.index = Nobody \/ "read" \in Faults
          /\ GiveUp
    /\ UNCHANGED <<latest, report, upload, counters>>

(* CopyPlaywrightLatestToBuild: what is there to be copied. *)
ListStaged ==
    /\ work # NoWork /\ work.at = "list"
    /\ work' = [work EXCEPT !.at = "copy", !.listed = latest.data,
                            !.todo = (IF latest.index = Nobody THEN {} ELSE {"index"})
                                     \cup (IF latest.data = {} THEN {} ELSE {"data"})]
    /\ UNCHANGED <<latest, report, row, upload, job, counters>>

(* A file is copied as it is when its turn comes. *)
CopyFile(f) ==
    /\ work # NoWork /\ work.at = "copy" /\ f \in work.todo
    /\ LET n == work.number IN
       \E data \in IF f = "index" THEN {{}} ELSE {work.listed, latest.data} :
          report' = [report EXCEPT ![n].data = @ \cup data,
                                   ![n].index = IF f = "index" THEN latest.index ELSE @]
    /\ work' = [work EXCEPT !.todo = @ \ {f}]
    /\ UNCHANGED <<latest, row, upload, job, counters>>

(* Mutant: a copy that fails is logged, and the work goes on. *)
CopyErrorLogged ==
    /\ work # NoWork /\ work.at = "copy" /\ work.todo # {} /\ "copy" \in Faults
    /\ work' = [work EXCEPT !.todo = {}]
    /\ UNCHANGED <<latest, report, row, upload, job, counters>>

CopyFails ==
    /\ work # NoWork /\ work.at = "copy" /\ work.todo # {} /\ "copy" \in Faults
    /\ GiveUp
    /\ UNCHANGED <<latest, report, upload, counters>>

(* Mutant: a generation takes every build to have a report. *)
CopyDoneUnchecked ==
    /\ work # NoWork /\ work.at = "copy" /\ work.todo = {}
    /\ work' = [work EXCEPT !.at = "flag"]
    /\ UNCHANGED <<latest, report, row, upload, job, counters>>

(* A generation looks whether the build has an index now; it stops also    *)
(* when it cannot tell.                                                    *)
CopyDone ==
    /\ work # NoWork /\ work.at = "copy" /\ work.todo = {}
    /\ \/ work' = IF work.by = Allure /\ report[work.number].index = Nobody
                  THEN NoWork ELSE [work EXCEPT !.at = "flag"]
       \/ work.by = Allure /\ "exists" \in Faults /\ work' = NoWork
    /\ UNCHANGED <<latest, report, row, upload, job, counters>>

(* SetHasPlaywrightReport and the results, each logged if it fails. *)
SetFlag ==
    /\ work # NoWork /\ work.at = "flag"
    /\ LET n == work.number IN
       \/ row' = [row EXCEPT ![n] = IF @.there THEN [@ EXCEPT !.flag = TRUE, !.parsed = work.parsed] ELSE @]
       \/ "flag" \in Faults /\ UNCHANGED row
    /\ work' = [work EXCEPT !.at = "clean"]
    /\ UNCHANGED <<latest, report, upload, job, counters>>

(* Everything in the directory goes, and it is made again. *)
CleanPlaywrightLatest == Empty

(* CleanPlaywrightLatest is logged if it fails; the work is done. *)
Clean ==
    /\ work # NoWork /\ work.at = "clean"
    /\ \/ latest' = CleanPlaywrightLatest
       \/ "clean" \in Faults /\ UNCHANGED latest
    /\ IF work.by = Allure
       THEN UNCHANGED job
       ELSE job' = [job EXCEPT ![work.by].state = "completed"]
    /\ work' = NoWork
    /\ UNCHANGED <<report, row, upload, counters>>

(* The worker's pod dies: the lock goes with its session, the row stays,   *)
(* and the job is given to another worker.                                 *)
Crash ==
    /\ work # NoWork /\ crashed < Crashes
    /\ IF work.by = Allure THEN UNCHANGED job ELSE Failed(work.by)
    /\ work' = NoWork
    /\ crashed' = crashed + 1
    /\ UNCHANGED <<latest, report, row, upload, generations, deletions>>

Work ==
    \/ \E u \in Uploads : StartIngest(u)
    \/ StartGeneration
    \/ ReadIndex \/ ListStaged \/ CopyFails \/ CopyDone \/ SetFlag \/ Clean \/ Crash
    \/ \E f \in Files : CopyFile(f)

-----------------------------------------------------------------------------
(* Deletion of builds, of one or of all: the rows, and the directories of  *)
(* Allure reports, but none of playwright-reports.                         *)
DeleteBuilds ==
    /\ deletions < MaxDeletions
    /\ \E gone \in {{n} : n \in {i \in Numbers : row[i].there}}
                   \cup {{i \in Numbers : row[i].there}} :
          gone # {} /\ row' = [n \in Numbers |-> IF n \in gone THEN NoRow ELSE row[n]]
    /\ deletions' = deletions + 1
    /\ UNCHANGED <<latest, report, upload, job, work, generations, crashed>>

Next == Upload \/ Work \/ DeleteBuilds

Spec == Init /\ [][Next]_vars

-----------------------------------------------------------------------------
(* A build that is shown with a Playwright report has one to show: its     *)
(* directory has an index, whoever uploads, deletes or dies meanwhile.     *)
FlagMeansReport == \A n \in Numbers : row[n].flag => report[n].index # Nobody

(* Staging is emptied only of what has been copied: the data of an upload  *)
(* that had been written when the copy began is then in the directory of   *)
(* the build, and so is an index.                                          *)
CleanedIsCopied ==
    [][latest' = Empty /\ latest # Empty
        => /\ work.listed \subseteq report[work.number].data
           /\ report[work.number].index # Nobody]_vars

(* "each playwright-reports/{N}/ is a complete, self-contained HTML        *)
(* report": its files are those of the archive its index came with.        *)
SelfContained ==
    \A n \in Numbers : row[n].flag => report[n].data = {report[n].index}

(* An upload that names its CI run "creates a proper build with test       *)
(* results and CI context": those of its own archive.                      *)
OwnResults ==
    \A n \in Numbers : row[n].by \in Uploads /\ row[n].flag => row[n].parsed = row[n].by

(* "if one was uploaded": a build made from Allure results is paired with  *)
(* a report that was staged, not with one of a build deleted before.       *)
PairedWithStaged ==
    [][\A n \in Numbers : work # NoWork /\ work.at = "flag" /\ work.by = Allure /\ work.number = n
                          /\ row'[n].flag /\ ~row[n].flag
          => latest # Empty]_vars
=============================================================================
