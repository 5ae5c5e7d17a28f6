----------------------------- MODULE Pipelines -----------------------------
(***************************************************************************)
(* Runs and where their failures come from. The projects of one group, its *)
(* suites, upload builds; those with one pipeline id, or one commit where  *)
(* they have none, are a run. The page of runs and the tool of agents ask  *)
(* the database several times for one answer, while builds are described,  *)
(* pruned, and branches become the default.                                *)
(*                                                                         *)
(* Builds are numbered in the order of their reservation, which is that of *)
(* created_at and, within a suite, of build_order. What an uploader sent   *)
(* never changes; a build shows the part of it that was written.           *)
(***************************************************************************)
EXTENDS Integers, FiniteSets, Sequences, SequencesExt, FiniteSetsExt

CONSTANTS
    Suites, Branches,
    Runs,        \* run keys: pipeline ids, and commits of builds without one
    PipelineIds,
    Tests,       \* history ids
    NameOf,      \* [Tests -> full names]; parameterized tests share one
    Uploads,     \* what uploaders send: subset of Build
    EnvTests,    \* tests whose fingerprint is in category infrastructure
    Filters,     \* branches the page may be filtered by, or Branchless
    Faults,      \* statements that may fail: of Pieces, "awaiting", "origins", "tags"
    MaxBuilds, MaxDeletes, MaxDefaults,    \* bounds
    MaxLost,     \* bound: builds of which a statement fails
    MaxOverlap,  \* bound: statements of others between those of one request
    PerPage,     \* runs of a page
    RunCap,      \* failures of a run of which origins are counted, 500
    ToolCap,     \* failures whose origins the tool asks for, 5000
    Shards,      \* builds the tool examines, 50
    PerBuild     \* failing tests of a build the tool lists

Branchless == "no branch"
NoRun    == "no run"
Pieces    == {"branch", "rows", "stats", "run"}

Outcomes == UNION {[T -> {"passed", "failed", "skipped"}] : T \in SUBSET Tests}
Build    == [suite : Suites, branch : Branches \cup {Branchless}, run : Runs \cup {NoRun},
             outcome : Outcomes, source : {"allure", "playwright"}]

Assumption ==
    /\ PipelineIds \subseteq Runs /\ NoRun \notin Runs /\ Branchless \notin Branches
    /\ Uploads \subseteq Build /\ IsFiniteSet(Tests) /\ EnvTests \subseteq Tests
    /\ Filters \subseteq Branches \cup {Branchless} /\ Faults \subseteq Pieces \cup {"awaiting", "origins", "tags"}
    /\ {MaxBuilds, PerPage, RunCap, ToolCap, Shards, PerBuild} \subseteq Nat \ {0}
    /\ {MaxDeletes, MaxDefaults, MaxLost, MaxOverlap} \subseteq Nat

VARIABLES
    sent,       \* builds in the order of their reservation
    written,    \* [build -> parts that were written]
    todo,       \* [build -> parts that are still to be written, in order]
    gone,       \* builds that were deleted
    default,    \* [suite -> its default branch]
    defaults,   \* changes of default branches by people, for the bound
    page,       \* a request for a page of runs
    tool,       \* a call of diagnose_pipeline; both only read, one stands for all
    overlap     \* statements of others since the request began, for the bound

tables   == <<sent, written, todo, gone, default, defaults>>
requests == <<page, tool>>
vars     == <<tables, requests, overlap>>

Builds == 1 .. Len(sent)
Here   == Builds \ gone

Failing(b) == {t \in DOMAIN sent[b].outcome : sent[b].outcome[t] = "failed"}

Quiet == [at |-> "idle"]

TypeOK ==
    /\ sent \in Seq(Build) /\ Len(sent) <= MaxBuilds
    /\ written \in [Builds -> SUBSET Pieces] /\ todo \in [Builds -> Seq(Pieces)]
    /\ gone \subseteq Builds
    /\ default \in [Suites -> Branches \cup {Branchless}]
    /\ page.at \in {"idle", "awaiting", "origins", "answered"}
    /\ tool.at \in {"idle", "tags", "tests", "answered"}

Init ==
    /\ sent = << >> /\ written = << >> /\ todo = << >> /\ gone = {}
    /\ default = [s \in Suites |-> Branchless] /\ defaults = 0
    /\ page = Quiet /\ tool = Quiet /\ overlap = 0

-----------------------------------------------------------------------------
(* Others' statements, as many as the bound allows within a request. *)
Elsewhere ==
    IF page.at = "idle" /\ tool.at = "idle" THEN UNCHANGED overlap
    ELSE overlap < MaxOverlap /\ overlap' = overlap + 1

(* Builds. One generation of a suite at a time: the advisory lock. *)
Order(source) == IF source = "allure" THEN <<"branch", "rows", "stats", "run">>
                 ELSE <<"stats", "run", "branch", "rows">>

Reserve(b) ==
    /\ Len(sent) < MaxBuilds
    /\ \A c \in Here : sent[c].suite = b.suite => todo[c] = << >>
    /\ sent' = Append(sent, b)
    /\ written' = Append(written, {})
    /\ todo' = Append(todo, Order(b.source))
    /\ Elsewhere
    /\ UNCHANGED <<gone, default, defaults, requests>>

Done(b) == b \in Here /\ todo[b] = << >>
Lost    == {b \in Builds : written[b] \cup ToSet(todo[b]) # Pieces}

(* One statement of storeAndPruneBuild; an error is logged and the next    *)
(* statement made. The first branch of a suite is its default.             *)
Describe(b, fails) ==
    /\ b \in Here /\ todo[b] # << >>
    /\ LET part == Head(todo[b])
       IN  /\ fails => part \in Faults /\ Cardinality(Lost \cup {b}) <= MaxLost
           /\ written' = [written EXCEPT ![b] = @ \cup IF fails THEN {} ELSE {part}]
           /\ default' = IF part = "branch" /\ default[sent[b].suite] = Branchless
                         THEN [default EXCEPT ![sent[b].suite] = sent[b].branch]
                         ELSE default
    /\ todo' = [todo EXCEPT ![b] = Tail(@)]
    /\ Elsewhere
    /\ UNCHANGED <<sent, gone, defaults, requests>>

(* Retention or an administrator. A generation that is rolled back leaves  *)
(* no trace here: until it has published nothing of the build is written.  *)
Delete(b) ==
    /\ Done(b) /\ Cardinality(gone) < MaxDeletes
    /\ gone' = gone \cup {b}
    /\ Elsewhere
    /\ UNCHANGED <<sent, written, todo, default, defaults, requests>>

SetDefault(s, br) ==
    /\ defaults < MaxDefaults /\ default[s] # Branchless /\ br # default[s]
    /\ \E b \in Builds : sent[b].suite = s /\ sent[b].branch = br
    /\ default' = [default EXCEPT ![s] = br] /\ defaults' = defaults + 1
    /\ Elsewhere
    /\ UNCHANGED <<sent, written, todo, gone, requests>>

-----------------------------------------------------------------------------
(* What the columns of a build say. *)
RunOf(b)    == IF "run" \in written[b] THEN sent[b].run ELSE NoRun
BranchId(b) == IF "branch" \in written[b] THEN sent[b].branch ELSE Branchless
CiBranch(b) == IF "run" \in written[b] THEN sent[b].branch ELSE Branchless
HasStats(b) == "stats" \in written[b]
RowsOf(b)   == IF "rows" \in written[b] THEN sent[b].outcome ELSE << >>

BuildsOf(k)      == {b \in Here : RunOf(b) = k}
OnDefault(b)     == BranchId(b) # Branchless /\ BranchId(b) = default[sent[b].suite]
Latest(B)        == CHOOSE b \in B : \A c \in B : c <= b
SuitesIn(B)      == {sent[b].suite : b \in B}
HasFailed(b, t)  == t \in DOMAIN RowsOf(b) /\ RowsOf(b)[t] = "failed"
FailingRows(B)   == {r \in B \X Tests : HasFailed(r[1], r[2])}

(* run_baselines: the candidates for the anchor of a build of run k. *)
Older(b, k) == {c \in Here : sent[c].suite = sent[b].suite /\ c < b /\ OnDefault(c) /\ RunOf(c) # k}

(* The anchor, or all builds of its pipeline on its branch. *)
Baseline(b, k) ==
    IF Older(b, k) = {} THEN {}
    ELSE LET a == Latest(Older(b, k))
         IN  IF RunOf(a) \notin PipelineIds THEN {a}
             ELSE {c \in Here : /\ sent[c].suite = sent[a].suite
                                /\ BranchId(c) = BranchId(a) /\ RunOf(c) = RunOf(a)}

(* Mutant: that the test ran is enough. *)
HadRow(B, t, status) == \E c \in B : t \in DOMAIN RowsOf(c)

Had(B, t, status) == \E c \in B : t \in DOMAIN RowsOf(c) /\ RowsOf(c)[t] = status

Origin(b, t, k) ==
    LET base == Baseline(b, k)
    IN  IF Had(base, t, "failed") THEN "inherited"
        ELSE IF Had(base, t, "passed") THEN "new" ELSE "unknown"

(* ExpectedSuites: those of the run before, on its branch if there is one, *)
(* else on default branches.                                               *)
Previous(k) ==
    LET own  == BuildsOf(k)
        br   == CiBranch(Latest(own))
        cand == {c \in Here : RunOf(c) # NoRun /\ \A b \in own : c < b}
        same == {c \in cand : br # Branchless /\ CiBranch(c) = br}
        main == {c \in cand : OnDefault(c)}
    IN  IF own = {} \/ same \cup main = {} THEN NoRun
        ELSE RunOf(Latest(IF same # {} THEN same ELSE main))

Expected(k) == IF Previous(k) = NoRun THEN {} ELSE SuitesIn(BuildsOf(Previous(k)))

-----------------------------------------------------------------------------
(* A page of runs. *)
Newest(B, k) == Latest({b \in B : RunOf(b) = k})

FirstRuns(B) ==
    LET keys == {RunOf(b) : b \in B}
    IN  {k \in keys : Cardinality({l \in keys : Newest(B, l) > Newest(B, k)}) < PerPage}

(* Requests for a page of the group's runs, perhaps of one branch, and for *)
(* one run, of which the page counts the origins from GetRunFailures.      *)
(* Builds up to old are past the awaiting window of half an hour; joined   *)
(* is what had joined the runs, listed or not.                             *)
Answering(f, rows, keys, old) ==
    [at |-> IF keys = {} THEN "answered" ELSE "awaiting",
     filter |-> f, rows |-> rows, keys |-> keys, next |-> keys, old |-> old,
     joined |-> {b \in Here : RunOf(b) \in keys},
     awaiting |-> [k \in keys |-> {}], origins |-> << >>, fresh |-> << >>]

ListRuns(f) ==
    /\ page.at = "idle" /\ tool.at = "idle"
    /\ LET match == {b \in Here : RunOf(b) # NoRun /\ (f = Branchless \/ CiBranch(b) = f)}
           keys  == FirstRuns(match)
       IN  \E old \in 0 .. Len(sent) :
              page' = Answering(f, {b \in match : RunOf(b) \in keys}, keys, old)
    /\ UNCHANGED <<tables, tool, overlap>>

GetRun(k) ==
    /\ page.at = "idle" /\ tool.at = "idle" /\ BuildsOf(k) # {}
    /\ \E old \in 0 .. Len(sent) : page' = Answering(Branchless, BuildsOf(k), {k}, old)
    /\ UNCHANGED <<tables, tool, overlap>>

RowsOn(k)  == {b \in page.rows : sent[b].run = k}
Recent(k)  == \E b \in RowsOn(k) : b > page.old

(* The runs are gone through as they were listed, the newest first. *)
Turn(k) == k \in page.next /\ \A l \in page.next : Latest(RowsOn(l)) <= Latest(RowsOn(k))

(* markAwaitingSuites, one run; an error leaves the run as it is. *)
Await(k, fails) ==
    /\ page.at = "awaiting" /\ Turn(k)
    /\ fails => "awaiting" \in Faults
    /\ page' = [page EXCEPT !.at = IF page.next = {k} THEN "origins" ELSE @,
                            !.next = IF @ = {k} THEN page.keys ELSE @ \ {k},
                            !.awaiting[k] = IF Recent(k) /\ ~fails
                                            THEN Expected(k) \ SuitesIn(RowsOn(k)) ELSE {}]
    /\ UNCHANGED <<tables, tool, overlap>>

(* The suites of a run as they were listed: the counts of their builds add *)
(* up, and a build whose counts were not stored adds nothing.              *)
Counted(k, s) == {b \in RowsOn(k) : sent[b].suite = s /\ HasStats(b)}
Failed(k, s)  == \E b \in Counted(k, s) : Failing(b) # {}
Skipped(k, s) == /\ Counted(k, s) # {}
                 /\ \A b \in Counted(k, s), t \in Tests :
                        t \in DOMAIN sent[b].outcome => sent[b].outcome[t] = "skipped"
Unread(k, s)  == Counted(k, s) = {}

(* countRunOrigins: copies of a test, which share suite and full name. *)
CopiesOf(rows)  == {{r \in rows : sent[r[1]].suite = s /\ NameOf[r[2]] = n} :
                       s \in Suites, n \in {NameOf[t] : t \in Tests}} \ {{}}
Inherits(c, k)  == \E r \in c : r[2] \in EnvTests \/ Origin(r[1], r[2], k) = "inherited"
IsNew(c, k)     == ~Inherits(c, k) /\ \E r \in c : Origin(r[1], r[2], k) = "new"

Counts(rows, k) ==
    LET tests == CopiesOf(rows)
        new   == {c \in tests : IsNew(c, k)}
        inherited == {c \in tests : Inherits(c, k)}
    IN  [new |-> Cardinality(new), inherited |-> Cardinality(inherited),
         unknown |-> Cardinality(tests) - Cardinality(new) - Cardinality(inherited)]

(* What is truly new in a run, for comparison: by what its described       *)
(* builds sent, whatever the tables say.                                   *)
TrueBaseline(b) ==
    LET older == {c \in Builds : /\ Done(c) /\ c < b /\ sent[c].suite = sent[b].suite
                                 /\ sent[c].branch # Branchless /\ sent[c].branch = default[sent[c].suite]
                                 /\ sent[c].run # sent[b].run}
        a == Latest(older)
    IN  IF older = {} THEN {}
        ELSE {a} \cup {c \in Builds : /\ Done(c) /\ sent[a].run \in PipelineIds /\ sent[c].run = sent[a].run
                                     /\ sent[c].suite = sent[a].suite /\ sent[c].branch = sent[a].branch}
Held(B, t, status) == \E c \in B : t \in DOMAIN sent[c].outcome /\ sent[c].outcome[t] = status
FreshIn(k, B) ==
    LET failures == UNION {{<<b, t>> : t \in Failing(b)} : b \in {c \in B : sent[c].run = k}}
        old_(r)  == r[2] \in EnvTests \/ Held(TrueBaseline(r[1]), r[2], "failed")
    IN  {c \in CopiesOf(failures) : /\ \A r \in c : ~old_(r)
                                    /\ \E r \in c : Held(TrueBaseline(r[1]), r[2], "passed")}

Put(f, k, v) == [l \in DOMAIN f \cup {k} |-> IF l = k THEN v ELSE f[l]]

(* markFailureOrigins, one run. *)
CountOrigins(k, fails) ==
    /\ page.at = "origins" /\ Turn(k)
    /\ fails => "origins" \in Faults
    /\ LET rows  == FailingRows(BuildsOf(k))
           said  == ~fails /\ (\E s \in Suites : Failed(k, s)) /\ Cardinality(rows) <= RunCap
           new   == {c \in FreshIn(k, {b \in Builds : Done(b)}) : \E r \in c : r[1] \in page.joined}
       IN  page' = [page EXCEPT !.at = IF page.next = {k} THEN "answered" ELSE @,
                                !.next = @ \ {k},
                                !.origins = IF said THEN Put(@, k, Counts(rows, k)) ELSE @,
                                !.fresh = IF said THEN Put(@, k, new) ELSE @]
    /\ UNCHANGED <<tables, tool, overlap>>

NextPage ==
    /\ page.at = "answered" /\ page' = Quiet /\ overlap' = 0
    /\ UNCHANGED <<tables, tool>>

(* What the page shows. *)
FailingSuite(k, s) == Failed(k, s) \/ Unread(k, s)
Verdict(k) ==
    LET suites == SuitesIn(RowsOn(k))
    IN  IF page.awaiting[k] # {} THEN "awaiting"
        ELSE IF \E s \in suites : FailingSuite(k, s) THEN "failed"
        ELSE IF \A s \in suites : Skipped(k, s) THEN "skipped" ELSE "passed"

NoneNew(k) ==
    /\ k \in DOMAIN page.origins
    /\ page.origins[k].new = 0 /\ page.origins[k].unknown = 0 /\ page.origins[k].inherited > 0
    /\ page.awaiting[k] = {} /\ \A s \in SuitesIn(RowsOn(k)) : ~Unread(k, s)

-----------------------------------------------------------------------------
(* diagnose_pipeline: the builds one suite uploaded under a pipeline id,   *)
(* the origins of their failures, then each build's failing tests.         *)
Limited(rows, n) ==
    {T \in SUBSET rows : /\ Cardinality(T) = IF Cardinality(rows) < n THEN Cardinality(rows) ELSE n
                         /\ \A r \in T, q \in rows : q[1] < r[1] => q \in T}

FirstBuilds(B) == {b \in B : Cardinality({c \in B : c < b}) < Shards}

ListBuilds(s, k) ==
    /\ page.at = "idle" /\ tool.at = "idle" /\ k \in PipelineIds
    /\ LET all == {b \in BuildsOf(k) : sent[b].suite = s}
       IN  /\ all # {}
           /\ tool' = [at |-> "tags", suite |-> s, run |-> k, tags |-> {}, listed |-> {}, ready |-> {},
                       left |-> FirstBuilds(all),
                       warned |-> FALSE]
    /\ UNCHANGED <<tables, page, overlap>>

(* Mutant: one row less is asked for, and a full list never looks cut. *)
OnlyIfMore(rows) == FALSE

(* One row more than counted is asked for. *)
IsCut(rows) == Cardinality(rows) > ToolCap

TagFailures(fails) ==
    /\ tool.at = "tags"
    /\ fails => "tags" \in Faults
    /\ LET all  == {b \in BuildsOf(tool.run) : sent[b].suite = tool.suite}
           rows == FailingRows(all)
       IN  \E some \in IF fails THEN {{}} ELSE Limited(rows, ToolCap) :
              tool' = [tool EXCEPT !.at = "tests", !.tags = some,
                                   !.warned = fails \/ IsCut(rows),
                                   !.ready = {b \in all : Done(b)}]
    /\ UNCHANGED <<tables, page, overlap>>

(* ListFailedByBuild and dedupeByFullName, build for build: one row of a   *)
(* name, PerBuild of them.                                                 *)
ListTests(b) ==
    /\ tool.at = "tests" /\ b \in tool.left /\ \A c \in tool.left : b <= c
    /\ LET rows  == FailingRows({b} \cap Here)
           names == {NameOf[r[2]] : r \in rows}
       IN  \E some \in SUBSET rows :
              /\ \A q, r \in some : NameOf[q[2]] = NameOf[r[2]] => q = r
              /\ Cardinality(some) = IF Cardinality(names) < PerBuild THEN Cardinality(names) ELSE PerBuild
              /\ tool' = [tool EXCEPT !.at = IF tool.left = {b} THEN "answered" ELSE @,
                                   !.left = @ \ {b}, !.listed = @ \cup some]
    /\ UNCHANGED <<tables, page, overlap>>

NextTool ==
    /\ tool.at = "answered" /\ tool' = Quiet /\ overlap' = 0
    /\ UNCHANGED <<tables, page>>

Next ==
    \/ \E b \in Uploads : Reserve(b)
    \/ \E b \in Builds, fails \in BOOLEAN : Describe(b, fails)
    \/ \E b \in Builds : Delete(b)
    \/ \E s \in Suites, br \in Branches : SetDefault(s, br)
    \/ \E f \in Filters : ListRuns(f)
    \/ \E k \in Runs : GetRun(k)
    \/ \E k \in Runs, fails \in BOOLEAN : Await(k, fails) \/ CountOrigins(k, fails)
    \/ \E fails \in BOOLEAN : TagFailures(fails)
    \/ NextPage
    \/ \E s \in Suites, k \in Runs : ListBuilds(s, k)
    \/ \E b \in Builds : ListTests(b)
    \/ NextTool

Spec == Init /\ [][Next]_vars

-----------------------------------------------------------------------------
Answered == page.at = "answered"
Listed(k) == {b \in page.joined : sent[b].run = k /\ (page.filter = Branchless \/ sent[b].branch = page.filter)}

(* A run shown as passed has no failing test in any build that had joined  *)
(* it, on the branch asked for, and whose counts could be stored.          *)
PassedIsClean ==
    Answered => \A k \in page.keys : Verdict(k) = "passed" =>
        \A b \in Listed(k) : HasStats(b) => Failing(b) = {}

(* "none new" is said of a run only when each of its failing tests was     *)
(* failing before it: the builds of the run, its shards and first attempts *)
(* are never what it is compared with, and nothing that was cut, unread or *)
(* awaited is passed over.                                                 *)
NoneNewIsTrue ==
    Answered => \A k \in page.keys : NoneNew(k) => page.fresh[k] = {}

PageIsBacked == PassedIsClean /\ NoneNewIsTrue

(* diagnose_pipeline says of every test it lists where its failure comes   *)
(* from, or warns: what is listed last was there when origins were read.   *)
TaggedUnlessWarned ==
    tool.at = "answered" /\ ~tool.warned =>
        \A r \in tool.listed : r[1] \in tool.ready => r \in tool.tags

-----------------------------------------------------------------------------
(* What documentation and comments promise and the code does not keep. *)

(* "one failing shard is enough to keep the whole suite out of the passed  *)
(* bucket": not if its counts could not be stored and another shard's      *)
(* were.                                                                   *)
MergedSuiteFails ==
    Answered => \A k \in page.keys : Verdict(k) = "passed" =>
        \A b \in Listed(k) : Failing(b) = {}

(* "counts the suites that have not uploaded yet": filtered by a branch,   *)
(* those that uploaded under the other are counted.                        *)
AwaitedHasNotUploaded ==
    Answered => \A k \in page.keys : page.awaiting[k] \cap SuitesIn(page.joined) = {}

(* "Empty only when the tags could not be read or this test lies beyond    *)
(* the cap (both say so in Warnings)": a build that Playwright's ingestion *)
(* still describes gets its rows after it joined the run.                  *)
TaggedOrWarned ==
    tool.at = "answered" /\ ~tool.warned => tool.listed \subseteq tool.tags

(* "every failing test was placed against the default branch": of two      *)
(* parameterized tests of one name, one new, one not, neither is called    *)
(* new.                                                                    *)
EachTestPlaced ==
    Answered => \A k \in page.keys : NoneNew(k) =>
        \A b \in page.joined : Done(b) /\ sent[b].run = k =>
            \A t \in Failing(b) \ EnvTests : Origin(b, t, k) # "new"
=============================================================================
