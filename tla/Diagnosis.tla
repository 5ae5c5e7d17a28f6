----------------------------- MODULE Diagnosis -----------------------------
(***************************************************************************)
(* The diagnose_failure tool of the MCP server. A build's failing tests    *)
(* are listed, duplicate rows of one test are collapsed, each test is      *)
(* looked up in the history of its branch, tests that fail alike form a    *)
(* cluster, and the largest cluster decides what the build is said to      *)
(* suffer from, with a confidence.                                         *)
(*                                                                         *)
(* The tool only reads, one statement after the other and in no            *)
(* transaction, while builds are ingested; builds are not deleted here. A  *)
(* test fails the same way whenever it fails. What the regular expressions *)
(* make of an error message is given by the constants.                     *)
(***************************************************************************)
EXTENDS Integers, FiniteSets, Sequences, SequencesExt

CONSTANTS
    Hists,          \* history ids, each a row per build that ran the test
    FullName,       \* [Hists -> full names]
    Colon,          \* the history ids of the scheme that has a ":"
    Ways,           \* how tests may fail: a set of [Hists -> Shape]
    ServerErrors,   \* the status patterns with a code of 500 or more
    Asserts,        \* messages that read as a failed assertion,
    Locates,        \* as an element that was not found,
    Ruled,          \* and those an active known-issue rule matches
    Branches,       \* of builds; NoBranch where CI told none
    MaxCommits,     \* bound: commits, numbered in the order of their first build
    Commitless,     \* builds may come without a commit
    Depth,          \* 20: builds of history that are looked at
    Caps,           \* values of max_tests, the tests that are examined
    MaxBuilds,      \* bound: builds
    Summaries,      \* values of summary_only
    Faults          \* what may fail: "steps", "history", "lastgood", "count"

NoPattern == "no status"

Assumption ==
    /\ IsFiniteSet(Hists) /\ Colon \subseteq Hists
    /\ FullName \in [Hists -> {FullName[h] : h \in Hists}]
    /\ {Depth, MaxBuilds, MaxCommits} \cup Caps \subseteq Nat \ {0}
    /\ Summaries \subseteq BOOLEAN /\ NoPattern \notin ServerErrors
    /\ Faults \subseteq {"steps", "history", "lastgood", "count"}

VARIABLES
    way,       \* how the tests of the project fail: one of Ways
    tested,    \* builds in the order of their numbers: branch, commit, rows
    req        \* the call: label, input and what it has gathered

vars == <<way, tested, req>>

NoBranch  == ""
NoCommit  == 0
NoText    == ""
Idle      == [at |-> "idle"]

(* A shape is the row's own message (said: there is one), the message and  *)
(* name of the deepest failed step, its phase and status pattern, and what *)
(* else the verdict looks at.                                              *)
Shape == [said : BOOLEAN, text : STRING, pattern : STRING, phase : STRING,
          step : STRING, flaky : BOOLEAN, linked : BOOLEAN]

Orders  == DOMAIN tested
Ran(h)  == {o \in Orders : h \in DOMAIN tested[o].rows}
Passed(h) == {o \in Ran(h) : tested[o].rows[h] = "passed"}

(* The builds a comparison with build b may use. *)
SameLine(b) == {o \in Orders : tested[b].branch \in {NoBranch, tested[o].branch}}

TypeOK ==
    /\ way \in Ways /\ Ways \subseteq [Hists -> Shape]
    /\ \A o \in Orders : /\ tested[o].branch \in Branches
                         /\ tested[o].commit \in 0 .. MaxCommits
                         /\ DOMAIN tested[o].rows \subseteq Hists
    /\ req.at \in {"idle", "tests", "count", "answered"}
    /\ req.at # "idle" => req.build \in Orders

Init ==
    /\ way \in Ways
    /\ tested = << >>
    /\ req = Idle

(* A generation stores a build: every name ran, all its rows alike, or did *)
(* not run. Nothing looks at builds that come after the answer.            *)
Ingest(branch, commit, failed, absent) ==
    /\ Len(tested) < MaxBuilds /\ req.at # "answered"
    /\ commit = NoCommit => Commitless
    /\ commit > 1 => \E o \in Orders : tested[o].commit = commit - 1
    /\ tested' = Append(tested, [branch |-> branch, commit |-> commit,
           rows |-> [h \in {x \in Hists : FullName[x] \notin absent} |->
                        IF FullName[h] \in failed THEN "failed" ELSE "passed"]])
    /\ UNCHANGED <<way, req>>

-----------------------------------------------------------------------------
(* The rows of the build that failed. *)
Failing(b) == {h \in DOMAIN tested[b].rows : tested[b].rows[h] = "failed"}

(* ListFailedByBuild: twice as many rows as tests are to be examined, and  *)
(* two more. Rows come by duration, which may be any order.                *)
Limit(cap)    == 2 * cap + 2
Cut(s, n)     == SubSeq(s, 1, IF Len(s) > n THEN n ELSE Len(s))
Listings(b, cap) == {Cut(s, Limit(cap)) : s \in SetToSeqs(Failing(b))}

(* The rows of one name, as positions in the listing. *)
SameName(rows, i) == {j \in DOMAIN rows : FullName[rows[j]] = FullName[rows[i]]}
Said(rows, i)     == {j \in SameName(rows, i) : way[rows[j]].said}

(* preferTestResult among the rows of one name: the first that says        *)
(* something, else the first of the ":" scheme, else the first.            *)
Survivor(rows, i) ==
    LET best  == IF Said(rows, i) # {} THEN Said(rows, i) ELSE SameName(rows, i)
        first == {j \in best : rows[j] \in Colon}
    IN  Min(IF first # {} THEN first ELSE best)

(* Rows of one name are one test unless two of them say something. *)
Kept(rows) == {i \in DOMAIN rows : Cardinality(Said(rows, i)) > 1 \/ i = Survivor(rows, i)}

(* dedupeByFullName: names in the order of their first row. *)
Before(rows, i, j) ==
    LET head(k) == Min(SameName(rows, k))
    IN  head(i) < head(j) \/ (head(i) = head(j) /\ i < j)

Turn(rows, i) == Cardinality({j \in Kept(rows) : Before(rows, j, i)}) + 1

Deduped(rows) ==
    [k \in 1 .. Cardinality(Kept(rows)) |-> rows[CHOOSE i \in Kept(rows) : Turn(rows, i) = k]]

-----------------------------------------------------------------------------
(* The lookups of one test. *)

(* GetTestHistory: the last builds of the branch that ran the test, from   *)
(* which diagnoseTestHistory takes out build b. The window is not bounded  *)
(* by b.                                                                   *)
History(h, b) ==
    LET all == Ran(h) \cap SameLine(b)
    IN  {o \in all : Cardinality({p \in all : p > o}) < Depth} \ {b}

(* computeBuildsSincePass: all of the history when there is no pass in it. *)
SincePass(h, hist) == Cardinality({o \in hist : \A p \in hist \cap Passed(h) : p < o})

(* GetLastPassingBuild, 0 if there is none. *)
LastGood(h, b) ==
    LET good == {o \in Passed(h) \cap SameLine(b) : o < b}
    IN  IF good = {} THEN 0 ELSE CHOOSE o \in good : \A p \in good : p <= o

(* Mutant: builds that came later count. *)
SinceGoodOpen(hist, good, b) == Cardinality({o \in hist : good < o})

(* buildsSinceLastGood. *)
SinceGood(hist, good, b) == Cardinality({o \in hist : good < o /\ o < b})

(* diagnoseTest. Without its steps a test has no message and no phase of   *)
(* its own; without its history it has no predecessor.                     *)
Diagnosed(h, b, steps, hist, good) ==
    [hist  |-> h,
     text  |-> IF steps THEN way[h].text ELSE NoText,
     phase |-> IF steps THEN way[h].phase ELSE "test_body",
     step  |-> IF steps THEN way[h].step ELSE NoText,
     pattern |-> IF steps THEN way[h].pattern ELSE NoPattern,
     since |-> SincePass(h, hist),
     last  |-> IF hist = {} THEN "none" ELSE tested[Max(hist)].rows[h],
     good  |-> good,
     gap   |-> IF good = 0 THEN 0 ELSE SinceGood(hist, good, b)]

-----------------------------------------------------------------------------
(* Clusters and the verdict. A cluster is the set of the positions of its  *)
(* members.                                                                *)

(* clusterKey: with summary_only the failed steps have been left out. *)
Key(t, summary) == <<t.text, t.phase, IF summary THEN NoText ELSE t.step>>

Cluster(tests, i, summary) == {j \in DOMAIN tests : Key(tests[j], summary) = Key(tests[i], summary)}

(* clusterFailingTests: the largest first, of those the first seen. *)
Largest(tests, summary) ==
    LET size(i) == Cardinality(Cluster(tests, i, summary))
        lead == CHOOSE i \in DOMAIN tests :
                    \A j \in DOMAIN tests : size(j) < size(i) \/ (size(j) = size(i) /\ i <= j)
    IN  Cluster(tests, lead, summary)

(* lastGoodCommitRelation: the first member that has one decides. *)
Relation(tests, c, b) ==
    LET known == {i \in c : tests[i].good # 0 /\ tested[tests[i].good].commit # NoCommit}
    IN  IF tested[b].commit = NoCommit \/ known = {} THEN "unknown"
        ELSE IF tested[tests[Min(known)].good].commit = tested[b].commit THEN "same" ELSE "different"

Lead(tests, c) == tests[Min(c)]

(* Several tests died in their hooks on one endpoint that answers 5xx. *)
IsInfraEnv(tests, c, rel) ==
    /\ Lead(tests, c).pattern \in ServerErrors
    /\ \A i \in c : tests[i].pattern = Lead(tests, c).pattern
    /\ Lead(tests, c).phase = "before_hooks" /\ Cardinality(c) >= 2
    /\ rel # "different"

IsKnownIssue(tests, c) == Lead(tests, c).text \in Ruled \/ \E i \in c : way[tests[i].hist].linked

(* Mutant: one test that passed lately speaks for all. *)
SomeRegressed(tests, c, rel) ==
    /\ Lead(tests, c).phase = "test_body" /\ Lead(tests, c).text \in Asserts
    /\ \E i \in c : tests[i].since <= 1
    /\ rel # "same"

(* An assertion that held a build or two ago. *)
IsProductRegression(tests, c, rel) ==
    /\ Lead(tests, c).phase = "test_body" /\ Lead(tests, c).text \in Asserts
    /\ \A i \in c : tests[i].since <= 1
    /\ rel # "same"

IsTestBug(tests, c, rel) ==
    Lead(tests, c).phase = "test_body" /\ Lead(tests, c).text \in Locates /\ rel # "different"

IsFlaky(tests, c) ==
    \/ \E i \in c : way[tests[i].hist].flaky
    \/ \A i \in c : tests[i].last = "passed" /\ tests[i].since = 0

(* evaluateCluster: the first rule that matches. *)
Verdict(tests, c, b) ==
    LET rel == Relation(tests, c, b)
        is(v, sure) == [verdict |-> v, confidence |-> sure]
    IN  IF IsInfraEnv(tests, c, rel) THEN is("infra_env", IF rel = "same" THEN "high" ELSE "medium")
        ELSE IF IsKnownIssue(tests, c) THEN is("known_issue", "high")
        ELSE IF IsProductRegression(tests, c, rel)
             THEN is("product_regression", IF rel = "different" THEN "high" ELSE "medium")
        ELSE IF IsTestBug(tests, c, rel) THEN is("test_bug", "medium")
        ELSE IF IsFlaky(tests, c) THEN is("flaky", "medium")
        ELSE is("insufficient_evidence", "low")

Capped(v) == IF v.confidence = "high" THEN [v EXCEPT !.confidence = "medium"] ELSE v

(* evaluateBuildVerdict. *)
BuildVerdict(tests, b, summary, truncated) ==
    LET says(c) == Verdict(tests, c, b)
        largest == Largest(tests, summary)
        split == \E i \in DOMAIN tests :
                     says(Cluster(tests, i, summary)).verdict # says(largest).verdict
    IN  IF tests = << >> THEN [verdict |-> "insufficient_evidence", confidence |-> "low"]
        ELSE IF split \/ truncated THEN Capped(says(largest)) ELSE says(largest)

(* Mutant: only a full list may leave something out. *)
FullList(b, cap, tests) == Cardinality(Failing(b)) >= Limit(cap)

(* CountFailedByBuild counts names, which the tests examined are compared  *)
(* with.                                                                   *)
Truncated(b, cap, tests) == Cardinality({FullName[h] : h \in Failing(b)}) > Len(tests)

-----------------------------------------------------------------------------
(* The call. What it reads of its own build and of earlier ones does not   *)
(* change meanwhile: only the history of each test is a step of its own. A *)
(* call leaves nothing behind: there is one.                               *)

NextTest(r, todo, tests) ==
    [at |-> IF todo = << >> THEN "count" ELSE "tests", build |-> r.build,
     cap |-> r.cap, summary |-> r.summary, todo |-> todo, tests |-> tests]

Diagnose(b, cap, summary) ==
    /\ req.at = "idle"
    /\ \E rows \in Listings(b, cap) :
           req' = NextTest([build |-> b, cap |-> cap, summary |-> summary], Cut(Deduped(rows), cap), << >>)
    /\ UNCHANGED <<way, tested>>

(* A statement that fails leaves out what it was to find. *)
Examine ==
    LET h == req.todo[1]
        found(f, value, nothing) == {value} \cup {nothing : x \in Faults \cap {f}}
    IN  /\ req.at = "tests"
        /\ \E steps \in found("steps", TRUE, FALSE),
              hist  \in found("history", History(h, req.build), {}),
              good  \in found("lastgood", LastGood(h, req.build), 0) :
               req' = NextTest(req, Tail(req.todo),
                               Append(req.tests, Diagnosed(h, req.build, steps, hist, good)))
        /\ UNCHANGED <<way, tested>>

Conclude ==
    /\ req.at = "count"
    /\ \E cut \in {Truncated(req.build, req.cap, req.tests)} \cup {FALSE : f \in Faults \cap {"count"}} :
           req' = [at |-> "answered", build |-> req.build, summary |-> req.summary,
                   tests |-> req.tests, truncated |-> cut,
                   says |-> BuildVerdict(req.tests, req.build, req.summary, cut)]
    /\ UNCHANGED <<way, tested>>

Next ==
    \/ \E br \in Branches, c \in 0 .. MaxCommits, F, A \in SUBSET {FullName[h] : h \in Hists} :
           F \cap A = {} /\ Ingest(br, c, F, A)
    \/ \E b \in Orders, cap \in Caps, s \in Summaries : Diagnose(b, cap, s)
    \/ Examine \/ Conclude

Spec == Init /\ [][Next]_vars
-----------------------------------------------------------------------------
(* Every name with one failure of its own. *)
OneFailurePerName(b) ==
    \A h, i \in Failing(b) : way[h].said /\ way[i].said /\ FullName[h] = FullName[i] => h = i

Examines(b) == {FullName[req.tests[i].hist] : i \in DOMAIN req.tests}
Answered    == req.at = "answered"

(* An answer that is not marked as truncated has examined every failing    *)
(* test of the build, and a truncated one has not, although rows are       *)
(* listed up to a limit, collapsed and cut, and counted by a later         *)
(* statement: where no name stands for two failures and the count does not *)
(* fail.                                                                   *)
WholeUnlessTruncated ==
    (Answered /\ OneFailurePerName(req.build) /\ "count" \notin Faults) =>
        (req.truncated <=> \E h \in Failing(req.build) : FullName[h] \notin Examines(req.build))

(* The runs of a test between its last pass before build b and b itself. *)
FailedSince(h, b) ==
    {o \in Ran(h) \cap SameLine(b) : LastGood(h, b) < o /\ o < b}

(* What a confident verdict says of the build is true of the tables: a     *)
(* regression has a test that passed before on other code, and, as long as *)
(* no later build of its line has come, none of its tests has failed twice *)
(* before; an environment at fault has two tests that failed on server     *)
(* errors and one that passed before on the same code.                     *)
ConfidentIsSupported ==
    (Answered /\ req.says.confidence = "high") =>
        LET b == req.build
            hists == {req.tests[i].hist : i \in Largest(req.tests, req.summary)}
            before(same) == \E h \in hists : /\ LastGood(h, b) # 0
                                             /\ (tested[LastGood(h, b)].commit = tested[b].commit) = same
            newest == \A o \in SameLine(b) : o <= b
        IN  /\ req.says.verdict = "product_regression" =>
                   /\ before(FALSE)
                   /\ newest => \A h \in hists : Cardinality(FailedSince(h, b)) <= 1
            /\ req.says.verdict = "infra_env" =>
                   /\ before(TRUE)
                   /\ \E h, i \in hists : h # i /\ {way[h].pattern, way[i].pattern} \subseteq ServerErrors

(* The builds said to lie between a test's last pass and its failure are   *)
(* runs that failed, also where a build is diagnosed that later ones have  *)
(* overtaken.                                                              *)
GapIsFailures ==
    Answered => \A i \in DOMAIN req.tests :
        LET t == req.tests[i]
        IN  t.good # 0 => t.gap <= Cardinality(FailedSince(t.hist, req.build))

(* What a diagnosis says of the history holds in the tables. *)
HistoryIsSupport == ConfidentIsSupported /\ GapIsFailures

-----------------------------------------------------------------------------
(* What the comments say and TLC refutes. *)

(* diagnose.go:214: "Truncated is true when more failing tests exist than  *)
(* were examined." Two failures of one name are examined twice and counted *)
(* once.                                                                   *)
TruncationTold ==
    Answered => (req.truncated <=> \E h \in Failing(req.build) : FullName[h] \notin Examines(req.build))

(* diagnose.go:62: summary_only "omits per-test heavy fields"; the verdict *)
(* is over clusters that share the "deepest failed step" (line 232), which *)
(* is one of those fields.                                                 *)
SummaryAgrees ==
    Answered => BuildVerdict(req.tests, req.build, TRUE, req.truncated)
                    = BuildVerdict(req.tests, req.build, FALSE, req.truncated)

Blamed == {req.tests[i] : i \in Largest(req.tests, req.summary)}

(* diagnose_verdict.go:347: flaky is where "every member of the cluster    *)
(* passed in the immediately preceding build". The history of a build that *)
(* is not the newest begins with later ones.                               *)
PrecedingPassed ==
    (Answered /\ req.says.verdict = "flaky") =>
        \/ \E t \in Blamed : way[t.hist].flaky
        \/ \A t \in Blamed : \E o \in Passed(t.hist) : o < req.build

(* diagnose_verdict.go:207: infra_env is "on code that has not changed     *)
(* since they last passed". Only the first member with a commit is looked  *)
(* at.                                                                     *)
InfraOnSameCode ==
    (Answered /\ req.says = [verdict |-> "infra_env", confidence |-> "high"]) =>
        \A t \in Blamed : t.good # 0 => tested[t.good].commit \in {NoCommit, tested[req.build].commit}

(* diagnose_verdict.go:276: the assertion of a regression "was passing a   *)
(* build or two ago". A test without history has a short one.              *)
RegressionPassedBefore ==
    (Answered /\ req.says.verdict = "product_regression") =>
        \A t \in Blamed : \E o \in Passed(t.hist) : o < req.build
=============================================================================
