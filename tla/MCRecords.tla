----------------------------- MODULE MCRecords ------------------------------
(***************************************************************************)
(* What people and agents decide about failures, for TLC: API keys with    *)
(* what agents propose with them, defects with the builds that change      *)
(* them, a diagnosis of a build, and the rows of a build's tests. An       *)
(* approved proposal edits a defect, which each module has for itself. A   *)
(* behaviour moves one of the parts.                                       *)
(***************************************************************************)
EXTENDS Proposals, Integers

CONSTANTS
    Parts, Hashes, MaxBuilds, Threshold, MaxEdits, Decisions, MaxRuns, LinksFail,
    Hists, FullName, Colon, Ways, ServerErrors, Asserts, Locates, Ruled, Branches, MaxCommits,
    Commitless, Depth, DiagnosedBuilds, Caps, Summaries, ReadFaults,
    RowTests, GivenIds, Stops, MaxFiles, BatchSize, RowFaults

VARIABLES
    part,                                                        \* what moves
    next, builds, fails, fp, occ, job, runs, todo, edits,         \* Defects
    since, auto, back, silenced,
    way, tested, req,                                            \* Diagnosis
    at, files, report, raw, rows, failed                         \* Results

D == INSTANCE Defects

G == INSTANCE Diagnosis WITH MaxBuilds <- DiagnosedBuilds, Faults <- ReadFaults

(* Two tests. Of the first there are two rows; the second of them says     *)
(* nothing, or something of its own.                                       *)
TwoTests == {"a:", "a.", "b:"}
OfColon  == {"a:", "b:"}
TestOf   == [h \in TwoTests |-> IF h = "b:" THEN "b" ELSE "a"]
Fails(said, text, pattern, phase, step) ==
    [said |-> said, text |-> text, pattern |-> pattern, phase |-> phase, step |-> step,
     flaky |-> FALSE, linked |-> FALSE]
Silent   == Fails(FALSE, "", "no status", "test_body", "")
Assert   == Fails(TRUE, "expected", "no status", "test_body", "login")
Elsewhere == Fails(TRUE, "expected", "no status", "test_body", "logout")
Down     == Fails(TRUE, "status 500", "500 /api", "before_hooks", "hook")
Lost     == Fails(TRUE, "locator", "no status", "test_body", "login")

Pairs == {<<Assert, Assert>>, <<Assert, Elsewhere>>, <<Down, Down>>, <<Assert, Lost>>, <<Down, Silent>>}
Twins(said) == {[h \in TwoTests |-> IF h = "a:" THEN p[1] ELSE IF h = "b:" THEN p[2] ELSE twin] :
                   p \in Pairs, twin \in said}
TwinSilent == Twins({Silent})
TwinSays   == Twins({Silent, Assert})

(* One name that three ids stand for, one of which the generator replaces. *)
OneName == {[name |-> "a", id |-> h] : h \in {"", "h1", "h2"}}
Regiven == [h \in {"", "h1", "h2"} |-> IF h = "h1" THEN {"h1", "g1", "g2"} ELSE {h}]

R == INSTANCE Results WITH Tests <- RowTests, Faults <- RowFaults

ASSUME RecordsAssumption == Assumption /\ D!Assumption /\ G!Assumption /\ R!Assumption

defectVars   == <<next, builds, fails, fp, occ, job, runs, todo, edits, since, auto, back, silenced>>
diagnosisVars == <<way, tested, req>>
rowVars      == <<at, files, report, raw, rows, failed>>
allVars      == <<part, vars, defectVars, diagnosisVars, rowVars>>

TL == INSTANCE TLC

Symmetry == TL!Permutations(Hashes) \union TL!Permutations(Calls)

SomeKind == CHOOSE k \in Kinds : TRUE
SomeWay  == CHOOSE w \in Ways : TRUE
SomeFile == CHOOSE f \in R!Files : TRUE

(* What the parts that stand still leave open at first is settled. *)
AllInit ==
    /\ part \in Parts
    /\ Init /\ D!Init /\ G!Init /\ R!Init
    /\ part # "proposals" => kind = SomeKind /\ shown = [s \in Subjects |-> None]
    /\ part # "diagnosis" => way = SomeWay
    /\ part # "rows" => files = <<SomeFile>>

AllNext ==
    /\ \/ part = "defects"   /\ D!Next /\ UNCHANGED <<vars, diagnosisVars, rowVars>>
       \/ part = "proposals" /\ Next   /\ UNCHANGED <<defectVars, diagnosisVars, rowVars>>
       \/ part = "diagnosis" /\ G!Next /\ UNCHANGED <<defectVars, vars, rowVars>>
       \/ part = "rows"      /\ R!Next /\ UNCHANGED <<defectVars, vars, diagnosisVars>>
    /\ UNCHANGED part

AllSpec == AllInit /\ [][AllNext]_allVars

-----------------------------------------------------------------------------
FixedWasClean        == D!FixedWasClean
DispositionKept      == D!DispositionKept
WholeUnlessTruncated == G!WholeUnlessTruncated
HistoryIsSupport     == G!HistoryIsSupport
RowPerTest           == R!RowPerTest
LastCopyKept         == R!LastCopyKept

(* Refuted under Records_gaps.cfg. *)
MutedStays             == D!MutedStays
FixedAfterThreshold    == D!FixedAfterThreshold
FailingNotFixed        == D!FailingNotFixed
ReopenedIsRegression   == D!ReopenedIsRegression
TruncationTold         == G!TruncationTold
SummaryAgrees          == G!SummaryAgrees
PrecedingPassed        == G!PrecedingPassed
InfraOnSameCode        == G!InfraOnSameCode
RegressionPassedBefore == G!RegressionPassedBefore
SameAttempt            == R!SameAttempt
SplitsKept             == R!SplitsKept
EveryTestKept          == R!EveryTestKept
=============================================================================
