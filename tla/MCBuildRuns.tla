---------------------------- MODULE MCBuildRuns -----------------------------
(***************************************************************************)
(* Builds for TLC: those of one project as generations make them, and the  *)
(* runs that the builds of a group of projects form. A behaviour moves one *)
(* of the two.                                                             *)
(***************************************************************************)
EXTENDS MCBuildLifecycle

CONSTANTS
    Parts,          \* what may move
    Suites, CiBranches, Runs, PipelineIds, Tests, NameOf, Uploads, EnvTests, Filters,   \* Pipelines
    QueryFaults, MaxBuilds, MaxDeletes, MaxDefaults, MaxLost, MaxOverlap,
    PerPage, RunCap, ToolCap, Shards, PerBuild

VARIABLES
    part,
    sent, written, pending, gone, default, defaults, page, tool, overlap    \* Pipelines

-----------------------------------------------------------------------------
Q == INSTANCE Pipelines WITH Branches <- CiBranches, Faults <- QueryFaults, todo <- pending

ASSUME PipelinesAssumption == Q!Assumption

runVars == <<sent, written, pending, gone, default, defaults, page, tool, overlap>>
allVars == <<part, vars, runVars>>

AllInit == part \in Parts /\ Init /\ Q!Init

AllNext ==
    /\ \/ part = "builds" /\ Next   /\ UNCHANGED runVars
       \/ part = "runs"   /\ Q!Next /\ UNCHANGED vars
    /\ UNCHANGED part

AllSpec == AllInit /\ [][AllNext]_allVars

PageIsBacked       == Q!PageIsBacked
TaggedUnlessWarned == Q!TaggedUnlessWarned

(* Refuted under Pipelines_gaps.cfg. *)
MergedSuiteFails      == Q!MergedSuiteFails
AwaitedHasNotUploaded == Q!AwaitedHasNotUploaded
TaggedOrWarned        == Q!TaggedOrWarned
EachTestPlaced        == Q!EachTestPlaced

-----------------------------------------------------------------------------
(* Two suites and two tests of one name. Of the first suite two shards ran *)
(* in the pipeline p1, on two branches, and one for the commit c1.         *)
One(o)        == [t \in {"t1"} |-> o]
Two(o, p)     == [t \in {"t1", "t2"} |-> IF t = "t1" THEN o ELSE p]
Up(s, br, k, source, outcome) ==
    [suite |-> s, branch |-> br, run |-> k, outcome |-> outcome, source |-> source]
Uploaded ==
    {Up("s1", "main", "p1", "allure", One("failed")),
     Up("s1", "main", "c1", "allure", Two("passed", "failed")),
     Up("s1", "dev", "p1", "playwright", Two("passed", "failed")),
     Up("s2", "main", "p1", "allure", One("passed"))}

\* And a shard of the second suite that fails.
UploadedWithFailure == Uploaded \cup {Up("s2", "main", "p1", "allure", One("failed"))}
OneName             == [t \in Tests |-> "n"]
=============================================================================
