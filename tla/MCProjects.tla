----------------------------- MODULE MCProjects -----------------------------
(***************************************************************************)
(* Projects for TLC: their rows and directories, and the data of one of    *)
(* them on S3. A behaviour moves one of the two. Names play the same part  *)
(* everywhere, and so do requests.                                         *)
(***************************************************************************)
EXTENDS Projects, Sequences, TLC

CONSTANTS
    Parts,              \* what may move
    MaxAsked,           \* bound: requests about projects in a behaviour
    Wide,               \* two variable files, pages of one key
    StorageOps, MaxOps, StorageKinds

VARIABLES
    part,
    asked,              \* requests about projects that have begun
    objects, home, numbers, op, begun, fails, shown, used    \* ObjectStore

-----------------------------------------------------------------------------
(* The data of a project that has, or had, key p; the text of 1 begins 10. *)
Segment == [n \in {1, 9, 10} |-> CASE n = 1 -> "1" [] n = 9 -> "9" [] OTHER -> "10"]
History == <<"history", "h">>
Data    == <<"data">>
Whole   == IF Wide THEN {History, Data} ELSE {History}

KeysOf(p) ==
    LET report(s) == (IF Wide THEN <<<<p, "reports", s>> \o Data>> ELSE << >>) \o <<<<p, "reports", s>> \o History>>
    IN  <<<<p, "playwright-reports", "1", "index">>, <<p, "playwright-reports", "10", "index">>,
          <<p, "playwright-reports", "9", "index">>, <<p, "playwright-reports", "latest", "index">>>>
        \o report("1") \o report("10") \o report("9") \o report("latest")
        \o <<<<p, "reports", "latest", "index">>,
             <<p, "results", "b", "f">>, <<p, "results", "b", "history", "h">>>>

AllKeys  == KeysOf("p") \o KeysOf("q")
KeyPair  == <<"p", "q">>
Texts    == [s \in {"1", "9", "10", "latest", "p", "q", "b", "results", "history", "playwright-reports"} |->
                IF s = "1" THEN {"1", "10"} ELSE {s}]
Index    == {<<"index">>}
Page     == IF Wide THEN 1 ELSE 2

O == INSTANCE ObjectStore WITH
        Order <- AllKeys, Homes <- KeyPair, Number <- Segment, Begins <- Texts, Variable <- Whole,
        Static <- Index, Given <- {1, 9}, Ops <- StorageOps, MaxFails <- 1, PageSize <- Page,
        Kinds <- StorageKinds, rows <- numbers

ASSUME ProjectsAssumption == O!Assumption

-----------------------------------------------------------------------------
storageVars == <<objects, home, numbers, op, begun, fails, shown, used>>
allVars     == <<part, asked, vars, storageVars>>

AllInit ==
    /\ part \in Parts /\ asked = 0
    /\ Init /\ O!Init
    /\ part # "storage" => home = "p"

(* The next request, if it is one that begins. *)
Counted ==
    IF \E r \in Requests : Idles(r) /\ ~Idles(r)'
    THEN asked < MaxAsked /\ asked' = asked + 1
    ELSE UNCHANGED asked

AllNext ==
    /\ \/ part = "projects" /\ Next /\ Counted /\ UNCHANGED storageVars
       \/ part = "storage"  /\ O!Next /\ UNCHANGED <<asked, vars>>
    /\ UNCHANGED part

AllSpec == AllInit /\ [][AllNext]_allVars

Symmetry == Permutations(Slugs) \union Permutations(Requests)

ServedDataIsOwn == O!ServedDataIsOwn
NothingDropped  == O!NothingDropped

(* Refuted under Projects_gaps.cfg. *)
PrefixGone             == O!PrefixGone
InterruptedMoveResumes == O!InterruptedMoveResumes
DeletedServesNothing   == O!DeletedServesNothing
WrittenMeanwhileKept   == O!WrittenMeanwhileKept
SweptHadNoRow          == O!SweptHadNoRow
=============================================================================
