---------------------------- MODULE ObjectStore ----------------------------
(***************************************************************************)
(* Storage on S3, where there are no directories: an object has a key, and *)
(* what is a directory to the program is every key under a prefix. A       *)
(* listing comes in pages; deleting, copying and uploading take a call for *)
(* each page or object. So every operation is a program of many calls that *)
(* others' calls come between and that may end in the middle.              *)
(*                                                                         *)
(* One project: reports are served from here, of a numbered build what it  *)
(* has itself, else what the latest has; gcstorage deletes the reports     *)
(* without a row. Generations exclude each other; nothing else does.       *)
(***************************************************************************)
EXTENDS Integers, FiniteSets, Sequences, SequencesExt, FiniteSetsExt

CONSTANTS
    Order,      \* the keys that may exist, as listings order them
    Homes,      \* storage keys the project may have had, the first is the old
    Begins,     \* [segment -> segments that begin with its text]
    Number,     \* [build number -> its segment]
    Variable,   \* files of a report that every build keeps: data, widgets, history
    Static,     \* files that only the latest report has
    Given,      \* numbers that are published at first
    Ops,        \* operations in flight
    MaxOps,     \* bound: operations that begin
    MaxFails,   \* bound: calls that fail, and keys that DeleteObjects leaves
    PageSize,   \* keys of a page, 1000
    Kinds       \* bound: the operations that may begin

VARIABLES
    objects,    \* [key -> what it holds], a build number for a report's file
    home,       \* the storage key of the project's row, or NoHome
    rows,       \* build numbers in the database
    op,         \* operations in flight, as programs
    begun, fails, \* for the bounds
    shown,      \* history: published builds nobody asked to delete or move
    used        \* history: numbers that were reserved before

vars == <<objects, home, rows, op, begun, fails, shown, used>>

NoHome == "none"
Upload == 0       \* what a result file holds

Key     == ToSet(Order)
Rank(k) == CHOOSE i \in DOMAIN Order : Order[i] = k

Idle == [kind |-> "none", home |-> NoHome, n |-> Upload, todo |-> << >>, found |-> {}, left |-> {},
         page |-> {}, cursor |-> 0, final |-> FALSE, dirs |-> {}, known |-> {},
         alone |-> TRUE, lost |-> {}]

Assumption ==
    /\ Len(Homes) = 2 /\ Given \subseteq DOMAIN Number /\ DOMAIN Number \subseteq Nat \ {0}
    /\ {MaxOps, MaxFails} \subseteq Nat /\ PageSize \in Nat \ {0}
    /\ Kinds \subseteq {"rename", "migrate", "delete", "batch", "clean", "report", "prune", "keep",
                        "prepare", "publish", "playwright", "gc", "write"}

TypeOK ==
    /\ DOMAIN objects \subseteq Key
    /\ home \in ToSet(Homes) \cup {NoHome}
    /\ rows \cup shown \cup used \subseteq DOMAIN Number
    /\ \A o \in Ops : op[o].found \cup op[o].left \cup op[o].page \cup op[o].lost \subseteq Key
    /\ begun \in 0 .. MaxOps /\ fails \in 0 .. MaxFails

-----------------------------------------------------------------------------
(* Keys and prefixes; a prefix ends with a slash. *)

(* Mutant: without it. *)
UnderText(p) ==
    {k \in DOMAIN objects : /\ Len(k) > Len(p)
                            /\ SubSeq(k, 1, Len(p) - 1) = SubSeq(p, 1, Len(p) - 1)
                            /\ k[Len(p)] \in Begins[p[Len(p)]]}

Under(p) == {k \in DOMAIN objects : IsStrictPrefix(p, k)}

Report(p, n)       == <<p, "reports", Number[n]>>
Latest(p)          == <<p, "reports", "latest">>
Moved(k, from, to) == to \o SubSeq(k, Len(from) + 1, Len(k))

FilesOf(prefix, S) == {prefix \o f : f \in S}

Put(f, k, v) == [x \in DOMAIN f \cup {k} |-> IF x = k THEN v ELSE f[x]]

(* The project has its builds, under its key or, a child of before keys,   *)
(* under its slug.                                                         *)
Init ==
    /\ home \in {Homes[1]} \cup IF "migrate" \in Kinds THEN {Homes[2]} ELSE {}
    /\ LET own    == [n \in Given |-> FilesOf(Report(Homes[1], n), Variable)]
           latest == FilesOf(Latest(Homes[1]), Variable \cup Static)
       IN  objects = [k \in (UNION Range(own)) \cup latest |->
                          IF k \in latest THEN Max(Given) ELSE CHOOSE n \in Given : k \in own[n]]
    /\ rows = Given /\ used = Given
    /\ shown = IF home = Homes[1] THEN Given ELSE {}
    /\ op = [o \in Ops |-> Idle]
    /\ begun = 0 /\ fails = 0

-----------------------------------------------------------------------------
(* What programs are made of. *)
Step(do, from, to, keys) == [do |-> do, from |-> from, to |-> to, keys |-> keys]
Find(p)       == Step("find", p, << >>, {})     \* list all pages
Clear(p)      == Step("clear", p, << >>, {})    \* deletePrefix
Copy(p, q)    == Step("copy", p, q, {})         \* one after the other, as listed
CopyAny(p, q) == Step("copyany", p, q, {})      \* in any order
Read(p)       == Step("read", p, << >>, {})     \* in any order
Send(K)       == Step("send", << >>, << >>, K)  \* in any order
Dirs          == Step("dirs", << >>, << >>, {}) \* ListReportBuilds
Known         == Step("known", << >>, << >>, {})\* ListBuilds
Prune         == Step("prune", << >>, << >>, {})\* of the directories those not known

(* What takes or moves everything. *)
Whole == {"rename", "delete", "clean"}

Disturbs(kind, n, other) == kind \in Whole \/ (kind \in {"report", "prune"} /\ n = other)

Begin(o, kind, n, todo) ==
    /\ op[o].kind = "none" /\ begun < MaxOps /\ kind \in Kinds /\ home # NoHome
    /\ op' = [x \in Ops |->
                IF x = o THEN [Idle EXCEPT !.kind = kind, !.home = home, !.n = n, !.todo = todo,
                                           !.alone = \A y \in Ops : ~Disturbs(op[y].kind, op[y].n, n)]
                ELSE [op[x] EXCEPT !.alone = @ /\ ~Disturbs(kind, n, op[x].n)]]
    /\ begun' = begun + 1
    /\ UNCHANGED <<objects, home, fails>>

(* RenameProject of a top-level project; migrateChildStoragePaths for a    *)
(* child, if nothing is under its key yet.                                 *)
Moves(from, to) == <<Find(<<from>>), Copy(<<from>>, <<to>>), Clear(<<from>>)>>

Rename(o) ==
    /\ home = Homes[1]
    /\ Begin(o, "rename", Upload, Moves(Homes[1], Homes[2]))
    /\ shown' = {} /\ UNCHANGED <<rows, used>>

Migrate(o) ==
    /\ home = Homes[2] /\ Under(<<Homes[2]>>) = {} /\ Under(<<Homes[1]>>) # {}
    /\ Begin(o, "migrate", Upload, Moves(Homes[1], Homes[2]))
    /\ UNCHANGED <<rows, shown, used>>

DeleteProject(o) ==
    /\ home # NoHome /\ Under(<<home>>) # {}
    /\ Begin(o, "delete", Upload, <<Clear(<<home>>)>>)
    /\ shown' = {} /\ UNCHANGED <<rows, used>>

CleanHistory(o) ==
    /\ Begin(o, "clean", Upload, <<Clear(Latest(home)), Dirs, Prune, Clear(<<home, "results", "history">>)>>)
    /\ shown' = {} /\ UNCHANGED <<rows, used>>

CleanBatch(o) ==
    /\ Begin(o, "batch", Upload, <<Clear(<<home, "results", "b">>)>>)
    /\ UNCHANGED <<rows, shown, used>>

(* An administrator: the row goes last. Retention: it goes first. *)
DeleteReport(o, n) ==
    /\ Begin(o, "report", n, <<Clear(Report(home, n))>>)
    /\ shown' = shown \ {n} /\ UNCHANGED <<rows, used>>

PruneBuild(o, n) ==
    /\ n \in shown
    /\ Begin(o, "prune", n, <<Clear(Report(home, n))>>)
    /\ rows' = rows \ {n} /\ shown' = shown \ {n} /\ UNCHANGED used

Generating == \E x \in Ops : op[x].kind \in {"publish", "keep", "prepare", "playwright"}

(* The steps of a generation: the trend files of the latest report into    *)
(* the batch, the results into a local directory, the report out of it,    *)
(* under the number above the highest, reserved before.                    *)
KeepHistory(o) ==
    /\ ~Generating
    /\ LET from == Latest(home) \o <<"history">>
           to   == <<home, "results", "b", "history">>
       IN  Begin(o, "keep", Upload, <<Find(from), Clear(to), Copy(from, to)>>)
    /\ UNCHANGED <<rows, shown, used>>

PrepareLocal(o) ==
    /\ ~Generating
    /\ Begin(o, "prepare", Upload, <<Find(<<home, "results">>), Read(<<home, "results">>)>>)
    /\ UNCHANGED <<rows, shown, used>>

PublishReport(o) ==
    /\ ~Generating
    /\ LET n == Max(rows \cup {0}) + 1
       IN  /\ n \in DOMAIN Number
           /\ Begin(o, "publish", n, <<Clear(Latest(home)), Send(FilesOf(Latest(home), Variable \cup Static)),
                                       Send(FilesOf(Report(home, n), Variable))>>)
           /\ rows' = rows \cup {n}
    /\ UNCHANGED <<shown, used>>

CopyPlaywrightLatestToBuild(o) ==
    /\ ~Generating /\ rows # {}
    /\ LET n    == Max(rows)
           from == <<home, "playwright-reports", "latest">>
           to   == <<home, "playwright-reports", Number[n]>>
       IN  Begin(o, "playwright", n, <<Find(from), CopyAny(from, to)>>)
    /\ UNCHANGED <<rows, shown, used>>

(* Mutant: the rows are read before the directories. *)
RowsFirst == <<Known, Dirs, Prune>>

(* gcstorage -apply, one project. *)
Orphans == <<Dirs, Known, Prune>>

Gcstorage(o) ==
    /\ Begin(o, "gc", Upload, Orphans)
    /\ UNCHANGED <<rows, shown, used>>

(* WriteResultFile, WritePlaywrightFile: one call. *)
WriteFile(k) ==
    /\ "write" \in Kinds /\ begun < MaxOps /\ k[1] = home /\ k[2] # "reports"
    /\ objects' = Put(objects, k, Upload) /\ begun' = begun + 1
    /\ op' = [x \in Ops |-> [op[x] EXCEPT !.lost = @ \cup {k}]]
    /\ UNCHANGED <<home, rows, fails, shown, used>>

-----------------------------------------------------------------------------
(* The calls. *)
Doing(o, S) == op[o].kind # "none" /\ op[o].todo # << >> /\ Head(op[o].todo).do \in S

(* On to the next step. *)
Onward(q) == [q EXCEPT !.todo = Tail(@), !.cursor = 0, !.page = {}, !.final = FALSE, !.left = q.found]

(* What others delete or overwrite is not the operation's doing. *)
Taken(o, K, next) == [x \in Ops |-> IF x = o THEN next ELSE [op[x] EXCEPT !.lost = @ \cup K]]

FirstPage(K) == {k \in K : Cardinality({l \in K : Rank(l) < Rank(k)}) < PageSize}
Furthest(K)  == Max({Rank(k) : k \in K})

(* A page of a listing. A copy of nothing ends the whole operation well. *)
FindPage(o) ==
    LET q    == op[o]
        rest == {k \in Under(Head(q.todo).from) : Rank(k) > q.cursor}
        page == FirstPage(rest)
        all  == [q EXCEPT !.found = @ \cup page, !.cursor = IF page = {} THEN @ ELSE Furthest(page)]
    IN  /\ Doing(o, {"find"})
        /\ op' = [op EXCEPT ![o] = IF rest # page THEN all
                                   ELSE IF all.found = {} THEN [q EXCEPT !.todo = << >>] ELSE Onward(all)]
        /\ UNCHANGED <<objects, home, rows, begun, fails, shown, used>>

(* deletePrefix lists a page and deletes it. *)
ListToDelete(o) ==
    LET q    == op[o]
        rest == {k \in Under(Head(q.todo).from) : Rank(k) > q.cursor}
        page == FirstPage(rest)
    IN  /\ Doing(o, {"clear"}) /\ q.page = {}
        /\ op' = [op EXCEPT ![o] = IF page = {} THEN Onward(q)
                                   ELSE [q EXCEPT !.page = page, !.final = (rest = page),
                                                  !.cursor = Furthest(page)]]
        /\ UNCHANGED <<objects, home, rows, begun, fails, shown, used>>

(* DeleteObjects with Quiet answers which keys it could not delete; nobody *)
(* looks.                                                                  *)
DeletePage(o) ==
    LET q == op[o]
    IN  /\ Doing(o, {"clear"}) /\ q.page # {}
        /\ \E refused \in SUBSET q.page :
             /\ fails + Cardinality(refused) <= MaxFails
             /\ fails' = fails + Cardinality(refused)
             /\ objects' = [k \in DOMAIN objects \ (q.page \ refused) |-> objects[k]]
             /\ op' = Taken(o, q.page \ refused, IF q.final THEN Onward(q) ELSE [q EXCEPT !.page = {}])
        /\ UNCHANGED <<home, rows, begun, shown, used>>

(* One object is done; the last one ends the step. *)
Less(q, k) == IF q.left = {k} THEN Onward(q) ELSE [q EXCEPT !.left = @ \ {k}]

(* Mutant: an object that cannot be copied is passed over. *)
CopyOrSkip(o, k) ==
    /\ op' = [op EXCEPT ![o] = Less(op[o], k)]
    /\ UNCHANGED objects

CopyObject(o, k) ==
    LET q  == op[o]
        to == Moved(k, Head(q.todo).from, Head(q.todo).to)
    IN  /\ k \in DOMAIN objects
        /\ objects' = Put(objects, to, objects[k])
        /\ op' = Taken(o, {to}, Less(q, k))

CopyOne(o, k) ==
    /\ Doing(o, {"copy", "copyany"}) /\ k \in op[o].left
    /\ Doing(o, {"copy"}) => \A l \in op[o].left : Rank(k) <= Rank(l)
    /\ CopyObject(o, k)
    /\ UNCHANGED <<home, rows, begun, fails, shown, used>>

ReadOne(o, k) ==
    /\ Doing(o, {"read"}) /\ k \in op[o].left \cap DOMAIN objects
    /\ op' = [op EXCEPT ![o] = Less(op[o], k)]
    /\ UNCHANGED <<objects, home, rows, begun, fails, shown, used>>

SendOne(o, k) ==
    LET q == op[o]
        K == Head(q.todo).keys
    IN  /\ Doing(o, {"send"}) /\ k \in K \ q.page
        /\ objects' = Put(objects, k, q.n)
        /\ op' = Taken(o, {k}, IF q.page \cup {k} = K THEN Onward(q) ELSE [q EXCEPT !.page = @ \cup {k}])
        /\ UNCHANGED <<home, rows, begun, fails, shown, used>>

(* ListReportBuilds, ListBuilds, and what follows from both. *)
ListReportBuilds(p) == {n \in DOMAIN Number : Under(Report(p, n)) # {}}

Look(o) ==
    LET q == op[o]
    IN  /\ Doing(o, {"dirs", "known", "prune"})
        /\ op' = [op EXCEPT ![o] =
              CASE Head(q.todo).do = "dirs"  -> [Onward(q) EXCEPT !.dirs = ListReportBuilds(q.home)]
                [] Head(q.todo).do = "known" -> [Onward(q) EXCEPT !.known = rows]
                [] OTHER -> [q EXCEPT !.todo = SetToSeq({Clear(Report(q.home, n)) : n \in q.dirs \ q.known})
                                               \o Tail(@)]]
        /\ UNCHANGED <<objects, home, rows, begun, fails, shown, used>>

(* The call fails, or what it copies or reads is gone: the operation ends. *)
(* A generation takes its row back.                                        *)
Gone(o) == Doing(o, {"copy", "copyany", "read"}) /\ ~op[o].left \subseteq DOMAIN objects

Fail(o) ==
    /\ op[o].kind # "none" /\ op[o].todo # << >>
    /\ \/ Gone(o) /\ UNCHANGED fails
       \/ fails < MaxFails /\ fails' = fails + 1
    /\ op' = [op EXCEPT ![o] = Idle]
    /\ rows' = IF op[o].kind = "publish" THEN rows \ {op[o].n} ELSE rows
    /\ used' = IF op[o].kind = "publish" THEN used \cup {op[o].n} ELSE used
    /\ UNCHANGED <<objects, home, begun, shown>>

(* It is done, and the database follows. *)
End(o) ==
    LET q == op[o]
    IN  /\ q.kind # "none" /\ q.todo = << >>
        /\ op' = [op EXCEPT ![o] = Idle]
        /\ home' = IF q.kind = "rename" THEN Homes[2] ELSE IF q.kind = "delete" THEN NoHome ELSE home
        /\ rows' = IF q.kind = "report" THEN rows \ {q.n} ELSE IF q.kind = "delete" THEN {} ELSE rows
        /\ used' = IF q.kind = "publish" THEN used \cup {q.n} ELSE used
        /\ shown' = IF q.kind = "publish" /\ q.alone /\ q.n \notin used THEN shown \cup {q.n} ELSE shown
        /\ UNCHANGED <<objects, begun, fails>>

(* Mutant: the latest report goes before the build's own. *)
ServedLatest(n, f) ==
    IF Latest(home) \o f \in DOMAIN objects THEN objects[Latest(home) \o f]
    ELSE IF Report(home, n) \o f \in DOMAIN objects THEN objects[Report(home, n) \o f] ELSE Upload

(* newS3ReportHandler: the build that file f of build n is shown from. *)
Served(n, f) ==
    IF Report(home, n) \o f \in DOMAIN objects THEN objects[Report(home, n) \o f]
    ELSE IF Latest(home) \o f \in DOMAIN objects THEN objects[Latest(home) \o f] ELSE Upload

Next ==
    \/ \E o \in Ops : \/ Rename(o) \/ Migrate(o) \/ DeleteProject(o) \/ CleanHistory(o) \/ CleanBatch(o)
                      \/ \E n \in DOMAIN Number : DeleteReport(o, n) \/ PruneBuild(o, n)
                      \/ CopyPlaywrightLatestToBuild(o)
                      \/ KeepHistory(o) \/ PrepareLocal(o) \/ PublishReport(o) \/ Gcstorage(o)
                      \/ FindPage(o) \/ ListToDelete(o) \/ DeletePage(o) \/ Look(o) \/ Fail(o) \/ End(o)
                      \/ \E k \in Key : CopyOne(o, k) \/ ReadOne(o, k) \/ SendOne(o, k)
    \/ \E k \in Key : WriteFile(k)

Spec == Init /\ [][Next]_vars

-----------------------------------------------------------------------------
(* A published build that nobody asked to delete or move, and whose number *)
(* was reserved once, has its own data and is served it, whatever is       *)
(* published, deleted or swept beside it: gcstorage lists the directories  *)
(* before the rows, and the prefix of one number takes no other.           *)
ServedDataIsOwn ==
    \A n \in shown, f \in Variable : Report(home, n) \o f \in DOMAIN objects /\ Served(n, f) = n

(* What a rename or a migration has listed is at its old place or at the   *)
(* new one, wherever it stops: it deletes only after it has copied all.    *)
Mover(q)    == q.kind \in {"rename", "migrate"}
Goals(q, k) == {k, Moved(k, <<Homes[1]>>, <<Homes[2]>>)}

NothingDropped ==
    \A o \in Ops : Mover(op[o]) =>
        \A k \in op[o].found : Goals(op[o], k) \cap (DOMAIN objects \cup op[o].lost) # {}

-----------------------------------------------------------------------------
(* What comments and documentation promise and the code does not keep. *)

(* "deletes all S3 objects with the given prefix": not those S3 could not. *)
PrefixGone ==
    \A o \in Ops : op[o].kind \in {"report", "prune"} /\ op[o].todo = << >> =>
        Under(Report(op[o].home, op[o].n)) \subseteq op[o].lost

(* "if the new directory already exists and the old one does not, the      *)
(* entry is skipped": it is skipped whether or not the old one exists, and *)
(* what an interrupted move left there stays.                              *)
Moving == \E o \in Ops : Mover(op[o])
InterruptedMoveResumes ==
    home = Homes[2] /\ begun > 0 /\ ~Moving /\ Under(<<Homes[1]>>) # {} => Under(<<Homes[2]>>) = {}

(* What is uploaded while a rename copies is deleted with the old prefix. *)
WrittenMeanwhileKept ==
    [][\A o \in Ops : Mover(op[o]) /\ DeletePage(o) => op[o].page \subseteq op[o].found]_vars

(* "Serve static assets from latest": of a build that is deleted all of    *)
(* the latest is served.                                                   *)
DeletedServesNothing ==
    home # NoHome => \A n \in used \ rows, f \in Variable :
        (\A o \in Ops : op[o].kind = "none") => Served(n, f) \in {Upload, n}

(* gcstorage "deletes directories whose build no longer exists": a number  *)
(* reserved again after its publication failed is listed without its row.  *)
SweptHadNoRow ==
    [][\A o \in Ops : op[o].kind = "gc" /\ DeletePage(o) =>
          \A n \in rows : op[o].page \cap Under(Report(op[o].home, n)) = {}]_vars
=============================================================================
