------------------------------- MODULE Projects -------------------------------
(***************************************************************************)
(* Projects: rows of the database and the storage directories they name. A *)
(* project is top-level or the child of a top-level one. Its storage key,  *)
(* the name of its directory, is its slug when it was created at the top   *)
(* and its id when it was created as a child; moving it under a parent or  *)
(* out again leaves the key alone.                                         *)
(*                                                                         *)
(* Every handler is a sequence of single statements and storage calls that *)
(* others may interleave with, and a process may stop between two of them. *)
(* A trigger keeps the parent relation to one level; it sees the rows that *)
(* were committed when its statement began.                                *)
(***************************************************************************)
EXTENDS Naturals, FiniteSets

CONSTANTS
    Slugs,      \* names that validateProjectID accepts: never all digits
    MaxRows,    \* bound: projects ever created; ids ascend
    Requests,   \* requests in flight
    Traced,     \* bound: the projects whose data are told apart from no data
    NoRow, NoSlug

ASSUME ProjectsConstants ==
    /\ MaxRows \in Nat
    /\ Slugs \cap (0 .. MaxRows) = {}
    /\ NoRow \notin 0 .. MaxRows

VARIABLES
    rows,       \* projects: the rows that exist
    lastId,     \* the sequence
    dirs,       \* storage: the directories, and whose traced data came first
    req,        \* requests: label and local variables
    crossed     \* history: two projects, of which one was put under a parent
                \* after a request to move the other had asked about it

vars == <<rows, lastId, dirs, req, crossed>>

Ids  == 1 .. MaxRows
Zero == 0                      \* the key '0' of a child that has none yet
Keys == Slugs \union Ids \union {Zero}

Row == [slug : Slugs \union Ids, parent : Ids \union {NoRow}, key : Keys]

Labels == {"idle", "setKey", "makeDir", "removeDir", "removeRow", "renameDir", "renameRow", "undoDir",
           "askTrigger", "setParent"}

Idle == [at |-> "idle", id |-> NoRow, slug |-> NoSlug, key |-> Zero, parent |-> NoRow]

TypeOK ==
    /\ DOMAIN rows \subseteq 1 .. lastId /\ lastId \in 0 .. MaxRows
    /\ \A i \in DOMAIN rows : rows[i] \in Row /\ rows[i].parent \in DOMAIN rows \union {NoRow}
    /\ DOMAIN dirs \subseteq Keys \ {Zero} /\ \A k \in DOMAIN dirs : dirs[k] \in Ids \union {NoRow}
    /\ req \in [Requests -> [at : Labels, id : Ids \union {NoRow}, slug : Slugs \union {NoSlug},
                             key : Keys, parent : Ids \union {NoRow}]]
    /\ crossed \subseteq SUBSET (Ids \union {NoRow})

Init ==
    /\ rows = << >> /\ lastId = 0
    /\ dirs = << >>
    /\ req = [r \in Requests |-> Idle]
    /\ crossed = {}

-----------------------------------------------------------------------------
IsChild(i)     == rows[i].parent # NoRow
HasChildren(i) == \E j \in DOMAIN rows : rows[j].parent = i

(* idx_projects_slug_standalone, idx_projects_slug_per_parent. *)
SlugTaken(s, parent) == \E i \in DOMAIN rows : rows[i].slug = s /\ rows[i].parent = parent

(* Mutant: migration 0034 without its unique index. *)
NoIndex(k) == FALSE

(* idx_projects_storage_key. *)
KeyTaken(k) == \E i \in DOMAIN rows : rows[i].key = k

With(f, x, v)   == [y \in DOMAIN f \union {x} |-> IF y = x THEN v ELSE f[y]]
Without(f, S)   == [y \in DOMAIN f \ S |-> f[y]]

(* Data of project i in directory k. *)
Holding(k, i) == IF k \in DOMAIN dirs /\ dirs[k] # NoRow THEN dirs ELSE With(dirs, k, i)

Go(r, next)     == req' = [req EXCEPT ![r] = next]
AtLabel(r, l)   == req[r].at = l
Idles(r)        == AtLabel(r, "idle")
Moving(r)       == req[r].at \in {"askTrigger", "setParent"}

(* Request r puts project i under p when another has asked for p's         *)
(* children already, to move it, or has seen i at the top, to move a       *)
(* project under it.                                                       *)
Crossing(r, i, p) ==
    LET late == {t \in Requests \ {r} : \/ Moving(t) /\ req[t].id = p
                                        \/ AtLabel(t, "setParent") /\ req[t].parent = i}
    IN  crossed \union {{i, req[t].id} : t \in late}

-----------------------------------------------------------------------------
(* CreateProject at the top: one INSERT; storage follows. *)
InsertTop(r, s) ==
    /\ Idles(r) /\ lastId < MaxRows
    /\ IF SlugTaken(s, NoRow) \/ KeyTaken(s)
       THEN UNCHANGED <<rows, lastId, req>>          \* ErrProjectExists
       ELSE /\ lastId' = lastId + 1
            /\ rows' = With(rows, lastId', [slug |-> s, parent |-> NoRow, key |-> s])
            /\ Go(r, [Idle EXCEPT !.at = "makeDir", !.key = s])
    /\ UNCHANGED <<dirs, crossed>>

(* CreateProjectWithParent: the child is inserted with the key '0' and     *)
(* gets its id as a key by a second statement.                             *)
InsertChild(r, s, p) ==
    /\ Idles(r) /\ lastId < MaxRows
    /\ p \in DOMAIN rows /\ ~IsChild(p)
    /\ IF SlugTaken(s, p) \/ KeyTaken(Zero)
       THEN UNCHANGED <<rows, lastId, req, crossed>> \* ErrProjectExists
       ELSE /\ lastId' = lastId + 1
            /\ rows' = With(rows, lastId', [slug |-> s, parent |-> p, key |-> Zero])
            /\ Go(r, [Idle EXCEPT !.at = "setKey", !.id = lastId'])
            /\ crossed' = Crossing(r, lastId', p)
    /\ UNCHANGED dirs

SetKey(r) ==
    LET i == req[r].id IN
    /\ AtLabel(r, "setKey")
    /\ rows' = IF i \in DOMAIN rows THEN [rows EXCEPT ![i].key = i] ELSE rows
    /\ Go(r, [Idle EXCEPT !.at = "makeDir", !.key = i])
    /\ UNCHANGED <<lastId, dirs, crossed>>

(* An orphaned directory of that name is taken over. *)
MakeDir(r) ==
    /\ AtLabel(r, "makeDir")
    /\ dirs' = Holding(req[r].key, NoRow)
    /\ Go(r, Idle)
    /\ UNCHANGED <<rows, lastId, crossed>>

(* An upload or a generation stores data under the key of its project. *)
Store(i) ==
    /\ i \in DOMAIN rows /\ rows[i].key # Zero
    /\ dirs' = Holding(rows[i].key, IF i \in Traced THEN i ELSE NoRow)
    /\ UNCHANGED <<rows, lastId, req, crossed>>

-----------------------------------------------------------------------------
(* DeleteProject: the directory of the row it has read first, missing or   *)
(* not; then the row, which takes those of its children with it.           *)
BeginDelete(r, i) ==
    /\ Idles(r) /\ i \in DOMAIN rows
    /\ Go(r, [Idle EXCEPT !.at = "removeDir", !.id = i, !.key = rows[i].key])
    /\ UNCHANGED <<rows, lastId, dirs, crossed>>

RemoveDir(r) ==
    /\ AtLabel(r, "removeDir")
    /\ dirs' = Without(dirs, {req[r].key})
    /\ Go(r, [req[r] EXCEPT !.at = "removeRow"])
    /\ UNCHANGED <<rows, lastId, crossed>>

(* ON DELETE CASCADE: the least set with i and all children of its         *)
(* members.                                                                *)
HoldsChildren(S) == \A j \in DOMAIN rows : rows[j].parent \in S => j \in S
Below(i) == {j \in DOMAIN rows :
               \A S \in SUBSET (DOMAIN rows \union {i}) :
                   i \in S /\ HoldsChildren(S) => j \in S}

RemoveRow(r) ==
    /\ AtLabel(r, "removeRow")
    /\ rows' = Without(rows, Below(req[r].id))
    /\ Go(r, Idle)
    /\ UNCHANGED <<lastId, dirs, crossed>>

-----------------------------------------------------------------------------
(* RenameProject. A top-level project's directory is renamed first and     *)
(* renamed back when the row cannot be; a child's row alone.               *)
BeginRename(r, i, s) ==
    /\ Idles(r) /\ i \in DOMAIN rows
    /\ s # rows[i].slug /\ ~SlugTaken(s, NoRow)
    /\ Go(r, [at |-> IF IsChild(i) THEN "renameRow" ELSE "renameDir",
              id |-> i, slug |-> s, key |-> rows[i].key, parent |-> rows[i].parent])
    /\ UNCHANGED <<rows, lastId, dirs, crossed>>

MovedDir(from, to) == With(Without(dirs, {from}), to, dirs[from])

CanMoveDir(from, to) == from \in DOMAIN dirs /\ to \notin DOMAIN dirs

RenameDir(r) ==
    LET q == req[r] IN
    /\ AtLabel(r, "renameDir")
    /\ IF CanMoveDir(q.key, q.slug)
       THEN dirs' = MovedDir(q.key, q.slug) /\ Go(r, [q EXCEPT !.at = "renameRow"])
       ELSE Go(r, Idle) /\ UNCHANGED dirs
    /\ UNCHANGED <<rows, lastId, crossed>>

(* The key follows the slug of what is top-level by now. *)
RenameRow(r) ==
    LET q   == req[r]
        i   == q.id
        key == IF i \in DOMAIN rows /\ ~IsChild(i) THEN q.slug ELSE rows[i].key
        ok  == /\ i \in DOMAIN rows
               /\ ~SlugTaken(q.slug, rows[i].parent)
               /\ key # rows[i].key => ~KeyTaken(key)
    IN
    /\ AtLabel(r, "renameRow")
    /\ IF ok
       THEN /\ rows' = [rows EXCEPT ![i].slug = q.slug, ![i].key = key]
            /\ Go(r, Idle)
       ELSE /\ Go(r, IF q.parent = NoRow THEN [q EXCEPT !.at = "undoDir"] ELSE Idle)
            /\ UNCHANGED rows
    /\ UNCHANGED <<lastId, dirs, crossed>>

UndoDir(r) ==
    LET q == req[r] IN
    /\ AtLabel(r, "undoDir")
    /\ dirs' = IF CanMoveDir(q.slug, q.key) THEN MovedDir(q.slug, q.key) ELSE dirs
    /\ Go(r, Idle)
    /\ UNCHANGED <<rows, lastId, crossed>>

-----------------------------------------------------------------------------
(* Mutant: the children of the project are not asked for. *)
MayMoveAnyway(i, p) == p \in DOMAIN rows /\ p # i /\ ~IsChild(p)

(* What SetParent asks before it writes. *)
MayMove(i, p) == p \in DOMAIN rows /\ p # i /\ ~IsChild(p) /\ ~HasChildren(i)

AskMove(r, i, p) ==
    /\ Idles(r) /\ i \in DOMAIN rows
    /\ MayMove(i, p)
    /\ Go(r, [Idle EXCEPT !.at = "askTrigger", !.id = i, !.parent = p])
    /\ UNCHANGED <<rows, lastId, dirs, crossed>>

(* check_no_nested_parent: the trigger looks at the parent alone, in the   *)
(* snapshot of its statement.                                              *)
AskTrigger(r) ==
    LET q == req[r] IN
    /\ AtLabel(r, "askTrigger")
    /\ Go(r, IF {q.id, q.parent} \subseteq DOMAIN rows /\ ~IsChild(q.parent)
             THEN [q EXCEPT !.at = "setParent"] ELSE Idle)
    /\ UNCHANGED <<rows, lastId, dirs, crossed>>

(* The foreign key and the two slug indexes see what was committed since. *)
SetParent(r) ==
    LET q == req[r] IN
    /\ AtLabel(r, "setParent")
    /\ IF /\ {q.id, q.parent} \subseteq DOMAIN rows
          /\ \A j \in DOMAIN rows \ {q.id} : <<rows[j].slug, rows[j].parent>>
                                             # <<rows[q.id].slug, q.parent>>
       THEN /\ rows' = [rows EXCEPT ![q.id].parent = q.parent]
            /\ crossed' = Crossing(r, q.id, q.parent)
       ELSE UNCHANGED <<rows, crossed>>
    /\ Go(r, Idle)
    /\ UNCHANGED <<lastId, dirs>>

ClearParent(i) ==
    /\ i \in DOMAIN rows /\ IsChild(i)
    /\ ~SlugTaken(rows[i].slug, NoRow)
    /\ rows' = [rows EXCEPT ![i].parent = NoRow]
    /\ UNCHANGED <<lastId, dirs, req, crossed>>

(* The watcher registers a directory whose name is nobody's slug, also one *)
(* that a deleted child has left behind.                                   *)
Register(k) ==
    /\ k \in DOMAIN dirs
    /\ \A i \in DOMAIN rows : rows[i].slug # k
    /\ ~KeyTaken(k) /\ lastId < MaxRows
    /\ lastId' = lastId + 1
    /\ rows' = With(rows, lastId', [slug |-> k, parent |-> NoRow, key |-> k])
    /\ UNCHANGED <<dirs, req, crossed>>

(* The process stops: what its request had still to do is not done. *)
Stop(r) ==
    /\ ~Idles(r)
    /\ Go(r, Idle)
    /\ UNCHANGED <<rows, lastId, dirs, crossed>>

Create(r)  == \E s \in Slugs : InsertTop(r, s) \/ \E p \in Ids : InsertChild(r, s, p)
Delete(r)  == (\E i \in Ids : BeginDelete(r, i)) \/ RemoveDir(r) \/ RemoveRow(r)
Rename(r)  == \/ \E i \in Ids, s \in Slugs : BeginRename(r, i, s)
              \/ RenameDir(r) \/ RenameRow(r) \/ UndoDir(r)
Move(r)    == \/ \E i, p \in Ids : AskMove(r, i, p)
              \/ AskTrigger(r) \/ SetParent(r)

Next ==
    \/ \E r \in Requests : \/ Create(r) \/ SetKey(r) \/ MakeDir(r)
                           \/ Delete(r)
                           \/ Rename(r)
                           \/ Move(r)
                           \/ Stop(r)
    \/ \E i \in Ids : Store(i) \/ ClearParent(i)
    \/ \E k \in Slugs \union Ids : Register(k)

Spec == Init /\ [][Next]_vars

-----------------------------------------------------------------------------
(* No two projects ever use one directory, whatever is created, renamed,   *)
(* moved under a parent and out again in whatever order (migration 0034).  *)
NoSharedHome == \A i, j \in DOMAIN rows : rows[i].key = rows[j].key => i = j

(* Whatever is created, renamed, deleted or moved meanwhile, a child gets  *)
(* children of its own only where the requests that placed the two         *)
(* projects crossed between question and write (SetParent,                 *)
(* check_no_nested_parent); otherwise the hierarchy is one level deep.     *)
OneLevel ==
    \A i, j \in DOMAIN rows : IsChild(i) /\ rows[j].parent = i => {i, j} \in crossed

(* docs/features.md: "Hierarchy depth is limited to 1 level". Two requests *)
(* that move projects at one time make more of it.                         *)
AlwaysOneLevel == \A i \in DOMAIN rows : IsChild(i) => ~HasChildren(i)

(* Store.CreateProject and CreateProjectWithParent: "Returns               *)
(* store.ErrProjectExists if the slug is taken", not when it is free.      *)
ExistsMeansTaken ==
    /\ \A s \in Slugs : KeyTaken(s) => SlugTaken(s, NoRow)
    /\ ~KeyTaken(Zero)

(* 0034_storage_key.sql: "slug validation rejects all-numeric names",      *)
(* which are the ids of children; so no project is ever named like one.    *)
NamesNotNumeric == \A i \in DOMAIN rows : rows[i].slug \in Slugs

(* A directory holds nothing of other projects than the one it belongs to. *)
OwnDataOnly ==
    \A i \in DOMAIN rows : rows[i].key \in DOMAIN dirs => dirs[rows[i].key] \in {i, NoRow}
=============================================================================
