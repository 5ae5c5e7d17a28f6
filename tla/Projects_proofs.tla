--------------------------- MODULE Projects_proofs ---------------------------
(***************************************************************************)
(* Proofs about Projects, for any slugs, requests and number of projects:  *)
(* no two projects share a directory, and the hierarchy is one level deep  *)
(* but for requests that crossed. And about their data on S3: a move drops nothing,    *)
(* and a report that is served is of the build it is asked for.            *)
(***************************************************************************)
EXTENDS MCProjects, FiniteSetTheorems, TLAPS

USE ProjectsConstants

-----------------------------------------------------------------------------
(* The inductive invariants. *)

\* An id that no directory can be called after: it was never given to a
\* project, or its child has not got its key yet.
FreshId(k) ==
  k > lastId \/ \E r \in Requests : req[r].at = "setKey" /\ req[r].id = k

\* Neither a row nor a directory nor a request names the key.
Unnamed(k) ==
  /\ \A i \in DOMAIN rows : rows[i].key # k
  /\ k \notin DOMAIN dirs
  /\ \A r \in Requests : req[r].key # k

FreshUnnamed == \A k \in Ids : FreshId(k) => Unnamed(k)

\* What the requests on their way carry.
Carried ==
  \A r \in Requests :
    /\ req[r].at = "setKey" => req[r].id \in 1 .. lastId
    /\ req[r].at = "makeDir" => req[r].key # Zero
    /\ req[r].at \in {"renameDir", "renameRow", "undoDir"} => req[r].slug \in Slugs
    /\ req[r].at \in {"renameDir", "undoDir"} => req[r].parent = NoRow
    /\ req[r].at \in {"renameRow", "undoDir"} /\ req[r].parent = NoRow => req[r].key # Zero

\* An id is given to one request.
OneSetter ==
  \A r, s \in Requests :
    req[r].at = "setKey" /\ req[s].at = "setKey" /\ req[r].id = req[s].id => r = s

Homes == NoSharedHome /\ FreshUnnamed /\ Carried /\ OneSetter

\* A move on its way: what its request has asked is so still, or the request
\* that changed it is on record.
MovesAreFlat ==
  \A r \in Requests :
    /\ Moving(r) =>
         /\ req[r].id # req[r].parent /\ NoRow \notin {req[r].id, req[r].parent}
         /\ \A j \in DOMAIN rows : rows[j].parent = req[r].id => {j, req[r].id} \in crossed
    /\ AtLabel(r, "setParent") /\ req[r].parent \in DOMAIN rows /\ IsChild(req[r].parent) =>
         {req[r].parent, req[r].id} \in crossed

Flat == OneLevel /\ MovesAreFlat

-----------------------------------------------------------------------------
(* Types, one variable at a time. *)

Request == [at : Labels, id : Ids \union {NoRow}, slug : Slugs \union {NoSlug},
            key : Keys, parent : Ids \union {NoRow}]

RowsOK ==
  /\ lastId \in 0 .. MaxRows /\ DOMAIN rows \subseteq 1 .. lastId
  /\ \A i \in DOMAIN rows : rows[i] \in Row /\ rows[i].parent \in DOMAIN rows \union {NoRow}
DirsOK == /\ DOMAIN dirs \subseteq Keys \ {Zero}
          /\ \A k \in DOMAIN dirs : dirs[k] \in Ids \union {NoRow}
ReqOK  == req \in [Requests -> Request]
CrossedOK == crossed \subseteq SUBSET (Ids \union {NoRow})

LEMMA TypeParts ==
  /\ TypeOK <=> RowsOK /\ DirsOK /\ ReqOK /\ CrossedOK
  /\ TypeOK' <=> RowsOK' /\ DirsOK' /\ ReqOK' /\ CrossedOK'
  BY DEF TypeOK, RowsOK, DirsOK, ReqOK, CrossedOK, Request

LEMMA Members ==
  /\ Zero \in Keys /\ Zero \notin Ids /\ Zero \notin Slugs
  /\ Ids \subseteq Keys /\ Slugs \subseteq Keys
  /\ NoRow \notin Ids
  /\ Slugs \cap Ids = {}
  BY DEF Zero, Ids, Keys

LEMMA RowFields ==
  ASSUME NEW w \in Row
  PROVE  /\ w.slug \in Slugs \union Ids /\ w.parent \in Ids \union {NoRow} /\ w.key \in Keys
         /\ \A s \in Slugs \union Ids, k \in Keys : [w EXCEPT !.slug = s, !.key = k] \in Row
         /\ \A k \in Keys : [w EXCEPT !.key = k] \in Row
         /\ \A p \in Ids \union {NoRow} : [w EXCEPT !.parent = p] \in Row
  BY DEF Row

LEMMA RequestFields ==
  ASSUME NEW q \in Request
  PROVE  /\ q.at \in Labels /\ q.id \in Ids \union {NoRow} /\ q.slug \in Slugs \union {NoSlug}
         /\ q.key \in Keys /\ q.parent \in Ids \union {NoRow}
         /\ \A l \in Labels : [q EXCEPT !.at = l] \in Request
  BY DEF Request

LEMMA IdleRequests ==
  /\ Idle \in Request
  /\ \A k \in Keys : [Idle EXCEPT !.at = "makeDir", !.key = k] \in Request
  /\ \A i \in Ids : [Idle EXCEPT !.at = "setKey", !.id = i] \in Request
  /\ \A i \in Ids, k \in Keys :
       [Idle EXCEPT !.at = "removeDir", !.id = i, !.key = k] \in Request
  /\ \A i \in Ids, p \in Ids :
       [Idle EXCEPT !.at = "askTrigger", !.id = i, !.parent = p] \in Request
  BY Members DEF Idle, Request, Labels

\* A request that goes on.
LEMMA GoOK ==
  ASSUME ReqOK, NEW r \in Requests, NEW next \in Request, Go(r, next)
  PROVE  ReqOK'
  BY DEF ReqOK, Go

\* The rows of a project and of everything under it go together.
LEMMA BelowIsClosed ==
  ASSUME NEW i, NEW j \in DOMAIN rows, rows[j].parent \in Below(i)
  PROVE  j \in Below(i)
  BY DEF Below, HoldsChildren

\* An inserted row, a changed one, and rows that go with their children.
LEMMA InsertOK ==
  ASSUME RowsOK, lastId < MaxRows, lastId' = lastId + 1, NEW w \in Row,
         w.parent \in DOMAIN rows \union {NoRow}, rows' = With(rows, lastId', w)
  PROVE  RowsOK'
<1>1. /\ lastId' \in 1 .. MaxRows /\ DOMAIN rows' = DOMAIN rows \union {lastId'}
      /\ lastId' \notin DOMAIN rows
  BY DEF With, RowsOK
<1>2. rows'[lastId'] = w /\ \A i \in DOMAIN rows : rows'[i] = rows[i]
  BY <1>1 DEF With
<1>3. QED
  BY <1>1, <1>2 DEF RowsOK

LEMMA ChangeOK ==
  ASSUME RowsOK, UNCHANGED lastId, NEW i \in DOMAIN rows, NEW w \in Row,
         w.parent \in DOMAIN rows \union {NoRow}, rows' = [rows EXCEPT ![i] = w]
  PROVE  RowsOK'
  BY DEF RowsOK

LEMMA RemoveOK ==
  ASSUME RowsOK, UNCHANGED lastId, NEW i, rows' = Without(rows, Below(i))
  PROVE  RowsOK'
<1>1. DOMAIN rows' = DOMAIN rows \ Below(i) /\ \A j \in DOMAIN rows' : rows'[j] = rows[j]
  BY DEF Without
<1>2. \A j \in DOMAIN rows' : rows[j].parent \notin Below(i)
  BY <1>1, BelowIsClosed
<1>3. QED
  BY <1>1, <1>2 DEF RowsOK

LEMMA TypeInit == Init => TypeOK /\ Homes /\ Flat
<1> SUFFICES ASSUME Init PROVE TypeOK /\ Homes /\ Flat
  OBVIOUS
<1>1. /\ DOMAIN rows = {} /\ DOMAIN dirs = {} /\ lastId = 0
      /\ \A r \in Requests : req[r] = Idle
  BY DEF Init
<1>2. /\ Idle.at = "idle" /\ Idle.key = Zero
  BY DEF Idle
<1>3. TypeOK
  <2>1. RowsOK /\ DirsOK
    BY <1>1 DEF RowsOK, DirsOK
  <2>2. ReqOK
    BY IdleRequests DEF Init, ReqOK
  <2>3. CrossedOK
    BY DEF Init, CrossedOK
  <2>4. QED
    BY <2>1, <2>2, <2>3, TypeParts
<1>4. Homes
  BY <1>1, <1>2, Members
     DEF Homes, NoSharedHome, FreshUnnamed, Unnamed, FreshId, Carried, OneSetter
<1>5. Flat
  BY <1>1, <1>2 DEF Flat, OneLevel, MovesAreFlat, Moving, AtLabel
<1>6. QED
  BY <1>3, <1>4, <1>5

\* The rows, by what each action does to them.
LEMMA RowsStep ==
  ASSUME TypeOK, Carried, [Next]_vars
  PROVE  RowsOK'
<1> USE Members
<1>a. RowsOK /\ DirsOK /\ ReqOK
  BY TypeParts
<1>b. \A r \in Requests : req[r] \in Request
  BY <1>a DEF ReqOK
<1>1. CASE UNCHANGED <<rows, lastId>>
  BY <1>1, <1>a DEF RowsOK
<1>2. ASSUME NEW r \in Requests, NEW s \in Slugs, InsertTop(r, s)
      PROVE  RowsOK'
  <2>1. [slug |-> s, parent |-> NoRow, key |-> s] \in Row
    BY DEF Row
  <2>2. QED
    BY <1>1, <1>2, <1>a, <2>1, InsertOK DEF InsertTop
<1>3. ASSUME NEW r \in Requests, NEW s \in Slugs, NEW p \in Ids, InsertChild(r, s, p)
      PROVE  RowsOK'
  <2>1. [slug |-> s, parent |-> p, key |-> Zero] \in Row
    BY DEF Row
  <2>2. QED
    BY <1>1, <1>3, <1>a, <2>1, InsertOK DEF InsertChild
<1>4. ASSUME NEW r \in Requests, SetKey(r)
      PROVE  RowsOK'
  <2> DEFINE i == req[r].id
  <2>1. CASE i \in DOMAIN rows
    <3>1. i \in Ids /\ rows[i] \in Row /\ rows[i].parent \in DOMAIN rows \union {NoRow}
      BY <2>1, <1>a DEF RowsOK, Ids
    <3>2. [rows[i] EXCEPT !.key = i] \in Row /\ [rows[i] EXCEPT !.key = i].parent = rows[i].parent
      BY <3>1 DEF Row
    <3>3. rows' = [rows EXCEPT ![i] = [rows[i] EXCEPT !.key = i]]
      BY <2>1, <1>4 DEF SetKey
    <3>4. QED
      BY <1>4, <1>a, <2>1, <3>1, <3>2, <3>3, ChangeOK DEF SetKey
  <2>2. CASE i \notin DOMAIN rows
    BY <1>1, <1>4, <2>2 DEF SetKey
  <2>3. QED
    BY <2>1, <2>2
<1>5. ASSUME NEW r \in Requests, RemoveRow(r)
      PROVE  RowsOK'
  BY <1>5, <1>a, RemoveOK DEF RemoveRow
<1>6. ASSUME NEW r \in Requests, RenameRow(r)
      PROVE  RowsOK'
  <2> DEFINE i == req[r].id
  <2>1. PICK key \in Keys : \/ UNCHANGED <<rows, lastId>>
                            \/ /\ i \in DOMAIN rows /\ UNCHANGED lastId
                               /\ rows' = [rows EXCEPT ![i].slug = req[r].slug, ![i].key = key]
    <3>1. req[r].slug \in Slugs /\ (i \in DOMAIN rows => rows[i].key \in Keys)
      BY <1>6, <1>a, RowFields DEF RenameRow, AtLabel, Carried, RowsOK
    <3>2. QED
      BY <1>6, <3>1 DEF RenameRow
  <2>2. CASE UNCHANGED <<rows, lastId>>
    BY <1>1, <2>2
  <2>3. CASE /\ i \in DOMAIN rows /\ UNCHANGED lastId
             /\ rows' = [rows EXCEPT ![i].slug = req[r].slug, ![i].key = key]
    <3>1. req[r].slug \in Slugs
      BY <1>6 DEF RenameRow, AtLabel, Carried
    <3>2. rows[i] \in Row /\ rows[i].parent \in DOMAIN rows \union {NoRow}
      BY <2>3, <1>a DEF RowsOK
    <3>3. /\ [rows[i] EXCEPT !.slug = req[r].slug, !.key = key] \in Row
          /\ [rows[i] EXCEPT !.slug = req[r].slug, !.key = key].parent = rows[i].parent
      BY <3>1, <3>2 DEF Row
    <3>4. rows' = [rows EXCEPT ![i] = [rows[i] EXCEPT !.slug = req[r].slug, !.key = key]]
      BY <2>3
    <3>5. QED
      BY <1>a, <2>3, <3>2, <3>3, <3>4, ChangeOK
  <2>4. QED
    BY <2>1, <2>2, <2>3
<1>7. ASSUME NEW i \in DOMAIN rows, NEW p \in DOMAIN rows \union {NoRow}, UNCHANGED lastId,
             rows' = [rows EXCEPT ![i].parent = p]
      PROVE  RowsOK'
  <2>1. rows[i] \in Row /\ p \in Ids \union {NoRow}
    BY <1>a DEF RowsOK, Ids
  <2>2. [rows[i] EXCEPT !.parent = p] \in Row /\ [rows[i] EXCEPT !.parent = p].parent = p
    BY <2>1 DEF Row
  <2>3. rows' = [rows EXCEPT ![i] = [rows[i] EXCEPT !.parent = p]]
    BY <1>7
  <2>4. QED
    BY <1>7, <1>a, <2>2, <2>3, ChangeOK
<1>8. ASSUME NEW r \in Requests, SetParent(r)
      PROVE  RowsOK'
  BY <1>1, <1>7, <1>8 DEF SetParent
<1>9. ASSUME NEW i \in Ids, ClearParent(i)
      PROVE  RowsOK'
  BY <1>7, <1>9 DEF ClearParent
<1>10. ASSUME NEW k \in Slugs \union Ids, Register(k)
       PROVE  RowsOK'
  <2>1. [slug |-> k, parent |-> NoRow, key |-> k] \in Row
    BY DEF Row
  <2>2. QED
    BY <1>10, <1>a, <2>1, InsertOK DEF Register
<1>11. QED
  BY <1>1, <1>2, <1>3, <1>4, <1>5, <1>6, <1>8, <1>9, <1>10
     DEF Next, vars, Create, MakeDir, Store, Delete, BeginDelete, RemoveDir, Rename, BeginRename,
         RenameDir, UndoDir, Move, AskMove, AskTrigger, Stop

\* The directories.
LEMMA HoldingOK ==
  ASSUME DirsOK, NEW k \in Keys \ {Zero}, NEW i \in Ids \union {NoRow}, dirs' = Holding(k, i)
  PROVE  DirsOK'
  BY DEF DirsOK, Holding, With

LEMMA MovedOK ==
  ASSUME DirsOK, NEW from, NEW to \in Keys \ {Zero}, CanMoveDir(from, to),
         dirs' = MovedDir(from, to)
  PROVE  DirsOK'
  BY DEF DirsOK, MovedDir, CanMoveDir, With, Without

LEMMA DirsStep ==
  ASSUME TypeOK, Carried, [Next]_vars
  PROVE  DirsOK'
<1> USE Members
<1>a. RowsOK /\ DirsOK /\ ReqOK
  BY TypeParts
<1>b. \A r \in Requests : req[r] \in Request
  BY <1>a DEF ReqOK
<1>1. CASE UNCHANGED dirs
  BY <1>1, <1>a DEF DirsOK
<1>2. ASSUME NEW r \in Requests, MakeDir(r)
      PROVE  DirsOK'
  <2>1. req[r].key \in Keys \ {Zero}
    BY <1>2, <1>b, RequestFields DEF MakeDir, AtLabel, Carried
  <2>2. QED
    BY <1>2, <1>a, <2>1, HoldingOK DEF MakeDir
<1>3. ASSUME NEW i \in Ids, Store(i)
      PROVE  DirsOK'
  <2>1. rows[i].key \in Keys \ {Zero}
    BY <1>3, <1>a, RowFields DEF Store, RowsOK
  <2>2. QED
    BY <1>3, <1>a, <2>1, HoldingOK DEF Store
<1>4. ASSUME NEW r \in Requests, RemoveDir(r)
      PROVE  DirsOK'
  BY <1>4, <1>a DEF RemoveDir, Without, DirsOK
<1>5. ASSUME NEW r \in Requests, RenameDir(r)
      PROVE  DirsOK'
  <2>1. req[r].slug \in Keys \ {Zero}
    BY <1>5 DEF RenameDir, AtLabel, Carried
  <2>2. QED
    BY <1>1, <1>5, <1>a, <2>1, MovedOK DEF RenameDir
<1>6. ASSUME NEW r \in Requests, UndoDir(r)
      PROVE  DirsOK'
  <2>1. req[r].key \in Keys \ {Zero}
    BY <1>6, <1>b, RequestFields DEF UndoDir, AtLabel, Carried
  <2>2. QED
    BY <1>1, <1>6, <1>a, <2>1, MovedOK DEF UndoDir
<1>7. QED
  BY <1>1, <1>2, <1>3, <1>4, <1>5, <1>6
     DEF Next, vars, Create, InsertTop, InsertChild, SetKey, Delete, BeginDelete, RemoveRow, Rename,
         BeginRename, RenameRow, Move, AskMove, AskTrigger, SetParent, ClearParent, Register, Stop

\* The requests.
LEMMA RequestsStep ==
  ASSUME TypeOK, Carried, [Next]_vars
  PROVE  ReqOK'
<1>a. RowsOK /\ DirsOK /\ ReqOK
  BY TypeParts
<1>b. \A r \in Requests : req[r] \in Request
  BY <1>a DEF ReqOK
<1>c. \A i \in DOMAIN rows :
        i \in Ids /\ rows[i].key \in Keys /\ rows[i].parent \in Ids \union {NoRow}
  <2>1. \A i \in DOMAIN rows : i \in Ids /\ rows[i] \in Row
    BY <1>a DEF RowsOK, Ids
  <2>2. QED
    BY <2>1, RowFields
<1>1. CASE UNCHANGED req
  BY <1>1, <1>a DEF ReqOK
<1>2. ASSUME NEW r \in Requests, \E next \in Request : Go(r, next)
      PROVE  ReqOK'
  BY <1>2, <1>a, GoOK
<1>3. ASSUME NEW r \in Requests, NEW l \in Labels, Go(r, [req[r] EXCEPT !.at = l])
      PROVE  ReqOK'
  BY <1>2, <1>3, <1>b, RequestFields
<1>4. ASSUME NEW r \in Requests, NEW s \in Slugs, InsertTop(r, s)
      PROVE  ReqOK'
  BY <1>1, <1>2, <1>4, Members, IdleRequests DEF InsertTop
<1>5. ASSUME NEW r \in Requests, NEW s \in Slugs, NEW p \in Ids, InsertChild(r, s, p)
      PROVE  ReqOK'
  <2>1. lastId' = lastId + 1 => lastId' \in Ids
    <3>1. lastId < MaxRows /\ lastId \in 0 .. MaxRows
      BY <1>5, <1>a DEF InsertChild, RowsOK
    <3>2. QED
      BY <3>1 DEF Ids
  <2>2. QED
    BY <1>1, <1>2, <1>5, <2>1, IdleRequests DEF InsertChild
<1>6. ASSUME NEW r \in Requests, SetKey(r)
      PROVE  ReqOK'
  <2>1. req[r].id \in 1 .. lastId /\ lastId \in 0 .. MaxRows
    BY <1>6, <1>a DEF SetKey, AtLabel, Carried, RowsOK
  <2>2. req[r].id \in Ids
    BY <2>1 DEF Ids
  <2>3. QED
    BY <1>2, <1>6, <2>2, Members, IdleRequests DEF SetKey
<1>7. ASSUME NEW r \in Requests, NEW i \in Ids, BeginDelete(r, i)
      PROVE  ReqOK'
  BY <1>2, <1>7, <1>c, IdleRequests DEF BeginDelete
<1>8. ASSUME NEW r \in Requests, NEW i \in Ids, NEW s \in Slugs, BeginRename(r, i, s)
      PROVE  ReqOK'
  <2>1. [at |-> IF IsChild(i) THEN "renameRow" ELSE "renameDir",
         id |-> i, slug |-> s, key |-> rows[i].key, parent |-> rows[i].parent] \in Request
    <3>1. rows[i].key \in Keys /\ rows[i].parent \in Ids \union {NoRow}
      BY <1>8, <1>c DEF BeginRename
    <3>2. (IF IsChild(i) THEN "renameRow" ELSE "renameDir") \in Labels
      BY DEF Labels
    <3>3. QED
      BY <3>1, <3>2 DEF Request
  <2>2. QED
    BY <1>2, <1>8, <2>1 DEF BeginRename
<1>9. ASSUME NEW r \in Requests, NEW i \in Ids, NEW p \in Ids, AskMove(r, i, p)
      PROVE  ReqOK'
  BY <1>2, <1>9, IdleRequests DEF AskMove
<1>10. ASSUME NEW r \in Requests,
              \/ MakeDir(r) \/ RemoveDir(r) \/ RemoveRow(r) \/ RenameDir(r) \/ RenameRow(r)
              \/ UndoDir(r) \/ AskTrigger(r) \/ SetParent(r) \/ Stop(r)
       PROVE  ReqOK'
  <2>1. \/ Go(r, Idle)
        \/ \E l \in Labels : Go(r, [req[r] EXCEPT !.at = l])
    BY <1>10
       DEF MakeDir, RemoveDir, RemoveRow, RenameDir, RenameRow, UndoDir, AskTrigger, SetParent,
                 Stop, Labels
  <2>2. QED
    BY <1>2, <1>3, <2>1, IdleRequests
<1>11. QED
  BY <1>1, <1>4, <1>5, <1>6, <1>7, <1>8, <1>9, <1>10
     DEF Next, vars, Create, Store, Delete, Rename, Move, ClearParent, Register

\* What is on record stays there; only what puts a project under another adds
\* to it.
LEMMA CrossedStep ==
  ASSUME TypeOK, [Next]_vars
  PROVE  CrossedOK' /\ crossed \subseteq crossed'
<1>a. RowsOK /\ ReqOK /\ CrossedOK
  BY TypeParts
<1>1. CASE UNCHANGED crossed
  BY <1>1, <1>a DEF CrossedOK
<1>2. ASSUME NEW r \in Requests, NEW i \in Ids \union {NoRow}, NEW p, crossed' = Crossing(r, i, p)
      PROVE  CrossedOK' /\ crossed \subseteq crossed'
  <2>1. \A t \in Requests : req[t].id \in Ids \union {NoRow}
    BY <1>a DEF ReqOK, Request
  <2>2. QED
    BY <1>2, <1>a, <2>1 DEF Crossing, CrossedOK
<1>3. ASSUME NEW r \in Requests, NEW s \in Slugs, NEW p \in Ids, InsertChild(r, s, p)
      PROVE  CrossedOK' /\ crossed \subseteq crossed'
  <2>1. CASE UNCHANGED crossed
    BY <1>1, <2>1
  <2>2. CASE lastId' = lastId + 1 /\ crossed' = Crossing(r, lastId', p)
    <3>1. lastId' \in Ids
      BY <1>3, <1>a, <2>2 DEF InsertChild, RowsOK, Ids
    <3>2. QED
      BY <1>2, <2>2, <3>1
  <2>3. QED
    BY <1>3, <2>1, <2>2 DEF InsertChild
<1>4. ASSUME NEW r \in Requests, SetParent(r)
      PROVE  CrossedOK' /\ crossed \subseteq crossed'
  <2>1. req[r].id \in Ids \union {NoRow}
    BY <1>a DEF ReqOK, Request
  <2>2. UNCHANGED crossed \/ crossed' = Crossing(r, req[r].id, req[r].parent)
    BY <1>4 DEF SetParent
  <2>3. QED
    BY <1>1, <1>2, <2>1, <2>2
<1>5. QED
  BY <1>1, <1>3, <1>4
     DEF Next, vars, Create, InsertTop, SetKey, MakeDir, Store, Delete, BeginDelete, RemoveDir, RemoveRow,
         Rename, BeginRename, RenameDir, RenameRow, UndoDir, Move, AskMove, AskTrigger, ClearParent,
         Register, Stop

LEMMA TypeStep == TypeOK /\ Carried /\ [Next]_vars => TypeOK'
  BY RowsStep, DirsStep, RequestsStep, CrossedStep, TypeParts

-----------------------------------------------------------------------------
(* What the steps do to requests. *)

LEMMA IdleIs == Idle.at = "idle" /\ Idle.key = Zero
  BY DEF Idle

\* Each step moves at most one request; where it is then.
Moves(r) ==
  /\ \A q \in Requests \ {r} : req'[q] = req[q]
  /\ \/ req'[r] = Idle
     \/ /\ \E s \in Slugs : InsertTop(r, s)
        /\ req'[r].at = "makeDir" /\ req'[r].key \in Slugs
     \/ /\ \E s \in Slugs, p \in Ids : InsertChild(r, s, p)
        /\ req'[r].at = "setKey" /\ req'[r].id = lastId' /\ req'[r].key = Zero
     \/ /\ SetKey(r)
        /\ req'[r].at = "makeDir" /\ req'[r].key = req[r].id
     \/ /\ \E i \in DOMAIN rows : req'[r].key = rows[i].key
        /\ req'[r].at = "removeDir"
     \/ /\ RemoveDir(r) /\ req'[r].at = "removeRow" /\ req'[r].key = req[r].key
     \/ /\ \E i \in DOMAIN rows : /\ req'[r].key = rows[i].key
                                  /\ req'[r].parent = rows[i].parent
        /\ req'[r].slug \in Slugs
        /\ req'[r].at = IF req'[r].parent = NoRow THEN "renameDir" ELSE "renameRow"
     \/ /\ RenameDir(r) /\ CanMoveDir(req[r].key, req[r].slug)
        /\ req'[r].at = "renameRow" /\ req'[r].slug = req[r].slug
        /\ req'[r].key = req[r].key /\ req'[r].parent = req[r].parent
     \/ /\ RenameRow(r) /\ req[r].parent = NoRow
        /\ req'[r].at = "undoDir" /\ req'[r].slug = req[r].slug
        /\ req'[r].key = req[r].key /\ req'[r].parent = req[r].parent
     \/ /\ \E i, p \in Ids : /\ AskMove(r, i, p)
                             /\ req'[r].id = i /\ req'[r].parent = p
        /\ req'[r].at = "askTrigger" /\ req'[r].key = Zero
     \/ /\ AskTrigger(r)
        /\ {req[r].id, req[r].parent} \subseteq DOMAIN rows /\ ~IsChild(req[r].parent)
        /\ req'[r].at = "setParent" /\ req'[r].key = req[r].key
        /\ req'[r].id = req[r].id /\ req'[r].parent = req[r].parent

LEMMA MovedTo ==
  ASSUME TypeOK, [Next]_vars
  PROVE  req' = req \/ \E r \in Requests : Moves(r)
<1>a. ReqOK
  BY TypeParts
<1> DEFINE Others(r) == \A q \in Requests \ {r} : req'[q] = req[q]
<1>1. CASE UNCHANGED req
  BY <1>1
<1>2. ASSUME NEW r \in Requests, NEW s \in Slugs, InsertTop(r, s), req' # req
      PROVE  Others(r) /\ req'[r].at = "makeDir" /\ req'[r].key \in Slugs
  <2>1. Go(r, [Idle EXCEPT !.at = "makeDir", !.key = s])
    BY <1>2 DEF InsertTop
  <2>2. QED
    BY <2>1, <1>a DEF Go, ReqOK, Idle
<1>3. ASSUME NEW r \in Requests, NEW s \in Slugs, NEW p \in Ids, InsertChild(r, s, p), req' # req
      PROVE  Others(r) /\ req'[r].at = "setKey" /\ req'[r].id = lastId' /\ req'[r].key = Zero
  <2>1. Go(r, [Idle EXCEPT !.at = "setKey", !.id = lastId'])
    BY <1>3 DEF InsertChild
  <2>2. QED
    BY <2>1, <1>a DEF Go, ReqOK, Idle
<1>4. ASSUME NEW r \in Requests, SetKey(r)
      PROVE  Others(r) /\ req'[r].at = "makeDir" /\ req'[r].key = req[r].id
  BY <1>4, <1>a DEF SetKey, Go, ReqOK, Request, Idle
<1>5. ASSUME NEW r \in Requests, NEW i \in Ids, BeginDelete(r, i)
      PROVE  Others(r) /\ i \in DOMAIN rows /\ req'[r].key = rows[i].key /\ req'[r].at = "removeDir"
  BY <1>5, <1>a DEF BeginDelete, Go, ReqOK, Request, Idle
<1>6. ASSUME NEW r \in Requests, RemoveDir(r)
      PROVE  Others(r) /\ req'[r].at = "removeRow" /\ req'[r].key = req[r].key
  BY <1>6, <1>a DEF RemoveDir, Go, ReqOK, Request, Idle
<1>7. ASSUME NEW r \in Requests, NEW i \in Ids, NEW s \in Slugs, BeginRename(r, i, s)
      PROVE  /\ Others(r) /\ i \in DOMAIN rows
             /\ req'[r].key = rows[i].key /\ req'[r].parent = rows[i].parent
             /\ req'[r].slug \in Slugs
             /\ req'[r].at = IF req'[r].parent = NoRow THEN "renameDir" ELSE "renameRow"
  <2>1. /\ Others(r) /\ i \in DOMAIN rows
        /\ req'[r] = [at |-> IF IsChild(i) THEN "renameRow" ELSE "renameDir", id |-> i,
                      slug |-> s, key |-> rows[i].key, parent |-> rows[i].parent]
    BY <1>7, <1>a DEF BeginRename, Go, ReqOK
  <2>2. QED
    BY <2>1 DEF IsChild
<1>8. ASSUME NEW r \in Requests, RenameDir(r)
      PROVE  /\ Others(r)
             /\ \/ req'[r] = Idle
                \/ /\ CanMoveDir(req[r].key, req[r].slug)
                   /\ req'[r].at = "renameRow" /\ req'[r].slug = req[r].slug
                   /\ req'[r].key = req[r].key /\ req'[r].parent = req[r].parent
  BY <1>8, <1>a DEF RenameDir, Go, ReqOK, Request, Idle
<1>9. ASSUME NEW r \in Requests, RenameRow(r)
      PROVE  /\ Others(r)
             /\ \/ req'[r] = Idle
                \/ /\ req[r].parent = NoRow
                   /\ req'[r].at = "undoDir" /\ req'[r].slug = req[r].slug
                   /\ req'[r].key = req[r].key /\ req'[r].parent = req[r].parent
  <2>1. \/ Go(r, Idle)
        \/ req[r].parent = NoRow /\ Go(r, [req[r] EXCEPT !.at = "undoDir"])
    BY <1>9 DEF RenameRow
  <2>2. QED
    BY <2>1, <1>a DEF Go, ReqOK, Request
<1>10. ASSUME NEW r \in Requests, NEW i \in Ids, NEW p \in Ids, AskMove(r, i, p)
       PROVE  /\ Others(r) /\ req'[r].id = i /\ req'[r].parent = p
              /\ req'[r].at = "askTrigger" /\ req'[r].key = Zero
  BY <1>10, <1>a DEF AskMove, Go, ReqOK, Request, Idle
<1>11. ASSUME NEW r \in Requests, AskTrigger(r)
       PROVE  /\ Others(r)
              /\ \/ req'[r] = Idle
                 \/ /\ {req[r].id, req[r].parent} \subseteq DOMAIN rows /\ ~IsChild(req[r].parent)
                    /\ req'[r].at = "setParent" /\ req'[r].key = req[r].key
                    /\ req'[r].id = req[r].id /\ req'[r].parent = req[r].parent
  BY <1>11, <1>a DEF AskTrigger, Go, ReqOK, Request, Idle
<1>12. ASSUME NEW r \in Requests,
              MakeDir(r) \/ RemoveRow(r) \/ UndoDir(r) \/ SetParent(r) \/ Stop(r)
       PROVE  Others(r) /\ req'[r] = Idle
  <2>1. Go(r, Idle)
    BY <1>12 DEF MakeDir, RemoveRow, UndoDir, SetParent, Stop
  <2>2. QED
    BY <2>1, <1>a DEF Go, ReqOK
<1>13. CASE UNCHANGED vars \/ (\E i \in Ids : Store(i) \/ ClearParent(i))
            \/ \E k \in Slugs \union Ids : Register(k)
  BY <1>1, <1>13 DEF vars, Store, ClearParent, Register
<1>14. ASSUME NEW r \in Requests, Create(r), req' # req
       PROVE  Moves(r)
  BY <1>2, <1>3, <1>14 DEF Create, Moves
<1>15. ASSUME NEW r \in Requests, SetKey(r)
       PROVE  Moves(r)
  BY <1>4, <1>15 DEF Moves
<1>16. ASSUME NEW r \in Requests, Delete(r)
       PROVE  Moves(r)
  BY <1>5, <1>6, <1>12, <1>16 DEF Delete, Moves
<1>17. ASSUME NEW r \in Requests, Rename(r)
       PROVE  Moves(r)
  BY <1>7, <1>8, <1>9, <1>12, <1>17 DEF Rename, Moves
<1>18. ASSUME NEW r \in Requests, Move(r)
       PROVE  Moves(r)
  BY <1>10, <1>11, <1>12, <1>18 DEF Move, Moves
<1>19. ASSUME NEW r \in Requests, MakeDir(r) \/ Stop(r)
       PROVE  Moves(r)
  BY <1>12, <1>19 DEF Moves
<1>20. QED
  BY <1>1, <1>13, <1>14, <1>15, <1>16, <1>17, <1>18, <1>19 DEF Next

-----------------------------------------------------------------------------
(* No two projects share a directory.                                      *)

\* What a step does to the keys of rows: nothing, or one gets a key that was
\* not taken: a slug, that of a child without one, the name of a directory, or
\* the id of a child.
KeptKeys ==
  DOMAIN rows' \subseteq DOMAIN rows /\ \A i \in DOMAIN rows' : rows'[i].key = rows[i].key

KeyGiven(i) ==
  /\ i \in DOMAIN rows' /\ ~KeyTaken(rows'[i].key)
  /\ DOMAIN rows' \subseteq DOMAIN rows \union {i}
  /\ \A j \in DOMAIN rows' \ {i} : rows'[j].key = rows[j].key
  /\ \/ rows'[i].key \in Slugs \union {Zero} \union DOMAIN dirs
     \/ \E r \in Requests : SetKey(r) /\ req[r].id = i /\ rows'[i].key = i

LEMMA RowKeys ==
  ASSUME TypeOK, Homes, [Next]_vars
  PROVE  KeptKeys \/ \E i \in Ids : KeyGiven(i)
<1>a. RowsOK /\ lastId \in Nat
  BY TypeParts DEF RowsOK
<1>b. Carried /\ FreshUnnamed
  BY DEF Homes
<1>1. ASSUME rows' = rows
      PROVE  KeptKeys
  BY <1>1 DEF KeptKeys
<1>2. ASSUME lastId < MaxRows, lastId' = lastId + 1, NEW w, ~KeyTaken(w.key),
             rows' = With(rows, lastId', w), w.key \in Slugs \union {Zero} \union DOMAIN dirs
      PROVE  KeyGiven(lastId') /\ lastId' \in Ids
  <2>1. lastId' \in Ids
    BY <1>2, <1>a DEF Ids
  <2>2. /\ DOMAIN rows' = DOMAIN rows \union {lastId'} /\ lastId' \notin DOMAIN rows
        /\ rows'[lastId'] = w /\ \A i \in DOMAIN rows : rows'[i] = rows[i]
    BY <1>2, <1>a DEF With, RowsOK
  <2>3. QED
    BY <1>2, <2>1, <2>2 DEF KeyGiven
<1>3. ASSUME NEW r \in Requests, NEW s \in Slugs, InsertTop(r, s)
      PROVE  KeptKeys \/ \E i \in Ids : KeyGiven(i)
  <2> DEFINE w == [slug |-> s, parent |-> NoRow, key |-> s]
  <2>1. w.key = s
    OBVIOUS
  <2> HIDE DEF w
  <2>2. \/ rows' = rows
        \/ /\ lastId < MaxRows /\ lastId' = lastId + 1 /\ ~KeyTaken(s)
           /\ rows' = With(rows, lastId', w)
    BY <1>3 DEF InsertTop, w
  <2>3. QED
    BY <1>1, <1>2, <2>1, <2>2
<1>4. ASSUME NEW r \in Requests, NEW s \in Slugs, NEW p \in Ids, InsertChild(r, s, p)
      PROVE  KeptKeys \/ \E i \in Ids : KeyGiven(i)
  <2> DEFINE w == [slug |-> s, parent |-> p, key |-> Zero]
  <2>1. w.key = Zero
    OBVIOUS
  <2> HIDE DEF w
  <2>2. \/ rows' = rows
        \/ /\ lastId < MaxRows /\ lastId' = lastId + 1 /\ ~KeyTaken(Zero)
           /\ rows' = With(rows, lastId', w)
    BY <1>4 DEF InsertChild, w
  <2>3. QED
    BY <1>1, <1>2, <2>1, <2>2
<1>5. ASSUME NEW k \in Slugs \union Ids, Register(k)
      PROVE  \E i \in Ids : KeyGiven(i)
  <2> DEFINE w == [slug |-> k, parent |-> NoRow, key |-> k]
  <2>1. w.key = k
    OBVIOUS
  <2> HIDE DEF w
  <2>2. lastId < MaxRows /\ lastId' = lastId + 1 /\ ~KeyTaken(k) /\ rows' = With(rows, lastId', w)
        /\ k \in DOMAIN dirs
    BY <1>5 DEF Register, w
  <2>3. QED
    BY <1>2, <2>1, <2>2
<1>6. ASSUME NEW r \in Requests, SetKey(r)
      PROVE  KeptKeys \/ \E i \in Ids : KeyGiven(i)
  <2> DEFINE i == req[r].id
  <2>1. CASE i \in DOMAIN rows
    <3>1. i \in Ids /\ Unnamed(i)
      BY <2>1, <1>6, <1>a, <1>b DEF SetKey, AtLabel, RowsOK, Ids, FreshUnnamed, FreshId
    <3>2. ~KeyTaken(i)
      BY <3>1 DEF Unnamed, KeyTaken
    <3>3. /\ DOMAIN rows' = DOMAIN rows /\ rows'[i].key = i
          /\ \A j \in DOMAIN rows \ {i} : rows'[j] = rows[j]
      BY <2>1, <1>6, <1>a DEF SetKey, RowsOK, Row
    <3>4. QED
      BY <2>1, <3>1, <3>2, <3>3, <1>6 DEF KeyGiven
  <2>2. CASE i \notin DOMAIN rows
    BY <1>1, <1>6, <2>2 DEF SetKey
  <2>3. QED
    BY <2>1, <2>2
<1>7. ASSUME NEW r \in Requests, RemoveRow(r)
      PROVE  KeptKeys
  BY <1>7 DEF RemoveRow, Without, KeptKeys
<1>8. ASSUME NEW r \in Requests, RenameRow(r)
      PROVE  KeptKeys \/ \E i \in Ids : KeyGiven(i)
  <2> DEFINE i == req[r].id
             key == IF i \in DOMAIN rows /\ ~IsChild(i) THEN req[r].slug ELSE rows[i].key
  <2>1. CASE rows' = rows
    BY <1>1, <2>1
  <2>2. CASE rows' # rows
    <3>1. /\ i \in DOMAIN rows /\ (key # rows[i].key => ~KeyTaken(key))
          /\ rows' = [rows EXCEPT ![i].slug = req[r].slug, ![i].key = key]
      BY <1>8, <2>2 DEF RenameRow
    <3>2. key \in {rows[i].key, req[r].slug} /\ req[r].slug \in Slugs /\ i \in Ids
      BY <1>8, <1>a, <1>b, <3>1 DEF RenameRow, AtLabel, Carried, RowsOK, Ids
    <3> HIDE DEF key
    <3>3. /\ DOMAIN rows' = DOMAIN rows /\ rows'[i].key = key
          /\ \A j \in DOMAIN rows \ {i} : rows'[j] = rows[j]
      BY <3>1, <1>a DEF RowsOK, Row
    <3>4. CASE key = rows[i].key
      BY <3>3, <3>4 DEF KeptKeys
    <3>5. CASE key # rows[i].key
      BY <3>1, <3>2, <3>3, <3>5 DEF KeyGiven
    <3>6. QED
      BY <3>4, <3>5
  <2>3. QED
    BY <2>1, <2>2
<1>9. ASSUME NEW i \in DOMAIN rows, NEW p, rows' = [rows EXCEPT ![i].parent = p]
      PROVE  KeptKeys
  BY <1>9, <1>a DEF KeptKeys, RowsOK, Row
<1>10. ASSUME NEW r \in Requests, SetParent(r)
       PROVE  KeptKeys
  BY <1>1, <1>9, <1>10 DEF SetParent
<1>11. ASSUME NEW i \in Ids, ClearParent(i)
       PROVE  KeptKeys
  BY <1>9, <1>11 DEF ClearParent
<1>12. QED
  BY <1>1, <1>3, <1>4, <1>5, <1>6, <1>7, <1>8, <1>10, <1>11
     DEF Next, vars, Create, MakeDir, Store, Delete, BeginDelete, RemoveDir, Rename, BeginRename,
         RenameDir, UndoDir, Move, AskMove, AskTrigger, Stop

LEMMA NoSharedHomeStep ==
  ASSUME TypeOK, Homes, [Next]_vars
  PROVE  NoSharedHome'
<1>1. NoSharedHome
  BY DEF Homes
<1>2. CASE KeptKeys
  BY <1>1, <1>2 DEF KeptKeys, NoSharedHome
<1>3. ASSUME NEW i \in Ids, KeyGiven(i)
      PROVE  NoSharedHome'
  BY <1>1, <1>3 DEF KeyGiven, NoSharedHome, KeyTaken
<1>4. QED
  BY <1>2, <1>3, RowKeys

\* What the requests carry, by where they have moved.
LEMMA CarriedStep ==
  ASSUME TypeOK, Homes, [Next]_vars
  PROVE  Carried' /\ OneSetter'
<1>a. RowsOK /\ DirsOK /\ RowsOK' /\ lastId \in Nat /\ lastId' \in Nat
  BY TypeParts, RowsStep DEF RowsOK, Homes
<1>b. Carried /\ OneSetter /\ FreshUnnamed
  BY DEF Homes
<1>c. lastId' \in {lastId, lastId + 1}
  BY DEF Next, vars, Create, InsertTop, InsertChild, SetKey, MakeDir, Store, Delete,
     BeginDelete,
     RemoveDir, RemoveRow, Rename, BeginRename, RenameDir, RenameRow, UndoDir, Move, AskMove,
     AskTrigger, SetParent, ClearParent, Register, Stop
<1>d. \A r \in Requests : req[r].at = "setKey" => req[r].id \in 1 .. lastId'
  BY <1>a, <1>b, <1>c DEF Carried
<1>1. CASE req' = req
  BY <1>1, <1>b, <1>d DEF Carried, OneSetter
<1>2. ASSUME NEW r \in Requests, Moves(r)
      PROVE  Carried' /\ OneSetter'
  <2>1. \A q \in Requests \ {r} : req'[q] = req[q]
    BY <1>2 DEF Moves
  <2>2. req'[r].at = "setKey" =>
             /\ req'[r].id = lastId' /\ lastId' = lastId + 1
             /\ \A q \in Requests : req[q].at = "setKey" => req[q].id # lastId'
    <3> SUFFICES ASSUME req'[r].at = "setKey"
                 PROVE  /\ req'[r].id = lastId' /\ lastId' = lastId + 1
                        /\ \A q \in Requests : req[q].at = "setKey" => req[q].id # lastId'
      OBVIOUS
    <3>1. req'[r].id = lastId' /\ \E s \in Slugs, p \in Ids : InsertChild(r, s, p)
      BY <1>2, IdleIs DEF Moves
    <3>2. lastId' = lastId + 1
      BY <3>1 DEF InsertChild, Idles, AtLabel
    <3>3. QED
      BY <3>1, <3>2, <1>a, <1>b DEF Carried
  <2>3. OneSetter'
    BY <2>1, <2>2, <1>b DEF OneSetter
  <2>4. req'[r].at = "makeDir" => req'[r].key # Zero
    <3>1. SetKey(r) => req[r].id \in 1 .. lastId
      BY <1>b DEF SetKey, AtLabel, Carried
    <3>2. QED
      BY <1>2, <1>a, <3>1, IdleIs, Members DEF Moves, Zero
  <2>5. req'[r].at \in {"renameDir", "renameRow", "undoDir"} => req'[r].slug \in Slugs
    BY <1>2, <1>b, IdleIs DEF Moves, Carried, RenameDir, RenameRow, AtLabel
  <2>6. req'[r].at \in {"renameDir", "undoDir"} => req'[r].parent = NoRow
    BY <1>2, <1>b, IdleIs DEF Moves, Carried, RenameDir, RenameRow, AtLabel
  <2>7. req'[r].at \in {"renameRow", "undoDir"} /\ req'[r].parent = NoRow => req'[r].key # Zero
    BY <1>2, <1>a, <1>b, IdleIs DEF Moves, Carried, DirsOK, CanMoveDir, RenameRow, AtLabel
  <2>8. Carried'
    BY <2>1, <2>2, <2>4, <2>5, <2>6, <2>7, <1>a, <1>b, <1>d DEF Carried
  <2>9. QED
    BY <2>3, <2>8
<1>3. QED
  BY <1>1, <1>2, MovedTo

\* An id that is fresh was fresh: ids are given once.
LEMMA FreshBefore ==
  ASSUME TypeOK, Homes, [Next]_vars, NEW k \in Ids, FreshId(k)'
  PROVE  FreshId(k)
<1>a. lastId \in Nat
  BY TypeParts DEF RowsOK
<1>c. lastId' \in {lastId, lastId + 1}
  BY DEF Next, vars, Create, InsertTop, InsertChild, SetKey, MakeDir, Store, Delete,
     BeginDelete,
     RemoveDir, RemoveRow, Rename, BeginRename, RenameDir, RenameRow, UndoDir, Move, AskMove,
     AskTrigger, SetParent, ClearParent, Register, Stop
<1>1. CASE k > lastId'
  BY <1>1, <1>a, <1>c DEF FreshId, Ids
<1>2. ASSUME NEW r \in Requests, req'[r].at = "setKey", req'[r].id = k
      PROVE  FreshId(k)
  <2>1. CASE req'[r] = req[r]
    BY <1>2, <2>1 DEF FreshId
  <2>2. CASE req'[r] # req[r]
    <3>1. Moves(r)
      BY <2>2, MovedTo DEF Moves
    <3>2. k = lastId' /\ \E s \in Slugs, p \in Ids : InsertChild(r, s, p)
      BY <1>2, <3>1, IdleIs DEF Moves
    <3>3. lastId' = lastId + 1
      BY <1>2, <2>2, <3>2 DEF InsertChild
    <3>4. QED
      BY <3>2, <3>3, <1>a DEF FreshId
  <2>3. QED
    BY <2>1, <2>2
<1>3. QED
  BY <1>1, <1>2 DEF FreshId

\* The keys of directories and of requests come from slugs, from rows and from
\* other requests.
LEMMA DirKeys ==
  ASSUME TypeOK, Homes, [Next]_vars, NEW k \in DOMAIN dirs'
  PROVE  \/ k \in DOMAIN dirs \union Slugs
         \/ \E i \in DOMAIN rows : rows[i].key = k
         \/ \E r \in Requests : req[r].key = k
<1>a. Carried
  BY DEF Homes
<1>1. CASE UNCHANGED dirs
  BY <1>1
<1>2. ASSUME NEW r \in Requests, MakeDir(r)
      PROVE  k \in DOMAIN dirs \/ req[r].key = k
  BY <1>2 DEF MakeDir, Holding, With
<1>3. ASSUME NEW i \in Ids, Store(i)
      PROVE  k \in DOMAIN dirs \/ (i \in DOMAIN rows /\ rows[i].key = k)
  BY <1>3 DEF Store, Holding, With
<1>4. ASSUME NEW r \in Requests, RemoveDir(r)
      PROVE  k \in DOMAIN dirs
  BY <1>4 DEF RemoveDir, Without
<1>5. ASSUME NEW r \in Requests, RenameDir(r)
      PROVE  k \in DOMAIN dirs \union Slugs
  BY <1>5, <1>a DEF RenameDir, AtLabel, Carried, MovedDir, With, Without
<1>6. ASSUME NEW r \in Requests, UndoDir(r)
      PROVE  k \in DOMAIN dirs \/ req[r].key = k
  BY <1>6 DEF UndoDir, MovedDir, With, Without
<1>7. QED
  BY <1>1, <1>2, <1>3, <1>4, <1>5, <1>6
     DEF Next, vars, Create, InsertTop, InsertChild, SetKey, Delete, BeginDelete, RemoveRow, Rename,
         BeginRename, RenameRow, Move, AskMove, AskTrigger, SetParent, ClearParent, Register, Stop

LEMMA RequestKeys ==
  ASSUME TypeOK, [Next]_vars, NEW r \in Requests
  PROVE  \/ req'[r].key \in Slugs \union {Zero}
         \/ \E i \in DOMAIN rows : rows[i].key = req'[r].key
         \/ req[r].key = req'[r].key
         \/ SetKey(r) /\ req'[r].key = req[r].id
<1>1. CASE req'[r] = req[r]
  BY <1>1
<1>2. CASE req'[r] # req[r]
  <2>1. Moves(r)
    BY <1>2, MovedTo DEF Moves
  <2>2. QED
    BY <2>1, IdleIs DEF Moves
<1>3. QED
  BY <1>1, <1>2

LEMMA FreshUnnamedStep ==
  ASSUME TypeOK, Homes, [Next]_vars
  PROVE  FreshUnnamed'
<1> SUFFICES ASSUME NEW k \in Ids, FreshId(k)'
             PROVE  Unnamed(k)'
  BY DEF FreshUnnamed
<1>a. Carried /\ OneSetter /\ FreshUnnamed
  BY DEF Homes
<1>b. FreshId(k) /\ Unnamed(k)
  BY <1>a, FreshBefore DEF FreshUnnamed
<1>c. k \notin Slugs \union {Zero}
  BY Members
<1>d. ASSUME NEW r \in Requests, SetKey(r)
      PROVE  req[r].id # k
  <2> SUFFICES ASSUME req[r].id = k
               PROVE  FALSE
    OBVIOUS
  <2>1. req[r].at = "setKey" /\ req[r].id \in 1 .. lastId
    BY <1>d, <1>a DEF SetKey, AtLabel, Carried
  <2>2. lastId' = lastId /\ lastId \in Nat
    BY <1>d, TypeParts DEF SetKey, RowsOK
  <2>3. PICK q \in Requests : req'[q].at = "setKey" /\ req'[q].id = k
    BY <2>1, <2>2 DEF FreshId
  <2>4. q # r => req'[q] = req[q]
    BY <1>d, TypeParts DEF SetKey, Go, ReqOK
  <2>5. req'[r].at = "makeDir"
    BY <1>d, TypeParts DEF SetKey, Go, ReqOK, Idle
  <2>6. QED
    BY <2>1, <2>3, <2>4, <2>5, <1>a DEF OneSetter
<1>1. \A i \in DOMAIN rows' : rows'[i].key # k
  <2>1. CASE KeptKeys
    BY <2>1, <1>b DEF KeptKeys, Unnamed
  <2>2. ASSUME NEW i \in Ids, KeyGiven(i)
        PROVE  \A j \in DOMAIN rows' : rows'[j].key # k
    BY <2>2, <1>b, <1>c, <1>d DEF KeyGiven, Unnamed
  <2>3. QED
    BY <2>1, <2>2, RowKeys
<1>2. k \notin DOMAIN dirs'
  BY <1>b, <1>c, DirKeys DEF Unnamed
<1>3. \A r \in Requests : req'[r].key # k
  BY <1>b, <1>c, <1>d, RequestKeys DEF Unnamed
<1>4. QED
  BY <1>1, <1>2, <1>3 DEF Unnamed

LEMMA HomesAlways == Spec => [](TypeOK /\ Homes)
<1>1. Init => TypeOK /\ Homes
  BY TypeInit
<1>2. TypeOK /\ Homes /\ [Next]_vars => (TypeOK /\ Homes)'
  BY TypeStep, NoSharedHomeStep, FreshUnnamedStep, CarriedStep DEF Homes
<1>3. QED
  BY <1>1, <1>2, PTL DEF Spec

\* Every variable keeps its type.
THEOREM ProjectsTypeCorrect == Spec => []TypeOK
<1>1. TypeOK /\ Homes => TypeOK
  OBVIOUS
<1>2. QED
  BY <1>1, HomesAlways, PTL

\* No two projects ever use one directory: a slug and the id of a child are
\* never the same name, an id is given once, and a directory the watcher takes
\* over is nobody's (migration 0034, CreateProjectWithParent, RenameProject).
THEOREM HomesAreOwn == Spec => []NoSharedHome
<1>1. TypeOK /\ Homes => NoSharedHome
  BY DEF Homes
<1>2. QED
  BY <1>1, HomesAlways, PTL

-----------------------------------------------------------------------------
(* But for requests that crossed the hierarchy is one level deep.          *)

\* A step that makes no project a child: one is created, ended or comes out.
NoNewChild ==
  \A i \in DOMAIN rows' :
    rows'[i].parent # NoRow => i \in DOMAIN rows /\ rows'[i].parent = rows[i].parent

LEMMA NewChildren ==
  ASSUME TypeOK, [Next]_vars
  PROVE  \/ NoNewChild
         \/ \E r \in Requests :
              \/ \E s \in Slugs, p \in Ids : InsertChild(r, s, p)
              \/ SetParent(r)
<1>a. RowsOK
  BY TypeParts
<1>1. ASSUME rows' = rows
      PROVE  NoNewChild
  BY <1>1 DEF NoNewChild
<1>2. ASSUME NEW n, NEW w, w.parent = NoRow, rows' = With(rows, n, w)
      PROVE  NoNewChild
  BY <1>2 DEF With, NoNewChild
<1>3. ASSUME NEW r \in Requests, NEW s \in Slugs, InsertTop(r, s)
      PROVE  NoNewChild
  <2> DEFINE w == [slug |-> s, parent |-> NoRow, key |-> s]
  <2>1. w.parent = NoRow
    OBVIOUS
  <2> HIDE DEF w
  <2>2. rows' = rows \/ rows' = With(rows, lastId', w)
    BY <1>3 DEF InsertTop, w
  <2>3. QED
    BY <1>1, <1>2, <2>1, <2>2
<1>4. ASSUME NEW k \in Slugs \union Ids, Register(k)
      PROVE  NoNewChild
  <2> DEFINE w == [slug |-> k, parent |-> NoRow, key |-> k]
  <2>1. w.parent = NoRow
    OBVIOUS
  <2> HIDE DEF w
  <2>2. rows' = With(rows, lastId', w)
    BY <1>4 DEF Register, w
  <2>3. QED
    BY <1>2, <2>1, <2>2
<1>5. ASSUME NEW r \in Requests, SetKey(r) \/ RenameRow(r)
      PROVE  NoNewChild
  BY <1>5, <1>a DEF SetKey, RenameRow, RowsOK, Row, NoNewChild
<1>6. ASSUME NEW r \in Requests, RemoveRow(r)
      PROVE  NoNewChild
  BY <1>6 DEF RemoveRow, Without, NoNewChild
<1>7. ASSUME NEW i \in Ids, ClearParent(i)
      PROVE  NoNewChild
  BY <1>7, <1>a DEF ClearParent, RowsOK, Row, NoNewChild
<1>8. QED
  BY <1>1, <1>3, <1>4, <1>5, <1>6, <1>7
     DEF Next, vars, Create, MakeDir, Store, Delete, BeginDelete, RemoveDir, Rename, BeginRename,
         RenameDir, UndoDir, Move, AskMove, AskTrigger, Stop

LEMMA FlatStep ==
  ASSUME TypeOK, Carried, Flat, [Next]_vars
  PROVE  Flat'
<1>a. RowsOK /\ ReqOK /\ OneLevel /\ MovesAreFlat
  BY TypeParts DEF Flat
<1>b. crossed \subseteq crossed'
  BY CrossedStep
<1>c. NoRow \notin DOMAIN rows
  BY <1>a DEF RowsOK
<1>1. CASE NoNewChild
  <2>1. \A j \in DOMAIN rows' : rows'[j].parent # NoRow =>
                                  j \in DOMAIN rows /\ rows[j].parent = rows'[j].parent
    BY <1>1 DEF NoNewChild
  <2>2. \A i \in DOMAIN rows' : IsChild(i)' => i \in DOMAIN rows /\ IsChild(i)
    BY <2>1 DEF IsChild
  <2>3. OneLevel'
    <3> SUFFICES ASSUME NEW i \in DOMAIN rows', NEW j \in DOMAIN rows', IsChild(i)', rows'[j].parent = i
                 PROVE  {i, j} \in crossed'
      BY DEF OneLevel
    <3>1. i \in DOMAIN rows /\ IsChild(i) /\ i # NoRow
      BY <1>c, <2>2
    <3>2. j \in DOMAIN rows /\ rows[j].parent = i
      BY <2>1, <3>1
    <3>3. QED
      BY <1>a, <1>b, <3>1, <3>2 DEF OneLevel
  <2>4. ASSUME NEW r \in Requests, req'[r].at \in {"askTrigger", "setParent"}
        PROVE  /\ req'[r].id # req'[r].parent /\ NoRow \notin {req'[r].id, req'[r].parent}
               /\ \A j \in DOMAIN rows : rows[j].parent = req'[r].id => {j, req'[r].id} \in crossed
               /\ req'[r].at = "setParent" /\ req'[r].parent \in DOMAIN rows /\ IsChild(req'[r].parent) =>
                    {req'[r].parent, req'[r].id} \in crossed
    <3>1. CASE req'[r] = req[r]
      BY <2>4, <3>1, <1>a DEF MovesAreFlat, Moving, AtLabel
    <3>2. CASE req'[r] # req[r]
      <4>1. Moves(r)
        BY <3>2, MovedTo DEF Moves
      <4>2. CASE \E i, p \in Ids : AskMove(r, i, p) /\ req'[r].id = i /\ req'[r].parent = p
        BY <4>2, Members DEF AskMove, MayMove, HasChildren
      <4>3. CASE /\ AskTrigger(r) /\ ~IsChild(req[r].parent)
                 /\ req'[r].id = req[r].id /\ req'[r].parent = req[r].parent
        BY <4>3, <1>a DEF MovesAreFlat, AskTrigger, AtLabel, Moving
      <4>4. QED
        BY <2>4, <4>1, <4>2, <4>3, IdleIs DEF Moves
    <3>3. QED
      BY <3>1, <3>2
  <2>5. MovesAreFlat'
    <3> SUFFICES ASSUME NEW r \in Requests, req'[r].at \in {"askTrigger", "setParent"}
                 PROVE  /\ req'[r].id # req'[r].parent
                        /\ NoRow \notin {req'[r].id, req'[r].parent}
                        /\ \A j \in DOMAIN rows' : rows'[j].parent = req'[r].id =>
                                                     {j, req'[r].id} \in crossed'
                        /\ req'[r].at = "setParent" /\ req'[r].parent \in DOMAIN rows'
                             /\ rows'[req'[r].parent].parent # NoRow =>
                               {req'[r].parent, req'[r].id} \in crossed'
      BY DEF MovesAreFlat, Moving, AtLabel, IsChild
    <3>1. \A j \in DOMAIN rows' : rows'[j].parent = req'[r].id => {j, req'[r].id} \in crossed'
      BY <1>b, <2>1, <2>4
    <3>2. req'[r].at = "setParent" /\ req'[r].parent \in DOMAIN rows'
            /\ rows'[req'[r].parent].parent # NoRow =>
              {req'[r].parent, req'[r].id} \in crossed'
      BY <1>b, <2>1, <2>4 DEF IsChild
    <3>3. QED
      BY <2>4, <3>1, <3>2
  <2>6. QED
    BY <2>3, <2>5 DEF Flat
<1>2. ASSUME NEW r \in Requests, ~(req'[r].at \in {"askTrigger", "setParent"}),
             \A q \in Requests \ {r} : req'[q] = req[q],
             NEW i, NEW p, crossed' = Crossing(r, i, p),
             i \in DOMAIN rows', rows'[i].parent = p, DOMAIN rows' = DOMAIN rows \union {i},
             \A j \in DOMAIN rows \ {i} : rows'[j] = rows[j]
      PROVE  MovesAreFlat'
  <2> SUFFICES ASSUME NEW t \in Requests, req'[t].at \in {"askTrigger", "setParent"}
               PROVE  /\ req'[t].id # req'[t].parent
                      /\ NoRow \notin {req'[t].id, req'[t].parent}
                      /\ \A j \in DOMAIN rows' : rows'[j].parent = req'[t].id =>
                                                   {j, req'[t].id} \in crossed'
                      /\ req'[t].at = "setParent" /\ req'[t].parent \in DOMAIN rows'
                           /\ rows'[req'[t].parent].parent # NoRow =>
                             {req'[t].parent, req'[t].id} \in crossed'
    BY DEF MovesAreFlat, Moving, AtLabel, IsChild
  <2>1. t # r /\ req'[t] = req[t] /\ Moving(t)
    BY <1>2 DEF Moving
  <2>2. req[t].id # req[t].parent /\ NoRow \notin {req[t].id, req[t].parent}
    BY <1>a, <2>1 DEF MovesAreFlat
  <2>3. ASSUME NEW j \in DOMAIN rows', rows'[j].parent = req[t].id
        PROVE  {j, req[t].id} \in crossed'
    <3>1. CASE j = i
      BY <1>2, <2>1, <2>3, <3>1 DEF Crossing
    <3>2. CASE j # i
      BY <1>2, <1>a, <1>b, <2>1, <2>3, <3>2 DEF MovesAreFlat
    <3>3. QED
      BY <3>1, <3>2
  <2>4. ASSUME req[t].at = "setParent", req[t].parent \in DOMAIN rows', rows'[req[t].parent].parent # NoRow
        PROVE  {req[t].parent, req[t].id} \in crossed'
    <3>1. CASE req[t].parent = i
      BY <1>2, <2>1, <2>4, <3>1 DEF Crossing, AtLabel
    <3>2. CASE req[t].parent # i
      BY <1>2, <1>a, <1>b, <2>1, <2>4, <3>2 DEF MovesAreFlat, AtLabel, IsChild
    <3>3. QED
      BY <3>1, <3>2
  <2>5. QED
    BY <2>1, <2>2, <2>3, <2>4
<1>3. ASSUME NEW r \in Requests, NEW s \in Slugs, NEW p \in Ids, InsertChild(r, s, p), ~NoNewChild
      PROVE  Flat'
  <2>1. rows' # rows
    BY <1>3 DEF NoNewChild
  <2>2. /\ p \in DOMAIN rows /\ ~IsChild(p)
        /\ lastId < MaxRows /\ lastId' = lastId + 1
        /\ rows' = With(rows, lastId', [slug |-> s, parent |-> p, key |-> Zero])
        /\ Go(r, [Idle EXCEPT !.at = "setKey", !.id = lastId'])
        /\ crossed' = Crossing(r, lastId', p)
    BY <1>3, <2>1 DEF InsertChild
  <2>3. req'[r].at = "setKey" /\ \A q \in Requests \ {r} : req'[q] = req[q]
    BY <2>2, <1>a DEF Go, ReqOK, Idle
  <2>4. /\ lastId' \notin DOMAIN rows
        /\ \A j \in DOMAIN rows : rows[j].parent # lastId'
    <3>1. lastId' \in 0 .. MaxRows /\ lastId' \notin DOMAIN rows
      BY <2>2, <1>a DEF RowsOK
    <3>2. lastId' # NoRow
      BY <3>1
    <3>3. QED
      BY <3>1, <3>2, <1>a DEF RowsOK
  <2>5. /\ DOMAIN rows' = DOMAIN rows \union {lastId'} /\ rows'[lastId'].parent = p
        /\ \A i \in DOMAIN rows : rows'[i] = rows[i]
    BY <2>2, <2>4 DEF With
  <2>6. OneLevel'
    <3> SUFFICES ASSUME NEW i \in DOMAIN rows', NEW j \in DOMAIN rows', rows'[i].parent # NoRow,
                        rows'[j].parent = i
                 PROVE  {i, j} \in crossed'
      BY DEF OneLevel, IsChild
    <3>1. i # lastId'
      BY <2>2, <2>4, <2>5
    <3>2. j # lastId'
      BY <2>2, <2>5, <3>1 DEF IsChild
    <3>3. QED
      BY <1>a, <1>b, <2>5, <3>1, <3>2 DEF OneLevel, IsChild
  <2>7. MovesAreFlat'
    BY <1>2, <2>2, <2>3, <2>4, <2>5
  <2>8. QED
    BY <2>6, <2>7 DEF Flat
<1>4. ASSUME NEW r \in Requests, SetParent(r), ~NoNewChild
      PROVE  Flat'
  <2> DEFINE i == req[r].id
             p == req[r].parent
  <2>1. /\ i # p /\ NoRow \notin {i, p}
        /\ \A j \in DOMAIN rows : rows[j].parent = i => {j, i} \in crossed
        /\ p \in DOMAIN rows /\ IsChild(p) => {p, i} \in crossed
    BY <1>4, <1>a DEF SetParent, AtLabel, Moving, MovesAreFlat
  <2>2. req'[r].at = "idle" /\ \A q \in Requests \ {r} : req'[q] = req[q]
    BY <1>4, <1>a, IdleIs DEF SetParent, Go, ReqOK
  <2>3. /\ {i, p} \subseteq DOMAIN rows /\ crossed' = Crossing(r, i, p)
        /\ rows' = [rows EXCEPT ![i].parent = p]
    <3>1. rows' # rows
      BY <1>4 DEF NoNewChild
    <3>2. QED
      BY <1>4, <3>1 DEF SetParent
  <2>4. /\ DOMAIN rows' = DOMAIN rows /\ rows'[i].parent = p
        /\ \A j \in DOMAIN rows \ {i} : rows'[j] = rows[j]
    BY <2>3, <1>a DEF RowsOK, Row
  <2> HIDE DEF i, p
  <2>5. OneLevel'
    <3> SUFFICES ASSUME NEW h \in DOMAIN rows', NEW j \in DOMAIN rows', rows'[h].parent # NoRow,
                        rows'[j].parent = h
                 PROVE  {h, j} \in crossed'
      BY DEF OneLevel, IsChild
    <3>1. CASE j = i
      <4>1. h = p /\ rows'[p] = rows[p]
        BY <2>1, <2>3, <2>4, <3>1
      <4>2. {p, i} \in crossed
        BY <2>1, <2>3, <4>1 DEF IsChild
      <4>3. QED
        BY <1>b, <3>1, <4>1, <4>2
    <3>2. CASE j # i /\ h = i
      <4>1. {j, i} \in crossed
        BY <2>1, <2>4, <3>2
      <4>2. {j, i} = {i, j}
        OBVIOUS
      <4>3. QED
        BY <1>b, <3>2, <4>1, <4>2
    <3>3. CASE j # i /\ h # i
      BY <1>a, <1>b, <2>4, <3>3 DEF OneLevel, IsChild
    <3>4. QED
      BY <3>1, <3>2, <3>3
  <2>6. MovesAreFlat'
    BY <1>2, <2>2, <2>3, <2>4
  <2>7. QED
    BY <2>5, <2>6 DEF Flat
<1>5. QED
  BY <1>1, <1>3, <1>4, NewChildren

\* Whatever is created, renamed, deleted or moved meanwhile, by however many
\* requests, a child has children only where the requests that placed the two
\* crossed between question and write (SetParent, check_no_nested_parent).
THEOREM OneLevelDeep == Spec => []OneLevel
<1>1. TypeOK /\ Homes /\ Flat /\ [Next]_vars => Flat'
  BY FlatStep DEF Homes
<1>2. Init => Flat
  BY TypeInit
<1>3. Flat => OneLevel
  BY DEF Flat
<1>4. QED
  BY <1>1, <1>2, <1>3, HomesAlways, PTL DEF Spec

HIDE ProjectsConstants

-----------------------------------------------------------------------------
(* Now ObjectStore, as the part of MCProjects: whatever operations run     *)
(* beside each other, and for any number of them, of calls that fail and   *)
(* of keys that a delete leaves. Its inductive invariant.                  *)

\* What keys are made of, and what steps of programs are called.
Names == {"p", "q", "none", "reports", "latest", "results", "b", "f", "history", "h", "data",
          "index", "playwright-reports", "1", "9", "10"}
Doings == {"find", "clear", "copy", "copyany", "read", "send", "dirs", "known", "prune"}

Path == Seq(Names)
Call == [do : Doings, from : Path, to : Path, keys : SUBSET Path]
Numbers == {1, 9, 10}

IsProgram(q) ==
  /\ DOMAIN q = DOMAIN O!Idle
  /\ q.home \in Names
  /\ q.todo \in Seq(Call)
  /\ q.dirs \subseteq Numbers

StorageTypes ==
  /\ home \in {"p", "q", "none"} /\ numbers \subseteq Numbers
  /\ DOMAIN objects \subseteq Path
  /\ DOMAIN op = StorageOps
  /\ \A o \in StorageOps : IsProgram(op[o])

\* The program of a move, and what is left of it after each step.
Listing  == O!Moves("p", "q")
Copying  == <<O!Copy(<<"p">>, <<"q">>), O!Clear(<<"p">>)>>
Clearing == <<O!Clear(<<"p">>)>>

NewKey(k) == O!Moved(k, <<"p">>, <<"q">>)

\* While it lists, all it has found is where it was; while it copies, what is
\* left is where it was and the rest where it goes; then all is there, and what
\* it deletes is of the old prefix. What others took is not counted.
MoveOf(q, K) ==
  O!Mover(q) =>
    /\ q.found \subseteq Path
    /\ \/ q.todo = Listing /\ q.found \subseteq K \cup q.lost
       \/ /\ q.todo = Copying /\ q.left \subseteq q.found /\ q.left \subseteq K \cup q.lost
          /\ \A k \in q.found \ q.left : NewKey(k) \in K \cup q.lost
       \/ /\ q.todo \in {Clearing, <<>>}
          /\ \A k \in q.found : NewKey(k) \in K \cup q.lost
          /\ q.todo = Clearing => \A k \in q.page : k[1] = "p"

MovesAreSafe == \A o \in StorageOps : MoveOf(op[o], DOMAIN objects)

StorageInv == StorageTypes /\ MovesAreSafe

-----------------------------------------------------------------------------
(* Keys, calls and programs. *)

LEMMA KeysArePaths == O!Key \subseteq Path
<1>1. ASSUME NEW p \in Names PROVE KeysOf(p) \in Seq(Path)
  <2> DEFINE report(s) == (IF Wide THEN <<<<p, "reports", s>> \o Data>> ELSE << >>)
                          \o <<<<p, "reports", s>> \o History>>
  <2>1. \A s \in Names : report(s) \in Seq(Path)
    <3> SUFFICES ASSUME NEW s \in Names PROVE report(s) \in Seq(Path)
      OBVIOUS
    <3>1. <<p, "reports", s>> \o Data \in Path /\ <<p, "reports", s>> \o History \in Path
      BY DEF Path, Names, Data, History
    <3> HIDE DEF Path, Names, Data, History
    <3> QED BY <3>1
  <2>2. <<<<p, "playwright-reports", "1", "index">>, <<p, "playwright-reports", "10", "index">>,
          <<p, "playwright-reports", "9", "index">>, <<p, "playwright-reports", "latest", "index">>>>
        \in Seq(Path)
    <3>1. \A s \in Names : <<p, "playwright-reports", s, "index">> \in Path
      BY DEF Path, Names
    <3>2. {"1", "10", "9", "latest"} \subseteq Names
      BY DEF Names
    <3> HIDE DEF Path
    <3> QED BY <3>1, <3>2
  <2>3. <<<<p, "reports", "latest", "index">>,
          <<p, "results", "b", "f">>, <<p, "results", "b", "history", "h">>>> \in Seq(Path)
    <3>1. <<p, "reports", "latest", "index">> \in Path
      <4>1. {p, "reports", "latest", "index"} \subseteq Names
        BY DEF Names
      <4> QED BY <4>1 DEF Path
    <3>2. <<p, "results", "b", "f">> \in Path
      BY DEF Path, Names
    <3>3. <<p, "results", "b", "history", "h">> \in Path
      <4>1. {p, "results", "b", "history", "h"} \subseteq Names
        BY DEF Names
      <4> QED BY <4>1 DEF Path
    <3> QED BY <3>1, <3>2, <3>3
  <2> HIDE DEF report
  <2>4. KeysOf(p) =
          <<<<p, "playwright-reports", "1", "index">>, <<p, "playwright-reports", "10", "index">>,
            <<p, "playwright-reports", "9", "index">>, <<p, "playwright-reports", "latest", "index">>>>
          \o report("1") \o report("10") \o report("9") \o report("latest")
          \o <<<<p, "reports", "latest", "index">>,
               <<p, "results", "b", "f">>, <<p, "results", "b", "history", "h">>>>
    BY DEF KeysOf, report
  <2> HIDE DEF Path
  <2>5. \A s, t \in Seq(Path) : s \o t \in Seq(Path)
    OBVIOUS
  <2>6. {"1", "9", "10", "latest"} \subseteq Names
    BY DEF Names
  <2> QED BY <2>1, <2>2, <2>3, <2>4, <2>5, <2>6
<1>2. AllKeys \in Seq(Path)
  <2>1. KeysOf("p") \in Seq(Path) /\ KeysOf("q") \in Seq(Path)
    BY <1>1 DEF Names
  <2> QED BY <2>1 DEF AllKeys
<1> QED BY <1>2 DEF O!Key, O!ToSet

LEMMA SuffixesArePaths ==
  ASSUME NEW k \in Path, NEW n \in Nat, NEW t \in Path
  PROVE  /\ SubSeq(k, n + 1, Len(k)) \in Path
         /\ t \o SubSeq(k, n + 1, Len(k)) \in Path
  BY DEF Path, Names

LEMMA MovedIsNew ==
  ASSUME NEW k \in Path
  PROVE  NewKey(k) \in Path /\ NewKey(k)[1] = "q"
<1>1. Len(<<"p">>) = 1 /\ <<"q">> \in Path
  BY DEF Path, Names
<1>2. NewKey(k) = <<"q">> \o SubSeq(k, 2, Len(k))
  BY <1>1 DEF NewKey, O!Moved
<1>3. SubSeq(k, 2, Len(k)) \in Path
  BY SuffixesArePaths, <1>1 DEF Path, Names
<1> QED BY <1>1, <1>2, <1>3 DEF Path, Names

LEMMA UnderOld ==
  ASSUME NEW k \in Path, O!IsStrictPrefix(<<"p">>, k)
  PROVE  k[1] = "p"
<1>1. Len(<<"p">>) = 1
  OBVIOUS
<1>2. Len(k) >= 1 /\ SubSeq(<<"p">>, 1, 1) = SubSeq(k, 1, 1)
  BY <1>1 DEF O!IsStrictPrefix, O!IsPrefix, Path
<1>3. SubSeq(<<"p">>, 1, 1)[1] = "p" /\ SubSeq(k, 1, 1)[1] = k[1]
  BY <1>2 DEF Path, Names
<1> QED BY <1>2, <1>3

LEMMA Paths ==
  ASSUME NEW p \in Names, NEW n \in Numbers
  PROVE  /\ <<p>> \in Path /\ O!Latest(p) \in Path /\ O!Report(p, n) \in Path
         /\ <<p, "results">> \in Path /\ <<p, "results", "b">> \in Path
         /\ <<p, "results", "history">> \in Path /\ <<p, "results", "b", "history">> \in Path
         /\ O!Latest(p) \o <<"history">> \in Path
         /\ <<p, "playwright-reports", "latest">> \in Path
         /\ <<p, "playwright-reports", Segment[n]>> \in Path
<1>1. Segment[n] \in Names
  BY DEF Segment, Numbers, Names
<1> QED BY <1>1 DEF Path, Names, O!Latest, O!Report

LEMMA FilesArePaths ==
  ASSUME NEW p \in Path
  PROVE  O!FilesOf(p, Whole) \subseteq Path /\ O!FilesOf(p, Whole \cup Index) \subseteq Path
<1>1. Whole \cup Index \subseteq Path /\ Whole \subseteq Path
  <2>1. History \in Path
    BY DEF History, Path, Names
  <2>2. Data \in Path
    BY DEF Data, Path, Names
  <2>3. <<"index">> \in Path
    BY DEF Path, Names
  <2> QED BY <2>1, <2>2, <2>3 DEF Whole, Index
<1>2. \A f \in Path : p \o f \in Path
  BY DEF Path, Names
<1> QED BY <1>1, <1>2 DEF O!FilesOf

LEMMA CallsAreCalls ==
  ASSUME NEW p \in Path, NEW t \in Path, NEW K \in SUBSET Path
  PROVE  /\ O!Find(p) \in Call /\ O!Clear(p) \in Call /\ O!Copy(p, t) \in Call
         /\ O!CopyAny(p, t) \in Call /\ O!Read(p) \in Call /\ O!Send(K) \in Call
         /\ O!Dirs \in Call /\ O!Known \in Call /\ O!Prune \in Call
<1>1. <<>> \in Path
  BY DEF Path, Names
<1> QED BY <1>1 DEF Call, Doings, O!Step, O!Find, O!Clear, O!Copy, O!CopyAny, O!Read, O!Send, O!Dirs,
                    O!Known, O!Prune

\* The sequence of the elements of a set of up to three.
LEMMA SequenceOfFew ==
  ASSUME NEW T, NEW S \in SUBSET T, NEW a, NEW b, NEW c, S \subseteq {a, b, c}
  PROVE  O!SetToSeq(S) \in Seq(T)
<1>1. IsFiniteSet({a, b, c})
  <2>1. IsFiniteSet({} \cup {a})
    BY FS_EmptySet, FS_AddElement
  <2>2. IsFiniteSet(({} \cup {a}) \cup {b})
    BY <2>1, FS_AddElement
  <2>3. IsFiniteSet((({} \cup {a}) \cup {b}) \cup {c})
    BY <2>2, FS_AddElement
  <2>4. (({} \cup {a}) \cup {b}) \cup {c} = {a, b, c}
    OBVIOUS
  <2> QED BY <2>3, <2>4
<1>2. IsFiniteSet(S)
  BY <1>1, FS_Subset
<1>3. Cardinality(S) \in Nat /\ ExistsBijection(1 .. Cardinality(S), S)
  BY <1>2, FS_CardinalityType
<1>4. \E f \in [1 .. Cardinality(S) -> S] : O!IsInjective(f)
  <2>1. PICK f \in Bijection(1 .. Cardinality(S), S) : TRUE
    BY <1>3 DEF ExistsBijection
  <2>2. f \in Injection(1 .. Cardinality(S), S)
    BY <2>1 DEF Bijection
  <2>3. f \in [1 .. Cardinality(S) -> S] /\ O!IsInjective(f)
    BY <2>2 DEF Injection, IsInjective, O!IsInjective
  <2> QED BY <2>3
<1>5. O!Cardinality(S) = Cardinality(S)
  BY DEF O!Cardinality, Cardinality
<1>6. O!SetToSeq(S) \in [1 .. Cardinality(S) -> S]
  BY <1>4, <1>5 DEF O!SetToSeq
<1> QED BY <1>3, <1>6


-----------------------------------------------------------------------------
(* The invariant holds at first, and what does not touch a move keeps it. *)

LEMMA StorageStarts == O!Init => StorageInv
<1> SUFFICES ASSUME O!Init PROVE StorageInv
  OBVIOUS
<1>1. home \in {"p", "q", "none"} /\ numbers \subseteq Numbers /\ DOMAIN op = StorageOps
  BY DEF O!Init, KeyPair, Numbers
<1>2. \A o \in StorageOps : op[o] = O!Idle
  BY DEF O!Init
<1>3. IsProgram(O!Idle)
  <2>1. "none" \in Names /\ <<>> \in Seq(Call)
    BY DEF Names
  <2> QED BY <2>1 DEF IsProgram, O!Idle, O!NoHome
<1>4. DOMAIN objects \subseteq Path
  <2> DEFINE own == [n \in {1, 9} |-> O!FilesOf(O!Report("p", n), Whole)]
  <2>1. DOMAIN objects = (UNION O!Range(own)) \cup O!FilesOf(O!Latest("p"), Whole \cup Index)
    BY DEF O!Init, KeyPair
  <2>2. O!FilesOf(O!Latest("p"), Whole \cup Index) \subseteq Path
    <3>1. O!Latest("p") \in Path
      BY Paths DEF Names, Numbers
    <3> QED BY <3>1, FilesArePaths
  <2>3. \A n \in {1, 9} : O!FilesOf(O!Report("p", n), Whole) \subseteq Path
    <3> TAKE n \in {1, 9}
    <3>1. O!Report("p", n) \in Path
      BY Paths DEF Names, Numbers
    <3> QED BY <3>1, FilesArePaths
  <2>4. \A n \in DOMAIN own : own[n] \subseteq Path
    BY <2>3
  <2> HIDE DEF own
  <2>5. UNION O!Range(own) \subseteq Path
    BY <2>4 DEF O!Range
  <2> QED BY <2>1, <2>2, <2>5
<1>5. \A o \in StorageOps : MoveOf(op[o], DOMAIN objects)
  BY <1>2 DEF MoveOf, O!Mover, O!Idle
<1> QED BY <1>1, <1>2, <1>3, <1>4, <1>5 DEF StorageInv, StorageTypes, MovesAreSafe

\* What an operation is to its move.
SameMove(q, r) ==
  r.kind = q.kind /\ r.todo = q.todo /\ r.found = q.found /\ r.left = q.left /\ r.page = q.page

LEMMA MoveGoesOn ==
  ASSUME NEW q, NEW r, NEW K, NEW L, MoveOf(q, K), SameMove(q, r),
         K \cup q.lost \subseteq L \cup r.lost
  PROVE  MoveOf(r, L)
  BY DEF MoveOf, SameMove, O!Mover

\* Other operations, whose objects a step may have taken, with all that is kept.
LEMMA OthersGoOn ==
  ASSUME StorageInv, NEW o \in StorageOps, NEW gone, NEW next,
         op' = O!Taken(o, gone, next), DOMAIN objects \subseteq (DOMAIN objects)' \cup gone
  PROVE  /\ (DOMAIN op)' = StorageOps /\ op'[o] = next
         /\ \A x \in StorageOps \ {o} : IsProgram(op'[x]) /\ MoveOf(op'[x], (DOMAIN objects)')
<1>1. DOMAIN op' = StorageOps /\ op'[o] = next
  BY DEF O!Taken
<1>2. ASSUME NEW x \in StorageOps \ {o}
      PROVE  IsProgram(op'[x]) /\ MoveOf(op'[x], (DOMAIN objects)')
  <2> DEFINE q == op[x]
             r == [q EXCEPT !.lost = @ \cup gone]
  <2>1. op'[x] = r
    BY DEF O!Taken
  <2>2. IsProgram(q) /\ MoveOf(q, DOMAIN objects)
    BY DEF StorageInv, StorageTypes, MovesAreSafe
  <2> HIDE DEF q
  <2>3. DOMAIN q = {"kind", "home", "n", "todo", "found", "left", "page", "cursor", "final", "dirs",
                    "known", "alone", "lost"}
    BY <2>2 DEF IsProgram, O!Idle
  <2>4. SameMove(q, r) /\ r.lost = q.lost \cup gone /\ r.home = q.home /\ r.dirs = q.dirs
        /\ DOMAIN r = DOMAIN q
    BY <2>3 DEF SameMove
  <2>5. MoveOf(r, (DOMAIN objects)')
    BY <2>2, <2>4, MoveGoesOn
  <2>6. IsProgram(r)
    BY <2>2, <2>4 DEF IsProgram, SameMove
  <2> QED BY <2>1, <2>5, <2>6
<1> QED BY <1>1, <1>2

\* A step of one operation that takes nothing.
LEMMA AloneGoesOn ==
  ASSUME StorageInv, NEW o \in StorageOps, NEW next, op' = [op EXCEPT ![o] = next],
         DOMAIN objects \subseteq (DOMAIN objects)'
  PROVE  /\ (DOMAIN op)' = StorageOps /\ op'[o] = next
         /\ \A x \in StorageOps \ {o} : IsProgram(op'[x]) /\ MoveOf(op'[x], (DOMAIN objects)')
<1>1. DOMAIN op' = StorageOps /\ op'[o] = next /\ \A x \in StorageOps \ {o} : op'[x] = op[x]
  BY DEF StorageInv, StorageTypes
<1>2. ASSUME NEW x \in StorageOps \ {o}
      PROVE  IsProgram(op[x]) /\ MoveOf(op[x], (DOMAIN objects)')
  <2>1. IsProgram(op[x]) /\ MoveOf(op[x], DOMAIN objects)
    BY DEF StorageInv, StorageTypes, MovesAreSafe
  <2>2. MoveOf(op[x], (DOMAIN objects)')
    BY <2>1, MoveGoesOn DEF SameMove
  <2> QED BY <2>1, <2>2
<1> QED BY <1>1, <1>2


-----------------------------------------------------------------------------
(* Operations that begin. *)

\* What a begun operation is.
LEMMA Begins ==
  ASSUME StorageInv, NEW o \in StorageOps, NEW kind, NEW n, NEW todo, O!Begin(o, kind, n, todo),
         todo \in Seq(Call), kind \in {"rename", "migrate"} => todo = Listing,
         numbers' \subseteq Numbers
  PROVE  StorageInv'
<1> DEFINE begun0(x) == [O!Idle EXCEPT !.kind = kind, !.home = home, !.n = n, !.todo = todo,
                           !.alone = \A y \in StorageOps : ~O!Disturbs(op[y].kind, op[y].n, n)]
           beside(x) == [op[x] EXCEPT !.alone = @ /\ ~O!Disturbs(kind, n, op[x].n)]
<1>1. op' = [x \in StorageOps |-> IF x = o THEN begun0(x) ELSE beside(x)]
      /\ home' = home /\ objects' = objects
  BY DEF O!Begin
<1>2. DOMAIN op' = StorageOps
  BY <1>1
<1>3. home \in Names
  BY DEF StorageInv, StorageTypes, Names
<1>4. IsProgram(op'[o]) /\ MoveOf(op'[o], (DOMAIN objects)')
  <2> DEFINE r == op'[o]
  <2>1. r = begun0(o)
    BY <1>1
  <2>2. /\ DOMAIN r = DOMAIN O!Idle /\ r.home = home /\ r.todo = todo /\ r.dirs = {}
        /\ r.kind = kind /\ r.found = {}
    BY <2>1 DEF O!Idle
  <2> HIDE DEF r, begun0
  <2>3. IsProgram(r)
    BY <2>2, <1>3 DEF IsProgram
  <2>4. MoveOf(r, (DOMAIN objects)')
    BY <2>2 DEF MoveOf, O!Mover
  <2> QED BY <2>3, <2>4 DEF r
<1>5. ASSUME NEW x \in StorageOps \ {o}
      PROVE  IsProgram(op'[x]) /\ MoveOf(op'[x], (DOMAIN objects)')
  <2> DEFINE q == op[x]
             r == [q EXCEPT !.alone = @ /\ ~O!Disturbs(kind, n, q.n)]
  <2>1. op'[x] = r
    BY <1>1
  <2>2. IsProgram(q) /\ MoveOf(q, DOMAIN objects)
    BY DEF StorageInv, StorageTypes, MovesAreSafe
  <2> HIDE DEF q
  <2>3. DOMAIN q = {"kind", "home", "n", "todo", "found", "left", "page", "cursor", "final", "dirs",
                    "known", "alone", "lost"}
    BY <2>2 DEF IsProgram, O!Idle
  <2>4. SameMove(q, r) /\ r.lost = q.lost /\ r.home = q.home /\ r.dirs = q.dirs
        /\ DOMAIN r = DOMAIN q
    BY <2>3 DEF SameMove
  <2>5. MoveOf(r, (DOMAIN objects)')
    BY <2>2, <2>4, <1>1, MoveGoesOn
  <2>6. IsProgram(r)
    BY <2>2, <2>4 DEF IsProgram, SameMove
  <2> QED BY <2>1, <2>5, <2>6
<1>6. home' \in {"p", "q", "none"} /\ (DOMAIN objects)' \subseteq Path
  BY <1>1 DEF StorageInv, StorageTypes
<1> QED BY <1>2, <1>4, <1>5, <1>6 DEF StorageInv, StorageTypes, MovesAreSafe

LEMMA HomeIsName == StorageInv => home \in Names /\ numbers \subseteq Numbers
  BY DEF StorageInv, StorageTypes, Names

LEMMA MovesBegin ==
  ASSUME StorageInv, NEW o \in StorageOps, O!Rename(o) \/ O!Migrate(o)
  PROVE  StorageInv'
<1>1. Listing = O!Moves(KeyPair[1], KeyPair[2])
  BY DEF Listing, KeyPair
<1>2. PICK kind \in {"rename", "migrate"} : O!Begin(o, kind, O!Upload, Listing)
  BY <1>1 DEF O!Rename, O!Migrate
<1>3. Listing \in Seq(Call)
  <2>1. <<"p">> \in Path /\ <<"q">> \in Path
    BY DEF Path, Names
  <2>2. O!Find(<<"p">>) \in Call /\ O!Copy(<<"p">>, <<"q">>) \in Call /\ O!Clear(<<"p">>) \in Call
    BY <2>1, CallsAreCalls
  <2> QED BY <2>2 DEF Listing, O!Moves
<1>4. numbers' \subseteq Numbers
  BY HomeIsName DEF O!Rename, O!Migrate
<1> QED BY <1>2, <1>3, <1>4, Begins

LEMMA RemovalsBegin ==
  ASSUME StorageInv, NEW o \in StorageOps,
         \/ O!DeleteProject(o) \/ O!CleanHistory(o) \/ O!CleanBatch(o) \/ O!Gcstorage(o)
         \/ \E n \in Numbers : O!DeleteReport(o, n) \/ O!PruneBuild(o, n)
  PROVE  StorageInv'
<1>1. <<>> \in Path
  BY DEF Path
<1>2. \A p \in Path : O!Clear(p) \in Call /\ O!Dirs \in Call /\ O!Known \in Call /\ O!Prune \in Call
  BY <1>1, CallsAreCalls
<1>3. home \in Names /\ numbers \subseteq Numbers /\ 1 \in Numbers
  BY HomeIsName DEF Numbers
<1>4. <<home>> \in Path /\ O!Latest(home) \in Path /\ <<home, "results", "b">> \in Path
      /\ <<home, "results", "history">> \in Path
  BY <1>3, Paths
<1>5. CASE O!DeleteProject(o)
  <2>1. O!Begin(o, "delete", O!Upload, <<O!Clear(<<home>>)>>) /\ numbers' = numbers
    BY <1>5 DEF O!DeleteProject
  <2>2. <<O!Clear(<<home>>)>> \in Seq(Call)
    BY <1>2, <1>4
  <2> QED BY <2>1, <2>2, <1>3, Begins
<1>6. CASE O!CleanHistory(o)
  <2> DEFINE todo == <<O!Clear(O!Latest(home)), O!Dirs, O!Prune,
                       O!Clear(<<home, "results", "history">>)>>
  <2>1. O!Begin(o, "clean", O!Upload, todo) /\ numbers' = numbers
    BY <1>6 DEF O!CleanHistory
  <2>2. todo \in Seq(Call)
    BY <1>2, <1>4
  <2> HIDE DEF todo
  <2> QED BY <2>1, <2>2, <1>3, Begins
<1>7. CASE O!CleanBatch(o)
  <2>1. O!Begin(o, "batch", O!Upload, <<O!Clear(<<home, "results", "b">>)>>) /\ numbers' = numbers
    BY <1>7 DEF O!CleanBatch
  <2>2. <<O!Clear(<<home, "results", "b">>)>> \in Seq(Call)
    BY <1>2, <1>4
  <2> QED BY <2>1, <2>2, <1>3, Begins
<1>8. CASE O!Gcstorage(o)
  <2>1. O!Begin(o, "gc", O!Upload, <<O!Dirs, O!Known, O!Prune>>) /\ numbers' = numbers
    BY <1>8 DEF O!Gcstorage, O!Orphans
  <2>2. <<O!Dirs, O!Known, O!Prune>> \in Seq(Call)
    BY <1>2, <1>4
  <2> QED BY <2>1, <2>2, <1>3, Begins
<1>9. CASE \E n \in Numbers : O!DeleteReport(o, n) \/ O!PruneBuild(o, n)
  <2>1. PICK n \in Numbers : O!DeleteReport(o, n) \/ O!PruneBuild(o, n)
    BY <1>9
  <2>2. O!Report(home, n) \in Path
    BY <1>3, Paths
  <2>3. <<O!Clear(O!Report(home, n))>> \in Seq(Call)
    BY <1>2, <2>2
  <2>4. PICK kind \in {"report", "prune"} :
          O!Begin(o, kind, n, <<O!Clear(O!Report(home, n))>>)
    BY <2>1 DEF O!DeleteReport, O!PruneBuild
  <2>5. numbers' \subseteq Numbers
    BY <2>1, <1>3 DEF O!DeleteReport, O!PruneBuild
  <2> QED BY <2>3, <2>4, <2>5, Begins
<1> QED BY <1>5, <1>6, <1>7, <1>8, <1>9


LEMMA GreatestNumber ==
  ASSUME NEW S \in SUBSET Numbers, S # {}
  PROVE  O!Max(S) \in Numbers
<1>1. \E x \in S : \A y \in S : x >= y
  <2>1. CASE 10 \in S
    BY <2>1 DEF Numbers
  <2>2. CASE 10 \notin S /\ 9 \in S
    BY <2>2 DEF Numbers
  <2>3. CASE 10 \notin S /\ 9 \notin S
    <3>1. 1 \in S /\ \A y \in S : y = 1
      BY <2>3 DEF Numbers
    <3> QED BY <3>1
  <2> QED BY <2>1, <2>2, <2>3
<1>2. O!Max(S) \in S
  BY <1>1 DEF O!Max
<1> QED BY <1>2

LEMMA GenerationsBegin ==
  ASSUME StorageInv, NEW o \in StorageOps,
         O!KeepHistory(o) \/ O!PrepareLocal(o) \/ O!PublishReport(o)
         \/ O!CopyPlaywrightLatestToBuild(o)
  PROVE  StorageInv'
<1>1. home \in Names /\ numbers \subseteq Numbers
  BY HomeIsName
<1>2. \A p, t \in Path : O!Find(p) \in Call /\ O!Clear(p) \in Call /\ O!Copy(p, t) \in Call
                         /\ O!CopyAny(p, t) \in Call /\ O!Read(p) \in Call
  <2>1. {} \in SUBSET Path
    OBVIOUS
  <2> QED BY <2>1, CallsAreCalls
<1>3. /\ O!Latest(home) \in Path /\ O!Latest(home) \o <<"history">> \in Path
      /\ <<home, "results", "b", "history">> \in Path /\ <<home, "results">> \in Path
      /\ <<home, "playwright-reports", "latest">> \in Path
      /\ \A n \in Numbers : O!Report(home, n) \in Path
                            /\ <<home, "playwright-reports", Segment[n]>> \in Path
  BY <1>1, Paths DEF Numbers
<1>4. CASE O!KeepHistory(o)
  <2> DEFINE from == O!Latest(home) \o <<"history">>
             to == <<home, "results", "b", "history">>
             todo == <<O!Find(from), O!Clear(to), O!Copy(from, to)>>
  <2>1. O!Begin(o, "keep", O!Upload, todo) /\ numbers' = numbers
    BY <1>4 DEF O!KeepHistory
  <2>2. from \in Path /\ to \in Path
    BY <1>3
  <2> HIDE DEF from, to
  <2>3. todo \in Seq(Call)
    BY <1>2, <2>2
  <2> HIDE DEF todo
  <2> QED BY <2>1, <2>3, <1>1, Begins
<1>5. CASE O!PrepareLocal(o)
  <2> DEFINE todo == <<O!Find(<<home, "results">>), O!Read(<<home, "results">>)>>
  <2>1. O!Begin(o, "prepare", O!Upload, todo) /\ numbers' = numbers
    BY <1>5 DEF O!PrepareLocal
  <2>2. todo \in Seq(Call)
    BY <1>2, <1>3
  <2> HIDE DEF todo
  <2> QED BY <2>1, <2>2, <1>1, Begins
<1>6. CASE O!PublishReport(o)
  <2> DEFINE n == O!Max(numbers \cup {0}) + 1
             todo == <<O!Clear(O!Latest(home)),
                       O!Send(O!FilesOf(O!Latest(home), Whole \cup Index)),
                       O!Send(O!FilesOf(O!Report(home, n), Whole))>>
  <2>1. n \in DOMAIN Segment /\ O!Begin(o, "publish", n, todo) /\ numbers' = numbers \cup {n}
    BY <1>6 DEF O!PublishReport
  <2>2. n \in Numbers
    BY <2>1 DEF Segment, Numbers
  <2> HIDE DEF n
  <2>3. O!FilesOf(O!Latest(home), Whole \cup Index) \subseteq Path
        /\ O!FilesOf(O!Report(home, n), Whole) \subseteq Path
    BY <2>2, <1>3, FilesArePaths
  <2>4. O!Send(O!FilesOf(O!Latest(home), Whole \cup Index)) \in Call
        /\ O!Send(O!FilesOf(O!Report(home, n), Whole)) \in Call
    BY <2>3, <1>3, CallsAreCalls
  <2>5. todo \in Seq(Call)
    BY <2>4, <1>2, <1>3
  <2> HIDE DEF todo
  <2>6. numbers' \subseteq Numbers
    BY <2>1, <2>2, <1>1
  <2> QED BY <2>1, <2>5, <2>6, Begins
<1>7. CASE O!CopyPlaywrightLatestToBuild(o)
  <2> DEFINE n == O!Max(numbers)
             from == <<home, "playwright-reports", "latest">>
             to == <<home, "playwright-reports", Segment[n]>>
             todo == <<O!Find(from), O!CopyAny(from, to)>>
  <2>1. numbers # {} /\ O!Begin(o, "playwright", n, todo) /\ numbers' = numbers
    BY <1>7 DEF O!CopyPlaywrightLatestToBuild
  <2>2. n \in Numbers
    BY <2>1, <1>1, GreatestNumber
  <2> HIDE DEF n
  <2>3. from \in Path /\ to \in Path
    BY <2>2, <1>3
  <2> HIDE DEF from, to
  <2>4. todo \in Seq(Call)
    BY <1>2, <2>3
  <2> HIDE DEF todo
  <2> QED BY <2>1, <2>4, <1>1, Begins
<1> QED BY <1>4, <1>5, <1>6, <1>7

-----------------------------------------------------------------------------
(* The calls. *)

\* The steps that are left are steps, and those of a move are its own.
LEMMA StepsLeft ==
  ASSUME NEW q, IsProgram(q), q.todo # <<>>
  PROVE  /\ Head(q.todo) \in Call /\ Tail(q.todo) \in Seq(Call)
         /\ Head(q.todo).from \in Path /\ Head(q.todo).to \in Path
<1>1. q.todo \in Seq(Call)
  BY DEF IsProgram
<1>2. Head(q.todo) \in Call /\ Tail(q.todo) \in Seq(Call)
  BY <1>1
<1> QED BY <1>2 DEF Call

LEMMA MoveSteps ==
  /\ Head(Listing) = O!Find(<<"p">>) /\ Tail(Listing) = Copying /\ Listing # <<>>
  /\ Head(Copying) = O!Copy(<<"p">>, <<"q">>) /\ Tail(Copying) = Clearing /\ Copying # <<>>
  /\ Head(Clearing) = O!Clear(<<"p">>) /\ Tail(Clearing) = <<>> /\ Clearing # <<>>
  BY DEF Listing, Copying, Clearing, O!Moves

\* On to the next step.
LEMMA OnwardIs ==
  ASSUME NEW q, IsProgram(q), q.todo # <<>>
  PROVE  LET r == O!Onward(q) IN
         /\ IsProgram(r) /\ r.kind = q.kind /\ r.todo = Tail(q.todo) /\ r.found = q.found
         /\ r.left = q.found /\ r.page = {} /\ r.lost = q.lost /\ r.home = q.home
<1> DEFINE r == O!Onward(q)
<1>1. DOMAIN q = {"kind", "home", "n", "todo", "found", "left", "page", "cursor", "final", "dirs",
                  "known", "alone", "lost"}
  BY DEF IsProgram, O!Idle
<1>2. /\ DOMAIN r = DOMAIN q /\ r.kind = q.kind /\ r.todo = Tail(q.todo) /\ r.found = q.found
      /\ r.left = q.found /\ r.page = {} /\ r.lost = q.lost /\ r.home = q.home /\ r.dirs = q.dirs
  BY <1>1 DEF O!Onward
<1> HIDE DEF r
<1>3. IsProgram(r)
  BY <1>2, StepsLeft DEF IsProgram
<1> QED BY <1>2, <1>3 DEF r

\* Nothing is left of an operation that ended, or that failed.
LEMMA IdleIsSafe == IsProgram(O!Idle) /\ \A K : MoveOf(O!Idle, K)
<1>1. "none" \in Names /\ <<>> \in Seq(Call)
  BY DEF Names
<1> QED BY <1>1 DEF IsProgram, O!Idle, O!NoHome, MoveOf, O!Mover

\* Which step a move is at is known by its call.
LEMMA MoveAt ==
  ASSUME NEW q, NEW K, MoveOf(q, K), O!Mover(q), q.todo # <<>>
  PROVE  /\ q.found \subseteq Path
         /\ Head(q.todo).do \in {"find", "copy", "clear"}
         /\ Head(q.todo).do = "find" => q.todo = Listing /\ q.found \subseteq K \cup q.lost
         /\ Head(q.todo).do = "copy" =>
              /\ q.todo = Copying /\ q.left \subseteq q.found /\ q.left \subseteq K \cup q.lost
              /\ \A k \in q.found \ q.left : NewKey(k) \in K \cup q.lost
         /\ Head(q.todo).do = "clear" =>
              /\ q.todo = Clearing
              /\ \A k \in q.found : NewKey(k) \in K \cup q.lost
              /\ \A k \in q.page : k[1] = "p"
<1>1. Head(Listing).do = "find" /\ Head(Copying).do = "copy" /\ Head(Clearing).do = "clear"
  BY MoveSteps DEF O!Find, O!Copy, O!Clear, O!Step
<1> QED BY <1>1 DEF MoveOf


LEMMA FindKeeps ==
  ASSUME StorageInv, NEW o \in StorageOps, O!FindPage(o)
  PROVE  StorageInv'
<1> DEFINE q    == op[o]
           rest == {k \in O!Under(Head(q.todo).from) : O!Rank(k) > q.cursor}
           page == O!FirstPage(rest)
           all  == [q EXCEPT !.found = @ \cup page,
                             !.cursor = IF page = {} THEN @ ELSE O!Furthest(page)]
           next == IF rest # page THEN all
                   ELSE IF all.found = {} THEN [q EXCEPT !.todo = << >>] ELSE O!Onward(all)
<1>1. /\ q.todo # <<>> /\ Head(q.todo).do = "find" /\ op' = [op EXCEPT ![o] = next]
      /\ objects' = objects /\ home' = home /\ numbers' = numbers
  BY DEF O!FindPage, O!Doing
<1>2. IsProgram(q) /\ MoveOf(q, DOMAIN objects) /\ DOMAIN objects \subseteq Path
  BY DEF StorageInv, StorageTypes, MovesAreSafe
<1>3. page \subseteq DOMAIN objects
  BY DEF O!FirstPage, O!Under
<1> HIDE DEF q, page, rest
<1>4. DOMAIN q = {"kind", "home", "n", "todo", "found", "left", "page", "cursor", "final", "dirs",
                  "known", "alone", "lost"}
  BY <1>2 DEF IsProgram, O!Idle
<1>5. /\ DOMAIN all = DOMAIN q /\ all.kind = q.kind /\ all.home = q.home /\ all.todo = q.todo
      /\ all.found = q.found \cup page /\ all.left = q.left /\ all.page = q.page
      /\ all.lost = q.lost /\ all.dirs = q.dirs
  BY <1>4
<1> HIDE DEF all
<1>6. IsProgram(all)
  BY <1>2, <1>5 DEF IsProgram
<1>7. O!Mover(all) => /\ all.todo = Listing /\ all.found \subseteq Path
                      /\ all.found \subseteq DOMAIN objects \cup all.lost
  <2> SUFFICES ASSUME O!Mover(q)
      PROVE  /\ all.todo = Listing /\ all.found \subseteq Path
             /\ all.found \subseteq DOMAIN objects \cup all.lost
    BY <1>5 DEF O!Mover
  <2>1. q.todo = Listing /\ q.found \subseteq DOMAIN objects \cup q.lost /\ q.found \subseteq Path
    BY <1>1, <1>2, MoveAt
  <2> QED BY <2>1, <1>2, <1>3, <1>5
<1>8. MoveOf(all, DOMAIN objects)
  BY <1>7 DEF MoveOf
<1>9. CASE rest # page
  <2>1. next = all
    BY <1>9
  <2> HIDE DEF next
  <2>2. /\ (DOMAIN op)' = StorageOps /\ op'[o] = next
        /\ \A x \in StorageOps \ {o} : IsProgram(op'[x]) /\ MoveOf(op'[x], (DOMAIN objects)')
    BY <1>1, AloneGoesOn
  <2> QED BY <2>1, <2>2, <1>1, <1>6, <1>8 DEF StorageInv, StorageTypes, MovesAreSafe
<1>10. CASE rest = page /\ all.found = {}
  <2> DEFINE r == [q EXCEPT !.todo = << >>]
  <2>1. next = r
    BY <1>10
  <2>2. /\ DOMAIN r = DOMAIN q /\ r.todo = <<>> /\ r.home = q.home /\ r.kind = q.kind
        /\ r.dirs = q.dirs /\ r.found = {} /\ r.page = q.page
    BY <1>4, <1>5, <1>10
  <2> HIDE DEF next, r
  <2>3. IsProgram(r)
    BY <1>2, <2>2 DEF IsProgram
  <2>4. MoveOf(r, DOMAIN objects)
    BY <2>2, MoveSteps DEF MoveOf
  <2>5. /\ (DOMAIN op)' = StorageOps /\ op'[o] = next
        /\ \A x \in StorageOps \ {o} : IsProgram(op'[x]) /\ MoveOf(op'[x], (DOMAIN objects)')
    BY <1>1, AloneGoesOn
  <2> QED BY <2>1, <2>3, <2>4, <2>5, <1>1 DEF StorageInv, StorageTypes, MovesAreSafe
<1>11. CASE rest = page /\ all.found # {}
  <2> DEFINE r == O!Onward(all)
  <2>1. next = r
    BY <1>11
  <2>2. /\ IsProgram(r) /\ r.kind = all.kind /\ r.todo = Tail(all.todo) /\ r.found = all.found
        /\ r.left = all.found /\ r.page = {} /\ r.lost = all.lost
    BY <1>1, <1>5, <1>6, OnwardIs
  <2> HIDE DEF next, r
  <2>3. MoveOf(r, DOMAIN objects)
    <3> SUFFICES ASSUME O!Mover(r) PROVE MoveOf(r, DOMAIN objects)
      BY DEF MoveOf
    <3>1. /\ all.todo = Listing /\ all.found \subseteq Path
          /\ all.found \subseteq DOMAIN objects \cup all.lost
      BY <1>7, <2>2 DEF O!Mover
    <3>2. r.todo = Copying
      BY <3>1, <2>2, MoveSteps
    <3> QED BY <3>1, <3>2, <2>2 DEF MoveOf
  <2>4. /\ (DOMAIN op)' = StorageOps /\ op'[o] = next
        /\ \A x \in StorageOps \ {o} : IsProgram(op'[x]) /\ MoveOf(op'[x], (DOMAIN objects)')
    BY <1>1, AloneGoesOn
  <2> QED BY <2>1, <2>2, <2>3, <2>4, <1>1 DEF StorageInv, StorageTypes, MovesAreSafe
<1> QED BY <1>9, <1>10, <1>11


LEMMA ListToDeleteKeeps ==
  ASSUME StorageInv, NEW o \in StorageOps, O!ListToDelete(o)
  PROVE  StorageInv'
<1> DEFINE q    == op[o]
           rest == {k \in O!Under(Head(q.todo).from) : O!Rank(k) > q.cursor}
           page == O!FirstPage(rest)
           some == [q EXCEPT !.page = page, !.final = (rest = page), !.cursor = O!Furthest(page)]
           next == IF page = {} THEN O!Onward(q) ELSE some
<1>1. /\ q.todo # <<>> /\ Head(q.todo).do = "clear" /\ op' = [op EXCEPT ![o] = next]
      /\ objects' = objects /\ home' = home /\ numbers' = numbers
  BY DEF O!ListToDelete, O!Doing
<1>2. IsProgram(q) /\ MoveOf(q, DOMAIN objects) /\ DOMAIN objects \subseteq Path
  BY DEF StorageInv, StorageTypes, MovesAreSafe
<1>3. Head(q.todo).from = <<"p">> => \A k \in page : k[1] = "p"
  <2> SUFFICES ASSUME Head(q.todo).from = <<"p">>, NEW k \in page PROVE k[1] = "p"
    OBVIOUS
  <2>1. k \in O!Under(<<"p">>)
    BY DEF O!FirstPage
  <2> QED BY <2>1, <1>2, UnderOld DEF O!Under
<1> HIDE DEF q, page, rest
<1>4. DOMAIN q = {"kind", "home", "n", "todo", "found", "left", "page", "cursor", "final", "dirs",
                  "known", "alone", "lost"}
  BY <1>2 DEF IsProgram, O!Idle
<1>5. O!Mover(q) => /\ q.todo = Clearing /\ q.found \subseteq Path /\ Head(q.todo).from = <<"p">>
                    /\ \A k \in q.found : NewKey(k) \in DOMAIN objects \cup q.lost
  <2> SUFFICES ASSUME O!Mover(q)
      PROVE  /\ q.todo = Clearing /\ q.found \subseteq Path /\ Head(q.todo).from = <<"p">>
             /\ \A k \in q.found : NewKey(k) \in DOMAIN objects \cup q.lost
    OBVIOUS
  <2>1. /\ q.todo = Clearing /\ q.found \subseteq Path
        /\ \A k \in q.found : NewKey(k) \in DOMAIN objects \cup q.lost
    BY <1>1, <1>2, MoveAt
  <2> QED BY <2>1, MoveSteps DEF O!Clear, O!Step
<1>6. CASE page = {}
  <2> DEFINE r == O!Onward(q)
  <2>1. next = r
    BY <1>6
  <2>2. /\ IsProgram(r) /\ r.kind = q.kind /\ r.todo = Tail(q.todo) /\ r.found = q.found
        /\ r.lost = q.lost
    BY <1>1, <1>2, OnwardIs
  <2> HIDE DEF next, r
  <2>3. MoveOf(r, DOMAIN objects)
    <3> SUFFICES ASSUME O!Mover(r) PROVE MoveOf(r, DOMAIN objects)
      BY DEF MoveOf
    <3>1. /\ q.todo = Clearing /\ q.found \subseteq Path
          /\ \A k \in q.found : NewKey(k) \in DOMAIN objects \cup q.lost
      BY <1>5, <2>2 DEF O!Mover
    <3>2. r.todo = <<>> /\ Clearing # <<>>
      BY <3>1, <2>2, MoveSteps
    <3> QED BY <3>1, <3>2, <2>2 DEF MoveOf
  <2>4. /\ (DOMAIN op)' = StorageOps /\ op'[o] = next
        /\ \A x \in StorageOps \ {o} : IsProgram(op'[x]) /\ MoveOf(op'[x], (DOMAIN objects)')
    BY <1>1, AloneGoesOn
  <2> QED BY <2>1, <2>2, <2>3, <2>4, <1>1 DEF StorageInv, StorageTypes, MovesAreSafe
<1>7. CASE page # {}
  <2>1. next = some
    BY <1>7
  <2>2. /\ DOMAIN some = DOMAIN q /\ some.kind = q.kind /\ some.home = q.home /\ some.todo = q.todo
        /\ some.found = q.found /\ some.page = page /\ some.lost = q.lost /\ some.dirs = q.dirs
    BY <1>4
  <2> HIDE DEF next, some
  <2>3. IsProgram(some)
    BY <1>2, <2>2 DEF IsProgram
  <2>4. MoveOf(some, DOMAIN objects)
    <3> SUFFICES ASSUME O!Mover(some) PROVE MoveOf(some, DOMAIN objects)
      BY DEF MoveOf
    <3>1. /\ q.todo = Clearing /\ q.found \subseteq Path /\ Head(q.todo).from = <<"p">>
          /\ \A k \in q.found : NewKey(k) \in DOMAIN objects \cup q.lost
      BY <1>5, <2>2 DEF O!Mover
    <3> QED BY <3>1, <1>3, <2>2 DEF MoveOf
  <2>5. /\ (DOMAIN op)' = StorageOps /\ op'[o] = next
        /\ \A x \in StorageOps \ {o} : IsProgram(op'[x]) /\ MoveOf(op'[x], (DOMAIN objects)')
    BY <1>1, AloneGoesOn
  <2> QED BY <2>1, <2>3, <2>4, <2>5, <1>1 DEF StorageInv, StorageTypes, MovesAreSafe
<1> QED BY <1>6, <1>7

\* A move deletes nothing of the new prefix.
LEMMA DeletePageKeeps ==
  ASSUME StorageInv, NEW o \in StorageOps, O!DeletePage(o)
  PROVE  StorageInv'
<1> DEFINE q == op[o]
<1>1. PICK refused \in SUBSET q.page :
        /\ objects' = [k \in DOMAIN objects \ (q.page \ refused) |-> objects[k]]
        /\ op' = O!Taken(o, q.page \ refused, IF q.final THEN O!Onward(q) ELSE [q EXCEPT !.page = {}])
  BY DEF O!DeletePage
<1> DEFINE gone == q.page \ refused
           next == IF q.final THEN O!Onward(q) ELSE [q EXCEPT !.page = {}]
<1>2. /\ q.todo # <<>> /\ Head(q.todo).do = "clear" /\ op' = O!Taken(o, gone, next)
      /\ (DOMAIN objects)' = DOMAIN objects \ gone /\ home' = home /\ numbers' = numbers
  BY <1>1 DEF O!DeletePage, O!Doing
<1>3. IsProgram(q) /\ MoveOf(q, DOMAIN objects) /\ DOMAIN objects \subseteq Path
  BY DEF StorageInv, StorageTypes, MovesAreSafe
<1>4. gone \subseteq q.page
  OBVIOUS
<1> HIDE DEF q, gone
<1>5. DOMAIN q = {"kind", "home", "n", "todo", "found", "left", "page", "cursor", "final", "dirs",
                  "known", "alone", "lost"}
  BY <1>3 DEF IsProgram, O!Idle
<1>6. O!Mover(q) => /\ q.todo = Clearing /\ q.found \subseteq Path
                    /\ \A k \in q.found : NewKey(k) \in (DOMAIN objects)' \cup q.lost
  <2> SUFFICES ASSUME O!Mover(q)
      PROVE  /\ q.todo = Clearing /\ q.found \subseteq Path
             /\ \A k \in q.found : NewKey(k) \in (DOMAIN objects)' \cup q.lost
    OBVIOUS
  <2>1. /\ q.todo = Clearing /\ q.found \subseteq Path
        /\ \A k \in q.found : NewKey(k) \in DOMAIN objects \cup q.lost
        /\ \A k \in q.page : k[1] = "p"
    BY <1>2, <1>3, MoveAt
  <2>2. \A k \in q.found : NewKey(k) \notin gone
    <3> TAKE k \in q.found
    <3>1. NewKey(k)[1] = "q"
      BY <2>1, MovedIsNew
    <3> QED BY <3>1, <2>1, <1>4
  <2> QED BY <2>1, <2>2, <1>2
<1>7. IsProgram(next) /\ MoveOf(next, (DOMAIN objects)')
  <2>1. CASE q.final
    <3> DEFINE r == O!Onward(q)
    <3>1. next = r
      BY <2>1
    <3>2. /\ IsProgram(r) /\ r.kind = q.kind /\ r.todo = Tail(q.todo) /\ r.found = q.found
          /\ r.lost = q.lost
      BY <1>2, <1>3, OnwardIs
    <3> HIDE DEF next, r
    <3>3. MoveOf(r, (DOMAIN objects)')
      <4> SUFFICES ASSUME O!Mover(r) PROVE MoveOf(r, (DOMAIN objects)')
        BY DEF MoveOf
      <4>1. /\ q.todo = Clearing /\ q.found \subseteq Path
            /\ \A k \in q.found : NewKey(k) \in (DOMAIN objects)' \cup q.lost
        BY <1>6, <3>2 DEF O!Mover
      <4>2. r.todo = <<>> /\ Clearing # <<>>
        BY <4>1, <3>2, MoveSteps
      <4> QED BY <4>1, <4>2, <3>2 DEF MoveOf
    <3> QED BY <3>1, <3>2, <3>3
  <2>2. CASE ~q.final
    <3> DEFINE r == [q EXCEPT !.page = {}]
    <3>1. next = r
      BY <2>2
    <3>2. /\ DOMAIN r = DOMAIN q /\ r.kind = q.kind /\ r.home = q.home /\ r.todo = q.todo
          /\ r.found = q.found /\ r.page = {} /\ r.lost = q.lost /\ r.dirs = q.dirs
      BY <1>5
    <3> HIDE DEF next, r
    <3>3. IsProgram(r)
      BY <1>3, <3>2 DEF IsProgram
    <3>4. MoveOf(r, (DOMAIN objects)')
      <4> SUFFICES ASSUME O!Mover(r) PROVE MoveOf(r, (DOMAIN objects)')
        BY DEF MoveOf
      <4>1. /\ q.todo = Clearing /\ q.found \subseteq Path
            /\ \A k \in q.found : NewKey(k) \in (DOMAIN objects)' \cup q.lost
        BY <1>6, <3>2 DEF O!Mover
      <4> QED BY <4>1, <3>2 DEF MoveOf
    <3> QED BY <3>1, <3>3, <3>4
  <2> QED BY <2>1, <2>2
<1> HIDE DEF next
<1>8. /\ (DOMAIN op)' = StorageOps /\ op'[o] = next
      /\ \A x \in StorageOps \ {o} : IsProgram(op'[x]) /\ MoveOf(op'[x], (DOMAIN objects)')
  <2>1. DOMAIN objects \subseteq (DOMAIN objects)' \cup gone
    BY <1>2
  <2> QED BY <1>2, <2>1, OthersGoOn
<1> QED BY <1>2, <1>3, <1>7, <1>8 DEF StorageInv, StorageTypes, MovesAreSafe


\* One object is done.
LEMMA LessIs ==
  ASSUME NEW q, IsProgram(q), q.todo # <<>>, NEW k
  PROVE  LET r == O!Less(q, k) IN
         /\ IsProgram(r) /\ r.kind = q.kind /\ r.found = q.found /\ r.lost = q.lost
         /\ IF q.left = {k} THEN r.todo = Tail(q.todo) /\ r.page = {}
            ELSE r.todo = q.todo /\ r.left = q.left \ {k}
<1> DEFINE r == O!Less(q, k)
<1>1. CASE q.left = {k}
  <2>1. r = O!Onward(q)
    BY <1>1 DEF O!Less
  <2> HIDE DEF r
  <2>2. /\ IsProgram(r) /\ r.kind = q.kind /\ r.todo = Tail(q.todo) /\ r.found = q.found
        /\ r.page = {} /\ r.lost = q.lost
    BY <2>1, OnwardIs
  <2> QED BY <1>1, <2>2 DEF r
<1>2. CASE q.left # {k}
  <2>1. r = [q EXCEPT !.left = @ \ {k}]
    BY <1>2 DEF O!Less
  <2>2. DOMAIN q = {"kind", "home", "n", "todo", "found", "left", "page", "cursor", "final", "dirs",
                    "known", "alone", "lost"}
    BY DEF IsProgram, O!Idle
  <2> HIDE DEF r
  <2>3. /\ DOMAIN r = DOMAIN q /\ r.kind = q.kind /\ r.home = q.home /\ r.todo = q.todo
        /\ r.found = q.found /\ r.left = q.left \ {k} /\ r.lost = q.lost /\ r.dirs = q.dirs
    BY <2>1, <2>2
  <2>4. IsProgram(r)
    BY <2>3 DEF IsProgram
  <2> QED BY <1>2, <2>3, <2>4 DEF r
<1> QED BY <1>1, <1>2

\* A move leaves an object it has copied out of what is left.
LEMMA CopyKeeps ==
  ASSUME StorageInv, NEW o \in StorageOps, NEW k \in O!Key, O!CopyOne(o, k)
  PROVE  StorageInv'
<1> DEFINE q    == op[o]
           to   == O!Moved(k, Head(q.todo).from, Head(q.todo).to)
           next == O!Less(q, k)
<1>1. /\ q.todo # <<>> /\ Head(q.todo).do \in {"copy", "copyany"} /\ k \in q.left
      /\ op' = O!Taken(o, {to}, next) /\ objects' = O!Put(objects, to, objects[k])
      /\ home' = home /\ numbers' = numbers
  BY DEF O!CopyOne, O!CopyObject, O!Doing
<1>2. IsProgram(q) /\ MoveOf(q, DOMAIN objects) /\ DOMAIN objects \subseteq Path
  BY DEF StorageInv, StorageTypes, MovesAreSafe
<1> HIDE DEF q
<1>3. to \in Path
  <2>1. k \in Path /\ Head(q.todo).from \in Path /\ Head(q.todo).to \in Path
    BY <1>1, <1>2, StepsLeft, KeysArePaths
  <2>2. Len(Head(q.todo).from) \in Nat
    BY <2>1 DEF Path
  <2> QED BY <2>1, <2>2, SuffixesArePaths DEF O!Moved
<1>4. Head(q.todo) = O!Copy(<<"p">>, <<"q">>) => to = NewKey(k)
  BY DEF O!Copy, O!Step, NewKey
<1> HIDE DEF to, next
<1>5. (DOMAIN objects)' = DOMAIN objects \cup {to}
  BY <1>1 DEF O!Put
<1>6. /\ IsProgram(next) /\ next.kind = q.kind /\ next.found = q.found /\ next.lost = q.lost
      /\ IF q.left = {k} THEN next.todo = Tail(q.todo) /\ next.page = {}
         ELSE next.todo = q.todo /\ next.left = q.left \ {k}
  BY <1>1, <1>2, LessIs DEF next
<1>7. MoveOf(next, (DOMAIN objects)')
  <2> SUFFICES ASSUME O!Mover(q) PROVE MoveOf(next, (DOMAIN objects)')
    BY <1>6 DEF MoveOf, O!Mover
  <2>1. Head(q.todo).do = "copy" /\ q.found \subseteq Path
    BY <1>1, <1>2, MoveAt
  <2>2. /\ q.todo = Copying /\ q.left \subseteq q.found /\ q.left \subseteq DOMAIN objects \cup q.lost
        /\ \A l \in q.found \ q.left : NewKey(l) \in DOMAIN objects \cup q.lost
    BY <1>1, <1>2, <2>1, MoveAt
  <2>3. to = NewKey(k)
    BY <1>4, <2>2, MoveSteps
  <2>4. CASE q.left = {k}
    <3>1. next.todo = Clearing /\ next.page = {}
      BY <1>6, <2>2, <2>4, MoveSteps
    <3>2. \A l \in q.found : NewKey(l) \in (DOMAIN objects)' \cup next.lost
      BY <1>5, <1>6, <2>2, <2>3, <2>4
    <3> QED BY <3>1, <3>2, <1>6, <2>1 DEF MoveOf
  <2>5. CASE q.left # {k}
    <3>1. next.todo = Copying /\ next.left \subseteq next.found
          /\ next.left \subseteq (DOMAIN objects)' \cup next.lost
      BY <1>5, <1>6, <2>2, <2>5
    <3>2. \A l \in next.found \ next.left : NewKey(l) \in (DOMAIN objects)' \cup next.lost
      BY <1>5, <1>6, <2>2, <2>3, <2>5
    <3> QED BY <3>1, <3>2, <1>6, <2>1 DEF MoveOf
  <2> QED BY <2>4, <2>5
<1>8. /\ (DOMAIN op)' = StorageOps /\ op'[o] = next
      /\ \A x \in StorageOps \ {o} : IsProgram(op'[x]) /\ MoveOf(op'[x], (DOMAIN objects)')
  <2>1. DOMAIN objects \subseteq (DOMAIN objects)' \cup {to}
    BY <1>5
  <2> QED BY <1>1, <2>1, OthersGoOn
<1> QED BY <1>1, <1>2, <1>3, <1>5, <1>6, <1>7, <1>8 DEF StorageInv, StorageTypes, MovesAreSafe

\* A step of an operation that is no move and writes at most a path.
LEMMA NoMove ==
  ASSUME StorageInv, NEW o \in StorageOps, NEW next, IsProgram(next), ~O!Mover(next),
         home' \in {"p", "q", "none"}, numbers' \subseteq Numbers,
         DOMAIN objects \subseteq (DOMAIN objects)', (DOMAIN objects)' \subseteq Path,
         op' = [op EXCEPT ![o] = next] \/ \E gone : op' = O!Taken(o, gone, next)
  PROVE  StorageInv'
<1>1. MoveOf(next, (DOMAIN objects)')
  BY DEF MoveOf
<1>2. /\ (DOMAIN op)' = StorageOps /\ op'[o] = next
      /\ \A x \in StorageOps \ {o} : IsProgram(op'[x]) /\ MoveOf(op'[x], (DOMAIN objects)')
  <2>1. CASE op' = [op EXCEPT ![o] = next]
    BY <2>1, AloneGoesOn
  <2>2. CASE \E gone : op' = O!Taken(o, gone, next)
    <3>1. PICK gone : op' = O!Taken(o, gone, next)
      BY <2>2
    <3>2. DOMAIN objects \subseteq (DOMAIN objects)' \cup gone
      OBVIOUS
    <3> QED BY <3>1, <3>2, OthersGoOn
  <2> QED BY <2>1, <2>2
<1> QED BY <1>1, <1>2 DEF StorageInv, StorageTypes, MovesAreSafe

LEMMA ReadKeeps ==
  ASSUME StorageInv, NEW o \in StorageOps, NEW k, O!ReadOne(o, k)
  PROVE  StorageInv'
<1> DEFINE q == op[o]
           next == O!Less(q, k)
<1>1. /\ q.todo # <<>> /\ Head(q.todo).do = "read" /\ op' = [op EXCEPT ![o] = next]
      /\ objects' = objects /\ home' = home /\ numbers' = numbers
  BY DEF O!ReadOne, O!Doing
<1>2. /\ IsProgram(q) /\ MoveOf(q, DOMAIN objects) /\ DOMAIN objects \subseteq Path
      /\ home \in {"p", "q", "none"} /\ numbers \subseteq Numbers
  BY DEF StorageInv, StorageTypes, MovesAreSafe
<1> HIDE DEF q
<1>3. ~O!Mover(q)
  BY <1>1, <1>2, MoveAt
<1>4. IsProgram(next) /\ next.kind = q.kind
  BY <1>1, <1>2, LessIs
<1> HIDE DEF next
<1>5. ~O!Mover(next)
  BY <1>3, <1>4 DEF O!Mover
<1> QED BY <1>1, <1>2, <1>4, <1>5, NoMove

LEMMA SendKeeps ==
  ASSUME StorageInv, NEW o \in StorageOps, NEW k \in O!Key, O!SendOne(o, k)
  PROVE  StorageInv'
<1> DEFINE q == op[o]
           K == Head(q.todo).keys
           more == [q EXCEPT !.page = @ \cup {k}]
           next == IF q.page \cup {k} = K THEN O!Onward(q) ELSE more
<1>1. /\ q.todo # <<>> /\ Head(q.todo).do = "send" /\ op' = O!Taken(o, {k}, next)
      /\ objects' = O!Put(objects, k, q.n) /\ home' = home /\ numbers' = numbers
  BY DEF O!SendOne, O!Doing
<1>2. /\ IsProgram(q) /\ MoveOf(q, DOMAIN objects) /\ DOMAIN objects \subseteq Path
      /\ home \in {"p", "q", "none"} /\ numbers \subseteq Numbers
  BY DEF StorageInv, StorageTypes, MovesAreSafe
<1> HIDE DEF q
<1>3. ~O!Mover(q)
  BY <1>1, <1>2, MoveAt
<1>4. IsProgram(next) /\ next.kind = q.kind
  <2>1. CASE q.page \cup {k} = K
    <3>1. next = O!Onward(q)
      BY <2>1
    <3> HIDE DEF next
    <3> QED BY <3>1, <1>1, <1>2, OnwardIs
  <2>2. CASE q.page \cup {k} # K
    <3>1. next = more
      BY <2>2
    <3>2. DOMAIN q = {"kind", "home", "n", "todo", "found", "left", "page", "cursor", "final", "dirs",
                      "known", "alone", "lost"}
      BY <1>2 DEF IsProgram, O!Idle
    <3>3. /\ DOMAIN more = DOMAIN q /\ more.kind = q.kind /\ more.home = q.home
          /\ more.todo = q.todo /\ more.dirs = q.dirs
      BY <3>2
    <3> HIDE DEF next, more
    <3> QED BY <3>1, <3>3, <1>2 DEF IsProgram
  <2> QED BY <2>1, <2>2
<1> HIDE DEF next
<1>5. ~O!Mover(next)
  BY <1>3, <1>4 DEF O!Mover
<1>6. (DOMAIN objects)' = DOMAIN objects \cup {k}
  BY <1>1 DEF O!Put
<1> QED BY <1>1, <1>2, <1>4, <1>5, <1>6, KeysArePaths, NoMove


LEMMA LookKeeps ==
  ASSUME StorageInv, NEW o \in StorageOps, O!Look(o)
  PROVE  StorageInv'
<1> DEFINE q == op[o]
           seen == [O!Onward(q) EXCEPT !.dirs = O!ListReportBuilds(q.home)]
           read == [O!Onward(q) EXCEPT !.known = numbers]
           clears == {O!Clear(O!Report(q.home, n)) : n \in q.dirs \ q.known}
           pruned == [q EXCEPT !.todo = O!SetToSeq(clears) \o Tail(@)]
           next == CASE Head(q.todo).do = "dirs"  -> seen
                     [] Head(q.todo).do = "known" -> read
                     [] OTHER -> pruned
<1>1. /\ q.todo # <<>> /\ Head(q.todo).do \in {"dirs", "known", "prune"}
      /\ op' = [op EXCEPT ![o] = next]
      /\ objects' = objects /\ home' = home /\ numbers' = numbers
  BY DEF O!Look, O!Doing
<1>2. /\ IsProgram(q) /\ MoveOf(q, DOMAIN objects) /\ DOMAIN objects \subseteq Path
      /\ home \in {"p", "q", "none"} /\ numbers \subseteq Numbers
  BY DEF StorageInv, StorageTypes, MovesAreSafe
<1> HIDE DEF q
<1>3. ~O!Mover(q)
  BY <1>1, <1>2, MoveAt
<1>4. O!ListReportBuilds(q.home) \subseteq Numbers
  BY DEF O!ListReportBuilds, Segment, Numbers
<1>5. IsProgram(next) /\ next.kind = q.kind
  <2> DEFINE r == O!Onward(q)
  <2>1. IsProgram(r) /\ r.kind = q.kind
    BY <1>1, <1>2, OnwardIs
  <2>2. DOMAIN r = {"kind", "home", "n", "todo", "found", "left", "page", "cursor", "final", "dirs",
                    "known", "alone", "lost"}
    BY <2>1 DEF IsProgram, O!Idle
  <2>3. DOMAIN q = {"kind", "home", "n", "todo", "found", "left", "page", "cursor", "final", "dirs",
                    "known", "alone", "lost"}
    BY <1>2 DEF IsProgram, O!Idle
  <2>4. CASE Head(q.todo).do = "dirs"
    <3>1. next = seen
      BY <2>4
    <3>2. seen = [r EXCEPT !.dirs = O!ListReportBuilds(q.home)]
      OBVIOUS
    <3> HIDE DEF r, seen, next
    <3>3. /\ DOMAIN seen = DOMAIN r /\ seen.kind = r.kind /\ seen.home = r.home
          /\ seen.todo = r.todo /\ seen.dirs = O!ListReportBuilds(q.home)
      BY <2>2, <3>2
    <3> QED BY <3>1, <3>3, <2>1, <1>4 DEF IsProgram
  <2>5. CASE Head(q.todo).do = "known"
    <3>1. next = read
      BY <2>5
    <3>2. read = [r EXCEPT !.known = numbers]
      OBVIOUS
    <3> HIDE DEF r, read, next
    <3>3. /\ DOMAIN read = DOMAIN r /\ read.kind = r.kind /\ read.home = r.home
          /\ read.todo = r.todo /\ read.dirs = r.dirs
      BY <2>2, <3>2
    <3> QED BY <3>1, <3>3, <2>1 DEF IsProgram
  <2>6. CASE Head(q.todo).do \notin {"dirs", "known"}
    <3>1. next = pruned
      BY <2>6
    <3>2. clears \in SUBSET Call
      <4>1. \A n \in Numbers : O!Report(q.home, n) \in Path
        BY <1>2, Paths DEF IsProgram
      <4>2. \A n \in Numbers : O!Clear(O!Report(q.home, n)) \in Call
        <5>1. <<>> \in Path /\ {} \in SUBSET Path
          BY DEF Path
        <5> QED BY <4>1, <5>1, CallsAreCalls
      <4> QED BY <4>2, <1>2 DEF IsProgram
    <3>3. clears \subseteq {O!Clear(O!Report(q.home, 1)), O!Clear(O!Report(q.home, 9)),
                            O!Clear(O!Report(q.home, 10))}
      BY <1>2 DEF IsProgram, Numbers
    <3> HIDE DEF clears
    <3>4. O!SetToSeq(clears) \in Seq(Call)
      BY <3>2, <3>3, SequenceOfFew
    <3>5. O!SetToSeq(clears) \o Tail(q.todo) \in Seq(Call)
      BY <3>4, <1>1, <1>2, StepsLeft
    <3>6. /\ DOMAIN pruned = DOMAIN q /\ pruned.kind = q.kind /\ pruned.home = q.home
          /\ pruned.todo = O!SetToSeq(clears) \o Tail(q.todo) /\ pruned.dirs = q.dirs
      BY <2>3
    <3> HIDE DEF pruned, next
    <3> QED BY <3>1, <3>5, <3>6, <1>2 DEF IsProgram
  <2> QED BY <2>4, <2>5, <2>6
<1> HIDE DEF next
<1>6. ~O!Mover(next)
  BY <1>3, <1>5 DEF O!Mover
<1> QED BY <1>1, <1>2, <1>5, <1>6, NoMove

LEMMA EndsKeep ==
  ASSUME StorageInv, NEW o \in StorageOps, O!Fail(o) \/ O!End(o)
  PROVE  StorageInv'
<1>1. /\ home \in {"p", "q", "none"} /\ numbers \subseteq Numbers /\ DOMAIN objects \subseteq Path
  BY DEF StorageInv, StorageTypes
<1>2. op' = [op EXCEPT ![o] = O!Idle] /\ objects' = objects
  BY DEF O!Fail, O!End
<1>3. home' \in {"p", "q", "none"}
  BY <1>1 DEF O!Fail, O!End, KeyPair, O!NoHome
<1>4. numbers' \subseteq Numbers
  BY <1>1 DEF O!Fail, O!End
<1>5. ~O!Mover(O!Idle)
  BY DEF O!Mover, O!Idle
<1> QED BY <1>1, <1>2, <1>3, <1>4, <1>5, IdleIsSafe, NoMove

LEMMA WriteKeeps ==
  ASSUME StorageInv, NEW k \in O!Key, O!WriteFile(k)
  PROVE  StorageInv'
<1>1. /\ objects' = O!Put(objects, k, O!Upload) /\ home' = home /\ numbers' = numbers
      /\ op' = [x \in StorageOps |-> [op[x] EXCEPT !.lost = @ \cup {k}]]
  BY DEF O!WriteFile
<1>2. (DOMAIN objects)' = DOMAIN objects \cup {k}
  BY <1>1 DEF O!Put
<1>3. ASSUME NEW x \in StorageOps
      PROVE  IsProgram(op'[x]) /\ MoveOf(op'[x], (DOMAIN objects)')
  <2> DEFINE q == op[x]
             r == [q EXCEPT !.lost = @ \cup {k}]
  <2>1. op'[x] = r
    BY <1>1
  <2>2. IsProgram(q) /\ MoveOf(q, DOMAIN objects)
    BY DEF StorageInv, StorageTypes, MovesAreSafe
  <2> HIDE DEF q
  <2>3. DOMAIN q = {"kind", "home", "n", "todo", "found", "left", "page", "cursor", "final", "dirs",
                    "known", "alone", "lost"}
    BY <2>2 DEF IsProgram, O!Idle
  <2>4. SameMove(q, r) /\ r.lost = q.lost \cup {k} /\ r.home = q.home /\ r.dirs = q.dirs
        /\ DOMAIN r = DOMAIN q
    BY <2>3 DEF SameMove
  <2>5. MoveOf(r, (DOMAIN objects)')
    BY <1>2, <2>2, <2>4, MoveGoesOn
  <2>6. IsProgram(r)
    BY <2>2, <2>4 DEF IsProgram, SameMove
  <2> QED BY <2>1, <2>5, <2>6
<1>4. DOMAIN op' = StorageOps
  BY <1>1
<1>5. home' \in {"p", "q", "none"} /\ numbers' \subseteq Numbers /\ (DOMAIN objects)' \subseteq Path
  BY <1>1, <1>2, KeysArePaths DEF StorageInv, StorageTypes
<1> QED BY <1>3, <1>4, <1>5 DEF StorageInv, StorageTypes, MovesAreSafe

LEMMA StorageStep == StorageInv /\ [AllNext]_allVars => StorageInv'
<1> SUFFICES ASSUME StorageInv, [AllNext]_allVars PROVE StorageInv'
  OBVIOUS
<1>1. CASE UNCHANGED storageVars
  BY <1>1 DEF storageVars, StorageInv, StorageTypes, MovesAreSafe
<1>2. CASE O!Next
  <2>1. CASE \E k \in O!Key : O!WriteFile(k)
    BY <2>1, WriteKeeps
  <2>2. CASE \E o \in StorageOps : O!Rename(o) \/ O!Migrate(o)
    BY <2>2, MovesBegin
  <2>3. CASE \E o \in StorageOps : \/ O!DeleteProject(o) \/ O!CleanHistory(o) \/ O!CleanBatch(o)
                                   \/ O!Gcstorage(o)
                                   \/ \E n \in Numbers : O!DeleteReport(o, n) \/ O!PruneBuild(o, n)
    BY <2>3, RemovalsBegin
  <2>4. CASE \E o \in StorageOps : O!KeepHistory(o) \/ O!PrepareLocal(o) \/ O!PublishReport(o)
                                   \/ O!CopyPlaywrightLatestToBuild(o)
    BY <2>4, GenerationsBegin
  <2>5. CASE \E o \in StorageOps : O!FindPage(o) \/ O!ListToDelete(o) \/ O!DeletePage(o)
    BY <2>5, FindKeeps, ListToDeleteKeeps, DeletePageKeeps
  <2>6. CASE \E o \in StorageOps : O!Look(o) \/ O!Fail(o) \/ O!End(o)
    BY <2>6, LookKeeps, EndsKeep
  <2>7. CASE \E o \in StorageOps, k \in O!Key : O!CopyOne(o, k) \/ O!ReadOne(o, k) \/ O!SendOne(o, k)
    BY <2>7, CopyKeeps, ReadKeeps, SendKeeps
  <2>8. DOMAIN Segment = Numbers
    BY DEF Segment, Numbers
  <2> QED BY <1>2, <2>1, <2>2, <2>3, <2>4, <2>5, <2>6, <2>7, <2>8 DEF O!Next
<1> QED BY <1>1, <1>2 DEF AllNext, allVars

-----------------------------------------------------------------------------
(* What a rename, or a child's migration, has listed is at its old key or  *)
(* at its new one wherever the operation stops and whatever other          *)
(* operations do meanwhile, unless one of them took it: it is the copy     *)
(* that fails with the first object it cannot copy, before anything is     *)
(* deleted, and the pages deleted are of the old prefix alone.             *)
THEOREM NothingIsDropped == AllSpec => []NothingDropped
<1>1. AllInit => StorageInv
  BY StorageStarts DEF AllInit
<1>2. StorageInv => NothingDropped
  <2> SUFFICES ASSUME StorageInv, NEW o \in StorageOps, O!Mover(op[o]), NEW k \in op[o].found
      PROVE  O!Goals(op[o], k) \cap (DOMAIN objects \cup op[o].lost) # {}
    BY DEF NothingDropped, O!NothingDropped
  <2> DEFINE q == op[o]
  <2>1. MoveOf(q, DOMAIN objects)
    BY DEF StorageInv, MovesAreSafe
  <2>2. O!Goals(q, k) = {k, NewKey(k)}
    BY DEF O!Goals, NewKey, KeyPair
  <2> HIDE DEF q
  <2>3. k \in DOMAIN objects \cup q.lost \/ NewKey(k) \in DOMAIN objects \cup q.lost
    BY <2>1 DEF MoveOf, q
  <2> QED BY <2>2, <2>3 DEF q
<1> QED BY <1>1, <1>2, StorageStep, PTL DEF AllSpec

-----------------------------------------------------------------------------
(* The data that is served: the inductive invariant. *)

\* Numbers of which there may be files: reserved once. And numbers that are not
\* shown again, whatever happens: reserved before, or disturbed while published.
Publishes(q, n) == q.kind = "publish" /\ q.n = n
Begun  == {n \in Numbers : n \in used \/ \E o \in StorageOps : Publishes(op[o], n)}
Doomed == {n \in Numbers \ shown :
             n \in used \/ \E o \in StorageOps : Publishes(op[o], n) /\ ~op[o].alone}

\* What operations are to each other, whatever call they are at.
Claims ==
  /\ shown \cup used \subseteq Numbers /\ shown \subseteq numbers
  /\ \A o \in StorageOps :
       /\ op[o].alone \in BOOLEAN
       /\ op[o].kind = "publish" => op[o].n \in Numbers \ shown
       /\ op[o].kind = "publish" /\ op[o].alone => op[o].n \in numbers /\ op[o].home = home
       /\ op[o].kind = "migrate" => home # "p"
       /\ op[o].kind \in {"report", "prune"} => op[o].n \in Numbers
       /\ \A x \in StorageOps : op[o].kind = "publish" /\ op[x].kind = "publish" => x = o
       /\ \A n \in Numbers : O!Disturbs(op[o].kind, op[o].n, n) =>
            /\ n \notin shown
            /\ \A x \in StorageOps : Publishes(op[x], n) => ~op[x].alone

\* A file of a numbered report.
IsOf(k, n) == Len(k) >= 3 /\ k[2] = "reports" /\ k[3] = Segment[n]

OwnFiles(h, n)  == O!FilesOf(O!Report(h, n), Whole)
LatestFiles(h)  == O!FilesOf(O!Latest(h), Whole \cup Index)

\* Whose files an operation of some kind may delete, overwrite and send.
Clears(kind, h, n, D, s) ==
  \/ kind \in O!Whole
  \/ kind = "migrate" /\ s.from = <<"p">>
  \/ Len(s.from) >= 2 /\ s.from[2] = "results"
  \/ Len(s.from) >= 3 /\ s.from[3] = "latest"
  \/ kind \in {"report", "prune"} /\ s.from = O!Report(h, n)
  \/ kind = "gc" /\ \E m \in D : s.from = O!Report(h, m)

Copies(s) == s = O!Copy(<<"p">>, <<"q">>) \/ (Len(s.to) >= 2 /\ s.to[2] # "reports")

Allowed(kind, h, n, D) ==
  {s \in Call :
     /\ s.do = "clear" => Clears(kind, h, n, D, s)
     /\ s.do \in {"copy", "copyany"} => Copies(s)
     /\ s.do = "send" => kind = "publish"
     /\ s.do \in {"dirs", "known", "prune"} => kind \in {"gc", "clean"}
     /\ s.do \in {"find", "copy", "copyany", "read"} => kind \notin {"gc", "publish"}}

\* gcstorage has listed numbers that were reserved, and then those of them
\* without a row, which will not be shown.
GcOf(q, D, B) ==
  \/ q.todo = <<O!Dirs, O!Known, O!Prune>>
  \/ q.todo = <<O!Known, O!Prune>> /\ q.dirs \subseteq B
  \/ q.todo = <<O!Prune>> /\ q.dirs \ q.known \subseteq D
  \/ q.todo \in Seq({s \in Call : s.do = "clear"})

\* A publication whose build is to be shown has what it has sent.
Fresh(q, U) == q.kind = "publish" /\ q.alone /\ q.n \notin U
Sending(h, n) == <<O!Clear(O!Latest(h)), O!Send(LatestFiles(h)), O!Send(OwnFiles(h, n))>>

PublishOf(q, U, K) ==
  \/ q.todo = Sending(q.home, q.n)
  \/ q.todo = Tail(Sending(q.home, q.n))
  \/ /\ q.todo = <<O!Send(OwnFiles(q.home, q.n))>> /\ q.page \subseteq OwnFiles(q.home, q.n)
     /\ Fresh(q, U) => q.page \subseteq K
  \/ q.todo = <<>> /\ (Fresh(q, U) => OwnFiles(q.home, q.n) \subseteq K)

PageOf(q) ==
  q.todo # <<>> =>
    /\ Head(q.todo).do = "clear" => \A k \in q.page : O!IsStrictPrefix(Head(q.todo).from, k)
    /\ Head(q.todo).do \notin {"clear", "send"} => q.page = {}

ProgramOf(q, D, B, U, K) ==
  /\ q.todo \in Seq(Allowed(q.kind, q.home, q.n, D))
  /\ PageOf(q)
  /\ q.kind = "gc" => GcOf(q, D, B)
  /\ q.kind = "publish" => PublishOf(q, U, K)

OwnData == \A k \in DOMAIN objects, n \in Numbers : IsOf(k, n) => objects[k] = n /\ n \in Begun

ReportsKept ==
  /\ OwnData
  /\ \A n \in shown : OwnFiles(home, n) \subseteq DOMAIN objects
  /\ \A o \in StorageOps : ProgramOf(op[o], Doomed, Begun, used, DOMAIN objects)

ServedInv == StorageInv /\ Claims /\ ReportsKept

-----------------------------------------------------------------------------
(* Keys of reports. *)

LEMMA NumbersDiffer ==
  /\ DOMAIN Segment = Numbers
  /\ \A n \in Numbers : Segment[n] \in Names /\ Segment[n] # "latest"
  /\ \A m, n \in Numbers : Segment[m] = Segment[n] => m = n
<1>1. DOMAIN Segment = Numbers /\ Segment[1] = "1" /\ Segment[9] = "9" /\ Segment[10] = "10"
  BY DEF Segment, Numbers
<1> QED BY <1>1 DEF Numbers, Names

\* The first elements of what is under a prefix.
LEMMA UnderPrefix ==
  ASSUME NEW p \in Path, NEW k \in Path, O!IsStrictPrefix(p, k)
  PROVE  Len(p) <= Len(k) /\ \A i \in 1 .. Len(p) : k[i] = p[i]
<1>1. Len(p) <= Len(k) /\ SubSeq(p, 1, Len(p)) = SubSeq(k, 1, Len(p))
  BY DEF O!IsStrictPrefix, O!IsPrefix
<1>2. ASSUME NEW i \in 1 .. Len(p) PROVE k[i] = p[i]
  <2>1. SubSeq(p, 1, Len(p))[i] = p[i] /\ SubSeq(k, 1, Len(p))[i] = k[i]
    BY <1>1 DEF Path
  <2> QED BY <1>1, <2>1
<1> QED BY <1>1, <1>2

\* A key made of a prefix of three elements.
LEMMA OwnFilesAre ==
  ASSUME NEW h \in Names, NEW n \in Numbers, NEW k \in OwnFiles(h, n)
  PROVE  k \in Path /\ k[1] = h /\ IsOf(k, n)
<1>1. PICK f \in Whole : k = O!Report(h, n) \o f
  BY DEF OwnFiles, O!FilesOf
<1>2. Segment[n] \in Names
  BY NumbersDiffer
<1>3. O!Report(h, n) = <<h, "reports", Segment[n]>> /\ O!Report(h, n) \in Path
  BY Paths DEF O!Report
<1>4. f \in Path /\ k \in Path
  <2>1. Whole \subseteq Path
    <3>1. History \in Path
      BY DEF History, Path, Names
    <3>2. Data \in Path
      BY DEF Data, Path, Names
    <3> QED BY <3>1, <3>2 DEF Whole
  <2> QED BY <1>3, <2>1, FilesArePaths DEF OwnFiles
<1>5. Len(<<h, "reports", Segment[n]>>) = 3 /\ Len(f) \in Nat
  BY <1>4 DEF Path
<1>6. Len(k) >= 3 /\ k[1] = h /\ k[2] = "reports" /\ k[3] = Segment[n]
  BY <1>1, <1>3, <1>4, <1>5 DEF Path
<1> QED BY <1>4, <1>6 DEF IsOf

LEMMA LatestFilesAre ==
  ASSUME NEW h \in Names, NEW k \in LatestFiles(h), NEW n \in Numbers
  PROVE  ~IsOf(k, n)
<1>1. PICK f \in Whole \cup Index : k = O!Latest(h) \o f
  BY DEF LatestFiles, O!FilesOf
<1>2. O!Latest(h) = <<h, "reports", "latest">> /\ O!Latest(h) \in Path
  BY Paths DEF O!Latest, Numbers
<1>3. f \in Path
  <2>1. History \in Path
    BY DEF History, Path, Names
  <2>2. Data \in Path
    BY DEF Data, Path, Names
  <2>3. <<"index">> \in Path
    BY DEF Path, Names
  <2> QED BY <2>1, <2>2, <2>3 DEF Whole, Index
<1>4. Len(<<h, "reports", "latest">>) = 3 /\ Len(f) \in Nat
  BY <1>3 DEF Path
<1>5. k[3] = "latest"
  BY <1>1, <1>2, <1>3, <1>4 DEF Path
<1> QED BY <1>5, NumbersDiffer DEF IsOf

\* A move changes the first element alone.
LEMMA MovedOf ==
  ASSUME NEW k \in Path, NEW n \in Numbers, IsOf(NewKey(k), n)
  PROVE  IsOf(k, n)
<1>1. Len(<<"p">>) = 1 /\ Len(<<"q">>) = 1 /\ <<"q">> \in Path
  BY DEF Path, Names
<1> DEFINE t == SubSeq(k, 2, Len(k))
<1>2. NewKey(k) = <<"q">> \o t
  BY <1>1 DEF NewKey, O!Moved
<1>3. t \in Path /\ Len(k) \in Nat
  BY SuffixesArePaths, <1>1 DEF Path
<1>4. Len(t) = IF Len(k) >= 1 THEN Len(k) - 1 ELSE 0
  BY <1>3 DEF Path
<1>5. \A i \in 1 .. Len(t) : t[i] = k[i + 1]
  BY <1>3, <1>4 DEF Path
<1> HIDE DEF t
<1>6. Len(NewKey(k)) = 1 + Len(t) /\ \A i \in 1 .. Len(t) : NewKey(k)[i + 1] = t[i]
  BY <1>1, <1>2, <1>3 DEF Path
<1>7. Len(t) \in Nat
  BY <1>3 DEF Path
<1>8. Len(t) >= 2 /\ t[1] = "reports" /\ t[2] = Segment[n]
  BY <1>6, <1>7 DEF IsOf
<1>9. Len(k) >= 3 /\ k[2] = "reports" /\ k[3] = Segment[n]
  BY <1>3, <1>4, <1>5, <1>8
<1> QED BY <1>9 DEF IsOf

LEMMA CopiedElsewhere ==
  ASSUME NEW t \in Path, NEW u \in Path, Len(t) >= 2, t[2] # "reports", NEW n \in Numbers
  PROVE  ~IsOf(t \o u, n)
<1>1. (t \o u)[2] = t[2]
  BY DEF Path
<1> QED BY <1>1 DEF IsOf

\* What is shown, or will be, is not of what an operation clears.
LEMMA ClearsSpare ==
  ASSUME NEW kind, NEW h \in Names, NEW m, NEW D \in SUBSET Numbers, NEW s \in Call,
         Clears(kind, h, m, D, s), NEW g \in Names, NEW n \in Numbers, NEW k \in OwnFiles(g, n),
         O!IsStrictPrefix(s.from, k), kind = "migrate" => g # "p",
         kind \in {"report", "prune"} => m \in Numbers, n \notin D
  PROVE  O!Disturbs(kind, m, n)
<1>1. k \in Path /\ k[1] = g /\ Len(k) >= 3 /\ k[2] = "reports" /\ k[3] = Segment[n]
  BY OwnFilesAre DEF IsOf
<1>2. s.from \in Path /\ Len(s.from) \in Nat
  BY DEF Call, Path
<1>3. Len(s.from) <= Len(k) /\ \A i \in 1 .. Len(s.from) : k[i] = s.from[i]
  BY <1>1, <1>2, UnderPrefix
<1>4. CASE kind \in O!Whole
  BY <1>4 DEF O!Disturbs
<1>5. CASE kind = "migrate" /\ s.from = <<"p">>
  <2>1. k[1] = "p"
    BY <1>1, <1>5, UnderOld
  <2> QED BY <2>1, <1>1, <1>5
<1>6. CASE Len(s.from) >= 2 /\ s.from[2] = "results"
  BY <1>1, <1>2, <1>3, <1>6
<1>7. CASE Len(s.from) >= 3 /\ s.from[3] = "latest"
  <2>1. k[3] = "latest"
    BY <1>2, <1>3, <1>7
  <2> QED BY <2>1, <1>1, NumbersDiffer
<1>8. ASSUME NEW l \in Numbers, s.from = O!Report(h, l) PROVE n = l
  <2>1. Len(<<h, "reports", Segment[l]>>) = 3 /\ <<h, "reports", Segment[l]>>[3] = Segment[l]
    OBVIOUS
  <2>2. k[3] = Segment[l]
    BY <2>1, <1>3, <1>8 DEF O!Report
  <2> QED BY <2>2, <1>1, NumbersDiffer
<1>9. CASE kind \in {"report", "prune"} /\ s.from = O!Report(h, m)
  BY <1>8, <1>9 DEF O!Disturbs
<1>10. CASE kind = "gc" /\ \E l \in D : s.from = O!Report(h, l)
  BY <1>8, <1>10
<1> QED BY <1>4, <1>5, <1>6, <1>7, <1>9, <1>10 DEF Clears

-----------------------------------------------------------------------------
(* What an operation's program says survives the others' steps. *)

\* Who an operation is, and where in its program.
SameWho(q, r) == r.kind = q.kind /\ r.home = q.home /\ r.n = q.n
SameAt(q, r)  == r.todo = q.todo /\ r.page = q.page /\ r.dirs = q.dirs /\ r.known = q.known

LEMMA AllowedGrows ==
  ASSUME NEW kind, NEW h, NEW n, NEW D, NEW E, D \subseteq E
  PROVE  Allowed(kind, h, n, D) \subseteq Allowed(kind, h, n, E)
  BY DEF Allowed, Clears

LEMMA ProgramGoesOn ==
  ASSUME NEW q, NEW r, SameWho(q, r), SameAt(q, r), r.alone => q.alone,
         NEW D, NEW B, NEW U, NEW K, NEW D2, NEW B2, NEW U2, NEW K2,
         ProgramOf(q, D, B, U, K), D \subseteq D2, B \subseteq B2, U \subseteq U2,
         Fresh(q, U) => OwnFiles(q.home, q.n) \cap K \subseteq K2
  PROVE  ProgramOf(r, D2, B2, U2, K2)
<1>1. r.todo \in Seq(Allowed(r.kind, r.home, r.n, D2))
  <2>1. Allowed(r.kind, r.home, r.n, D) \subseteq Allowed(r.kind, r.home, r.n, D2)
    BY AllowedGrows
  <2>2. r.todo \in Seq(Allowed(r.kind, r.home, r.n, D))
    BY DEF ProgramOf, SameWho, SameAt
  <2> QED BY <2>1, <2>2
<1>2. PageOf(r)
  BY DEF ProgramOf, PageOf, SameAt
<1>3. r.kind = "gc" => GcOf(r, D2, B2)
  BY DEF ProgramOf, GcOf, SameWho, SameAt
<1>4. r.kind = "publish" => PublishOf(r, U2, K2)
  <2> SUFFICES ASSUME r.kind = "publish" PROVE PublishOf(r, U2, K2)
    OBVIOUS
  <2>1. PublishOf(q, U, K)
    BY DEF ProgramOf, SameWho
  <2>2. Fresh(r, U2) => Fresh(q, U)
    BY DEF Fresh, SameWho
  <2>3. CASE q.todo = Sending(q.home, q.n) \/ q.todo = Tail(Sending(q.home, q.n))
    BY <2>3 DEF PublishOf, SameWho, SameAt
  <2>4. CASE /\ q.todo = <<O!Send(OwnFiles(q.home, q.n))>> /\ q.page \subseteq OwnFiles(q.home, q.n)
             /\ Fresh(q, U) => q.page \subseteq K
    BY <2>2, <2>4 DEF PublishOf, SameWho, SameAt
  <2>5. CASE q.todo = <<>> /\ (Fresh(q, U) => OwnFiles(q.home, q.n) \subseteq K)
    BY <2>2, <2>5 DEF PublishOf, SameWho, SameAt
  <2> QED BY <2>1, <2>3, <2>4, <2>5 DEF PublishOf
<1> QED BY <1>1, <1>2, <1>3, <1>4 DEF ProgramOf

\* An operation that has ended or failed.
LEMMA IdleProgram == \A D, B, U, K : ProgramOf(O!Idle, D, B, U, K)
<1>1. /\ O!Idle.kind = "none" /\ O!Idle.todo = <<>>
  BY DEF O!Idle
<1>2. \A S : <<>> \in Seq(S)
  OBVIOUS
<1> QED BY <1>1, <1>2 DEF ProgramOf, PageOf

\* A call touches nothing but objects, and nobody's part.
StillAll ==
  /\ home' = home /\ numbers' = numbers /\ shown' = shown /\ used' = used
  /\ \A x \in StorageOps : SameWho(op[x], op'[x]) /\ op'[x].alone = op[x].alone

LEMMA StillClaims ==
  ASSUME Claims, StillAll
  PROVE  Claims' /\ Begun' = Begun /\ Doomed' = Doomed
<1>1. \A x \in StorageOps : /\ op'[x].kind = op[x].kind /\ op'[x].home = op[x].home
                            /\ op'[x].n = op[x].n /\ op'[x].alone = op[x].alone
  BY DEF StillAll, SameWho
<1>2. home' = home /\ numbers' = numbers /\ shown' = shown /\ used' = used
  BY DEF StillAll
<1>3. \A x \in StorageOps, n \in Numbers : Publishes(op'[x], n) <=> Publishes(op[x], n)
  BY <1>1 DEF Publishes
<1>4. Begun' = Begun /\ Doomed' = Doomed
  BY <1>1, <1>2, <1>3 DEF Begun, Doomed
<1>5. Claims'
  BY <1>1, <1>2, <1>3 DEF Claims
<1> QED BY <1>4, <1>5

\* What a call must not take.
Spared(K, L) ==
  /\ \A n \in shown : OwnFiles(home, n) \cap K \subseteq L
  /\ \A x \in StorageOps : Fresh(op[x], used) => OwnFiles(op[x].home, op[x].n) \cap K \subseteq L

LEMMA CallsServe ==
  ASSUME ServedInv, NEW o \in StorageOps, StillAll,
         Spared(DOMAIN objects, (DOMAIN objects)'),
         OwnData',
         \A x \in StorageOps \ {o} : SameAt(op[x], op'[x]),
         ProgramOf(op'[o], Doomed, Begun, used, (DOMAIN objects)')
  PROVE  Claims' /\ ReportsKept'
<1>1. Claims /\ ReportsKept
  BY DEF ServedInv
<1>2. Claims' /\ Begun' = Begun /\ Doomed' = Doomed
  BY <1>1, StillClaims
<1>3. home' = home /\ shown' = shown /\ used' = used
  BY DEF StillAll
<1>4. \A n \in shown' : OwnFiles(home', n) \subseteq (DOMAIN objects)'
  BY <1>1, <1>3 DEF ReportsKept, Spared
<1>5. ASSUME NEW x \in StorageOps \ {o}
      PROVE  ProgramOf(op'[x], Doomed', Begun', used', (DOMAIN objects)')
  <2>1. ProgramOf(op[x], Doomed, Begun, used, DOMAIN objects)
    BY <1>1 DEF ReportsKept
  <2>2. SameWho(op[x], op'[x]) /\ op'[x].alone = op[x].alone /\ SameAt(op[x], op'[x])
    BY DEF StillAll
  <2>3. Fresh(op[x], used) => OwnFiles(op[x].home, op[x].n) \cap DOMAIN objects \subseteq (DOMAIN objects)'
    BY DEF Spared
  <2>4. op'[x].alone => op[x].alone
    BY <2>2
  <2> QED BY <1>2, <1>3, <2>1, <2>2, <2>3, <2>4, ProgramGoesOn
<1>6. \A x \in StorageOps : ProgramOf(op'[x], Doomed', Begun', used', (DOMAIN objects)')
  BY <1>2, <1>3, <1>5
<1> QED BY <1>2, <1>4, <1>6 DEF ReportsKept

LEMMA CallAlone ==
  ASSUME StorageInv, NEW o \in StorageOps, NEW next, op' = [op EXCEPT ![o] = next],
         SameWho(op[o], next), next.alone = op[o].alone,
         home' = home, numbers' = numbers, shown' = shown, used' = used
  PROVE  StillAll /\ op'[o] = next /\ \A x \in StorageOps \ {o} : SameAt(op[x], op'[x])
<1>1. DOMAIN op = StorageOps
  BY DEF StorageInv, StorageTypes
<1>2. op'[o] = next /\ \A x \in StorageOps \ {o} : op'[x] = op[x]
  BY <1>1
<1> QED BY <1>2 DEF StillAll, SameWho, SameAt

LEMMA CallTaken ==
  ASSUME StorageInv, NEW o \in StorageOps, NEW gone, NEW next, op' = O!Taken(o, gone, next),
         SameWho(op[o], next), next.alone = op[o].alone,
         home' = home, numbers' = numbers, shown' = shown, used' = used
  PROVE  StillAll /\ op'[o] = next /\ \A x \in StorageOps \ {o} : SameAt(op[x], op'[x])
<1>1. op'[o] = next
  BY DEF O!Taken
<1>2. ASSUME NEW x \in StorageOps \ {o}
      PROVE  SameWho(op[x], op'[x]) /\ op'[x].alone = op[x].alone /\ SameAt(op[x], op'[x])
  <2> DEFINE q == op[x]
             r == [q EXCEPT !.lost = @ \cup gone]
  <2>1. op'[x] = r
    BY DEF O!Taken
  <2>2. IsProgram(q)
    BY DEF StorageInv, StorageTypes
  <2> HIDE DEF q
  <2>3. DOMAIN q = {"kind", "home", "n", "todo", "found", "left", "page", "cursor", "final", "dirs",
                    "known", "alone", "lost"}
    BY <2>2 DEF IsProgram, O!Idle
  <2>4. SameWho(q, r) /\ r.alone = q.alone /\ SameAt(q, r)
    BY <2>3 DEF SameWho, SameAt
  <2> QED BY <2>1, <2>4 DEF q
<1>3. SameWho(op[o], op'[o]) /\ op'[o].alone = op[o].alone
  BY <1>1
<1>4. \A x \in StorageOps : SameWho(op[x], op'[x]) /\ op'[x].alone = op[x].alone
  BY <1>2, <1>3
<1> QED BY <1>1, <1>2, <1>4 DEF StillAll

LEMMA OnwardWho ==
  ASSUME NEW q, IsProgram(q)
  PROVE  LET r == O!Onward(q) IN
         SameWho(q, r) /\ r.alone = q.alone /\ r.dirs = q.dirs /\ r.known = q.known
<1>1. DOMAIN q = {"kind", "home", "n", "todo", "found", "left", "page", "cursor", "final", "dirs",
                  "known", "alone", "lost"}
  BY DEF IsProgram, O!Idle
<1> QED BY <1>1 DEF O!Onward, SameWho

LEMMA LessWho ==
  ASSUME NEW q, IsProgram(q), NEW k
  PROVE  LET r == O!Less(q, k) IN
         SameWho(q, r) /\ r.alone = q.alone /\ (q.left # {k} => SameAt(q, r))
<1>1. DOMAIN q = {"kind", "home", "n", "todo", "found", "left", "page", "cursor", "final", "dirs",
                  "known", "alone", "lost"}
  BY DEF IsProgram, O!Idle
<1>2. CASE q.left = {k}
  <2>1. O!Less(q, k) = O!Onward(q)
    BY <1>2 DEF O!Less
  <2> QED BY <1>2, <2>1, OnwardWho
<1>3. CASE q.left # {k}
  <2> DEFINE r == [q EXCEPT !.left = @ \ {k}]
  <2>1. O!Less(q, k) = r
    BY <1>3 DEF O!Less
  <2>2. SameWho(q, r) /\ r.alone = q.alone /\ SameAt(q, r)
    BY <1>1 DEF SameWho, SameAt
  <2> QED BY <2>1, <2>2
<1> QED BY <1>2, <1>3

\* The call an operation is at, and what its kind may call.
LEMMA HeadAllowed ==
  ASSUME NEW q, NEW D, NEW B, NEW U, NEW K, ProgramOf(q, D, B, U, K), q.todo # <<>>
  PROVE  /\ Head(q.todo) \in Allowed(q.kind, q.home, q.n, D)
         /\ Tail(q.todo) \in Seq(Allowed(q.kind, q.home, q.n, D))
<1> DEFINE A == Allowed(q.kind, q.home, q.n, D)
<1>1. q.todo \in Seq(A)
  BY DEF ProgramOf
<1> HIDE DEF A
<1>2. Head(q.todo) \in A /\ Tail(q.todo) \in Seq(A)
  BY <1>1
<1> QED BY <1>2 DEF A

\* A sequence of deletes has but deletes left.
LEMMA ClearsLeft ==
  ASSUME NEW q, q.todo \in Seq({s \in Call : s.do = "clear"}), q.todo # <<>>
  PROVE  Head(q.todo).do = "clear" /\ Tail(q.todo) \in Seq({s \in Call : s.do = "clear"})
<1> DEFINE A == {s \in Call : s.do = "clear"}
<1>1. q.todo \in Seq(A)
  OBVIOUS
<1> HIDE DEF A
<1>2. Head(q.todo) \in A /\ Tail(q.todo) \in Seq(A)
  BY <1>1
<1> QED BY <1>2 DEF A

LEMMA GcSteps ==
  /\ <<O!Dirs, O!Known, O!Prune>> # <<>> /\ <<O!Known, O!Prune>> # <<>> /\ <<O!Prune>> # <<>>
  /\ Head(<<O!Dirs, O!Known, O!Prune>>) = O!Dirs /\ Tail(<<O!Dirs, O!Known, O!Prune>>) = <<O!Known, O!Prune>>
  /\ Head(<<O!Known, O!Prune>>) = O!Known /\ Tail(<<O!Known, O!Prune>>) = <<O!Prune>>
  /\ Head(<<O!Prune>>) = O!Prune /\ Tail(<<O!Prune>>) = <<>>
  /\ O!Dirs.do = "dirs" /\ O!Known.do = "known" /\ O!Prune.do = "prune"
<1>1. O!Dirs.do = "dirs" /\ O!Known.do = "known" /\ O!Prune.do = "prune"
  BY DEF O!Dirs, O!Known, O!Prune, O!Step
<1>2. \A a, b, c : /\ <<a, b, c>> # <<>> /\ Head(<<a, b, c>>) = a /\ Tail(<<a, b, c>>) = <<b, c>>
                   /\ <<b, c>> # <<>> /\ Head(<<b, c>>) = b /\ Tail(<<b, c>>) = <<c>>
                   /\ <<c>> # <<>> /\ Head(<<c>>) = c /\ Tail(<<c>>) = <<>>
  OBVIOUS
<1> QED BY <1>1, <1>2

LEMMA SendingSteps ==
  ASSUME NEW h, NEW n
  PROVE  /\ Sending(h, n) # <<>> /\ Head(Sending(h, n)).do = "clear"
         /\ Tail(Sending(h, n)) = <<O!Send(LatestFiles(h)), O!Send(OwnFiles(h, n))>>
         /\ Tail(Sending(h, n)) # <<>>
         /\ Head(Tail(Sending(h, n))) = O!Send(LatestFiles(h))
         /\ Tail(Tail(Sending(h, n))) = <<O!Send(OwnFiles(h, n))>>
         /\ Head(<<O!Send(OwnFiles(h, n))>>) = O!Send(OwnFiles(h, n))
         /\ Tail(<<O!Send(OwnFiles(h, n))>>) = <<>> /\ <<O!Send(OwnFiles(h, n))>> # <<>>
         /\ \A K : O!Send(K).do = "send" /\ O!Send(K).keys = K
  BY DEF Sending, O!Clear, O!Send, O!Step

\* A delete is followed by what comes next in the program.
LEMMA ClearedProgram ==
  ASSUME NEW q, IsProgram(q), NEW D, NEW B, NEW U, NEW K, ProgramOf(q, D, B, U, K),
         q.todo # <<>>, Head(q.todo).do = "clear", NEW r, SameWho(q, r), r.todo = Tail(q.todo),
         r.page = {}, NEW L
  PROVE  ProgramOf(r, D, B, U, L)
<1>1. r.todo \in Seq(Allowed(r.kind, r.home, r.n, D))
  BY HeadAllowed DEF SameWho
<1>2. PageOf(r)
  BY DEF PageOf
<1>3. r.kind = "gc" => GcOf(r, D, B)
  <2> SUFFICES ASSUME r.kind = "gc" PROVE GcOf(r, D, B)
    OBVIOUS
  <2>1. GcOf(q, D, B)
    BY DEF ProgramOf, SameWho
  <2>2. q.todo \in Seq({s \in Call : s.do = "clear"})
    BY <2>1, GcSteps DEF GcOf
  <2>3. r.todo \in Seq({s \in Call : s.do = "clear"})
    BY <2>2, ClearsLeft
  <2> QED BY <2>3 DEF GcOf
<1>4. r.kind = "publish" => PublishOf(r, U, L)
  <2> SUFFICES ASSUME r.kind = "publish" PROVE PublishOf(r, U, L)
    OBVIOUS
  <2>1. PublishOf(q, U, K)
    BY DEF ProgramOf, SameWho
  <2>2. q.todo = Sending(q.home, q.n)
    BY <2>1, SendingSteps DEF PublishOf
  <2> QED BY <2>2 DEF PublishOf, SameWho
<1> QED BY <1>1, <1>2, <1>3, <1>4 DEF ProgramOf

-----------------------------------------------------------------------------
(* The calls, again: what is served of what they delete, write and list. *)

\* What is kept when nothing is deleted.
LEMMA NothingTaken ==
  ASSUME DOMAIN objects \subseteq (DOMAIN objects)'
  PROVE  Spared(DOMAIN objects, (DOMAIN objects)')
  BY DEF Spared

\* Objects that stay as they are.
LEMMA DataStays ==
  ASSUME Claims, OwnData, StillAll, (DOMAIN objects)' \subseteq DOMAIN objects,
         \A k \in (DOMAIN objects)' : objects'[k] = objects[k]
  PROVE  OwnData'
  BY StillClaims DEF OwnData

\* What others call in the middle of a step of the program: nothing of them.
LEMMA FindServes ==
  ASSUME ServedInv, NEW o \in StorageOps, O!FindPage(o)
  PROVE  Claims' /\ ReportsKept'
<1> DEFINE q    == op[o]
           rest == {k \in O!Under(Head(q.todo).from) : O!Rank(k) > q.cursor}
           page == O!FirstPage(rest)
           all  == [q EXCEPT !.found = @ \cup page,
                             !.cursor = IF page = {} THEN @ ELSE O!Furthest(page)]
           none == [q EXCEPT !.todo = << >>]
           next == IF rest # page THEN all ELSE IF all.found = {} THEN none ELSE O!Onward(all)
<1>1. /\ q.todo # <<>> /\ Head(q.todo).do = "find" /\ op' = [op EXCEPT ![o] = next]
      /\ objects' = objects /\ home' = home /\ numbers' = numbers /\ shown' = shown /\ used' = used
  BY DEF O!FindPage, O!Doing
<1>2. IsProgram(q) /\ ProgramOf(q, Doomed, Begun, used, DOMAIN objects)
  BY DEF ServedInv, StorageInv, StorageTypes, ReportsKept
<1> HIDE DEF q, page, rest
<1>3. DOMAIN q = {"kind", "home", "n", "todo", "found", "left", "page", "cursor", "final", "dirs",
                  "known", "alone", "lost"}
  BY <1>2 DEF IsProgram, O!Idle
<1>4. q.page = {} /\ q.kind \notin {"gc", "publish"}
  BY <1>1, <1>2, HeadAllowed DEF ProgramOf, PageOf, Allowed
<1>5. /\ DOMAIN all = DOMAIN q /\ SameWho(q, all) /\ all.alone = q.alone /\ SameAt(q, all)
  BY <1>3 DEF SameWho, SameAt
<1>6. /\ SameWho(q, none) /\ none.alone = q.alone /\ none.todo = <<>>
  BY <1>3 DEF SameWho
<1>7. IsProgram(all)
  BY <1>2, <1>5 DEF IsProgram, SameAt, SameWho
<1> DEFINE on == O!Onward(all)
<1>8. /\ SameWho(q, on) /\ on.alone = q.alone /\ on.todo = Tail(q.todo) /\ on.page = {}
  <2>1. SameWho(all, on) /\ on.alone = all.alone /\ on.todo = Tail(all.todo) /\ on.page = {}
    BY <1>1, <1>5, <1>7, OnwardWho, OnwardIs DEF SameAt
  <2> HIDE DEF on, all
  <2> QED BY <2>1, <1>5 DEF SameWho, SameAt
<1> HIDE DEF all, none, on
<1>9. ASSUME NEW r, SameWho(q, r), r.page = {},
             r.todo = q.todo \/ r.todo = <<>> \/ r.todo = Tail(q.todo)
      PROVE  ProgramOf(r, Doomed, Begun, used, DOMAIN objects)
  <2>1. r.todo \in Seq(Allowed(r.kind, r.home, r.n, Doomed))
    <3>1. q.todo \in Seq(Allowed(q.kind, q.home, q.n, Doomed))
      BY <1>2 DEF ProgramOf
    <3>2. <<>> \in Seq(Allowed(q.kind, q.home, q.n, Doomed))
      OBVIOUS
    <3> QED BY <3>1, <3>2, <1>1, <1>2, <1>9, HeadAllowed DEF SameWho
  <2> QED BY <2>1, <1>4, <1>9 DEF ProgramOf, PageOf, SameWho
<1>10. next \in {all, none, on}
  BY DEF on
<1> HIDE DEF next
<1>11. SameWho(q, next) /\ next.alone = q.alone /\ next.page = {}
       /\ (next.todo = q.todo \/ next.todo = <<>> \/ next.todo = Tail(q.todo))
  <2>1. none.page = q.page
    BY <1>3 DEF none
  <2> QED BY <2>1, <1>4, <1>5, <1>6, <1>8, <1>10 DEF SameAt
<1>12. ProgramOf(next, Doomed, Begun, used, DOMAIN objects)
  BY <1>9, <1>11
<1>13. StillAll /\ op'[o] = next /\ \A x \in StorageOps \ {o} : SameAt(op[x], op'[x])
  <2>1. StorageInv
    BY DEF ServedInv
  <2> QED BY <2>1, <1>1, <1>11, CallAlone DEF q
<1>14. OwnData'
  BY <1>1, <1>13, DataStays DEF ServedInv, ReportsKept
<1>15. Spared(DOMAIN objects, (DOMAIN objects)') /\ (DOMAIN objects)' = DOMAIN objects
  BY <1>1 DEF Spared
<1> QED BY <1>12, <1>13, <1>14, <1>15, CallsServe

LEMMA ListToDeleteServes ==
  ASSUME ServedInv, NEW o \in StorageOps, O!ListToDelete(o)
  PROVE  Claims' /\ ReportsKept'
<1> DEFINE q    == op[o]
           rest == {k \in O!Under(Head(q.todo).from) : O!Rank(k) > q.cursor}
           page == O!FirstPage(rest)
           some == [q EXCEPT !.page = page, !.final = (rest = page), !.cursor = O!Furthest(page)]
           on   == O!Onward(q)
           next == IF page = {} THEN on ELSE some
<1>1. /\ q.todo # <<>> /\ Head(q.todo).do = "clear" /\ op' = [op EXCEPT ![o] = next]
      /\ objects' = objects /\ home' = home /\ numbers' = numbers /\ shown' = shown /\ used' = used
  BY DEF O!ListToDelete, O!Doing
<1>2. IsProgram(q) /\ ProgramOf(q, Doomed, Begun, used, DOMAIN objects)
  BY DEF ServedInv, StorageInv, StorageTypes, ReportsKept
<1>3. \A k \in page : O!IsStrictPrefix(Head(q.todo).from, k)
  BY DEF O!FirstPage, O!Under
<1> HIDE DEF q, page, rest
<1>4. DOMAIN q = {"kind", "home", "n", "todo", "found", "left", "page", "cursor", "final", "dirs",
                  "known", "alone", "lost"}
  BY <1>2 DEF IsProgram, O!Idle
<1>5. /\ SameWho(q, some) /\ some.alone = q.alone /\ some.todo = q.todo /\ some.page = page
      /\ some.dirs = q.dirs /\ some.known = q.known
  BY <1>4 DEF SameWho
<1>6. SameWho(q, on) /\ on.alone = q.alone /\ on.todo = Tail(q.todo) /\ on.page = {}
  BY <1>1, <1>2, OnwardWho, OnwardIs
<1> HIDE DEF some, on
<1>7. ProgramOf(on, Doomed, Begun, used, DOMAIN objects)
  BY <1>1, <1>2, <1>6, ClearedProgram
<1>8. ProgramOf(some, Doomed, Begun, used, DOMAIN objects)
  <2>1. PageOf(some)
    BY <1>1, <1>3, <1>5 DEF PageOf
  <2>2. q.kind = "publish" => PublishOf(some, used, DOMAIN objects)
    <3> SUFFICES ASSUME q.kind = "publish" PROVE PublishOf(some, used, DOMAIN objects)
      OBVIOUS
    <3>1. PublishOf(q, used, DOMAIN objects)
      BY <1>2 DEF ProgramOf
    <3>2. q.todo = Sending(q.home, q.n)
      BY <1>1, <3>1, SendingSteps DEF PublishOf
    <3> QED BY <3>2, <1>5 DEF PublishOf, SameWho
  <2>3. q.kind = "gc" => GcOf(some, Doomed, Begun)
    BY <1>2, <1>5 DEF ProgramOf, GcOf
  <2> QED BY <2>1, <2>2, <2>3, <1>2, <1>5 DEF ProgramOf, SameWho
<1>9. next \in {on, some}
  OBVIOUS
<1> HIDE DEF next
<1>10. /\ SameWho(q, next) /\ next.alone = q.alone
       /\ ProgramOf(next, Doomed, Begun, used, DOMAIN objects)
  BY <1>5, <1>6, <1>7, <1>8, <1>9
<1>11. StillAll /\ op'[o] = next /\ \A x \in StorageOps \ {o} : SameAt(op[x], op'[x])
  <2>1. StorageInv
    BY DEF ServedInv
  <2> QED BY <2>1, <1>1, <1>10, CallAlone DEF q
<1>12. OwnData'
  BY <1>1, <1>11, DataStays DEF ServedInv, ReportsKept
<1>13. Spared(DOMAIN objects, (DOMAIN objects)') /\ (DOMAIN objects)' = DOMAIN objects
  BY <1>1 DEF Spared
<1> QED BY <1>10, <1>11, <1>12, <1>13, CallsServe

LEMMA DeletePageServes ==
  ASSUME ServedInv, NEW o \in StorageOps, O!DeletePage(o)
  PROVE  Claims' /\ ReportsKept'
<1> DEFINE q == op[o]
<1>1. PICK refused \in SUBSET q.page :
        /\ objects' = [k \in DOMAIN objects \ (q.page \ refused) |-> objects[k]]
        /\ op' = O!Taken(o, q.page \ refused, IF q.final THEN O!Onward(q) ELSE [q EXCEPT !.page = {}])
  BY DEF O!DeletePage
<1> DEFINE gone == q.page \ refused
           on   == O!Onward(q)
           more == [q EXCEPT !.page = {}]
           next == IF q.final THEN on ELSE more
<1>2. /\ q.todo # <<>> /\ Head(q.todo).do = "clear" /\ op' = O!Taken(o, gone, next)
      /\ (DOMAIN objects)' = DOMAIN objects \ gone
      /\ \A k \in (DOMAIN objects)' : objects'[k] = objects[k]
      /\ home' = home /\ numbers' = numbers /\ shown' = shown /\ used' = used
  BY <1>1 DEF O!DeletePage, O!Doing
<1>3. /\ StorageInv /\ Claims /\ OwnData
      /\ IsProgram(q) /\ ProgramOf(q, Doomed, Begun, used, DOMAIN objects)
  BY DEF ServedInv, StorageInv, StorageTypes, ReportsKept
<1>4. gone \subseteq q.page
  OBVIOUS
<1> HIDE DEF gone
<1>5. DOMAIN q = {"kind", "home", "n", "todo", "found", "left", "page", "cursor", "final", "dirs",
                  "known", "alone", "lost"}
  BY <1>3 DEF IsProgram, O!Idle
<1> DEFINE s == Head(q.todo)
<1>6. /\ s \in Call /\ Clears(q.kind, q.home, q.n, Doomed, s)
      /\ \A k \in gone : O!IsStrictPrefix(s.from, k)
  BY <1>2, <1>3, <1>4, HeadAllowed DEF Allowed, ProgramOf, PageOf
<1>7. q.home \in Names /\ home \in Names /\ Doomed \subseteq Numbers
  BY <1>3, HomeIsName DEF IsProgram, Doomed
<1>8. /\ q.kind = "migrate" => home # "p"
      /\ q.kind \in {"report", "prune"} => q.n \in Numbers
      /\ \A n \in Numbers : O!Disturbs(q.kind, q.n, n) =>
           n \notin shown /\ \A x \in StorageOps : Publishes(op[x], n) => ~op[x].alone
  BY <1>3 DEF Claims
<1> HIDE DEF s
<1>9. ASSUME NEW n \in Numbers, n \notin Doomed, NEW k \in OwnFiles(home, n), k \in gone
      PROVE  O!Disturbs(q.kind, q.n, n)
  BY <1>6, <1>7, <1>8, <1>9, ClearsSpare
<1>10. Spared(DOMAIN objects, (DOMAIN objects)')
  <2>1. ASSUME NEW n \in shown PROVE OwnFiles(home, n) \cap DOMAIN objects \subseteq (DOMAIN objects)'
    <3>1. n \in Numbers /\ n \notin Doomed
      BY <1>3 DEF Claims, Doomed
    <3>2. \A k \in OwnFiles(home, n) : k \notin gone
      BY <3>1, <1>8, <1>9
    <3> QED BY <3>2, <1>2
  <2>2. ASSUME NEW x \in StorageOps, Fresh(op[x], used)
        PROVE  OwnFiles(op[x].home, op[x].n) \cap DOMAIN objects \subseteq (DOMAIN objects)'
    <3> DEFINE n == op[x].n
    <3>1. op[x].kind = "publish" /\ op[x].alone /\ n \notin used
      BY <2>2 DEF Fresh
    <3>2. n \in Numbers /\ op[x].home = home
      BY <3>1, <1>3 DEF Claims
    <3>3. \A y \in StorageOps : op[y].kind = "publish" => y = x
      BY <3>1, <1>3 DEF Claims
    <3>4. n \notin Doomed
      BY <3>1, <3>3 DEF Doomed, Publishes
    <3>5. ~O!Disturbs(q.kind, q.n, n)
      <4>1. Publishes(op[x], n)
        BY <3>1 DEF Publishes
      <4> HIDE DEF n
      <4> QED BY <4>1, <3>1, <3>2, <1>8
    <3> HIDE DEF n
    <3>6. \A k \in OwnFiles(home, n) : k \notin gone
      BY <3>2, <3>4, <3>5, <1>9
    <3>7. OwnFiles(home, n) \cap DOMAIN objects \subseteq (DOMAIN objects)'
      BY <3>6, <1>2
    <3> QED BY <3>2, <3>7 DEF n
  <2> QED BY <2>1, <2>2 DEF Spared
<1> HIDE DEF q
<1>11. SameWho(q, on) /\ on.alone = q.alone /\ on.todo = Tail(q.todo) /\ on.page = {}
  BY <1>2, <1>3, OnwardWho, OnwardIs
<1>12. /\ SameWho(q, more) /\ more.alone = q.alone /\ more.todo = q.todo /\ more.page = {}
       /\ more.dirs = q.dirs /\ more.known = q.known
  BY <1>5 DEF SameWho
<1> HIDE DEF on, more
<1>13. ProgramOf(on, Doomed, Begun, used, (DOMAIN objects)')
  BY <1>2, <1>3, <1>11, ClearedProgram
<1>14. ProgramOf(more, Doomed, Begun, used, (DOMAIN objects)')
  <2>1. PageOf(more)
    BY <1>2, <1>12 DEF PageOf
  <2>2. q.kind = "publish" => PublishOf(more, used, (DOMAIN objects)')
    <3> SUFFICES ASSUME q.kind = "publish" PROVE PublishOf(more, used, (DOMAIN objects)')
      OBVIOUS
    <3>1. PublishOf(q, used, DOMAIN objects)
      BY <1>3 DEF ProgramOf
    <3>2. q.todo = Sending(q.home, q.n)
      BY <1>2, <3>1, SendingSteps DEF PublishOf
    <3> QED BY <3>2, <1>12 DEF PublishOf, SameWho
  <2>3. q.kind = "gc" => GcOf(more, Doomed, Begun)
    BY <1>3, <1>12 DEF ProgramOf, GcOf
  <2> QED BY <2>1, <2>2, <2>3, <1>3, <1>12 DEF ProgramOf, SameWho
<1>15. next = on \/ next = more
  OBVIOUS
<1> HIDE DEF next
<1>16. /\ SameWho(q, next) /\ next.alone = q.alone
       /\ ProgramOf(next, Doomed, Begun, used, (DOMAIN objects)')
  BY <1>11, <1>12, <1>13, <1>14, <1>15
<1>17. StillAll /\ op'[o] = next /\ \A x \in StorageOps \ {o} : SameAt(op[x], op'[x])
  BY <1>2, <1>3, <1>16, CallTaken DEF q
<1>18. OwnData'
  BY <1>2, <1>3, <1>17, DataStays
<1> QED BY <1>10, <1>16, <1>17, <1>18, CallsServe

\* What copies and reads leave of a program that is no publication and no sweep.
LEMMA LessProgram ==
  ASSUME NEW q, IsProgram(q), NEW D, NEW B, NEW U, NEW K, ProgramOf(q, D, B, U, K), q.todo # <<>>,
         Head(q.todo).do \in {"copy", "copyany", "read"}, NEW k, NEW L
  PROVE  ProgramOf(O!Less(q, k), D, B, U, L)
<1> DEFINE r == O!Less(q, k)
<1>1. q.page = {} /\ q.kind \notin {"gc", "publish"}
  BY HeadAllowed DEF ProgramOf, PageOf, Allowed
<1>2. SameWho(q, r) /\ (q.left # {k} => SameAt(q, r))
  BY LessWho
<1>3. q.left = {k} => r.todo = Tail(q.todo) /\ r.page = {}
  BY LessIs
<1> HIDE DEF r
<1>4. r.page = {} /\ r.todo \in {q.todo, Tail(q.todo)}
  BY <1>1, <1>2, <1>3 DEF SameAt
<1>5. r.todo \in Seq(Allowed(r.kind, r.home, r.n, D))
  BY <1>2, <1>4, HeadAllowed DEF ProgramOf, SameWho
<1> QED BY <1>1, <1>2, <1>4, <1>5 DEF ProgramOf, PageOf, SameWho, r

LEMMA ReadServes ==
  ASSUME ServedInv, NEW o \in StorageOps, NEW k, O!ReadOne(o, k)
  PROVE  Claims' /\ ReportsKept'
<1> DEFINE q    == op[o]
           next == O!Less(q, k)
<1>1. /\ q.todo # <<>> /\ Head(q.todo).do = "read" /\ op' = [op EXCEPT ![o] = next]
      /\ objects' = objects /\ home' = home /\ numbers' = numbers /\ shown' = shown /\ used' = used
  BY DEF O!ReadOne, O!Doing
<1>2. /\ StorageInv /\ Claims /\ OwnData
      /\ IsProgram(q) /\ ProgramOf(q, Doomed, Begun, used, DOMAIN objects)
  BY DEF ServedInv, StorageInv, StorageTypes, ReportsKept
<1> HIDE DEF q
<1>3. /\ SameWho(q, next) /\ next.alone = q.alone
      /\ ProgramOf(next, Doomed, Begun, used, DOMAIN objects)
  BY <1>1, <1>2, LessWho, LessProgram
<1> HIDE DEF next
<1>4. StillAll /\ op'[o] = next /\ \A x \in StorageOps \ {o} : SameAt(op[x], op'[x])
  BY <1>1, <1>2, <1>3, CallAlone DEF q
<1>5. OwnData'
  BY <1>1, <1>2, <1>4, DataStays
<1>6. Spared(DOMAIN objects, (DOMAIN objects)') /\ (DOMAIN objects)' = DOMAIN objects
  BY <1>1 DEF Spared
<1> QED BY <1>3, <1>4, <1>5, <1>6, CallsServe

\* A copy keeps the number a key is of, or writes no report.
LEMMA CopyServes ==
  ASSUME ServedInv, NEW o \in StorageOps, NEW k \in O!Key, O!CopyOne(o, k)
  PROVE  Claims' /\ ReportsKept'
<1> DEFINE q    == op[o]
           s    == Head(q.todo)
           to   == O!Moved(k, s.from, s.to)
           next == O!Less(q, k)
<1>1. /\ q.todo # <<>> /\ s.do \in {"copy", "copyany"} /\ k \in DOMAIN objects
      /\ op' = O!Taken(o, {to}, next) /\ objects' = O!Put(objects, to, objects[k])
      /\ home' = home /\ numbers' = numbers /\ shown' = shown /\ used' = used
  BY DEF O!CopyOne, O!CopyObject, O!Doing
<1>2. /\ StorageInv /\ Claims /\ OwnData
      /\ IsProgram(q) /\ ProgramOf(q, Doomed, Begun, used, DOMAIN objects)
  BY DEF ServedInv, StorageInv, StorageTypes, ReportsKept
<1> HIDE DEF q
<1>3. /\ SameWho(q, next) /\ next.alone = q.alone
      /\ ProgramOf(next, Doomed, Begun, used, (DOMAIN objects)')
  BY <1>1, <1>2, LessWho, LessProgram
<1> HIDE DEF next
<1>4. StillAll /\ op'[o] = next /\ \A x \in StorageOps \ {o} : SameAt(op[x], op'[x])
  BY <1>1, <1>2, <1>3, CallTaken DEF q
<1>5. k \in Path /\ s.from \in Path /\ s.to \in Path /\ Copies(s)
  BY <1>1, <1>2, KeysArePaths, StepsLeft, HeadAllowed DEF Allowed
<1>6. ASSUME NEW n \in Numbers, IsOf(to, n) PROVE IsOf(k, n)
  <2>1. CASE s = O!Copy(<<"p">>, <<"q">>)
    <3>1. to = NewKey(k)
      BY <2>1 DEF O!Copy, O!Step, NewKey
    <3> HIDE DEF to
    <3> QED BY <3>1, <1>5, <1>6, MovedOf
  <2>2. CASE Len(s.to) >= 2 /\ s.to[2] # "reports"
    <3> DEFINE u == SubSeq(k, Len(s.from) + 1, Len(k))
    <3>1. Len(s.from) \in Nat
      BY <1>5 DEF Path
    <3>2. u \in Path
      BY <3>1, <1>5, SuffixesArePaths
    <3>3. to = s.to \o u
      BY DEF O!Moved
    <3> HIDE DEF to, u
    <3>4. ~IsOf(s.to \o u, n)
      BY <2>2, <3>2, <1>5, CopiedElsewhere
    <3> QED BY <3>3, <3>4, <1>6
  <2> QED BY <1>5, <2>1, <2>2 DEF Copies
<1> HIDE DEF to
<1>7. /\ (DOMAIN objects)' = DOMAIN objects \cup {to} /\ objects'[to] = objects[k]
      /\ \A l \in DOMAIN objects \ {to} : objects'[l] = objects[l]
  BY <1>1 DEF O!Put
<1>8. Begun' = Begun
  BY <1>2, <1>4, StillClaims
<1>9. OwnData'
  <2> SUFFICES ASSUME NEW l \in (DOMAIN objects)', NEW n \in Numbers, IsOf(l, n)
      PROVE  objects'[l] = n /\ n \in Begun'
    BY DEF OwnData
  <2>1. CASE l = to
    BY <2>1, <1>1, <1>2, <1>6, <1>7, <1>8 DEF OwnData
  <2>2. CASE l # to
    BY <2>2, <1>2, <1>7, <1>8 DEF OwnData
  <2> QED BY <2>1, <2>2
<1>10. Spared(DOMAIN objects, (DOMAIN objects)')
  BY <1>7, NothingTaken
<1> QED BY <1>3, <1>4, <1>9, <1>10, CallsServe

\* A publication sends its own number's files, after the latest report's.
LEMMA SendServes ==
  ASSUME ServedInv, NEW o \in StorageOps, NEW k \in O!Key, O!SendOne(o, k)
  PROVE  Claims' /\ ReportsKept'
<1> DEFINE q    == op[o]
           K    == Head(q.todo).keys
           more == [q EXCEPT !.page = @ \cup {k}]
           on   == O!Onward(q)
           next == IF q.page \cup {k} = K THEN on ELSE more
           L    == (DOMAIN objects)'
<1>1. /\ q.todo # <<>> /\ Head(q.todo).do = "send" /\ op' = O!Taken(o, {k}, next)
      /\ k \in K /\ objects' = O!Put(objects, k, q.n)
      /\ home' = home /\ numbers' = numbers /\ shown' = shown /\ used' = used
  BY DEF O!SendOne, O!Doing
<1>2. /\ StorageInv /\ Claims /\ OwnData
      /\ IsProgram(q) /\ ProgramOf(q, Doomed, Begun, used, DOMAIN objects)
  BY DEF ServedInv, StorageInv, StorageTypes, ReportsKept
<1>3. q.kind = "publish" /\ q.n \in Numbers /\ q.home \in Names
  <2>1. q.kind = "publish"
    BY <1>1, <1>2, HeadAllowed DEF Allowed
  <2> QED BY <2>1, <1>2 DEF Claims, IsProgram
<1>4. q.n \in Begun
  BY <1>3 DEF Begun, Publishes
<1> HIDE DEF q
<1>5. L = DOMAIN objects \cup {k} /\ objects'[k] = q.n
      /\ \A l \in DOMAIN objects \ {k} : objects'[l] = objects[l]
  BY <1>1 DEF O!Put
<1>6. DOMAIN q = {"kind", "home", "n", "todo", "found", "left", "page", "cursor", "final", "dirs",
                  "known", "alone", "lost"}
  BY <1>2 DEF IsProgram, O!Idle
<1>7. SameWho(q, on) /\ on.alone = q.alone /\ on.todo = Tail(q.todo) /\ on.page = {}
  BY <1>1, <1>2, OnwardWho, OnwardIs
<1>8. SameWho(q, more) /\ more.alone = q.alone /\ more.todo = q.todo /\ more.page = q.page \cup {k}
  BY <1>6 DEF SameWho
<1> HIDE DEF on, more, L
<1>9. q.todo \in {Tail(Sending(q.home, q.n)), <<O!Send(OwnFiles(q.home, q.n))>>}
      /\ PublishOf(q, used, DOMAIN objects)
  <2>1. PublishOf(q, used, DOMAIN objects)
    BY <1>2, <1>3 DEF ProgramOf
  <2>2. Head(Sending(q.home, q.n)).do = "clear"
    BY SendingSteps
  <2>3. q.todo # Sending(q.home, q.n)
    BY <2>2, <1>1
  <2> QED BY <2>1, <2>3, <1>1 DEF PublishOf
<1>10. /\ \A n \in Numbers : IsOf(k, n) => n = q.n
       /\ PublishOf(more, used, L) /\ (q.page \cup {k} = K => PublishOf(on, used, L))
  <2>1. CASE q.todo = Tail(Sending(q.home, q.n))
    <3>1. K = LatestFiles(q.home)
      BY <2>1, SendingSteps
    <3>2. \A n \in Numbers : ~IsOf(k, n)
      BY <3>1, <1>1, <1>3, LatestFilesAre
    <3>3. on.todo = <<O!Send(OwnFiles(q.home, q.n))>>
      BY <1>7, <2>1, SendingSteps
    <3>4. PublishOf(on, used, L) /\ PublishOf(more, used, L)
      BY <3>3, <1>7, <1>8, <2>1 DEF PublishOf, SameWho
    <3> QED BY <3>2, <3>4
  <2>2. CASE q.todo = <<O!Send(OwnFiles(q.home, q.n))>>
    <3>1. K = OwnFiles(q.home, q.n)
      BY <2>2, SendingSteps
    <3> HIDE DEF K
    <3>2. IsOf(k, q.n)
      BY <3>1, <1>1, <1>3, OwnFilesAre
    <3>3. \A n \in Numbers : IsOf(k, n) => n = q.n
      BY <3>2, <1>3, NumbersDiffer DEF IsOf
    <3>4. q.page \subseteq K /\ (Fresh(q, used) => q.page \subseteq DOMAIN objects)
      <4>1. Head(Sending(q.home, q.n)).do = "clear"
        BY SendingSteps
      <4>2. Tail(Sending(q.home, q.n)) = <<O!Send(LatestFiles(q.home)), O!Send(OwnFiles(q.home, q.n))>>
        BY SendingSteps
      <4>3. \A a, b, c : <<a, b>> # <<c>>
        OBVIOUS
      <4>4. q.todo # Tail(Sending(q.home, q.n))
        BY <4>2, <4>3, <2>2
      <4>5. q.todo # Sending(q.home, q.n)
        BY <4>1, <1>1
      <4> QED BY <4>4, <4>5, <1>1, <1>9, <3>1 DEF PublishOf
    <3>5. PublishOf(more, used, L)
      <4>1. more.page \subseteq K /\ (Fresh(q, used) => more.page \subseteq L)
        BY <3>4, <1>1, <1>5, <1>8
      <4> QED BY <4>1, <3>1, <1>8, <2>2 DEF PublishOf, SameWho, Fresh
    <3>6. ASSUME q.page \cup {k} = K PROVE PublishOf(on, used, L)
      <4>1. Fresh(q, used) => K \subseteq L
        BY <3>4, <3>6, <1>5
      <4>2. on.todo = <<>>
        BY <1>7, <2>2, SendingSteps
      <4> QED BY <4>1, <4>2, <3>1, <1>7 DEF PublishOf, SameWho, Fresh
    <3> QED BY <3>3, <3>5, <3>6
  <2> QED BY <1>9, <2>1, <2>2
<1>11. ASSUME NEW r \in {on, more}, PublishOf(r, used, L)
       PROVE  ProgramOf(r, Doomed, Begun, used, L)
  <2>1. r.todo \in Seq(Allowed(q.kind, q.home, q.n, Doomed))
    BY <1>1, <1>2, <1>7, <1>8, HeadAllowed DEF ProgramOf
  <2>2. SameWho(q, r)
    BY <1>7, <1>8
  <2>3. PageOf(r)
    <3>1. CASE r = on
      BY <3>1, <1>7 DEF PageOf
    <3>2. CASE r = more
      BY <3>2, <1>1, <1>8 DEF PageOf
    <3> QED BY <3>1, <3>2
  <2> QED BY <1>3, <1>11, <2>1, <2>2, <2>3 DEF ProgramOf, SameWho
<1>12. IF q.page \cup {k} = K THEN next = on ELSE next = more
  OBVIOUS
<1> HIDE DEF next, K
<1>13. /\ SameWho(q, next) /\ next.alone = q.alone
       /\ ProgramOf(next, Doomed, Begun, used, L)
  <2>1. CASE q.page \cup {k} = K
    <3>1. next = on /\ ProgramOf(on, Doomed, Begun, used, L)
      BY <2>1, <1>10, <1>11, <1>12
    <3> QED BY <3>1, <1>7
  <2>2. CASE q.page \cup {k} # K
    <3>1. next = more /\ ProgramOf(more, Doomed, Begun, used, L)
      BY <2>2, <1>10, <1>11, <1>12
    <3> QED BY <3>1, <1>8
  <2> QED BY <2>1, <2>2
<1>14. StillAll /\ op'[o] = next /\ \A x \in StorageOps \ {o} : SameAt(op[x], op'[x])
  BY <1>1, <1>2, <1>13, CallTaken DEF q
<1>15. Begun' = Begun
  BY <1>2, <1>14, StillClaims
<1>16. OwnData'
  <2> SUFFICES ASSUME NEW l \in (DOMAIN objects)', NEW n \in Numbers, IsOf(l, n)
      PROVE  objects'[l] = n /\ n \in Begun'
    BY DEF OwnData
  <2>1. CASE l = k
    BY <2>1, <1>4, <1>5, <1>10, <1>15
  <2>2. CASE l # k
    BY <2>2, <1>2, <1>5, <1>15 DEF OwnData, L
  <2> QED BY <2>1, <2>2
<1>17. Spared(DOMAIN objects, (DOMAIN objects)')
  BY <1>5, NothingTaken DEF L
<1> QED BY <1>13, <1>14, <1>16, <1>17, CallsServe DEF L

\* A sweep lists directories, of numbers once reserved, and only then the rows.
LEMMA LookServes ==
  ASSUME ServedInv, NEW o \in StorageOps, O!Look(o)
  PROVE  Claims' /\ ReportsKept'
<1> DEFINE q == op[o]
           found  == O!ListReportBuilds(q.home)
           on     == O!Onward(q)
           seen   == [on EXCEPT !.dirs = found]
           read   == [on EXCEPT !.known = numbers]
           clears == {O!Clear(O!Report(q.home, n)) : n \in q.dirs \ q.known}
           pruned == [q EXCEPT !.todo = O!SetToSeq(clears) \o Tail(@)]
           next == CASE Head(q.todo).do = "dirs"  -> seen
                     [] Head(q.todo).do = "known" -> read
                     [] OTHER -> pruned
           A == Allowed(q.kind, q.home, q.n, Doomed)
<1>1. /\ q.todo # <<>> /\ Head(q.todo).do \in {"dirs", "known", "prune"}
      /\ op' = [op EXCEPT ![o] = next]
      /\ objects' = objects /\ home' = home /\ numbers' = numbers /\ shown' = shown /\ used' = used
  BY DEF O!Look, O!Doing
<1>2. /\ StorageInv /\ Claims /\ OwnData /\ DOMAIN objects \subseteq Path
      /\ IsProgram(q) /\ ProgramOf(q, Doomed, Begun, used, DOMAIN objects)
  BY DEF ServedInv, StorageInv, StorageTypes, ReportsKept
<1> HIDE DEF q
<1>3. q.home \in Names /\ q.dirs \subseteq Numbers
  BY <1>2 DEF IsProgram
<1>4. found \subseteq Begun
  <2> SUFFICES ASSUME NEW n \in found PROVE n \in Begun
    OBVIOUS
  <2>1. n \in Numbers /\ O!Under(O!Report(q.home, n)) # {}
    BY NumbersDiffer DEF O!ListReportBuilds
  <2>2. PICK k \in DOMAIN objects : O!IsStrictPrefix(O!Report(q.home, n), k)
    BY <2>1 DEF O!Under
  <2>3. O!Report(q.home, n) = <<q.home, "reports", Segment[n]>> /\ O!Report(q.home, n) \in Path
    BY <1>3, <2>1, Paths DEF O!Report
  <2>4. Len(O!Report(q.home, n)) = 3 /\ O!Report(q.home, n)[2] = "reports"
        /\ O!Report(q.home, n)[3] = Segment[n]
    BY <2>3
  <2>5. k \in Path /\ Len(k) >= 3 /\ \A i \in 1 .. 3 : k[i] = O!Report(q.home, n)[i]
    <3> DEFINE p == O!Report(q.home, n)
    <3>1. k \in Path /\ p \in Path /\ O!IsStrictPrefix(p, k) /\ Len(p) = 3
      BY <1>2, <2>2, <2>3, <2>4
    <3> HIDE DEF p
    <3>2. Len(p) <= Len(k) /\ \A i \in 1 .. Len(p) : k[i] = p[i]
      BY <3>1, UnderPrefix
    <3>3. Len(k) >= 3 /\ \A i \in 1 .. 3 : k[i] = p[i]
      BY <3>1, <3>2
    <3> QED BY <3>1, <3>3 DEF p
  <2>6. k[2] = "reports" /\ k[3] = Segment[n]
    BY <2>4, <2>5
  <2>7. IsOf(k, n)
    BY <2>5, <2>6 DEF IsOf
  <2> QED BY <1>2, <2>1, <2>2, <2>7 DEF OwnData
<1>5. \A n \in Begun \ numbers : n \in Doomed
  <2> TAKE n \in Begun \ numbers
  <2>1. n \in Numbers /\ n \notin shown
    BY <1>2 DEF Claims, Begun
  <2>2. \A x \in StorageOps : Publishes(op[x], n) => ~op[x].alone
    BY <1>2 DEF Claims, Publishes
  <2> QED BY <2>1, <2>2 DEF Begun, Doomed
<1>6. q.page = {} /\ q.kind \in {"gc", "clean"}
  BY <1>1, <1>2, HeadAllowed DEF ProgramOf, PageOf, Allowed
<1>7. q.kind = "gc" =>
        \/ Head(q.todo).do = "dirs" /\ q.todo = <<O!Dirs, O!Known, O!Prune>>
        \/ Head(q.todo).do = "known" /\ q.todo = <<O!Known, O!Prune>> /\ q.dirs \subseteq Begun
        \/ Head(q.todo).do = "prune" /\ q.todo = <<O!Prune>> /\ q.dirs \ q.known \subseteq Doomed
  <2> SUFFICES ASSUME q.kind = "gc"
      PROVE  \/ Head(q.todo).do = "dirs" /\ q.todo = <<O!Dirs, O!Known, O!Prune>>
             \/ Head(q.todo).do = "known" /\ q.todo = <<O!Known, O!Prune>> /\ q.dirs \subseteq Begun
             \/ Head(q.todo).do = "prune" /\ q.todo = <<O!Prune>> /\ q.dirs \ q.known \subseteq Doomed
    OBVIOUS
  <2>1. GcOf(q, Doomed, Begun)
    BY <1>2 DEF ProgramOf
  <2>2. q.todo \notin Seq({s \in Call : s.do = "clear"})
    BY <1>1, ClearsLeft
  <2> QED BY <2>1, <2>2, GcSteps DEF GcOf
<1>8. q.todo \in Seq(A) /\ Tail(q.todo) \in Seq(A)
  BY <1>1, <1>2, HeadAllowed DEF ProgramOf
<1>9. DOMAIN q = {"kind", "home", "n", "todo", "found", "left", "page", "cursor", "final", "dirs",
                  "known", "alone", "lost"}
  BY <1>2 DEF IsProgram, O!Idle
<1>10. /\ IsProgram(on) /\ SameWho(q, on) /\ on.alone = q.alone /\ on.todo = Tail(q.todo)
       /\ on.page = {} /\ on.dirs = q.dirs /\ on.known = q.known
  BY <1>1, <1>2, OnwardWho, OnwardIs
<1> HIDE DEF on, found
<1>11. DOMAIN on = DOMAIN q
  BY <1>9, <1>10 DEF IsProgram, O!Idle
<1>12. /\ SameWho(q, seen) /\ seen.alone = q.alone /\ seen.todo = Tail(q.todo) /\ seen.page = {}
       /\ seen.dirs = found
  BY <1>9, <1>10, <1>11 DEF SameWho
<1>13. /\ SameWho(q, read) /\ read.alone = q.alone /\ read.todo = Tail(q.todo) /\ read.page = {}
       /\ read.dirs = q.dirs /\ read.known = numbers
  BY <1>9, <1>10, <1>11 DEF SameWho
<1> HIDE DEF clears
<1>14. /\ SameWho(q, pruned) /\ pruned.alone = q.alone /\ pruned.page = {}
       /\ pruned.todo = O!SetToSeq(clears) \o Tail(q.todo)
  BY <1>6, <1>9 DEF SameWho
<1> HIDE DEF seen, read, pruned, A
<1>15. ASSUME Head(q.todo).do = "dirs" PROVE ProgramOf(seen, Doomed, Begun, used, DOMAIN objects)
  <2>1. q.kind = "gc" => seen.todo = <<O!Known, O!Prune>>
    BY <1>7, <1>12, <1>15, GcSteps
  <2> QED BY <2>1, <1>4, <1>6, <1>8, <1>12 DEF ProgramOf, PageOf, GcOf, SameWho, A
<1>16. ASSUME Head(q.todo).do = "known" PROVE ProgramOf(read, Doomed, Begun, used, DOMAIN objects)
  <2>1. q.kind = "gc" => read.todo = <<O!Prune>> /\ read.dirs \ read.known \subseteq Doomed
    BY <1>5, <1>7, <1>13, <1>16, GcSteps
  <2> QED BY <2>1, <1>6, <1>8, <1>13 DEF ProgramOf, PageOf, GcOf, SameWho, A
<1>17. ASSUME Head(q.todo).do = "prune" PROVE ProgramOf(pruned, Doomed, Begun, used, DOMAIN objects)
  <2> DEFINE C == {s \in Call : s.do = "clear"}
  <2>1. \A n \in Numbers : O!Clear(O!Report(q.home, n)) \in C
                           /\ O!Clear(O!Report(q.home, n)).from = O!Report(q.home, n)
    <3> TAKE n \in Numbers
    <3>1. O!Report(q.home, n) \in Path /\ <<>> \in Path /\ {} \in SUBSET Path
      BY <1>3, Paths DEF Path
    <3> QED BY <3>1, CallsAreCalls DEF O!Clear, O!Step
  <2>2. clears \subseteq C
    BY <2>1, <1>3 DEF clears
  <2>3. clears \subseteq A
    <3> SUFFICES ASSUME NEW s \in clears PROVE s \in A
      OBVIOUS
    <3>1. PICK n \in q.dirs \ q.known : s = O!Clear(O!Report(q.home, n))
      BY DEF clears
    <3>2. s \in C /\ s.from = O!Report(q.home, n)
      BY <3>1, <2>1, <1>3
    <3>3. q.kind = "gc" => n \in Doomed
      BY <3>1, <1>7, <1>17
    <3>4. Clears(q.kind, q.home, q.n, Doomed, s)
      BY <3>2, <3>3, <1>6 DEF Clears, O!Whole
    <3> QED BY <3>2, <3>4 DEF A, Allowed
  <2>4. clears \subseteq {O!Clear(O!Report(q.home, 1)), O!Clear(O!Report(q.home, 9)),
                          O!Clear(O!Report(q.home, 10))}
    BY <1>3 DEF clears, Numbers
  <2> HIDE DEF C
  <2>5. O!SetToSeq(clears) \in Seq(C) /\ O!SetToSeq(clears) \in Seq(A)
    BY <2>2, <2>3, <2>4, SequenceOfFew
  <2>6. pruned.todo \in Seq(A)
    BY <2>5, <1>8, <1>14
  <2>7. q.kind = "gc" => pruned.todo \in Seq(C)
    <3>1. q.kind = "gc" => Tail(q.todo) = <<>>
      BY <1>7, <1>17, GcSteps
    <3>2. <<>> \in Seq(C) /\ \A a, b \in Seq(C) : a \o b \in Seq(C)
      OBVIOUS
    <3>3. q.kind = "gc" => Tail(q.todo) \in Seq(C)
      BY <3>1, <3>2
    <3> QED BY <3>2, <3>3, <2>5, <1>14
  <2> QED BY <2>6, <2>7, <1>6, <1>14 DEF ProgramOf, PageOf, GcOf, SameWho, A, C
<1>18. /\ Head(q.todo).do = "dirs" => next = seen
       /\ Head(q.todo).do = "known" => next = read
       /\ Head(q.todo).do = "prune" => next = pruned
  OBVIOUS
<1> HIDE DEF next
<1>19. /\ SameWho(q, next) /\ next.alone = q.alone
       /\ ProgramOf(next, Doomed, Begun, used, DOMAIN objects)
  BY <1>1, <1>12, <1>13, <1>14, <1>15, <1>16, <1>17, <1>18
<1>20. StillAll /\ op'[o] = next /\ \A x \in StorageOps \ {o} : SameAt(op[x], op'[x])
  BY <1>1, <1>2, <1>19, CallAlone DEF q
<1>21. OwnData'
  BY <1>1, <1>2, <1>20, DataStays
<1>22. Spared(DOMAIN objects, (DOMAIN objects)') /\ (DOMAIN objects)' = DOMAIN objects
  BY <1>1 DEF Spared
<1> QED BY <1>19, <1>20, <1>21, <1>22, CallsServe

-----------------------------------------------------------------------------
(* Operations that begin, again. *)

LEMMA CallFields ==
  ASSUME NEW p, NEW t, NEW K
  PROVE  /\ O!Find(p).do = "find" /\ O!Read(p).do = "read" /\ O!Send(K).do = "send"
         /\ O!Clear(p).do = "clear" /\ O!Clear(p).from = p
         /\ O!Copy(p, t).do = "copy" /\ O!Copy(p, t).to = t
         /\ O!CopyAny(p, t).do = "copyany" /\ O!CopyAny(p, t).to = t
  BY DEF O!Step, O!Find, O!Clear, O!Copy, O!CopyAny, O!Read, O!Send

LEMMA AllowedCalls ==
  ASSUME NEW p \in Path, NEW t \in Path, NEW K \in SUBSET Path, NEW kind, NEW h, NEW n, NEW D
  PROVE  /\ kind \notin {"gc", "publish"} =>
              /\ {O!Find(p), O!Read(p)} \subseteq Allowed(kind, h, n, D)
              /\ Copies(O!Copy(p, t)) => O!Copy(p, t) \in Allowed(kind, h, n, D)
              /\ Copies(O!CopyAny(p, t)) => O!CopyAny(p, t) \in Allowed(kind, h, n, D)
         /\ Clears(kind, h, n, D, O!Clear(p)) => O!Clear(p) \in Allowed(kind, h, n, D)
         /\ kind = "publish" => O!Send(K) \in Allowed(kind, h, n, D)
         /\ kind \in {"gc", "clean"} => {O!Dirs, O!Known, O!Prune} \subseteq Allowed(kind, h, n, D)
<1>1. /\ O!Find(p) \in Call /\ O!Clear(p) \in Call /\ O!Copy(p, t) \in Call
      /\ O!CopyAny(p, t) \in Call /\ O!Read(p) \in Call /\ O!Send(K) \in Call
      /\ O!Dirs \in Call /\ O!Known \in Call /\ O!Prune \in Call
  BY CallsAreCalls
<1>2. O!Dirs.do = "dirs" /\ O!Known.do = "known" /\ O!Prune.do = "prune"
  BY GcSteps
<1> QED BY <1>1, <1>2, CallFields DEF Allowed

\* What a begun operation is, and what the others become.
LEMMA BegunIs ==
  ASSUME StorageInv, NEW o \in StorageOps, NEW kind, NEW n, NEW todo, O!Begin(o, kind, n, todo)
  PROVE  /\ op[o].kind = "none" /\ objects' = objects /\ home' = home
         /\ op'[o].kind = kind /\ op'[o].home = home /\ op'[o].n = n /\ op'[o].todo = todo
         /\ op'[o].page = {} /\ op'[o].dirs = {}
         /\ op'[o].alone = (\A y \in StorageOps : ~O!Disturbs(op[y].kind, op[y].n, n))
         /\ \A x \in StorageOps \ {o} :
              /\ SameWho(op[x], op'[x]) /\ SameAt(op[x], op'[x])
              /\ op'[x].alone = (op[x].alone /\ ~O!Disturbs(kind, n, op[x].n))
<1> DEFINE begun0(x) == [O!Idle EXCEPT !.kind = kind, !.home = home, !.n = n, !.todo = todo,
                           !.alone = \A y \in StorageOps : ~O!Disturbs(op[y].kind, op[y].n, n)]
           beside(x) == [op[x] EXCEPT !.alone = @ /\ ~O!Disturbs(kind, n, op[x].n)]
<1>1. op' = [x \in StorageOps |-> IF x = o THEN begun0(x) ELSE beside(x)]
      /\ home' = home /\ objects' = objects /\ op[o].kind = "none"
  BY DEF O!Begin
<1>2. op'[o] = begun0(o)
  BY <1>1
<1> DEFINE c == \A y \in StorageOps : ~O!Disturbs(op[y].kind, op[y].n, n)
<1> HIDE DEF c
<1>3. begun0(o) = [O!Idle EXCEPT !.kind = kind, !.home = home, !.n = n, !.todo = todo, !.alone = c]
  BY DEF c
<1> HIDE DEF begun0
<1>4. op'[o].kind = kind /\ op'[o].home = home /\ op'[o].n = n /\ op'[o].todo = todo
      /\ op'[o].page = {} /\ op'[o].dirs = {} /\ op'[o].alone = c
  BY <1>2, <1>3 DEF O!Idle
<1>5. ASSUME NEW x \in StorageOps \ {o}
      PROVE  /\ SameWho(op[x], op'[x]) /\ SameAt(op[x], op'[x])
             /\ op'[x].alone = (op[x].alone /\ ~O!Disturbs(kind, n, op[x].n))
  <2> DEFINE q == op[x]
             d == O!Disturbs(kind, n, q.n)
             r == [q EXCEPT !.alone = @ /\ ~d]
  <2>1. op'[x] = r
    BY <1>1
  <2>2. IsProgram(q)
    BY DEF StorageInv, StorageTypes
  <2> HIDE DEF q, d
  <2>3. DOMAIN q = {"kind", "home", "n", "todo", "found", "left", "page", "cursor", "final", "dirs",
                    "known", "alone", "lost"}
    BY <2>2 DEF IsProgram, O!Idle
  <2>4. SameWho(q, r) /\ r.alone = (q.alone /\ ~d) /\ SameAt(q, r)
    BY <2>3 DEF SameWho, SameAt
  <2> QED BY <2>1, <2>4 DEF q, d
<1> QED BY <1>1, <1>4, <1>5 DEF c

LEMMA BeginServes ==
  ASSUME ServedInv, NEW o \in StorageOps, NEW kind, NEW n, NEW todo, O!Begin(o, kind, n, todo),
         todo \in Seq(Allowed(kind, home, n, Doomed)),
         kind = "gc" => todo = <<O!Dirs, O!Known, O!Prune>>,
         kind = "publish" =>
           /\ todo = Sending(home, n) /\ n \in Numbers \ numbers
           /\ \A x \in StorageOps : op[x].kind # "publish",
         kind = "migrate" => home # "p", kind \in {"report", "prune"} => n \in Numbers,
         used' = used, shown' = {m \in shown : ~O!Disturbs(kind, n, m)},
         numbers' = IF kind = "publish" THEN numbers \cup {n}
                    ELSE IF kind = "prune" THEN numbers \ {n} ELSE numbers
  PROVE  Claims' /\ ReportsKept'
<1>1. StorageInv /\ Claims /\ ReportsKept
  BY DEF ServedInv
<1>2. /\ op[o].kind = "none" /\ objects' = objects /\ home' = home
      /\ op'[o].kind = kind /\ op'[o].home = home /\ op'[o].n = n /\ op'[o].todo = todo
      /\ op'[o].page = {} /\ op'[o].dirs = {}
      /\ op'[o].alone = (\A y \in StorageOps : ~O!Disturbs(op[y].kind, op[y].n, n))
  <2>1. StorageInv
    BY <1>1
  <2> QED BY <2>1, BegunIs, ZenonT(60)
<1>3. \A x \in StorageOps \ {o} :
        /\ SameWho(op[x], op'[x]) /\ SameAt(op[x], op'[x])
        /\ op'[x].alone = (op[x].alone /\ ~O!Disturbs(kind, n, op[x].n))
  BY <1>1, BegunIs
<1>4. \A x \in StorageOps \ {o} :
        /\ op'[x].kind = op[x].kind /\ op'[x].home = op[x].home /\ op'[x].n = op[x].n
        /\ op'[x].alone => op[x].alone /\ ~O!Disturbs(kind, n, op[x].n)
  BY <1>3 DEF SameWho
<1>5. \A m : ~O!Disturbs("none", n, m) /\ ~O!Disturbs("publish", n, m)
  BY DEF O!Disturbs, O!Whole
<1>6. shown' \subseteq shown /\ shown' \subseteq numbers' /\ shown' \cup used' \subseteq Numbers
  <2>1. shown' \subseteq shown
    OBVIOUS
  <2>2. kind = "prune" => n \notin shown'
    BY DEF O!Disturbs
  <2> QED BY <2>1, <2>2, <1>1 DEF Claims
<1>7. ASSUME NEW x \in StorageOps
      PROVE  /\ op'[x].alone \in BOOLEAN
             /\ op'[x].kind = "publish" => op'[x].n \in Numbers \ shown'
             /\ op'[x].kind = "publish" /\ op'[x].alone => op'[x].n \in numbers' /\ op'[x].home = home'
             /\ op'[x].kind = "migrate" => home' # "p"
             /\ op'[x].kind \in {"report", "prune"} => op'[x].n \in Numbers
  <2>1. CASE x = o
    <3>1. op'[x].alone \in BOOLEAN
      BY <2>1, <1>2
    <3>2. kind = "publish" => n \in Numbers \ shown' /\ n \in numbers'
      BY <1>1, <1>6 DEF Claims
    <3> QED BY <2>1, <3>1, <3>2, <1>2
  <2>2. CASE x # o
    <3>1. op'[x].alone \in BOOLEAN
      BY <2>2, <1>3
    <3>2. op[x].kind = "publish" /\ op'[x].alone => op[x].n \in numbers'
      <4>1. op[x].kind = "publish" /\ op'[x].alone =>
              op[x].n \in numbers /\ ~O!Disturbs(kind, n, op[x].n)
        BY <2>2, <1>1, <1>4 DEF Claims
      <4>2. kind = "prune" /\ op[x].n = n => O!Disturbs(kind, n, op[x].n)
        BY DEF O!Disturbs
      <4> QED BY <4>1, <4>2
    <3>3. /\ op[x].kind = "publish" => op[x].n \in Numbers \ shown
          /\ op[x].kind = "publish" /\ op[x].alone => op[x].home = home
          /\ op[x].kind = "migrate" => home # "p"
          /\ op[x].kind \in {"report", "prune"} => op[x].n \in Numbers
      BY <1>1 DEF Claims
    <3> QED BY <2>2, <3>1, <3>2, <3>3, <1>2, <1>4, <1>6
  <2> QED BY <2>1, <2>2
<1>8. ASSUME NEW x \in StorageOps, NEW y \in StorageOps, op'[x].kind = "publish", op'[y].kind = "publish"
      PROVE  y = x
  BY <1>1, <1>2, <1>4, <1>8 DEF Claims
<1>9. ASSUME NEW x \in StorageOps, NEW m \in Numbers, O!Disturbs(op'[x].kind, op'[x].n, m)
      PROVE  m \notin shown' /\ \A y \in StorageOps : Publishes(op'[y], m) => ~op'[y].alone
  <2>1. CASE x = o
    <3>1. O!Disturbs(kind, n, m)
      BY <2>1, <1>2, <1>9
    <3>2. ASSUME NEW y \in StorageOps, Publishes(op'[y], m) PROVE ~op'[y].alone
      <4>1. op'[y].kind = "publish" /\ op'[y].n = m
        BY <3>2 DEF Publishes
      <4>2. y # o
        BY <4>1, <3>1, <1>2, <1>5
      <4> QED BY <4>1, <4>2, <3>1, <1>4
    <3> QED BY <3>1, <3>2
  <2>2. CASE x # o
    <3>1. O!Disturbs(op[x].kind, op[x].n, m)
      BY <2>2, <1>4, <1>9
    <3>2. m \notin shown /\ \A y \in StorageOps : Publishes(op[y], m) => ~op[y].alone
      BY <3>1, <1>1 DEF Claims
    <3>3. ASSUME NEW y \in StorageOps, Publishes(op'[y], m) PROVE ~op'[y].alone
      <4>1. op'[y].kind = "publish" /\ op'[y].n = m
        BY <3>3 DEF Publishes
      <4>2. CASE y = o
        <5>1. n = m
          BY <4>1, <4>2, <1>2
        <5> QED BY <5>1, <4>2, <3>1, <1>2
      <4>3. CASE y # o
        BY <4>1, <4>3, <3>2, <1>4 DEF Publishes
      <4> QED BY <4>2, <4>3
    <3> QED BY <3>2, <3>3, <1>6
  <2> QED BY <2>1, <2>2
<1>10. Claims'
  BY <1>6, <1>7, <1>8, <1>9 DEF Claims
<1>11. \A x \in StorageOps, m \in Numbers : Publishes(op[x], m) => Publishes(op'[x], m)
  BY <1>2, <1>4 DEF Publishes
<1>12. Begun \subseteq Begun'
  BY <1>11 DEF Begun
<1>13. Doomed \subseteq Doomed'
  <2> SUFFICES ASSUME NEW m \in Doomed PROVE m \in Doomed'
    OBVIOUS
  <2>1. m \in Numbers \ shown'
    BY <1>6 DEF Doomed
  <2>2. ASSUME NEW x \in StorageOps, Publishes(op[x], m), ~op[x].alone PROVE ~op'[x].alone
    <3>1. x # o
      BY <2>2, <1>2 DEF Publishes
    <3> QED BY <3>1, <2>2, <1>4
  <2> QED BY <2>1, <2>2, <1>11 DEF Doomed
<1>14. OwnData'
  BY <1>1, <1>2, <1>12 DEF OwnData, ReportsKept
<1>15. \A m \in shown' : OwnFiles(home', m) \subseteq (DOMAIN objects)'
  BY <1>1, <1>2, <1>6 DEF ReportsKept
<1>16. ASSUME NEW x \in StorageOps
       PROVE  ProgramOf(op'[x], Doomed', Begun', used', (DOMAIN objects)')
  <2>1. CASE x = o
    <3>1. todo \in Seq(Allowed(kind, home, n, Doomed'))
      <4>1. Allowed(kind, home, n, Doomed) \subseteq Allowed(kind, home, n, Doomed')
        BY <1>13, AllowedGrows
      <4> QED BY <4>1
    <3>2. PageOf(op'[x])
      BY <2>1, <1>2 DEF PageOf
    <3> QED BY <2>1, <3>1, <3>2, <1>2 DEF ProgramOf, GcOf, PublishOf
  <2>2. CASE x # o
    <3>1. ProgramOf(op[x], Doomed, Begun, used, DOMAIN objects)
      BY <1>1 DEF ReportsKept
    <3>2. SameWho(op[x], op'[x]) /\ SameAt(op[x], op'[x]) /\ (op'[x].alone => op[x].alone)
      BY <2>2, <1>3
    <3>3. OwnFiles(op[x].home, op[x].n) \cap DOMAIN objects \subseteq (DOMAIN objects)'
      BY <1>2
    <3> QED BY <3>1, <3>2, <3>3, <1>12, <1>13, ProgramGoesOn
  <2> QED BY <2>1, <2>2
<1> QED BY <1>10, <1>14, <1>15, <1>16 DEF ReportsKept

LEMMA MovesServe ==
  ASSUME ServedInv, NEW o \in StorageOps, O!Rename(o) \/ O!Migrate(o)
  PROVE  Claims' /\ ReportsKept'
<1>1. PICK kind \in {"rename", "migrate"} :
        /\ O!Begin(o, kind, O!Upload, Listing) /\ used' = used /\ numbers' = numbers
        /\ IF kind = "rename" THEN shown' = {} ELSE shown' = shown /\ home = "q"
  <2>1. Listing = O!Moves(KeyPair[1], KeyPair[2]) /\ KeyPair[2] = "q"
    BY DEF Listing, KeyPair
  <2> QED BY <2>1 DEF O!Rename, O!Migrate
<1>2. <<"p">> \in Path /\ <<"q">> \in Path /\ {} \in SUBSET Path
  BY DEF Path, Names
<1> DEFINE A == Allowed(kind, home, O!Upload, Doomed)
<1>3. O!Find(<<"p">>) \in A /\ O!Copy(<<"p">>, <<"q">>) \in A /\ O!Clear(<<"p">>) \in A
  <2>1. Copies(O!Copy(<<"p">>, <<"q">>))
    BY DEF Copies
  <2>2. Clears(kind, home, O!Upload, Doomed, O!Clear(<<"p">>))
    BY CallFields DEF Clears, O!Whole
  <2> QED BY <2>1, <2>2, <1>2, AllowedCalls
<1> HIDE DEF A
<1>4. Listing \in Seq(A)
  BY <1>3 DEF Listing, O!Moves
<1>5. shown' = {m \in shown : ~O!Disturbs(kind, O!Upload, m)}
  BY <1>1 DEF O!Disturbs, O!Whole
<1> QED BY <1>1, <1>4, <1>5, BeginServes DEF A

\* A removal of one clear, and what it disturbs.
LEMMA RemovalServes ==
  ASSUME ServedInv, NEW o \in StorageOps, NEW kind, NEW n, NEW p \in Path,
         O!Begin(o, kind, n, <<O!Clear(p)>>), Clears(kind, home, n, Doomed, O!Clear(p)),
         kind \in {"delete", "batch", "report", "prune"},
         kind \in {"report", "prune"} => n \in Numbers,
         used' = used, shown' = {m \in shown : ~O!Disturbs(kind, n, m)},
         numbers' = IF kind = "prune" THEN numbers \ {n} ELSE numbers
  PROVE  Claims' /\ ReportsKept'
<1> DEFINE A == Allowed(kind, home, n, Doomed)
<1>1. O!Clear(p) \in A
  BY AllowedCalls
<1> HIDE DEF A
<1>2. <<O!Clear(p)>> \in Seq(A)
  BY <1>1
<1> QED BY <1>2, BeginServes DEF A

LEMMA RemovalsServe ==
  ASSUME ServedInv, NEW o \in StorageOps,
         \/ O!DeleteProject(o) \/ O!CleanHistory(o) \/ O!CleanBatch(o) \/ O!Gcstorage(o)
         \/ \E n \in Numbers : O!DeleteReport(o, n) \/ O!PruneBuild(o, n)
  PROVE  Claims' /\ ReportsKept'
<1>1. home \in Names /\ 1 \in Numbers /\ StorageInv /\ <<>> \in Path /\ {} \in SUBSET Path
  BY HomeIsName DEF ServedInv, Numbers, Path
<1>2. <<home>> \in Path /\ O!Latest(home) \in Path /\ <<home, "results", "b">> \in Path
      /\ <<home, "results", "history">> \in Path
  BY <1>1, Paths
<1>3. CASE O!DeleteProject(o)
  <2>1. /\ O!Begin(o, "delete", O!Upload, <<O!Clear(<<home>>)>>)
        /\ shown' = {} /\ used' = used /\ numbers' = numbers
    BY <1>3 DEF O!DeleteProject
  <2>2. Clears("delete", home, O!Upload, Doomed, O!Clear(<<home>>))
    BY DEF Clears, O!Whole
  <2>3. shown' = {m \in shown : ~O!Disturbs("delete", O!Upload, m)}
    BY <2>1 DEF O!Disturbs, O!Whole
  <2> QED BY <2>1, <2>2, <2>3, <1>2, RemovalServes
<1>4. CASE O!CleanBatch(o)
  <2>1. /\ O!Begin(o, "batch", O!Upload, <<O!Clear(<<home, "results", "b">>)>>)
        /\ shown' = shown /\ used' = used /\ numbers' = numbers
    BY <1>4 DEF O!CleanBatch
  <2>2. Clears("batch", home, O!Upload, Doomed, O!Clear(<<home, "results", "b">>))
    BY CallFields DEF Clears
  <2>3. shown' = {m \in shown : ~O!Disturbs("batch", O!Upload, m)}
    BY <2>1 DEF O!Disturbs, O!Whole
  <2> QED BY <2>1, <2>2, <2>3, <1>2, RemovalServes
<1>5. CASE \E n \in Numbers : O!DeleteReport(o, n) \/ O!PruneBuild(o, n)
  <2>1. PICK n \in Numbers : O!DeleteReport(o, n) \/ O!PruneBuild(o, n)
    BY <1>5
  <2>2. PICK kind \in {"report", "prune"} :
          /\ O!Begin(o, kind, n, <<O!Clear(O!Report(home, n))>>)
          /\ shown' = shown \ {n} /\ used' = used
          /\ numbers' = IF kind = "prune" THEN numbers \ {n} ELSE numbers
    BY <2>1 DEF O!DeleteReport, O!PruneBuild
  <2>3. O!Report(home, n) \in Path
    BY <1>1, Paths
  <2>4. Clears(kind, home, n, Doomed, O!Clear(O!Report(home, n)))
    BY CallFields DEF Clears
  <2>5. shown' = {m \in shown : ~O!Disturbs(kind, n, m)}
    BY <2>2 DEF O!Disturbs, O!Whole
  <2> QED BY <2>2, <2>3, <2>4, <2>5, RemovalServes
<1>6. CASE O!CleanHistory(o)
  <2> DEFINE todo == <<O!Clear(O!Latest(home)), O!Dirs, O!Prune,
                       O!Clear(<<home, "results", "history">>)>>
             A == Allowed("clean", home, O!Upload, Doomed)
  <2>1. /\ O!Begin(o, "clean", O!Upload, todo)
        /\ shown' = {} /\ used' = used /\ numbers' = numbers
    BY <1>6 DEF O!CleanHistory
  <2>2. \A p \in Path : O!Clear(p) \in A /\ O!Dirs \in A /\ O!Prune \in A
    <3> TAKE p \in Path
    <3>1. Clears("clean", home, O!Upload, Doomed, O!Clear(p))
      BY DEF Clears, O!Whole
    <3> QED BY <3>1, <1>1, AllowedCalls
  <2> HIDE DEF A
  <2>3. todo \in Seq(A)
    BY <2>2, <1>2
  <2> HIDE DEF todo
  <2>4. shown' = {m \in shown : ~O!Disturbs("clean", O!Upload, m)}
    BY <2>1 DEF O!Disturbs, O!Whole
  <2> QED BY <2>1, <2>3, <2>4, BeginServes DEF A
<1>7. CASE O!Gcstorage(o)
  <2> DEFINE A == Allowed("gc", home, O!Upload, Doomed)
  <2>1. /\ O!Begin(o, "gc", O!Upload, <<O!Dirs, O!Known, O!Prune>>)
        /\ shown' = shown /\ used' = used /\ numbers' = numbers
    BY <1>7 DEF O!Gcstorage, O!Orphans
  <2>2. O!Dirs \in A /\ O!Known \in A /\ O!Prune \in A
    BY <1>1, AllowedCalls
  <2> HIDE DEF A
  <2>3. <<O!Dirs, O!Known, O!Prune>> \in Seq(A)
    BY <2>2
  <2>4. shown' = {m \in shown : ~O!Disturbs("gc", O!Upload, m)}
    BY <2>1 DEF O!Disturbs, O!Whole
  <2> QED BY <2>1, <2>3, <2>4, BeginServes DEF A
<1> QED BY <1>3, <1>4, <1>5, <1>6, <1>7

\* A generation's steps that publish nothing.
LEMMA GenerationServes ==
  ASSUME ServedInv, NEW o \in StorageOps, NEW kind \in {"keep", "prepare", "playwright"}, NEW n,
         NEW todo, O!Begin(o, kind, n, todo), todo \in Seq(Allowed(kind, home, n, Doomed)),
         used' = used, shown' = shown, numbers' = numbers
  PROVE  Claims' /\ ReportsKept'
<1>1. shown' = {m \in shown : ~O!Disturbs(kind, n, m)}
  BY DEF O!Disturbs, O!Whole
<1> QED BY <1>1, BeginServes

LEMMA GenerationsServe ==
  ASSUME ServedInv, NEW o \in StorageOps,
         O!KeepHistory(o) \/ O!PrepareLocal(o) \/ O!PublishReport(o)
         \/ O!CopyPlaywrightLatestToBuild(o)
  PROVE  Claims' /\ ReportsKept'
<1>1. /\ home \in Names /\ numbers \subseteq Numbers /\ StorageInv /\ 1 \in Numbers
      /\ {} \in SUBSET Path
  BY HomeIsName DEF ServedInv, Numbers
<1>2. /\ O!Latest(home) \in Path /\ O!Latest(home) \o <<"history">> \in Path
      /\ <<home, "results", "b", "history">> \in Path /\ <<home, "results">> \in Path
      /\ <<home, "playwright-reports", "latest">> \in Path
      /\ \A n \in Numbers : O!Report(home, n) \in Path
                            /\ <<home, "playwright-reports", Segment[n]>> \in Path
  BY <1>1, Paths
<1>3. CASE O!KeepHistory(o)
  <2> DEFINE from == O!Latest(home) \o <<"history">>
             to == <<home, "results", "b", "history">>
             todo == <<O!Find(from), O!Clear(to), O!Copy(from, to)>>
             A == Allowed("keep", home, O!Upload, Doomed)
  <2>1. O!Begin(o, "keep", O!Upload, todo) /\ numbers' = numbers /\ used' = used /\ shown' = shown
    BY <1>3 DEF O!KeepHistory
  <2>2. from \in Path /\ to \in Path /\ Len(to) >= 2 /\ to[2] = "results"
    BY <1>2
  <2> HIDE DEF from, to
  <2>3. Clears("keep", home, O!Upload, Doomed, O!Clear(to)) /\ Copies(O!Copy(from, to))
    <3> DEFINE c == O!Clear(to)
               d == O!Copy(from, to)
    <3>1. c.do = "clear" /\ c.from = to /\ d.do = "copy" /\ d.to = to
      BY CallFields
    <3> HIDE DEF c, d
    <3>2. Clears("keep", home, O!Upload, Doomed, c)
      BY <2>2, <3>1 DEF Clears
    <3>3. Copies(d)
      BY <2>2, <3>1 DEF Copies
    <3> QED BY <3>2, <3>3 DEF c, d
  <2>4. O!Find(from) \in A /\ O!Clear(to) \in A /\ O!Copy(from, to) \in A
    BY <1>1, <2>2, <2>3, AllowedCalls
  <2> HIDE DEF A
  <2>5. todo \in Seq(A)
    BY <2>4
  <2> HIDE DEF todo
  <2> QED BY <2>1, <2>5, GenerationServes DEF A
<1>4. CASE O!PrepareLocal(o)
  <2> DEFINE p == <<home, "results">>
             A == Allowed("prepare", home, O!Upload, Doomed)
  <2>1. O!Begin(o, "prepare", O!Upload, <<O!Find(p), O!Read(p)>>) /\ numbers' = numbers
        /\ used' = used /\ shown' = shown
    BY <1>4 DEF O!PrepareLocal
  <2>2. O!Find(p) \in A /\ O!Read(p) \in A
    BY <1>1, <1>2, AllowedCalls
  <2> HIDE DEF p, A
  <2>3. <<O!Find(p), O!Read(p)>> \in Seq(A)
    BY <2>2
  <2> QED BY <2>1, <2>3, GenerationServes DEF A
<1>5. CASE O!PublishReport(o)
  <2> DEFINE n == O!Max(numbers \cup {0}) + 1
             A == Allowed("publish", home, n, Doomed)
  <2>1. /\ ~O!Generating /\ n \in Numbers /\ O!Begin(o, "publish", n, Sending(home, n))
        /\ numbers' = numbers \cup {n} /\ used' = used /\ shown' = shown
    BY <1>5, NumbersDiffer DEF O!PublishReport, Sending, LatestFiles, OwnFiles
  <2>2. n \notin numbers
    <3>1. \E x \in numbers \cup {0} : \A y \in numbers \cup {0} : x >= y
      <4>1. CASE 10 \in numbers
        BY <4>1, <1>1 DEF Numbers
      <4>2. CASE 10 \notin numbers /\ 9 \in numbers
        BY <4>2, <1>1 DEF Numbers
      <4>3. CASE 10 \notin numbers /\ 9 \notin numbers /\ 1 \in numbers
        <5>1. \A y \in numbers \cup {0} : y \in {0, 1}
          BY <4>3, <1>1 DEF Numbers
        <5> QED BY <4>3, <5>1
      <4>4. CASE numbers = {}
        BY <4>4
      <4> QED BY <4>1, <4>2, <4>3, <4>4, <1>1 DEF Numbers
    <3> DEFINE m == O!Max(numbers \cup {0})
    <3>2. m \in numbers \cup {0} /\ \A y \in numbers \cup {0} : m >= y
      BY <3>1 DEF O!Max
    <3>3. n = m + 1
      OBVIOUS
    <3> HIDE DEF m, n
    <3>4. m \in Numbers \cup {0}
      BY <3>2, <1>1
    <3>5. m \in Nat /\ n > m
      BY <3>3, <3>4 DEF Numbers
    <3>6. n \in numbers => m >= n
      BY <3>2
    <3> QED BY <3>3, <3>5, <3>6
  <2> HIDE DEF n
  <2>3. \A x \in StorageOps : op[x].kind # "publish"
    BY <2>1 DEF O!Generating
  <2>4. LatestFiles(home) \subseteq Path /\ OwnFiles(home, n) \subseteq Path
    BY <2>1, <1>2, FilesArePaths DEF LatestFiles, OwnFiles
  <2>5. O!Clear(O!Latest(home)) \in A
    <3>1. Len(O!Latest(home)) >= 3 /\ O!Latest(home)[3] = "latest"
      BY DEF O!Latest
    <3>2. Clears("publish", home, n, Doomed, O!Clear(O!Latest(home)))
      BY <3>1, CallFields DEF Clears
    <3> QED BY <3>2, <1>1, <1>2, AllowedCalls
  <2>6. O!Send(LatestFiles(home)) \in A /\ O!Send(OwnFiles(home, n)) \in A
    BY <2>4, <1>2, AllowedCalls
  <2> HIDE DEF A
  <2>7. Sending(home, n) \in Seq(A)
    BY <2>5, <2>6 DEF Sending
  <2>8. shown' = {m \in shown : ~O!Disturbs("publish", n, m)}
    BY <2>1 DEF O!Disturbs, O!Whole
  <2> QED BY <2>1, <2>2, <2>3, <2>7, <2>8, BeginServes DEF A
<1>6. CASE O!CopyPlaywrightLatestToBuild(o)
  <2> DEFINE n == O!Max(numbers)
             from == <<home, "playwright-reports", "latest">>
             to == <<home, "playwright-reports", Segment[n]>>
             todo == <<O!Find(from), O!CopyAny(from, to)>>
             A == Allowed("playwright", home, n, Doomed)
  <2>1. /\ numbers # {} /\ O!Begin(o, "playwright", n, todo) /\ numbers' = numbers
        /\ used' = used /\ shown' = shown
    BY <1>6 DEF O!CopyPlaywrightLatestToBuild
  <2>2. n \in Numbers
    BY <2>1, <1>1, GreatestNumber
  <2> HIDE DEF n
  <2>3. from \in Path /\ to \in Path /\ Len(to) >= 2 /\ to[2] = "playwright-reports"
    BY <2>2, <1>2
  <2> HIDE DEF from, to
  <2>4. Copies(O!CopyAny(from, to))
    BY <2>3, CallFields DEF Copies
  <2>5. O!Find(from) \in A /\ O!CopyAny(from, to) \in A
    BY <1>1, <2>3, <2>4, AllowedCalls
  <2> HIDE DEF A
  <2>6. todo \in Seq(A)
    BY <2>5
  <2> HIDE DEF todo
  <2> QED BY <2>1, <2>6, GenerationServes DEF A
<1> QED BY <1>3, <1>4, <1>5, <1>6


\* The end of an operation, good or bad.
LEMMA EndedServes ==
  ASSUME ServedInv, NEW o \in StorageOps, op' = [op EXCEPT ![o] = O!Idle], objects' = objects,
         home' = home \/ (op[o].kind \in {"rename", "delete"} /\ home' # "p"),
         used' = IF op[o].kind = "publish" THEN used \cup {op[o].n} ELSE used,
         \A m \in numbers \ numbers' : \/ op[o].kind = "delete"
                                       \/ op[o].kind \in {"report", "publish"} /\ m = op[o].n,
         \/ shown' = shown
         \/ /\ op[o].kind = "publish" /\ op[o].alone /\ op[o].n \notin used /\ op[o].todo = <<>>
            /\ numbers' = numbers /\ shown' = shown \cup {op[o].n}
  PROVE  Claims' /\ ReportsKept'
<1> DEFINE q == op[o]
<1>1. Claims /\ ReportsKept /\ DOMAIN op = StorageOps
  BY DEF ServedInv, StorageInv, StorageTypes
<1>2. op'[o] = O!Idle /\ \A x \in StorageOps \ {o} : op'[x] = op[x]
  BY <1>1
<1>3. O!Idle.kind = "none" /\ O!Idle.alone \in BOOLEAN
  BY DEF O!Idle
<1>4. op'[o].kind = "none" /\ op'[o].alone \in BOOLEAN
  BY <1>2, <1>3
<1>5. ASSUME q.kind \in {"rename", "delete"}
      PROVE  shown = {} /\ \A x \in StorageOps : op[x].kind = "publish" => ~op[x].alone
  <2>1. \A n \in Numbers : O!Disturbs(q.kind, q.n, n)
    BY <1>5 DEF O!Disturbs, O!Whole
  <2>2. \A n \in Numbers : n \notin shown /\ \A x \in StorageOps : Publishes(op[x], n) => ~op[x].alone
    BY <2>1, <1>1 DEF Claims
  <2>3. shown \subseteq Numbers /\ \A x \in StorageOps : op[x].kind = "publish" => op[x].n \in Numbers
    BY <1>1 DEF Claims
  <2> QED BY <2>2, <2>3 DEF Publishes
<1>6. ASSUME q.kind = "report"
      PROVE  q.n \notin shown /\ \A x \in StorageOps : Publishes(op[x], q.n) => ~op[x].alone
  <2>1. q.n \in Numbers /\ O!Disturbs(q.kind, q.n, q.n)
    BY <1>1, <1>6 DEF Claims, O!Disturbs
  <2> QED BY <2>1, <1>1 DEF Claims
<1>7. q.kind = "publish" => q.n \in Numbers \ shown
  BY <1>1 DEF Claims
<1>8. \A x \in StorageOps \ {o} : q.kind = "publish" => op[x].kind # "publish"
  BY <1>1 DEF Claims
<1> HIDE DEF q
<1>9. shown' \subseteq shown \cup {q.n} /\ (q.kind # "publish" => shown' = shown)
      /\ (~q.alone \/ q.n \in used => shown' = shown)
  BY DEF q
<1>10. \A m \in numbers \ numbers' : \/ q.kind = "delete"
                                     \/ q.kind \in {"report", "publish"} /\ m = q.n
  BY DEF q
<1>11. shown' \cup used' \subseteq Numbers /\ shown' \subseteq numbers'
  <2>1. shown \subseteq numbers /\ shown \cup used \subseteq Numbers
    BY <1>1 DEF Claims
  <2>2. shown \subseteq numbers'
    BY <2>1, <1>5, <1>6, <1>7, <1>10
  <2>3. q.kind = "publish" /\ q.alone => q.n \in numbers
    BY <1>1 DEF q, Claims
  <2> QED BY <2>1, <2>2, <2>3, <1>7 DEF q
<1>12. ASSUME NEW x \in StorageOps \ {o}
       PROVE  /\ op[x].alone \in BOOLEAN
              /\ op[x].kind = "publish" => op[x].n \in Numbers \ shown'
              /\ op[x].kind = "publish" /\ op[x].alone => op[x].n \in numbers' /\ op[x].home = home'
              /\ op[x].kind = "migrate" => home' # "p"
              /\ op[x].kind \in {"report", "prune"} => op[x].n \in Numbers
  <2>1. /\ op[x].alone \in BOOLEAN
        /\ op[x].kind = "publish" => op[x].n \in Numbers \ shown
        /\ op[x].kind = "publish" /\ op[x].alone => op[x].n \in numbers /\ op[x].home = home
        /\ op[x].kind = "migrate" => home # "p"
        /\ op[x].kind \in {"report", "prune"} => op[x].n \in Numbers
    BY <1>1 DEF Claims
  <2>2. op[x].kind = "publish" => shown' = shown
    BY <1>8, <1>9
  <2>3. op[x].kind = "publish" /\ op[x].alone => op[x].n \in numbers' /\ home' = home
    BY <2>1, <1>5, <1>6, <1>8, <1>10 DEF Publishes, q
  <2> QED BY <2>1, <2>2, <2>3
<1>13. ASSUME NEW x \in StorageOps, NEW m \in Numbers, O!Disturbs(op'[x].kind, op'[x].n, m)
       PROVE  m \notin shown' /\ \A y \in StorageOps : Publishes(op'[y], m) => ~op'[y].alone
  <2>1. x # o
    BY <1>4, <1>13 DEF O!Disturbs, O!Whole
  <2>2. m \notin shown /\ \A y \in StorageOps : Publishes(op[y], m) => ~op[y].alone
    BY <2>1, <1>1, <1>2, <1>13 DEF Claims
  <2>3. m \notin shown'
    <3>1. q.kind = "publish" /\ m = q.n => ~q.alone
      BY <2>2 DEF q, Publishes
    <3> QED BY <3>1, <2>2, <1>9
  <2>4. ASSUME NEW y \in StorageOps, Publishes(op'[y], m) PROVE ~op'[y].alone
    <3>1. y # o
      BY <2>4, <1>4 DEF Publishes
    <3> QED BY <3>1, <2>2, <2>4, <1>2
  <2> QED BY <2>3, <2>4
<1>14. \A x, y \in StorageOps : op'[x].kind = "publish" /\ op'[y].kind = "publish" => y = x
  BY <1>1, <1>2, <1>4 DEF Claims
<1>15. Claims'
  <2>1. ASSUME NEW x \in StorageOps
        PROVE  /\ op'[x].alone \in BOOLEAN
               /\ op'[x].kind = "publish" => op'[x].n \in Numbers \ shown'
               /\ op'[x].kind = "publish" /\ op'[x].alone => op'[x].n \in numbers' /\ op'[x].home = home'
               /\ op'[x].kind = "migrate" => home' # "p"
               /\ op'[x].kind \in {"report", "prune"} => op'[x].n \in Numbers
    <3>1. CASE x = o
      BY <3>1, <1>4
    <3>2. CASE x # o
      BY <3>2, <1>2, <1>12
    <3> QED BY <3>1, <3>2
  <2> QED BY <2>1, <1>11, <1>13, <1>14 DEF Claims
<1>16. Begun \subseteq Begun'
  <2> SUFFICES ASSUME NEW m \in Begun PROVE m \in Begun'
    OBVIOUS
  <2>1. m \in Numbers /\ (m \in used' \/ \E x \in StorageOps \ {o} : Publishes(op[x], m))
    BY DEF Begun, Publishes
  <2> QED BY <2>1, <1>2 DEF Begun
<1>17. Doomed \subseteq Doomed'
  <2> SUFFICES ASSUME NEW m \in Doomed PROVE m \in Doomed'
    OBVIOUS
  <2>1. m \in Numbers \ shown /\ (m \in used \/ \E x \in StorageOps : Publishes(op[x], m) /\ ~op[x].alone)
    BY DEF Doomed
  <2>2. m \notin shown'
    <3>1. CASE m \in used
      BY <3>1, <2>1, <1>9
    <3>2. CASE \E x \in StorageOps : Publishes(op[x], m) /\ ~op[x].alone
      <4>1. PICK x \in StorageOps : Publishes(op[x], m) /\ ~op[x].alone
        BY <3>2
      <4>2. q.kind = "publish" => x = o
        BY <4>1, <1>8 DEF Publishes
      <4>3. q.kind = "publish" => ~q.alone
        BY <4>1, <4>2 DEF q
      <4> QED BY <4>3, <2>1, <1>9
    <3> QED BY <3>1, <3>2, <2>1
  <2>3. m \in used' \/ \E x \in StorageOps \ {o} : Publishes(op[x], m) /\ ~op[x].alone
    BY <2>1 DEF Publishes
  <2> QED BY <2>1, <2>2, <2>3, <1>2 DEF Doomed
<1>18. OwnData'
  BY <1>1, <1>16 DEF OwnData, ReportsKept
<1>19. ASSUME NEW m \in shown' PROVE OwnFiles(home', m) \subseteq DOMAIN objects'
  <2>1. CASE m \in shown
    <3>1. home' = home
      BY <2>1, <1>5 DEF q
    <3> QED BY <3>1, <2>1, <1>1 DEF ReportsKept
  <2>2. CASE m \notin shown
    <3>1. m = q.n /\ q.kind = "publish" /\ q.alone /\ q.n \notin used /\ q.todo = <<>> /\ home' = home
      BY <2>2 DEF q
    <3>2. q.home = home /\ PublishOf(q, used, DOMAIN objects)
      BY <3>1, <1>1 DEF q, Claims, ReportsKept, ProgramOf
    <3>3. q.todo # Sending(q.home, q.n) /\ q.todo # Tail(Sending(q.home, q.n))
          /\ q.todo # <<O!Send(OwnFiles(q.home, q.n))>>
      BY <3>1, SendingSteps
    <3>4. OwnFiles(q.home, q.n) \subseteq DOMAIN objects
      BY <3>1, <3>2, <3>3 DEF PublishOf, Fresh
    <3> QED BY <3>1, <3>2, <3>4
  <2> QED BY <2>1, <2>2
<1>20. ASSUME NEW x \in StorageOps
       PROVE  ProgramOf(op'[x], Doomed', Begun', used', DOMAIN objects')
  <2>1. CASE x = o
    BY <2>1, <1>2, IdleProgram
  <2>2. CASE x # o
    <3>1. op'[x] = op[x] /\ ProgramOf(op[x], Doomed, Begun, used, DOMAIN objects)
      BY <2>2, <1>1, <1>2 DEF ReportsKept
    <3>2. SameWho(op[x], op[x]) /\ SameAt(op[x], op[x])
      BY DEF SameWho, SameAt
    <3>3. used \subseteq used'
      OBVIOUS
    <3> QED BY <3>1, <3>2, <3>3, <1>16, <1>17, ProgramGoesOn
  <2> QED BY <2>1, <2>2
<1> QED BY <1>15, <1>18, <1>19, <1>20 DEF ReportsKept

LEMMA EndsServe ==
  ASSUME ServedInv, NEW o \in StorageOps, O!Fail(o) \/ O!End(o)
  PROVE  Claims' /\ ReportsKept'
<1>1. op' = [op EXCEPT ![o] = O!Idle] /\ objects' = objects
      /\ used' = IF op[o].kind = "publish" THEN used \cup {op[o].n} ELSE used
  BY DEF O!Fail, O!End
<1>2. CASE O!Fail(o)
  <2>1. home' = home /\ shown' = shown
        /\ numbers' = IF op[o].kind = "publish" THEN numbers \ {op[o].n} ELSE numbers
    BY <1>2 DEF O!Fail
  <2> QED BY <1>1, <2>1, EndedServes
<1>3. CASE O!End(o)
  <2>1. /\ op[o].todo = <<>>
        /\ home' = home \/ (op[o].kind \in {"rename", "delete"} /\ home' # "p")
    BY <1>3 DEF O!End, KeyPair, O!NoHome
  <2>2. numbers' = IF op[o].kind = "report" THEN numbers \ {op[o].n}
                   ELSE IF op[o].kind = "delete" THEN {} ELSE numbers
    BY <1>3 DEF O!End
  <2>3. shown' = IF op[o].kind = "publish" /\ op[o].alone /\ op[o].n \notin used
                 THEN shown \cup {op[o].n} ELSE shown
    BY <1>3 DEF O!End
  <2>4. \A m \in numbers \ numbers' : \/ op[o].kind = "delete"
                                      \/ op[o].kind \in {"report", "publish"} /\ m = op[o].n
    BY <2>2
  <2>5. \/ shown' = shown
        \/ /\ op[o].kind = "publish" /\ op[o].alone /\ op[o].n \notin used /\ op[o].todo = <<>>
           /\ numbers' = numbers /\ shown' = shown \cup {op[o].n}
    BY <2>1, <2>2, <2>3
  <2> QED BY <1>1, <2>1, <2>4, <2>5, EndedServes
<1> QED BY <1>2, <1>3

\* A file of results, or of a trace, is none of a report.
LEMMA WriteServes ==
  ASSUME ServedInv, NEW k \in O!Key, O!WriteFile(k)
  PROVE  Claims' /\ ReportsKept'
<1>1. /\ objects' = O!Put(objects, k, O!Upload) /\ home' = home /\ numbers' = numbers
      /\ shown' = shown /\ used' = used /\ k[2] # "reports"
      /\ op' = [x \in StorageOps |-> [op[x] EXCEPT !.lost = @ \cup {k}]]
  BY DEF O!WriteFile
<1>2. Claims /\ ReportsKept
  BY DEF ServedInv
<1>3. ASSUME NEW x \in StorageOps
      PROVE  SameWho(op[x], op'[x]) /\ op'[x].alone = op[x].alone /\ SameAt(op[x], op'[x])
  <2> DEFINE q == op[x]
             r == [q EXCEPT !.lost = @ \cup {k}]
  <2>1. op'[x] = r
    BY <1>1
  <2>2. IsProgram(q)
    BY DEF ServedInv, StorageInv, StorageTypes
  <2> HIDE DEF q
  <2>3. DOMAIN q = {"kind", "home", "n", "todo", "found", "left", "page", "cursor", "final", "dirs",
                    "known", "alone", "lost"}
    BY <2>2 DEF IsProgram, O!Idle
  <2>4. SameWho(q, r) /\ r.alone = q.alone /\ SameAt(q, r)
    BY <2>3 DEF SameWho, SameAt
  <2> QED BY <2>1, <2>4 DEF q
<1>4. StillAll
  BY <1>1, <1>3 DEF StillAll
<1>5. Claims' /\ Begun' = Begun /\ Doomed' = Doomed
  BY <1>2, <1>4, StillClaims
<1>6. (DOMAIN objects)' = DOMAIN objects \cup {k} /\ \A l \in DOMAIN objects \ {k} : objects'[l] = objects[l]
  BY <1>1 DEF O!Put
<1>7. OwnData'
  BY <1>1, <1>2, <1>5, <1>6 DEF OwnData, ReportsKept, IsOf
<1>8. \A n \in shown' : OwnFiles(home', n) \subseteq (DOMAIN objects)'
  BY <1>1, <1>2, <1>6 DEF ReportsKept
<1>9. ASSUME NEW x \in StorageOps
      PROVE  ProgramOf(op'[x], Doomed', Begun', used', (DOMAIN objects)')
  <2>1. ProgramOf(op[x], Doomed, Begun, used, DOMAIN objects)
    BY <1>2 DEF ReportsKept
  <2>2. OwnFiles(op[x].home, op[x].n) \cap DOMAIN objects \subseteq (DOMAIN objects)'
    BY <1>6
  <2>3. op'[x].alone => op[x].alone
    BY <1>3
  <2> QED BY <1>1, <1>3, <1>5, <2>1, <2>2, <2>3, ProgramGoesOn
<1> QED BY <1>5, <1>7, <1>8, <1>9 DEF ReportsKept


LEMMA ServedStarts == O!Init => ServedInv
<1> SUFFICES ASSUME O!Init PROVE ServedInv
  OBVIOUS
<1>1. /\ numbers = {1, 9} /\ used = {1, 9} /\ shown = (IF home = "p" THEN {1, 9} ELSE {})
      /\ \A o \in StorageOps : op[o] = O!Idle
  BY DEF O!Init, KeyPair
<1>2. O!Idle.kind = "none" /\ O!Idle.alone \in BOOLEAN
  BY DEF O!Idle
<1>3. \A o \in StorageOps : op[o].kind = "none" /\ op[o].alone \in BOOLEAN
  BY <1>1, <1>2
<1>4. Claims
  BY <1>1, <1>3 DEF Claims, Numbers, O!Disturbs, O!Whole
<1>5. {1, 9} \subseteq Begun
  BY <1>1 DEF Begun, Numbers
<1> DEFINE own    == [n \in {1, 9} |-> OwnFiles("p", n)]
           latest == LatestFiles("p")
           value(k) == IF k \in latest THEN O!Max({1, 9}) ELSE CHOOSE n \in {1, 9} : k \in own[n]
<1>6. objects = [k \in (UNION O!Range(own)) \cup latest |-> value(k)]
  BY DEF O!Init, KeyPair, OwnFiles, LatestFiles
<1>7. \A n \in {1, 9} : own[n] = OwnFiles("p", n)
  OBVIOUS
<1>8. O!Range(own) = {OwnFiles("p", 1), OwnFiles("p", 9)}
  BY DEF O!Range
<1> HIDE DEF own, latest
<1>9. /\ DOMAIN objects = (UNION O!Range(own)) \cup latest
      /\ \A k \in DOMAIN objects \ latest : objects[k] = CHOOSE n \in {1, 9} : k \in own[n]
  BY <1>6
<1>10. "p" \in Names /\ 1 \in Numbers /\ 9 \in Numbers
  BY DEF Names, Numbers
<1>11. ASSUME NEW k \in DOMAIN objects, NEW n \in Numbers, IsOf(k, n)
       PROVE  objects[k] = n /\ n \in Begun
  <2>1. k \notin latest
    BY <1>10, <1>11, LatestFilesAre DEF latest
  <2>2. \A m \in {1, 9} : k \in own[m] => m = n
    <3> SUFFICES ASSUME NEW m \in {1, 9}, k \in own[m] PROVE m = n
      OBVIOUS
    <3>1. m \in Numbers /\ k \in OwnFiles("p", m)
      BY <1>7, <1>10
    <3>2. IsOf(k, m)
      BY <3>1, <1>10, OwnFilesAre
    <3> QED BY <3>1, <3>2, <1>11, NumbersDiffer DEF IsOf
  <2>3. \E m \in {1, 9} : k \in own[m]
    BY <2>1, <1>7, <1>8, <1>9
  <2>4. objects[k] = n /\ n \in {1, 9}
    BY <2>1, <2>2, <2>3, <1>9
  <2> QED BY <2>4, <1>5
<1>12. OwnData
  BY <1>11 DEF OwnData
<1>13. ASSUME NEW n \in shown PROVE OwnFiles(home, n) \subseteq DOMAIN objects
  <2>1. home = "p" /\ n \in {1, 9}
    BY <1>1
  <2> QED BY <2>1, <1>8, <1>9
<1>14. \A o \in StorageOps : ProgramOf(op[o], Doomed, Begun, used, DOMAIN objects)
  BY <1>1, IdleProgram
<1> QED BY <1>4, <1>12, <1>13, <1>14, StorageStarts DEF ServedInv, ReportsKept

LEMMA ServedStep == ServedInv /\ [AllNext]_allVars => ServedInv'
<1> SUFFICES ASSUME ServedInv, [AllNext]_allVars PROVE ServedInv'
  OBVIOUS
<1>1. StorageInv'
  BY StorageStep DEF ServedInv
<1>2. Claims' /\ ReportsKept'
  <2>1. CASE UNCHANGED storageVars
    <3>1. Claims /\ ReportsKept
      BY DEF ServedInv
    <3>2. objects' = objects /\ home' = home /\ numbers' = numbers /\ op' = op
          /\ shown' = shown /\ used' = used
      BY <2>1 DEF storageVars
    <3>3. Begun' = Begun /\ Doomed' = Doomed
      BY <3>2 DEF Begun, Doomed
    <3>4. Claims'
      BY <3>1, <3>2 DEF Claims
    <3> QED BY <3>1, <3>2, <3>3, <3>4 DEF ReportsKept, OwnData
  <2>2. CASE O!Next
    <3>1. CASE \E k \in O!Key : O!WriteFile(k)
      BY <3>1, WriteServes
    <3>2. CASE \E o \in StorageOps : O!Rename(o) \/ O!Migrate(o)
      BY <3>2, MovesServe
    <3>3. CASE \E o \in StorageOps : \/ O!DeleteProject(o) \/ O!CleanHistory(o) \/ O!CleanBatch(o)
                                     \/ O!Gcstorage(o)
                                     \/ \E n \in Numbers : O!DeleteReport(o, n) \/ O!PruneBuild(o, n)
      BY <3>3, RemovalsServe
    <3>4. CASE \E o \in StorageOps : O!KeepHistory(o) \/ O!PrepareLocal(o) \/ O!PublishReport(o)
                                     \/ O!CopyPlaywrightLatestToBuild(o)
      BY <3>4, GenerationsServe
    <3>5. CASE \E o \in StorageOps : O!FindPage(o) \/ O!ListToDelete(o) \/ O!DeletePage(o)
      BY <3>5, FindServes, ListToDeleteServes, DeletePageServes
    <3>6. CASE \E o \in StorageOps : O!Look(o) \/ O!Fail(o) \/ O!End(o)
      BY <3>6, LookServes, EndsServe
    <3>7. CASE \E o \in StorageOps, k \in O!Key : O!CopyOne(o, k) \/ O!ReadOne(o, k) \/ O!SendOne(o, k)
      BY <3>7, CopyServes, ReadServes, SendServes
    <3> QED BY <2>2, <3>1, <3>2, <3>3, <3>4, <3>5, <3>6, <3>7, NumbersDiffer DEF O!Next
  <2> QED BY <2>1, <2>2 DEF AllNext, allVars
<1> QED BY <1>1, <1>2 DEF ServedInv

-----------------------------------------------------------------------------
(* A published build that nobody asked to delete or move, and whose number *)
(* was reserved once, has every file of its own and is shown it: whatever  *)
(* is published, deleted by its number, by the age of its build or for     *)
(* want of a row, copied, renamed, migrated and uploaded beside it, in     *)
(* whatever order the calls come, wherever they fail.                      *)
THEOREM ServedIsOwn == AllSpec => []ServedDataIsOwn
<1>1. AllInit => ServedInv
  BY ServedStarts DEF AllInit
<1>2. ServedInv => ServedDataIsOwn
  <2> SUFFICES ASSUME ServedInv, NEW n \in shown, NEW f \in Whole
      PROVE  O!Report(home, n) \o f \in DOMAIN objects /\ O!Served(n, f) = n
    BY DEF ServedDataIsOwn, O!ServedDataIsOwn
  <2> DEFINE k == O!Report(home, n) \o f
  <2>1. home \in Names /\ n \in Numbers
    BY HomeIsName DEF ServedInv, Claims
  <2>2. k \in OwnFiles(home, n)
    BY DEF OwnFiles, O!FilesOf
  <2> HIDE DEF k
  <2>3. k \in DOMAIN objects /\ IsOf(k, n)
    BY <2>1, <2>2, OwnFilesAre DEF ServedInv, ReportsKept
  <2>4. objects[k] = n
    BY <2>1, <2>3 DEF ServedInv, ReportsKept, OwnData
  <2> QED BY <2>3, <2>4 DEF O!Served, k
<1> QED BY <1>1, <1>2, ServedStep, PTL DEF AllSpec
=============================================================================
