----------------------- MODULE BuildLifecycle_proofs -----------------------
(***************************************************************************)
(* Proofs about BuildLifecycle, for every value of its constants.          *)
(***************************************************************************)
EXTENDS BuildLifecycle, FiniteSetTheorems, TLAPS

USE ConstantsAssumption DEF ConstantsAssumption

-----------------------------------------------------------------------------
(* Control: where a step takes the process that makes it.                  *)

\* What TypeOK says of the control state and of the number in hand.
ControlOK ==
  /\ PcOK
  /\ err \in [Gens -> BOOLEAN]
  /\ num \in [Gens \cup {Admin} -> 0..MaxBuild]
  /\ \A g \in Gens : HasNumber(g) \/ pc[g] = "insert" => num[g] \in Numbers

\* The labels a generation goes through while it has a number.
Holding == (GenPc \ (Terminal \cup {"idle", "waiting", "reserve", "insert", "release"}))
             \cup (PrunePc \ {"orphans"})

\* A step of a generation that holds a number, to where it still does or to
\* the release of the lock.
LEMMA HoldingGoto ==
  ASSUME ControlOK, NEW g \in Gens, pc[g] \in Holding,
         NEW l \in Holding \cup {"release"}, Goto(g, l),
         err' \in [Gens -> BOOLEAN], UNCHANGED num
  PROVE  ControlOK'
  BY DEF ControlOK, PcOK, Holding, HasNumber, InSection, Terminal,
      Goto, Procs, GenPc, PrunePc, AdminPc, SyncPc

\* A step of the sweep.
LEMMA SweepGoto ==
  ASSUME ControlOK, NEW l \in PrunePc \cup {"idle"}, Goto(Sweep, l), UNCHANGED <<err, num>>
  PROVE  ControlOK'
  BY DEF ControlOK, PcOK, HasNumber, InSection, Terminal,
      Goto, Procs, GenPc, PrunePc, AdminPc, SyncPc

\* A retention step leaves its process in retention, or takes a generation to
\* its rollback.
PruneControl(p) ==
  /\ pc[p] \in PrunePc \ {"orphans"}
  /\ UNCHANGED num
  /\ \/ UNCHANGED <<pc, err>>
     \/ \E l \in PrunePc : /\ Goto(p, l)
                           /\ l = "orphans" => p = Sweep
                           /\ UNCHANGED err
     \/ /\ p \in Gens
        /\ Goto(p, "rollback")
        /\ err' \in {err, [err EXCEPT ![p] = TRUE]}

\* What one step of Prune(p) does to the control variables of its process.
LEMMA PruneSteps ==
  ASSUME NEW p \in Pruners, Prune(p)
  PROVE  PruneControl(p)
<1> USE DEF PruneControl, PrunePc, AfterCount, PruneError, ErrorEnds, Fail
<1>1. CASE CountSelect(p)
  BY <1>1 DEF CountSelect
<1>2. CASE CountDelete(p)
  BY <1>2 DEF CountDelete, PruneDelete
<1>3. CASE CountDirs(p)
  BY <1>3 DEF CountDirs, PruneReportDirs
<1>4. CASE AgeSelect(p)
  BY <1>4 DEF AgeSelect
<1>5. CASE AgeDelete(p)
  BY <1>5 DEF AgeDelete, PruneDelete
<1>6. CASE AgeDirs(p)
  BY <1>6 DEF AgeDirs, PruneReportDirs
<1>7. CASE StaleSelect(p)
  BY <1>7 DEF StaleSelect
<1>8. CASE StaleTx(p)
  BY <1>8 DEF StaleTx, local, store
<1>9. CASE StaleDone(p)
  BY <1>9 DEF StaleDone, local
<1>10. CASE StaleDirs(p)
  BY <1>10 DEF StaleDirs, Pruners
<1>11. QED
  BY <1>1, <1>2, <1>3, <1>4, <1>5, <1>6, <1>7, <1>8, <1>9, <1>10 DEF Prune

\* The retention steps keep every process at one of its labels (KeepLatestHistory,
\* IngestReport and runRetentionSweep).
LEMMA PruneControlOK ==
  ASSUME ControlOK, NEW p \in Pruners, PruneControl(p)
  PROVE  ControlOK'
<1>1. CASE UNCHANGED <<pc, err>>
  BY <1>1 DEF PruneControl, ControlOK, PcOK, HasNumber, InSection
<1>2. CASE \E l \in PrunePc : /\ Goto(p, l)
                              /\ l = "orphans" => p = Sweep
                              /\ UNCHANGED err
  <2>1. PICK l \in PrunePc : Goto(p, l) /\ (l = "orphans" => p = Sweep) /\ UNCHANGED err
    BY <1>2
  <2>2. CASE p = Sweep
    BY <2>1, <2>2, SweepGoto DEF PruneControl
  <2>3. CASE p \in Gens
    <3>1. pc[p] \in Holding /\ l \in Holding
      BY <2>1, <2>3 DEF PruneControl, Holding, PrunePc
    <3>2. err' \in [Gens -> BOOLEAN]
      BY <2>1 DEF ControlOK
    <3>3. QED
      BY <2>1, <2>3, <3>1, <3>2, HoldingGoto DEF PruneControl
  <2>4. QED
    BY <2>2, <2>3 DEF Pruners
<1>3. CASE /\ p \in Gens
           /\ Goto(p, "rollback")
           /\ err' \in {err, [err EXCEPT ![p] = TRUE]}
  <2>1. pc[p] \in Holding /\ "rollback" \in Holding
    BY DEF PruneControl, Holding, PrunePc, GenPc, Terminal
  <2>2. err' \in [Gens -> BOOLEAN]
    BY <1>3 DEF ControlOK
  <2>3. QED
    BY <1>3, <2>1, <2>2, HoldingGoto DEF PruneControl
<1>4. QED
  BY <1>1, <1>2, <1>3 DEF PruneControl

-----------------------------------------------------------------------------
(* Data: what a step leaves in the tables and the variables.               *)

DataOK ==
  /\ lock \in Gens \cup {NoGen}
  /\ builds \subseteq Row
  /\ dirs \in [Numbers -> SUBSET Gens]
  /\ branches \subseteq Branches
  /\ dflt \in Branches \cup {NoBranch}
  /\ job \in [Gens -> [kind : AllKinds, ci : Branches \cup {NoBranch}]]
  /\ bid \in [Gens -> Branches \cup {NoBranch}]
  /\ todo \in [Pruners \cup {Syncer} -> SUBSET Numbers]
  /\ names \in [Pruners \cup {Admin} -> SUBSET Branches]
  /\ committed \in [Gens -> BOOLEAN]

\* TypeOK splits into control and data.
LEMMA TypeParts ==
  /\ TypeOK <=> ControlOK /\ DataOK
  /\ TypeOK' <=> ControlOK' /\ DataOK'
  BY DEF TypeOK, ControlOK, DataOK

\* Changing one column leaves a row a row.
LEMMA RowUpdate ==
  ASSUME NEW r \in Row, NEW b \in Branches \cup {NoBranch},
         NEW c \in Branches \cup {NoBranch}, NEW l \in BOOLEAN
  PROVE  /\ [r EXCEPT !.branch = b, !.ci = c] \in Row
         /\ [r EXCEPT !.branch = b] \in Row
         /\ [r EXCEPT !.latest = l] \in Row
         /\ [r EXCEPT !.old = l] \in Row
         /\ r.order \in Numbers
         /\ r.branch \in Branches \cup {NoBranch}
         /\ r.ci \in Branches \cup {NoBranch}
  BY DEF Row

\* The build numbers of rows are in range.
LEMMA OrdersType ==
  ASSUME builds \subseteq Row, NEW S \in SUBSET builds
  PROVE  Orders(S) \subseteq Numbers
  BY RowUpdate DEF Orders

\* What the writers of the builds table leave are rows.
LEMMA RowsType ==
  ASSUME builds \subseteq Row
  PROVE  /\ \A S : DeleteOrders(S) \subseteq Row
         /\ \A n : \A b \in Branches \cup {NoBranch} : SetLatestRows(n, b) \subseteq Row
         /\ \A b \in Branches : \A S \in SUBSET builds : DropBranch(b, S) \subseteq Row
         /\ \A n \in Numbers, g \in Gens \cup {Import} : NewRow(n, g) \in Row
<1>1. \A S : DeleteOrders(S) \subseteq Row
  BY DEF DeleteOrders
<1>2. \A n : \A b \in Branches \cup {NoBranch} : SetLatestRows(n, b) \subseteq Row
  BY RowUpdate DEF SetLatestRows
<1>3. \A b \in Branches : \A S \in SUBSET builds : DropBranch(b, S) \subseteq Row
  <2>1. \A r \in builds, b \in Branches :
          [r EXCEPT !.branch = IF @ = b THEN NoBranch ELSE @] \in Row
    BY DEF Row
  <2>2. QED
    BY <2>1 DEF DropBranch
<1>4. \A n \in Numbers, g \in Gens \cup {Import} : NewRow(n, g) \in Row
  BY DEF NewRow, Row
<1>5. QED
  BY <1>1, <1>2, <1>3, <1>4

\* The retention steps leave well-typed tables and directories.
LEMMA PruneDataOK ==
  ASSUME DataOK, NEW p \in Pruners, Prune(p)
  PROVE  DataOK'
<1> USE RowsType, OrdersType DEF DataOK, local, store
<1>1. CASE CountSelect(p)
  <2>1. BeyondKeep(ScopeRows(PruneScope(p))) \in SUBSET Numbers
    BY DEF BeyondKeep, ScopeRows
  <2>2. QED
    BY <1>1, <2>1 DEF CountSelect
<1>2. CASE CountDelete(p)
  BY <1>2 DEF CountDelete, PruneDelete
<1>3. CASE CountDirs(p)
  BY <1>3 DEF CountDirs, PruneReportDirs
<1>4. CASE AgeSelect(p)
  BY <1>4 DEF AgeSelect
<1>5. CASE AgeDelete(p)
  BY <1>5 DEF AgeDelete, PruneDelete
<1>6. CASE AgeDirs(p)
  BY <1>6 DEF AgeDirs, PruneReportDirs
<1>7. CASE StaleSelect(p)
  BY <1>7 DEF StaleSelect, StaleNames
<1>8. CASE StaleTx(p)
  <2>1. \A b : StaleRows(b) \in SUBSET builds
    BY DEF StaleRows
  <2>2. builds' \subseteq Row
    <3>1. PICK b \in names[p] : \/ builds' = builds
                              \/ builds' = builds \ StaleRows(b)
                              \/ builds' = DropBranch(b, builds \ StaleRows(b))
      BY <1>8 DEF StaleTx
    <3>2. b \in Branches /\ builds \ StaleRows(b) \in SUBSET builds
      OBVIOUS
    <3>3. QED
      BY <3>1, <3>2, SMTT(30)
  <2>3. todo' \in [Pruners \cup {Syncer} -> SUBSET Numbers]
    BY <1>8, <2>1 DEF StaleTx
  <2>4. names' \in [Pruners \cup {Admin} -> SUBSET Branches]
    BY <1>8 DEF StaleTx
  <2>5. QED
    BY <1>8, <2>2, <2>3, <2>4 DEF StaleTx
<1>9. CASE StaleDone(p)
  BY <1>9 DEF StaleDone
<1>10. CASE StaleDirs(p)
  BY <1>10 DEF StaleDirs
<1>11. QED
  BY <1>1, <1>2, <1>3, <1>4, <1>5, <1>6, <1>7, <1>8, <1>9, <1>10 DEF Prune

\* The lock and the reservation.
LEMMA ReserveControlOK ==
  ASSUME ControlOK, NEW g \in Gens,
         \/ AcquireLock(g) \/ AcquireCancelled(g) \/ Unlock(g) \/ CrashGen(g)
         \/ ReserveSelect(g) \/ ReserveInsert(g) \/ ReserveConflict(g)
         \/ ReserveFails(g) \/ LoseSession(g) \/ \E j \in Jobs : Start(g, j)
  PROVE  ControlOK'
<1> USE DEF ControlOK, PcOK, HasNumber, InSection, Terminal, Goto, Forget, local,
            Procs, GenPc, PrunePc, AdminPc, SyncPc, Numbers
<1>1. CASE AcquireLock(g)
  BY <1>1 DEF AcquireLock
<1>2. CASE AcquireCancelled(g)
  BY <1>2 DEF AcquireCancelled
<1>3. CASE Unlock(g)
  BY <1>3 DEF Unlock
<1>4. CASE CrashGen(g)
  BY <1>4 DEF CrashGen
<1>5. CASE ReserveSelect(g)
  BY <1>5 DEF ReserveSelect
<1>6. CASE ReserveInsert(g)
  BY <1>6 DEF ReserveInsert
<1>7. CASE ReserveConflict(g)
  BY <1>7 DEF ReserveConflict
<1>8. CASE ReserveFails(g)
  BY <1>8 DEF ReserveFails
<1>9. CASE LoseSession(g)
  BY <1>9 DEF LoseSession
<1>10. CASE \E j \in Jobs : Start(g, j)
  BY <1>10 DEF Start
<1>11. QED
  BY <1>1, <1>2, <1>3, <1>4, <1>5, <1>6, <1>7, <1>8, <1>9, <1>10

\* The steps of a generation that has a number.
LEMMA GenerateControlOK ==
  ASSUME ControlOK, NEW g \in Gens,
         \/ Generate(g) \/ ResolveBranch(g) \/ PublishReport(g)
         \/ PublishFailsEarly(g) \/ FillBuild(g) \/ SetLatest(g) \/ Rollback(g)
  PROVE  ControlOK'
<1> DEFINE After == {"resolve", "publish", "fill", "latest", "count_sel", "rollback",
                     "release"}
<1>1. /\ pc[g] \in Holding
      /\ UNCHANGED num
      /\ \/ \E l \in After : Goto(g, l) /\ UNCHANGED err
         \/ Fail(g)
  BY DEF Generate, ResolveBranch, PublishReport, PublishFailsEarly, FillBuild, SetLatest,
         Rollback, AfterGenerate, AfterResolve, AfterPublish, Holding, GenPc, Terminal,
         local
<1>2. After \subseteq Holding \cup {"release"}
  BY DEF Holding, GenPc, PrunePc, Terminal
<1>3. err' \in [Gens -> BOOLEAN]
  BY <1>1 DEF ControlOK, Fail
<1>4. QED
  BY <1>1, <1>2, <1>3, HoldingGoto DEF Fail

\* The steps of a generation before its retention leave well-typed tables.
LEMMA WorkDataOK ==
  ASSUME ControlOK, DataOK, NEW g \in Gens, Work(g) \/ AcquireCancelled(g) \/ CrashGen(g)
  PROVE  DataOK'
<1> USE RowsType DEF DataOK, local, store, Forget, NoJob, AllKinds, MayFail
<1>1. CASE AcquireLock(g)
  BY <1>1 DEF AcquireLock
<1>2. CASE Unlock(g)
  BY <1>2 DEF Unlock, Freed
<1>3. CASE ReserveSelect(g)
  BY <1>3 DEF ReserveSelect
<1>4. CASE ReserveInsert(g)
  BY <1>4 DEF ReserveInsert, ControlOK
<1>5. CASE ReserveConflict(g)
  BY <1>5 DEF ReserveConflict
<1>6. CASE ReserveFails(g)
  BY <1>6 DEF ReserveFails
<1>7. CASE Generate(g)
  BY <1>7 DEF Generate, Fail
<1>8. CASE ResolveBranch(g)
  BY <1>8 DEF ResolveBranch
<1>9. CASE PublishReport(g)
  BY <1>9 DEF PublishReport, Fail
<1>10. CASE PublishFailsEarly(g)
  BY <1>10 DEF PublishFailsEarly, Fail
<1>11. CASE FillBuild(g)
  <2>1. job[g].ci \in Branches \cup {NoBranch} /\ RowsAt(num[g]) \subseteq Row
    BY DEF RowsAt
  <2>2. ASSUME NEW rows, rows \subseteq Row, NEW b
        PROVE  WithBranch(rows, b) \subseteq Row
    <3>1. b \in branches => \A r \in rows : [r EXCEPT !.branch = b] \in Row
      BY <2>2, RowUpdate
    <3>2. QED
      BY <2>2, <3>1 DEF WithBranch
  <2>3. ASSUME NEW rows, rows \subseteq Row, NEW c \in Branches \cup {NoBranch}
        PROVE  WithCI(rows, c) \subseteq Row
    BY <2>3 DEF WithCI, Row
  <2>4. PICK rows : /\ rows = RowsAt(num[g]) \/ rows = WithBranch(RowsAt(num[g]), bid[g])
                    /\ \/ builds' = DeleteOrders({num[g]}) \cup rows
                       \/ builds' = DeleteOrders({num[g]}) \cup WithCI(rows, job[g].ci)
    BY <1>11 DEF FillBuild
  <2>5. rows \subseteq Row
    BY <2>1, <2>2, <2>4
  <2>6. WithCI(rows, job[g].ci) \subseteq Row
    BY <2>1, <2>3, <2>5
  <2>7. builds' \subseteq Row
    BY <2>4, <2>5, <2>6
  <2>8. QED
    BY <1>11, <2>7 DEF FillBuild
<1>12. CASE SetLatest(g)
  <2>1. LatestScope(g) \in Branches \cup {NoBranch}
    BY DEF LatestScope
  <2>2. builds' \in {builds, SetLatestRows(num[g], LatestScope(g))}
    BY <1>12 DEF SetLatest
  <2>3. builds' \subseteq Row
    BY <2>1, <2>2
  <2>4. QED
    BY <1>12, <2>3 DEF SetLatest
<1>13. CASE Rollback(g)
  BY <1>13 DEF Rollback
<1>14. CASE Prune(g)
  BY <1>14, PruneDataOK DEF Pruners
<1>15. CASE AcquireCancelled(g)
  BY <1>15 DEF AcquireCancelled
<1>16. CASE CrashGen(g)
  BY <1>16 DEF CrashGen, Freed
<1>17. QED
  BY <1>1, <1>2, <1>3, <1>4, <1>5, <1>6, <1>7, <1>8, <1>9, <1>10, <1>11, <1>12, <1>13, <1>14,
     <1>15, <1>16
  DEF Work

\* The processes that do not take the lock, and the environment.
OtherStep ==
  \/ SweepStart \/ DeleteOrphanBranches
  \/ (\E n \in Numbers : DeleteReport(n) \/ GrowOld(n))
  \/ DeleteReportRunner \/ DeleteReportHandler
  \/ CleanHistory \/ DeleteAllBuilds \/ (\E g \in Gens : Regenerate(g))
  \/ (\E b \in Branches : SetDefault(b) \/ DeleteBranchCheck(b))
  \/ DeleteBranchRow \/ SyncList \/ SyncSubtract \/ SyncInsert \/ CrashSweep

\* Requests, the importer, promotions and a sweep's crash keep the labels.
LEMMA OtherControlOK ==
  ASSUME ControlOK, OtherStep
  PROVE  ControlOK'
<1> USE DEF ControlOK, PcOK, HasNumber, InSection, Terminal, Goto, local,
            Procs, GenPc, PrunePc, AdminPc, SyncPc, Numbers
<1>1. CASE SweepStart
  BY <1>1 DEF SweepStart
<1>2. CASE DeleteOrphanBranches
  BY <1>2 DEF DeleteOrphanBranches
<1>3. CASE \E n \in Numbers : DeleteReport(n)
  BY <1>3 DEF DeleteReport
<1>4. CASE \E n \in Numbers : GrowOld(n)
  BY <1>4 DEF GrowOld
<1>5. CASE DeleteReportRunner
  BY <1>5 DEF DeleteReportRunner, DeleteReportRow
<1>6. CASE DeleteReportHandler
  BY <1>6 DEF DeleteReportHandler, DeleteReportRow
<1>7. CASE CleanHistory
  BY <1>7 DEF CleanHistory
<1>8. CASE DeleteAllBuilds
  BY <1>8 DEF DeleteAllBuilds
<1>9. CASE \E g \in Gens : Regenerate(g)
  BY <1>9 DEF Regenerate
<1>10. CASE \E b \in Branches : SetDefault(b)
  BY <1>10 DEF SetDefault
<1>11. CASE \E b \in Branches : DeleteBranchCheck(b)
  BY <1>11 DEF DeleteBranchCheck
<1>12. CASE DeleteBranchRow
  BY <1>12 DEF DeleteBranchRow
<1>13. CASE SyncList
  BY <1>13 DEF SyncList
<1>14. CASE SyncSubtract
  BY <1>14 DEF SyncSubtract
<1>15. CASE SyncInsert
  BY <1>15 DEF SyncInsert
<1>16. CASE CrashSweep
  BY <1>16 DEF CrashSweep
<1>17. QED
  BY <1>1, <1>2, <1>3, <1>4, <1>5, <1>6, <1>7, <1>8, <1>9, <1>10, <1>11, <1>12, <1>13, <1>14,
     <1>15, <1>16
  DEF OtherStep

\* Requests, the importer, promotions and a sweep's crash leave well-typed tables.
LEMMA OtherDataOK ==
  ASSUME ControlOK, DataOK, OtherStep
  PROVE  DataOK'
<1> USE RowsType, OrdersType DEF DataOK, local, store, NoJob, AllKinds, MayFail, Pruners
<1>1. CASE SweepStart
  BY <1>1 DEF SweepStart
<1>2. CASE DeleteOrphanBranches
  <2>1. ASSUME NEW r \in builds
        PROVE  [r EXCEPT !.branch = IF @ \in branches \ branches' THEN NoBranch
                                    ELSE @] \in Row
    BY DEF Row
  <2>2. builds' \subseteq Row /\ branches' \subseteq Branches
    <3>1. branches' \subseteq Branches
      BY <1>2 DEF DeleteOrphanBranches
    <3>2. builds' = {[r EXCEPT !.branch = IF @ \in branches \ branches' THEN NoBranch
                                          ELSE @] : r \in builds}
      BY <1>2 DEF DeleteOrphanBranches
    <3>3. QED
      BY <2>1, <3>1, <3>2
  <2>3. QED
    BY <1>2, <2>2 DEF DeleteOrphanBranches
<1>3. CASE \E n \in Numbers : DeleteReport(n)
  BY <1>3 DEF DeleteReport
<1>4. CASE \E n \in Numbers : GrowOld(n)
  <2>1. \A r \in builds : [r EXCEPT !.old = TRUE] \in Row
    BY RowUpdate
  <2>2. builds' \subseteq Row
    BY <1>4, <2>1 DEF GrowOld, DeleteOrders, RowsAt
  <2>3. QED
    BY <1>4, <2>2 DEF GrowOld
<1>5. CASE DeleteReportRunner
  BY <1>5 DEF DeleteReportRunner, DeleteReportRow
<1>6. CASE DeleteReportHandler
  BY <1>6 DEF DeleteReportHandler, DeleteReportRow
<1>7. CASE CleanHistory
  BY <1>7 DEF CleanHistory
<1>8. CASE DeleteAllBuilds
  BY <1>8 DEF DeleteAllBuilds
<1>9. CASE \E g \in Gens : Regenerate(g)
  BY <1>9 DEF Regenerate
<1>10. CASE \E b \in Branches : SetDefault(b)
  BY <1>10 DEF SetDefault
<1>11. CASE \E b \in Branches : DeleteBranchCheck(b)
  BY <1>11 DEF DeleteBranchCheck
<1>12. CASE DeleteBranchRow
  BY <1>12 DEF DeleteBranchRow
<1>13. CASE SyncList
  BY <1>13 DEF SyncList
<1>14. CASE SyncSubtract
  BY <1>14 DEF SyncSubtract
<1>15. CASE SyncInsert
  BY <1>15 DEF SyncInsert, OrderIsFree, Numbers
<1>16. CASE CrashSweep
  BY <1>16 DEF CrashSweep
<1>17. QED
  BY <1>1, <1>2, <1>3, <1>4, <1>5, <1>6, <1>7, <1>8, <1>9, <1>10, <1>11, <1>12, <1>13, <1>14,
     <1>15, <1>16
  DEF OtherStep

\* Every step of the specification is one of the cases above.
LEMMA NextCases ==
  Next => \/ \E g \in Gens, j \in Jobs : Start(g, j)
          \/ \E g \in Gens : \/ Work(g) \/ AcquireCancelled(g)
                            \/ LoseSession(g) \/ CrashGen(g)
          \/ Prune(Sweep)
          \/ OtherStep
  BY DEF Next, UnlockedStep, Environment, OtherStep

\* Every step, of whichever process, keeps the types.
LEMMA TypeStep ==
  ASSUME TypeOK, [Next]_vars
  PROVE  TypeOK'
<1> USE TypeParts
<1>1. CASE UNCHANGED vars
  BY <1>1 DEF vars, TypeOK, PcOK, HasNumber, InSection
<1>2. CASE \E g \in Gens, j \in Jobs : Start(g, j)
  BY <1>2, ReserveControlOK, ZenonT(60) DEF Start, DataOK, store
<1>3. ASSUME NEW g \in Gens, Work(g)
      PROVE  TypeOK'
  <2>1. CASE Prune(g)
    BY <1>3, <2>1, PruneSteps, PruneControlOK, WorkDataOK DEF Pruners
  <2>2. CASE ~Prune(g)
    BY <1>3, <2>2, ReserveControlOK, GenerateControlOK, WorkDataOK DEF Work
  <2>3. QED
    BY <2>1, <2>2
<1>4. ASSUME NEW g \in Gens, AcquireCancelled(g) \/ CrashGen(g)
      PROVE  TypeOK'
  BY <1>4, ReserveControlOK, WorkDataOK
<1>5. ASSUME NEW g \in Gens, LoseSession(g)
      PROVE  TypeOK'
  BY <1>5, ReserveControlOK DEF LoseSession, DataOK, store, local
<1>6. CASE Prune(Sweep)
  BY <1>6, PruneSteps, PruneControlOK, PruneDataOK DEF Pruners
<1>7. CASE OtherStep
  BY <1>7, OtherControlOK, OtherDataOK
<1>8. QED
  BY <1>1, <1>2, <1>3, <1>4, <1>5, <1>6, <1>7, NextCases

\* A new project's empty tables are well typed.
LEMMA InitType == Init => TypeOK
  BY DEF Init, TypeOK, PcOK, HasNumber, InSection, Terminal, NoJob, Procs, Pruners, Numbers,
         AllKinds, GenPc, PrunePc, AdminPc, SyncPc

\* Every variable keeps its type, and a generation that inserts or holds a row
\* does so under a number ReserveBuild gave it.
THEOREM TypeCorrect == Spec => []TypeOK
  BY InitType, TypeStep, PTL DEF Spec

-----------------------------------------------------------------------------
(* The lock, while PostgreSQL keeps its holder's session.                  *)

\* Whoever is between AcquireLock and Unlock holds the lock.
LockHeld == \A g \in Gens : InSection(g) => lock = g

\* What a step does to the lock and to who is in the section.
LEMMA LockSteps ==
  ASSUME TypeOK, ~SessionLoss, Next
  PROVE  \/ \E g \in Gens : /\ lock = NoGen /\ lock' = g
                          /\ \A h \in Gens : InSection(h)' => h = g \/ InSection(h)
         \/ \E g \in Gens : /\ lock' = Freed(g)
                          /\ \A h \in Gens : InSection(h)' => h # g /\ InSection(h)
         \/ /\ UNCHANGED lock
            /\ \A h \in Gens : InSection(h)' => InSection(h)
<1> DEFINE Kept == UNCHANGED lock /\ \A h \in Gens : InSection(h)' => InSection(h)
<1> USE DEF TypeOK, PcOK, InSection, Terminal, Goto, local, Procs
<1>1. ASSUME NEW g \in Gens, NEW j \in Jobs, Start(g, j)
      PROVE  Kept
  BY <1>1 DEF Start
<1>2. ASSUME NEW g \in Gens, AcquireLock(g)
      PROVE  /\ lock = NoGen /\ lock' = g
             /\ \A h \in Gens : InSection(h)' => h = g \/ InSection(h)
  BY <1>2 DEF AcquireLock, TryLock
<1>3. ASSUME NEW g \in Gens, Unlock(g) \/ CrashGen(g)
      PROVE  /\ lock' = Freed(g)
             /\ \A h \in Gens : InSection(h)' => h # g /\ InSection(h)
  BY <1>3 DEF Unlock, CrashGen
<1>4. ASSUME NEW g \in Gens,
             \/ AcquireCancelled(g) \/ ReserveSelect(g) \/ ReserveInsert(g)
             \/ ReserveConflict(g) \/ ReserveFails(g)
      PROVE  Kept
  BY <1>4 DEF AcquireCancelled, ReserveSelect, ReserveInsert, ReserveConflict, ReserveFails
<1>5. ASSUME NEW g \in Gens,
             \/ Generate(g) \/ ResolveBranch(g) \/ PublishReport(g)
             \/ PublishFailsEarly(g) \/ FillBuild(g) \/ SetLatest(g) \/ Rollback(g)
      PROVE  Kept
  <2>1. /\ pc[g] \in {"generate", "resolve", "publish", "fill", "latest", "rollback"}
        /\ UNCHANGED lock
        /\ \E l : Goto(g, l)
    BY <1>5 DEF Generate, ResolveBranch, PublishReport, PublishFailsEarly, FillBuild,
                SetLatest, Rollback, Fail
  <2>2. QED
    BY <2>1
<1>6. ASSUME NEW p \in Pruners, Prune(p)
      PROVE  Kept
  <2>1. UNCHANGED lock
    BY <1>6 DEF Prune, CountSelect, CountDelete, CountDirs, AgeSelect, AgeDelete, AgeDirs,
                StaleSelect, StaleTx, StaleDone, StaleDirs, PruneDelete, PruneReportDirs
  <2>2. PruneControl(p)
    BY <1>6, PruneSteps
  <2>3. \A h \in Gens : InSection(h)' => InSection(h)
    BY <2>2 DEF PruneControl, PrunePc
  <2>4. QED
    BY <2>1, <2>3
<1>7. CASE OtherStep
  BY <1>7, ZenonT(60)
          DEF OtherStep, SweepStart, DeleteOrphanBranches, DeleteReport, GrowOld,
              DeleteReportRunner, DeleteReportHandler, DeleteReportRow, CleanHistory,
              DeleteAllBuilds, Regenerate, SetDefault, DeleteBranchCheck, DeleteBranchRow,
              SyncList, SyncSubtract, SyncInsert, CrashSweep
<1>8. QED
  BY <1>1, <1>2, <1>3, <1>4, <1>5, <1>6, <1>7, NextCases DEF Work, LoseSession, Pruners

\* No step lets two generations hold the advisory lock, if none loses its session.
LEMMA LockStep ==
  ASSUME TypeOK, LockHeld, ~SessionLoss, [Next]_vars
  PROVE  LockHeld'
<1>1. CASE UNCHANGED vars
  BY <1>1 DEF vars, LockHeld, InSection
<1>2. CASE Next
  BY <1>2, LockSteps DEF LockHeld, Freed
<1>3. QED
  BY <1>1, <1>2

\* Generations of one project exclude each other, however many there are and
\* whatever fails or crashes, as long as the session of the lock lives.
THEOREM GenerationsExclude ==
  ASSUME ~SessionLoss
  PROVE  Spec => []MutualExclusion
<1>1. Init => LockHeld
  BY DEF Init, LockHeld, InSection, Procs
<1>2. TypeOK /\ LockHeld /\ [Next]_vars => LockHeld'
  BY LockStep
<1>3. LockHeld => MutualExclusion
  BY DEF LockHeld, MutualExclusion
<1>4. QED
  BY TypeCorrect, <1>1, <1>2, <1>3, PTL DEF Spec

-----------------------------------------------------------------------------
(* The rows a generation works on.                                         *)

\* What a generation knows follows its place in the code: no branch is
\* resolved before ResolveBranch, nothing is committed before SetLatest.
Phase ==
  \A g \in Gens :
    /\ \/ pc[g] \in {"reserve", "insert", "generate", "resolve"}
       \/ pc[g] = "publish" /\ job[g].kind = "playwright"
       => bid[g] = NoBranch
    /\ pc[g] \in {"reserve", "insert", "generate", "resolve", "publish", "fill", "latest"}
       => ~committed[g]
    /\ pc[g] \in {"idle", "waiting"} => bid[g] = NoBranch /\ ~committed[g]

\* The row under a generation's number is its own or an imported one, carries
\* no branch but the one the generation resolved, and is not the latest build
\* of any branch before SetLatest.
OwnRowState ==
  \A g \in Gens : \A r \in RowsAt(num[g]) :
    HasNumber(g) =>
      /\ r.gen \in {g, Import}
      /\ r.branch \in {NoBranch, bid[g]}
      /\ r.latest => committed[g]

LInv == TypeOK /\ LockHeld /\ Phase /\ OwnRowState /\ LatestPerBranch

\* The processes without the lock touch no generation but the one that
\* CleanHistory starts.
LEMMA OtherKeeps ==
  ASSUME TypeOK, OtherStep
  PROVE  /\ UNCHANGED <<bid, committed>>
         /\ \A g \in Gens : num'[g] = num[g]
         /\ \A g \in Gens : \/ pc'[g] = pc[g] /\ job'[g] = job[g]
                            \/ pc[g] = "idle" /\ pc'[g] = "waiting"
<1> USE DEF TypeOK, PcOK, Goto, local, Procs
<1>1. ASSUME NEW g \in Gens, Regenerate(g)
      PROVE  /\ UNCHANGED <<bid, committed, num>>
             /\ \A h \in Gens : \/ pc'[h] = pc[h] /\ job'[h] = job[h]
                                \/ pc[h] = "idle" /\ pc'[h] = "waiting"
  BY <1>1 DEF Regenerate
<1>2. CASE OtherStep /\ ~\E g \in Gens : Regenerate(g)
  <2>1. UNCHANGED <<bid, committed, job>>
    BY <1>2 DEF OtherStep, SweepStart, DeleteOrphanBranches, DeleteReport, GrowOld,
                DeleteReportRunner, DeleteReportHandler, DeleteReportRow, CleanHistory,
                DeleteAllBuilds, SetDefault, DeleteBranchCheck, DeleteBranchRow,
                SyncList, SyncSubtract, SyncInsert, CrashSweep
  <2>2. \A g \in Gens : num'[g] = num[g]
    BY <1>2 DEF OtherStep, SweepStart, DeleteOrphanBranches, DeleteReport, GrowOld,
                DeleteReportRunner, DeleteReportHandler, DeleteReportRow, CleanHistory,
                DeleteAllBuilds, SetDefault, DeleteBranchCheck, DeleteBranchRow,
                SyncList, SyncSubtract, SyncInsert, CrashSweep
  <2>3. \A g \in Gens : pc'[g] = pc[g]
    BY <1>2 DEF OtherStep, SweepStart, DeleteOrphanBranches, DeleteReport, GrowOld,
                DeleteReportRunner, DeleteReportHandler, DeleteReportRow, CleanHistory,
                DeleteAllBuilds, SetDefault, DeleteBranchCheck, DeleteBranchRow,
                SyncList, SyncSubtract, SyncInsert, CrashSweep
  <2>4. QED
    BY <2>1, <2>2, <2>3
<1>3. QED
  BY <1>1, <1>2

\* Every step keeps what the label of a generation says of its commit flag.
LEMMA PhaseStep ==
  ASSUME TypeOK, Phase, [Next]_vars
  PROVE  Phase'
<1> USE DEF TypeOK, PcOK, Phase, Goto, local, Procs
<1>1. CASE UNCHANGED vars
  BY <1>1 DEF vars
<1>2. ASSUME NEW g \in Gens, NEW j \in Jobs, Start(g, j)
      PROVE  Phase'
  BY <1>2 DEF Start
<1>3. ASSUME NEW g \in Gens, AcquireLock(g)
      PROVE  Phase'
  BY <1>3 DEF AcquireLock
<1>4. ASSUME NEW g \in Gens, Unlock(g) \/ CrashGen(g) \/ AcquireCancelled(g)
      PROVE  Phase'
  BY <1>4 DEF Unlock, CrashGen, AcquireCancelled, Forget
<1>5. ASSUME NEW g \in Gens,
             \/ ReserveSelect(g) \/ ReserveInsert(g) \/ ReserveConflict(g)
             \/ ReserveFails(g) \/ LoseSession(g)
      PROVE  Phase'
  BY <1>5 DEF ReserveSelect, ReserveInsert, ReserveConflict, ReserveFails, LoseSession
<1>6. ASSUME NEW g \in Gens, Generate(g)
      PROVE  Phase'
  BY <1>6 DEF Generate, AfterGenerate, Fail
<1>7. ASSUME NEW g \in Gens, ResolveBranch(g)
      PROVE  Phase'
  BY <1>7 DEF ResolveBranch, AfterResolve
<1>8. ASSUME NEW g \in Gens, PublishReport(g) \/ PublishFailsEarly(g)
      PROVE  Phase'
  BY <1>8 DEF PublishReport, PublishFailsEarly, AfterPublish, Fail
<1>9. ASSUME NEW g \in Gens, FillBuild(g) \/ SetLatest(g) \/ Rollback(g)
      PROVE  Phase'
  BY <1>9 DEF FillBuild, SetLatest, Rollback
<1>10. ASSUME NEW p \in Pruners, Prune(p)
       PROVE  Phase'
  <2>1. UNCHANGED <<job, bid, committed>>
    BY <1>10 DEF Prune, CountSelect, CountDelete, CountDirs, AgeSelect, AgeDelete, AgeDirs,
                 StaleSelect, StaleTx, StaleDone, StaleDirs, PruneDelete, PruneReportDirs
  <2>2. PruneControl(p)
    BY <1>10, PruneSteps
  <2>3. QED
    BY <2>1, <2>2 DEF PruneControl, PrunePc
<1>11. CASE OtherStep
  BY <1>11, OtherKeeps DEF NoJob
<1>12. QED
  BY <1>1, <1>2, <1>3, <1>4, <1>5, <1>6, <1>7, <1>8, <1>9, <1>10, <1>11, NextCases
  DEF Work, Pruners

\* What a generation that holds a number keeps of its variables.
LEMMA HolderKeeps ==
  ASSUME TypeOK, Next
  PROVE  \A h \in Gens : HasNumber(h)' =>
           \/ ReserveInsert(h)
           \/ /\ HasNumber(h)
              /\ num'[h] = num[h]
              /\ bid'[h] = bid[h] \/ ResolveBranch(h)
              /\ committed'[h] = committed[h] \/ SetLatest(h)
<1> DEFINE Keeps == \A h \in Gens : HasNumber(h)' =>
                      \/ ReserveInsert(h)
                      \/ /\ HasNumber(h)
                         /\ num'[h] = num[h]
                         /\ bid'[h] = bid[h] \/ ResolveBranch(h)
                         /\ committed'[h] = committed[h] \/ SetLatest(h)
<1> USE DEF TypeOK, PcOK, HasNumber, InSection, Terminal, Goto, local, Procs
<1>1. ASSUME NEW g \in Gens, NEW j \in Jobs, Start(g, j)
      PROVE  Keeps
  BY <1>1 DEF Start
<1>2. ASSUME NEW g \in Gens, Unlock(g) \/ CrashGen(g) \/ AcquireCancelled(g)
      PROVE  Keeps
  BY <1>2 DEF Unlock, CrashGen, AcquireCancelled, Forget
<1>3. ASSUME NEW g \in Gens,
             \/ AcquireLock(g) \/ ReserveSelect(g) \/ ReserveConflict(g)
             \/ ReserveFails(g) \/ LoseSession(g)
      PROVE  Keeps
  BY <1>3 DEF AcquireLock, ReserveSelect, ReserveConflict, ReserveFails, LoseSession
<1>4. ASSUME NEW g \in Gens, ReserveInsert(g)
      PROVE  Keeps
  <2>1. UNCHANGED <<num, bid, committed>>
    BY <1>4 DEF ReserveInsert
  <2>2. \A h \in Gens : h # g /\ HasNumber(h)' => HasNumber(h)
    BY <1>4 DEF ReserveInsert
  <2>3. QED
    BY <1>4, <2>1, <2>2
<1>5. ASSUME NEW g \in Gens,
             \/ Generate(g) \/ ResolveBranch(g) \/ PublishReport(g)
             \/ PublishFailsEarly(g) \/ FillBuild(g) \/ SetLatest(g) \/ Rollback(g)
      PROVE  Keeps
  <2>1. /\ pc[g] \in {"generate", "resolve", "publish", "fill", "latest", "rollback"}
        /\ \E l : Goto(g, l)
        /\ UNCHANGED num
    BY <1>5 DEF Generate, ResolveBranch, PublishReport, PublishFailsEarly, FillBuild,
                SetLatest, Rollback, Fail
  <2>2. \A h \in Gens : HasNumber(h)' => HasNumber(h)
    BY <2>1
  <2>3. \A h \in Gens : bid'[h] = bid[h] \/ ResolveBranch(h)
    BY <1>5 DEF Generate, ResolveBranch, PublishReport, PublishFailsEarly, FillBuild,
                SetLatest, Rollback
  <2>4. \A h \in Gens : committed'[h] = committed[h] \/ SetLatest(h)
    BY <1>5 DEF Generate, ResolveBranch, PublishReport, PublishFailsEarly, FillBuild,
                SetLatest, Rollback
  <2>5. QED
    BY <2>1, <2>2, <2>3, <2>4
<1>6. ASSUME NEW p \in Pruners, Prune(p)
      PROVE  Keeps
  <2>1. UNCHANGED <<bid, committed>>
    BY <1>6 DEF Prune, CountSelect, CountDelete, CountDirs, AgeSelect, AgeDelete, AgeDirs,
                StaleSelect, StaleTx, StaleDone, StaleDirs, PruneDelete, PruneReportDirs
  <2>2. PruneControl(p)
    BY <1>6, PruneSteps
  <2>3. \A h \in Gens : HasNumber(h)' => HasNumber(h)
    BY <2>2 DEF PruneControl, PrunePc
  <2>4. QED
    BY <2>1, <2>2, <2>3 DEF PruneControl
<1>7. CASE OtherStep
  BY <1>7, OtherKeeps
<1>8. QED
  BY <1>1, <1>2, <1>3, <1>4, <1>5, <1>6, <1>7, NextCases DEF Work, Pruners

\* Row r of the next state is row s of this one, less its branch at most.
Derived(r, s) ==
  /\ r.order = s.order /\ r.gen = s.gen /\ r.latest = s.latest
  /\ r.branch \in {s.branch, NoBranch}

\* The steps that insert rows, and the two updates of a generation's own row.
RowWriter ==
  \/ \E g \in Gens : ReserveInsert(g) \/ FillBuild(g) \/ SetLatest(g)
  \/ SyncInsert

\* Deleting a branches row keeps the other columns of the builds.
LEMMA DropDerived ==
  ASSUME TypeOK, NEW S \in SUBSET builds, NEW b
  PROVE  \A r \in DropBranch(b, S) : \E s \in builds : Derived(r, s)
  BY DEF DropBranch, Derived, TypeOK, Row

\* A step other than an insert, FillBuild or SetLatest adds no row and sets no
\* is_latest flag.
LEMMA QuietRows ==
  ASSUME TypeOK, Next, ~RowWriter
  PROVE  \A r \in builds' : \E s \in builds : Derived(r, s)
<1> DEFINE Quiet == \A r \in builds' : \E s \in builds : Derived(r, s)
<1>0. /\ builds' \subseteq builds => Quiet
      /\ \A n : DeleteOrders(n) \subseteq builds
  BY DEF Derived, DeleteOrders
<1>1. ASSUME NEW g \in Gens,
             \/ \E j \in Jobs : Start(g, j)
             \/ AcquireLock(g) \/ AcquireCancelled(g) \/ Unlock(g) \/ LoseSession(g)
             \/ CrashGen(g) \/ ReserveSelect(g) \/ ReserveConflict(g) \/ ReserveFails(g)
             \/ Generate(g) \/ ResolveBranch(g) \/ PublishReport(g)
             \/ PublishFailsEarly(g)
      PROVE  Quiet
  BY <1>0, <1>1 DEF Start, AcquireLock, AcquireCancelled, Unlock, LoseSession, CrashGen,
                    ReserveSelect, ReserveConflict, ReserveFails, Generate, ResolveBranch,
                    PublishReport, PublishFailsEarly, store
<1>2. ASSUME NEW g \in Gens, Rollback(g)
      PROVE  Quiet
  BY <1>0, <1>2 DEF Rollback, MayFail
<1>3. ASSUME NEW p \in Pruners, Prune(p), ~StaleTx(p)
      PROVE  Quiet
  BY <1>0, <1>3 DEF Prune, CountSelect, CountDelete, CountDirs, AgeSelect, AgeDelete, AgeDirs,
                    StaleSelect, StaleDone, StaleDirs, PruneDelete, PruneReportDirs, store
<1>4. ASSUME NEW p \in Pruners, StaleTx(p)
      PROVE  Quiet
  <2>1. PICK b \in names[p] : \/ builds' = builds
                            \/ builds' = builds \ StaleRows(b)
                            \/ builds' = DropBranch(b, builds \ StaleRows(b))
    BY <1>4 DEF StaleTx
  <2>2. builds \ StaleRows(b) \in SUBSET builds
    OBVIOUS
  <2>3. QED
    BY <1>0, <2>1, <2>2, DropDerived
<1>5. CASE DeleteOrphanBranches
  <2>1. builds' = {[r EXCEPT !.branch = IF @ \in branches \ branches' THEN NoBranch
                                        ELSE @] : r \in builds}
    BY <1>5 DEF DeleteOrphanBranches
  <2>2. \A r \in builds : r \in Row
    BY DEF TypeOK
  <2>3. QED
    BY <2>1, <2>2 DEF Derived, Row
<1>6. ASSUME NEW n \in Numbers, GrowOld(n)
      PROVE  Quiet
  BY <1>6 DEF GrowOld, DeleteOrders, RowsAt, Derived, TypeOK, Row
<1>7. CASE DeleteBranchRow
  <2>1. PICK b : builds' = DropBranch(b, builds)
    BY <1>7 DEF DeleteBranchRow
  <2>2. QED
    BY <2>1, DropDerived
<1>8. CASE \/ SweepStart \/ DeleteReportRunner \/ DeleteReportHandler
           \/ (\E n \in Numbers : DeleteReport(n))
           \/ CleanHistory \/ DeleteAllBuilds \/ (\E g \in Gens : Regenerate(g))
           \/ (\E b \in Branches : SetDefault(b) \/ DeleteBranchCheck(b))
           \/ SyncList \/ SyncSubtract \/ CrashSweep
  BY <1>0, <1>8 DEF SweepStart, DeleteReportRunner, DeleteReportHandler, DeleteReportRow,
                    MayFail, DeleteReport, CleanHistory, DeleteAllBuilds, Regenerate,
                    SetDefault, DeleteBranchCheck, SyncList, SyncSubtract, CrashSweep, store
<1>9. QED
  BY <1>1, <1>2, <1>3, <1>4, <1>5, <1>6, <1>7, <1>8, NextCases
  DEF Work, OtherStep, RowWriter, Pruners

\* No two generations hold numbers at once.
LEMMA OneHolder ==
  ASSUME LockHeld, NEW g \in Gens, NEW h \in Gens, InSection(g), HasNumber(h)
  PROVE  h = g
  BY DEF LockHeld, HasNumber

\* A row FillBuild leaves is its row before, except for the columns it fills.
LEMMA FillRows ==
  ASSUME LInv, NEW g \in Gens, FillBuild(g)
  PROVE  \A r \in builds' : \E s \in builds :
           /\ r.order = s.order /\ r.gen = s.gen /\ (r.latest => s.latest)
           /\ \/ r.branch = s.branch
              \/ r.branch = bid[g] /\ s.order = num[g]
<1>1. PICK rows : /\ rows = RowsAt(num[g]) \/ rows = WithBranch(RowsAt(num[g]), bid[g])
                  /\ \/ builds' = DeleteOrders({num[g]}) \cup rows
                     \/ builds' = DeleteOrders({num[g]}) \cup WithCI(rows, job[g].ci)
  BY DEF FillBuild, MayFail
<1>2. \A r \in builds : r \in Row
  BY DEF LInv, TypeOK
<1>3. \A r \in rows : \E s \in builds :
        /\ r \in Row
        /\ r.order = s.order /\ r.gen = s.gen /\ (r.latest => s.latest)
        /\ \/ r.branch = s.branch
           \/ r.branch = bid[g] /\ s.order = num[g]
  <2>1. CASE rows = RowsAt(num[g])
    BY <1>2, <2>1 DEF RowsAt
  <2>2. CASE rows = WithBranch(RowsAt(num[g]), bid[g]) /\ bid[g] \in branches
    <3> DEFINE W(r) == [r EXCEPT !.branch = bid[g]]
    <3>1. bid[g] \in Branches
      BY <2>2 DEF LInv, TypeOK
    <3>2. \A r \in RowsAt(num[g]) :
            /\ W(r) \in Row /\ W(r).order = r.order /\ W(r).gen = r.gen
            /\ W(r).latest = r.latest /\ W(r).branch = bid[g]
      BY <1>2, <3>1 DEF RowsAt, Row
    <3>3. rows = {W(r) : r \in RowsAt(num[g])}
      BY <2>2 DEF WithBranch
    <3> HIDE DEF W
    <3>4. QED
      BY <3>2, <3>3 DEF RowsAt
  <2>3. CASE rows = WithBranch(RowsAt(num[g]), bid[g]) /\ bid[g] \notin branches
    BY <1>2, <2>3 DEF WithBranch, RowsAt
  <2>4. QED
    BY <1>1, <2>1, <2>2, <2>3
<1>4. \A r \in WithCI(rows, job[g].ci) : \E s \in rows :
        r.order = s.order /\ r.gen = s.gen /\ (r.latest => s.latest) /\ r.branch = s.branch
  BY <1>3 DEF WithCI, Row
<1>5. \A r \in DeleteOrders({num[g]}) : r \in builds
  BY DEF DeleteOrders
<1>6. ASSUME NEW r \in builds'
      PROVE  \E s \in builds :
               /\ r.order = s.order /\ r.gen = s.gen /\ (r.latest => s.latest)
               /\ \/ r.branch = s.branch
                  \/ r.branch = bid[g] /\ s.order = num[g]
  <2>1. CASE r \in DeleteOrders({num[g]})
    BY <1>5, <2>1
  <2>2. CASE r \in rows
    BY <1>3, <2>2
  <2>3. CASE r \in WithCI(rows, job[g].ci)
    <3>1. PICK t \in rows : /\ r.order = t.order /\ r.gen = t.gen
                            /\ (r.latest => t.latest) /\ r.branch = t.branch
      BY <1>4, <2>3
    <3>2. QED
      BY <1>3, <3>1
  <2>4. QED
    BY <1>1, <2>1, <2>2, <2>3
<1>7. QED
  BY <1>6

\* SetLatestBranch keeps the numbers and the generations of the rows.
LEMMA LatestRows ==
  ASSUME LInv, NEW g \in Gens, SetLatest(g)
  PROVE  \A r \in builds' : \E s \in builds :
           /\ r.order = s.order /\ r.gen = s.gen /\ r.branch = s.branch
           /\ r.latest => \/ s.latest /\ builds' = builds
                          \/ s.order = num[g]
                          \/ s.latest /\ ~LatestCleared(s, LatestScope(g))
<1>1. \A r \in builds : r \in Row
  BY DEF LInv, TypeOK
<1>2. CASE builds' = builds
  BY <1>2
<1>3. CASE builds' = SetLatestRows(num[g], LatestScope(g))
  <2>1. ASSUME NEW s \in builds, NEW l \in BOOLEAN
        PROVE  /\ [s EXCEPT !.latest = l].order = s.order
               /\ [s EXCEPT !.latest = l].gen = s.gen
               /\ [s EXCEPT !.latest = l].branch = s.branch
               /\ [s EXCEPT !.latest = l].latest = l
    BY <1>1 DEF Row
  <2>2. ASSUME NEW r \in builds'
        PROVE  \E s \in builds :
                 /\ r.order = s.order /\ r.gen = s.gen /\ r.branch = s.branch
                 /\ r.latest => \/ s.order = num[g]
                                \/ s.latest /\ ~LatestCleared(s, LatestScope(g))
    <3>1. PICK s \in builds :
            r = [s EXCEPT !.latest = \/ s.order = num[g]
                                     \/ s.latest /\ ~LatestCleared(s, LatestScope(g))]
      BY <1>3 DEF SetLatestRows
    <3>2. DEFINE l == \/ s.order = num[g]
                      \/ s.latest /\ ~LatestCleared(s, LatestScope(g))
    <3>3. l \in BOOLEAN
      OBVIOUS
    <3>4. r = [s EXCEPT !.latest = l]
      BY <3>1
    <3>5. /\ r.order = s.order /\ r.gen = s.gen /\ r.branch = s.branch
          /\ r.latest = l
      <4> HIDE DEF l
      <4>1. QED
        BY <2>1, <3>3, <3>4
    <3>6. QED
      BY <3>5
  <2>3. QED
    BY <2>2
<1>4. QED
  BY <1>2, <1>3 DEF SetLatest, MayFail

\* An inserted row has no branch and is not the latest of any.
LEMMA InsertedRows ==
  /\ \A g \in Gens : ReserveInsert(g) =>
       \A r \in builds' : r \in builds \/ r = NewRow(num[g], g)
  /\ TypeOK /\ SyncInsert =>
       \A r \in builds' : r \in builds \/ \E n \in Numbers : r = NewRow(n, Import)
  /\ \A n, g : /\ NewRow(n, g).order = n /\ NewRow(n, g).gen = g
               /\ NewRow(n, g).branch = NoBranch /\ ~NewRow(n, g).latest
<1>1. \A g \in Gens : ReserveInsert(g) =>
        \A r \in builds' : r \in builds \/ r = NewRow(num[g], g)
  BY DEF ReserveInsert
<1>2. ASSUME SyncInsert, TypeOK
      PROVE  \A r \in builds' : r \in builds \/ \E n \in Numbers : r = NewRow(n, Import)
  BY <1>2 DEF SyncInsert, TypeOK
<1>3. \A n, g : /\ NewRow(n, g).order = n /\ NewRow(n, g).gen = g
                /\ NewRow(n, g).branch = NoBranch /\ ~NewRow(n, g).latest
  BY DEF NewRow
<1>4. QED
  BY <1>1, <1>2, <1>3

\* No step gives a generation another one's row.
LEMMA OwnRowStep ==
  ASSUME LInv, Next
  PROVE  OwnRowState'
<1> SUFFICES ASSUME NEW h \in Gens, NEW r \in builds', r.order = num'[h], HasNumber(h)'
             PROVE  /\ r.gen \in {h, Import}
                    /\ r.branch \in {NoBranch, bid'[h]}
                    /\ r.latest => committed'[h]
  BY DEF OwnRowState, RowsAt, HasNumber, InSection
<1>1. ASSUME HasNumber(h), NEW s \in builds, s.order = num[h]
      PROVE  /\ s.gen \in {h, Import}
             /\ s.branch \in {NoBranch, bid[h]}
             /\ s.latest => committed[h]
  BY <1>1 DEF LInv, OwnRowState, RowsAt
<1>2. \/ ReserveInsert(h)
      \/ /\ HasNumber(h)
         /\ num'[h] = num[h]
         /\ bid'[h] = bid[h] \/ ResolveBranch(h)
         /\ committed'[h] = committed[h] \/ SetLatest(h)
  BY HolderKeeps DEF LInv
<1>3. ResolveBranch(h) => bid[h] = NoBranch
  BY DEF ResolveBranch, LInv, Phase
<1>4. SetLatest(h) => committed'[h]
  BY DEF SetLatest, LInv, TypeOK
<1>5. CASE ReserveInsert(h)
  <2>1. \A s \in builds : s.order # num[h]
    BY <1>5 DEF ReserveInsert, OrderIsFree, Orders
  <2>2. num' = num
    BY <1>5 DEF ReserveInsert, local
  <2>3. r = NewRow(num[h], h)
    BY <1>5, <2>1, <2>2, InsertedRows
  <2>4. QED
    BY <2>3, InsertedRows
<1>6. ASSUME HasNumber(h), num'[h] = num[h], bid'[h] = bid[h] \/ ResolveBranch(h),
             committed'[h] = committed[h] \/ SetLatest(h), ~ReserveInsert(h)
      PROVE  /\ r.gen \in {h, Import}
             /\ r.branch \in {NoBranch, bid'[h]}
             /\ r.latest => committed'[h]
  <2>1. ASSUME NEW s \in builds, Derived(r, s)
        PROVE  /\ r.gen \in {h, Import}
               /\ r.branch \in {NoBranch, bid'[h]}
               /\ r.latest => committed'[h]
    BY <1>1, <1>3, <1>4, <1>6, <2>1 DEF Derived
  <2>2. ASSUME NEW g \in Gens, ReserveInsert(g) \/ FillBuild(g) \/ SetLatest(g)
        PROVE  g = h
    BY <1>6, <2>2, OneHolder
    DEF LInv, ReserveInsert, FillBuild, SetLatest, InSection, Terminal
  <2>3. CASE FillBuild(h)
    <3>1. PICK s \in builds : /\ r.order = s.order /\ r.gen = s.gen /\ (r.latest => s.latest)
                              /\ \/ r.branch = s.branch
                                 \/ r.branch = bid[h] /\ s.order = num[h]
      BY <2>3, FillRows
    <3>2. bid' = bid /\ committed' = committed
      BY <2>3 DEF FillBuild, local
    <3>3. QED
      BY <1>1, <1>6, <3>1, <3>2
  <2>4. CASE SetLatest(h)
    <3>1. PICK s \in builds : r.order = s.order /\ r.gen = s.gen /\ r.branch = s.branch
      BY <2>4, LatestRows
    <3>2. bid' = bid
      BY <2>4 DEF SetLatest
    <3>3. QED
      BY <1>1, <1>4, <1>6, <2>4, <3>1, <3>2
  <2>5. CASE SyncInsert
    <3>1. CASE r \in builds
      BY <1>1, <1>3, <1>4, <1>6, <3>1
    <3>2. CASE r \notin builds
      BY <2>5, <3>2, InsertedRows DEF LInv
    <3>3. QED
      BY <3>1, <3>2
  <2>6. CASE ~RowWriter
    BY <2>1, <2>6, QuietRows DEF LInv
  <2>7. QED
    BY <1>6, <2>2, <2>3, <2>4, <2>5, <2>6 DEF RowWriter
<1>7. QED
  BY <1>2, <1>5, <1>6

\* No step marks a second build of a branch as latest.
LEMMA LatestStep ==
  ASSUME LInv, Next
  PROVE  LatestPerBranch'
<1> SUFFICES ASSUME NEW r \in builds', NEW s \in builds', r.latest, s.latest,
                    r.branch = s.branch, r.branch # NoBranch
             PROVE  r.order = s.order
  BY DEF LatestPerBranch
<1>1. ASSUME NEW t \in builds, NEW u \in builds, t.latest, u.latest,
             t.branch = u.branch, t.branch # NoBranch
      PROVE  t.order = u.order
  BY <1>1 DEF LInv, LatestPerBranch
<1>2. CASE ~RowWriter
  <2>1. PICK t \in builds : Derived(r, t)
    BY <1>2, QuietRows DEF LInv
  <2>2. PICK u \in builds : Derived(s, u)
    BY <1>2, QuietRows DEF LInv
  <2>3. QED
    BY <1>1, <2>1, <2>2 DEF Derived
<1>3. CASE SyncInsert \/ \E g \in Gens : ReserveInsert(g)
  <2>1. r \in builds /\ s \in builds
    BY <1>3, InsertedRows DEF LInv
  <2>2. QED
    BY <1>1, <2>1
<1>4. ASSUME NEW g \in Gens, FillBuild(g)
      PROVE  r.order = s.order
  <2>1. \A t \in builds : t.order = num[g] => ~t.latest
    BY <1>4 DEF FillBuild, LInv, OwnRowState, Phase, RowsAt, HasNumber, InSection, Terminal
  <2>2. PICK t \in builds : /\ r.order = t.order /\ r.gen = t.gen /\ (r.latest => t.latest)
                            /\ \/ r.branch = t.branch
                               \/ r.branch = bid[g] /\ t.order = num[g]
    BY <1>4, FillRows
  <2>3. PICK u \in builds : /\ s.order = u.order /\ s.gen = u.gen /\ (s.latest => u.latest)
                            /\ \/ s.branch = u.branch
                               \/ s.branch = bid[g] /\ u.order = num[g]
    BY <1>4, FillRows
  <2>4. QED
    BY <1>1, <2>1, <2>2, <2>3
<1>5. ASSUME NEW g \in Gens, SetLatest(g)
      PROVE  r.order = s.order
  <2>1. \A t \in builds : t.order = num[g] => t.branch \in {NoBranch, bid[g]}
    BY <1>5 DEF SetLatest, LInv, OwnRowState, RowsAt, HasNumber, InSection, Terminal
  <2>2. \A t \in builds : ~LatestCleared(t, LatestScope(g)) => t.branch # bid[g]
    BY DEF LatestCleared, LatestScope
  <2>3. PICK t \in builds : /\ r.order = t.order /\ r.branch = t.branch
                            /\ r.latest => \/ t.latest /\ builds' = builds
                                           \/ t.order = num[g]
                                           \/ t.latest /\ ~LatestCleared(t, LatestScope(g))
    BY <1>5, LatestRows
  <2>4. PICK u \in builds : /\ s.order = u.order /\ s.branch = u.branch
                            /\ s.latest => \/ u.latest /\ builds' = builds
                                           \/ u.order = num[g]
                                           \/ u.latest /\ ~LatestCleared(u, LatestScope(g))
    BY <1>5, LatestRows
  <2>5. QED
    BY <1>1, <2>1, <2>2, <2>3, <2>4
<1>6. QED
  BY <1>2, <1>3, <1>4, <1>5 DEF RowWriter

\* The inductive invariant is kept by every step.
LEMMA LInvStep ==
  ASSUME LInv, ~SessionLoss, [Next]_vars
  PROVE  LInv'
<1>1. CASE UNCHANGED vars
  <2>1. TypeOK' /\ LockHeld' /\ Phase'
    BY TypeStep, LockStep, PhaseStep DEF LInv
  <2>2. OwnRowState' /\ LatestPerBranch'
    BY <1>1 DEF LInv, vars, OwnRowState, RowsAt, HasNumber, InSection, LatestPerBranch
  <2>3. QED
    BY <2>1, <2>2 DEF LInv
<1>2. CASE Next
  BY <1>2, TypeStep, LockStep, PhaseStep, OwnRowStep, LatestStep DEF LInv
<1>3. QED
  BY <1>1, <1>2

\* The inductive invariant holds of an empty project.
LEMMA LInvInit == Init => LInv
<1> SUFFICES ASSUME Init PROVE LInv
  OBVIOUS
<1>1. TypeOK
  BY InitType
<1>2. LockHeld /\ Phase /\ OwnRowState /\ LatestPerBranch
  BY DEF Init, LockHeld, Phase, OwnRowState, LatestPerBranch, RowsAt, InSection, Procs
<1>3. QED
  BY <1>1, <1>2 DEF LInv

\* Whatever the unlocked processes delete or import, a generation updates,
\* marks and rolls back only a row of its own or an imported one.
THEOREM GenerationsOwnTheirRow ==
  ASSUME ~SessionLoss
  PROVE  Spec => []OwnRow
<1>1. LInv => OwnRow
  BY DEF LInv, OwnRowState, OwnRow, RowsAt
<1>2. LInv /\ [Next]_vars => LInv'
  BY LInvStep
<1>3. QED
  BY LInvInit, <1>1, <1>2, PTL DEF Spec

\* A branch never has two builds marked latest: SetLatestBranch needs no more
\* than the advisory lock, whatever runs without it.
THEOREM OneLatestPerBranch ==
  ASSUME ~SessionLoss
  PROVE  Spec => []LatestPerBranch
<1>1. LInv => LatestPerBranch
  BY DEF LInv
<1>2. LInv /\ [Next]_vars => LInv'
  BY LInvStep
<1>3. QED
  BY LInvInit, <1>1, <1>2, PTL DEF Spec

-----------------------------------------------------------------------------
(* What has been published is kept, while the processes without the lock   *)
(* rest.                                                                   *)

\* The processes without the lock are not running.
Alone == pc[Sweep] = "idle" /\ pc[Admin] = "idle" /\ pc[Syncer] = "idle"

\* A generation that has its row and has not given it up.
Past(g) == HasNumber(g) \/ (pc[g] = "release" /\ committed[g])

\* Its row is there, and the newest.
NewestIsOwn(g) ==
  /\ pc[g] = "insert" => \A r \in builds : r.order < num[g]
  /\ Past(g) => /\ \E r \in builds : r.order = num[g] /\ r.gen = g
                /\ \A r \in builds : r.order <= num[g]

\* Neither its age nor its place in the list lets retention choose it.
NotChosen(g) ==
  /\ pc[g] \in {"idle", "waiting", "reserve", "insert"} => todo[g] = {}
  /\ HasNumber(g) => /\ num[g] \notin todo[g]
                     /\ \A r \in RowsAt(num[g]) : ~r.old

\* An Allure generation has published before it fills in its row.
ReportIsThere(g) ==
  Past(g) /\ (committed[g] \/ pc[g] \in {"fill", "latest"}) /\ job[g].kind = "allure"
    => g \in dirs[num[g]]

PInv ==
  /\ TypeOK /\ LockHeld /\ Phase /\ Alone
  /\ \A g \in Gens : NewestIsOwn(g) /\ NotChosen(g) /\ ReportIsThere(g)

\* What a generation may have to fear of a step: that its row goes, that a newer
\* one appears, that its row ages.
RowsStay(n) ==
  /\ \A r \in builds' : \E s \in builds : r.order = s.order /\ r.gen = s.gen
  /\ \A s \in builds : s.order = n => \E r \in builds' : r.order = n /\ r.gen = s.gen
AgesStay(n) ==
  \A r \in builds' : r.order = n /\ r.old => \E s \in builds : s.order = n /\ s.old

\* What makes a step keep the numbers and the generations of all rows.
LEMMA EntriesStay ==
  ASSUME \A r \in builds' : \E s \in builds : r.order = s.order /\ r.gen = s.gen,
         \A s \in builds : \E r \in builds' : r.order = s.order /\ r.gen = s.gen
  PROVE  Entries' = Entries
  BY DEF Entries

LEMMA OwnRowStays ==
  ASSUME PInv, NEW g \in Gens, Past(g), RowsStay(num[g]), num'[g] = num[g]
  PROVE  /\ \E r \in builds' : r.order = num'[g] /\ r.gen = g
         /\ \A r \in builds' : r.order <= num'[g]
         /\ HasNumber(g) /\ AgesStay(num[g]) =>
              \A r \in builds' : r.order = num'[g] => ~r.old
<1>1. NewestIsOwn(g) /\ NotChosen(g)
  BY DEF PInv
<1>2. PICK s \in builds : s.order = num[g] /\ s.gen = g
  BY <1>1 DEF NewestIsOwn
<1>3. \E r \in builds' : r.order = num'[g] /\ r.gen = g
  BY <1>2 DEF RowsStay
<1>4. \A r \in builds' : r.order <= num'[g]
  BY <1>1 DEF RowsStay, NewestIsOwn
<1>5. HasNumber(g) /\ AgesStay(num[g]) => \A r \in builds' : r.order = num'[g] => ~r.old
  BY <1>1 DEF NotChosen, RowsAt, AgesStay
<1>6. QED
  BY <1>3, <1>4, <1>5

\* A step of one generation leaves the variables of the others alone.
LEMMA OthersKeep ==
  ASSUME TypeOK, NEW g \in Gens, NEW h \in Gens, h # g,
         \/ \E j \in Jobs : Start(g, j)
         \/ Work(g) \/ AcquireCancelled(g) \/ CrashGen(g)
  PROVE  /\ pc'[h] = pc[h] /\ num'[h] = num[h] /\ todo'[h] = todo[h]
         /\ committed'[h] = committed[h] /\ job'[h] = job[h]
<1> DEFINE Same == /\ pc'[h] = pc[h] /\ num'[h] = num[h] /\ todo'[h] = todo[h]
                   /\ committed'[h] = committed[h] /\ job'[h] = job[h]
<1> USE DEF TypeOK, PcOK, Goto, local, Procs, Pruners
<1>1. ASSUME NEW j \in Jobs, Start(g, j)
      PROVE  Same
  BY <1>1 DEF Start
<1>2. CASE Unlock(g) \/ CrashGen(g) \/ AcquireCancelled(g)
  BY <1>2 DEF Unlock, CrashGen, AcquireCancelled, Forget
<1>3. CASE AcquireLock(g) \/ ReserveSelect(g) \/ ReserveInsert(g) \/ ReserveConflict(g)
           \/ ReserveFails(g)
  BY <1>3 DEF AcquireLock, ReserveSelect, ReserveInsert, ReserveConflict, ReserveFails
<1>4. CASE Generate(g) \/ ResolveBranch(g) \/ PublishReport(g) \/ PublishFailsEarly(g)
  BY <1>4 DEF Generate, ResolveBranch, PublishReport, PublishFailsEarly, Fail
<1>5. CASE FillBuild(g) \/ SetLatest(g) \/ Rollback(g)
  BY <1>5 DEF FillBuild, SetLatest, Rollback
<1>6. CASE Prune(g)
  <2>1. PruneControl(g)
    BY <1>6, PruneSteps
  <2>2. pc'[h] = pc[h] /\ num'[h] = num[h]
    BY <2>1 DEF PruneControl
  <2>3. UNCHANGED <<job, committed>>
    BY <1>6 DEF Prune, CountSelect, CountDelete, CountDirs, AgeSelect, AgeDelete, AgeDirs,
                StaleSelect, StaleTx, StaleDone, StaleDirs, PruneDelete, PruneReportDirs
  <2>4. todo'[h] = todo[h]
    BY <1>6 DEF Prune, CountSelect, CountDelete, CountDirs, AgeSelect, AgeDelete, AgeDirs,
                StaleSelect, StaleTx, StaleDone, StaleDirs, PruneDelete, PruneReportDirs
  <2>5. QED
    BY <2>2, <2>3, <2>4
<1>7. QED
  BY <1>1, <1>2, <1>3, <1>4, <1>5, <1>6 DEF Work

\* One that is not in the section leaves the tables and the directories alone.
LEMMA OutsideKeeps ==
  ASSUME TypeOK, NEW g \in Gens, ~InSection(g),
         \/ \E j \in Jobs : Start(g, j)
         \/ Work(g) \/ AcquireCancelled(g) \/ CrashGen(g)
  PROVE  UNCHANGED <<builds, dirs>>
<1>1. pc[g] \in {"idle", "waiting"} \cup Terminal
  BY DEF InSection
<1>2. ~Prune(g)
  <2>1. ~PruneControl(g)
    BY <1>1 DEF PruneControl, PrunePc, Terminal
  <2>2. QED
    BY <2>1, PruneSteps DEF Pruners
<1>3. Work(g) => AcquireLock(g)
  BY <1>1, <1>2
  DEF Work, Terminal, Unlock, ReserveSelect, ReserveInsert, ReserveConflict, ReserveFails,
      Generate, ResolveBranch, PublishReport, PublishFailsEarly, FillBuild, SetLatest,
      Rollback
<1>4. QED
  BY <1>3 DEF AcquireLock, Start, AcquireCancelled, CrashGen, store

\* What the steps of others mean for a generation.
LEMMA OthersStep ==
  ASSUME PInv, NEW h \in Gens, TypeOK',
         pc'[h] = pc[h], num'[h] = num[h], todo'[h] = todo[h],
         committed'[h] = committed[h], job'[h] = job[h],
         InSection(h) => UNCHANGED <<builds, dirs>>
  PROVE  NewestIsOwn(h)' /\ NotChosen(h)' /\ ReportIsThere(h)'
<1>1. NewestIsOwn(h) /\ NotChosen(h) /\ ReportIsThere(h)
  BY DEF PInv
<1>2. /\ InSection(h)' <=> InSection(h)
      /\ HasNumber(h)' <=> HasNumber(h)
      /\ Past(h)' <=> Past(h)
  BY DEF InSection, HasNumber, Past
<1>3. CASE InSection(h)
  BY <1>1, <1>2, <1>3 DEF NewestIsOwn, NotChosen, ReportIsThere, RowsAt
<1>4. CASE ~InSection(h)
  <2>1. ~Past(h) /\ ~HasNumber(h) /\ pc[h] # "insert"
    BY <1>4 DEF Past, HasNumber, InSection, Terminal
  <2>2. QED
    BY <1>1, <1>2, <2>1 DEF NewestIsOwn, NotChosen, ReportIsThere
<1>5. QED
  BY <1>3, <1>4

\* Rows that are not touched, or deleted under other numbers, stay.
LEMMA QuietStay ==
  ASSUME NEW n, \/ UNCHANGED builds
                \/ \E S : n \notin S /\ builds' = DeleteOrders(S)
  PROVE  RowsStay(n) /\ AgesStay(n)
  BY DEF RowsStay, AgesStay, DeleteOrders

LEMMA FillStays ==
  ASSUME PInv, NEW g \in Gens, FillBuild(g)
  PROVE  RowsStay(num[g]) /\ AgesStay(num[g]) /\ Entries' = Entries
<1> DEFINE n == num[g]
<1>1. \A r \in builds : r \in Row
  BY DEF PInv, TypeOK
<1>2. PICK rows : /\ rows = RowsAt(n) \/ rows = WithBranch(RowsAt(n), bid[g])
                  /\ \/ builds' = DeleteOrders({n}) \cup rows
                     \/ builds' = DeleteOrders({n}) \cup WithCI(rows, job[g].ci)
  BY DEF FillBuild, MayFail
\* Each update keeps the columns in question, row by row.
<1> DEFINE Alike(R, S) ==
      /\ \A r \in R : \E s \in S : r.order = s.order /\ r.gen = s.gen /\ r.old = s.old
      /\ \A s \in S : \E r \in R : r.order = s.order /\ r.gen = s.gen /\ r.old = s.old
<1>3. Alike(rows, RowsAt(n)) /\ rows \subseteq Row
  <2> DEFINE W(r) == [r EXCEPT !.branch = bid[g]]
  <2>1. bid[g] \in branches => bid[g] \in Branches
    BY DEF PInv, TypeOK
  <2>2. ASSUME bid[g] \in Branches, NEW r \in RowsAt(n)
        PROVE  W(r) \in Row /\ W(r).order = r.order /\ W(r).gen = r.gen /\ W(r).old = r.old
    BY <1>1, <2>2 DEF RowsAt, Row
  <2>3. CASE rows = RowsAt(n)
    BY <1>1, <2>3 DEF RowsAt
  <2>4. CASE rows = WithBranch(RowsAt(n), bid[g]) /\ bid[g] \in branches
    <3>1. rows = {W(r) : r \in RowsAt(n)}
      BY <2>4 DEF WithBranch
    <3> HIDE DEF W
    <3>2. QED
      BY <2>1, <2>2, <2>4, <3>1
  <2>5. CASE rows = WithBranch(RowsAt(n), bid[g]) /\ bid[g] \notin branches
    BY <1>1, <2>5 DEF WithBranch, RowsAt
  <2>6. QED
    BY <1>2, <2>3, <2>4, <2>5
<1>4. ASSUME NEW c
      PROVE  Alike(WithCI(rows, c), rows)
  <2>1. \A r \in rows : /\ [r EXCEPT !.ci = c].order = r.order
                        /\ [r EXCEPT !.ci = c].gen = r.gen /\ [r EXCEPT !.ci = c].old = r.old
    BY <1>3 DEF Row
  <2>2. WithCI(rows, c) = {[r EXCEPT !.ci = c] : r \in rows}
    BY DEF WithCI
  <2>3. QED
    BY <2>1, <2>2
<1>5. PICK new : /\ builds' = DeleteOrders({n}) \cup new
                 /\ Alike(new, RowsAt(n))
  <2>1. CASE builds' = DeleteOrders({n}) \cup rows
    BY <1>3, <2>1
  <2>2. CASE builds' = DeleteOrders({n}) \cup WithCI(rows, job[g].ci)
    <3>1. Alike(WithCI(rows, job[g].ci), RowsAt(n))
      BY <1>3, <1>4
    <3>2. QED
      BY <2>2, <3>1
  <2>3. QED
    BY <1>2, <2>1, <2>2
<1>6. RowsStay(n) /\ AgesStay(n)
  BY <1>5 DEF RowsStay, AgesStay, DeleteOrders, RowsAt
<1>7. \A s \in builds : \E r \in builds' : r.order = s.order /\ r.gen = s.gen
  BY <1>5 DEF DeleteOrders, RowsAt
<1>8. QED
  BY <1>6, <1>7, EntriesStay DEF RowsStay

LEMMA LatestStays ==
  ASSUME PInv, NEW g \in Gens, SetLatest(g)
  PROVE  RowsStay(num[g]) /\ AgesStay(num[g]) /\ Entries' = Entries
<1>1. \A r \in builds : r \in Row
  BY DEF PInv, TypeOK
<1>2. CASE builds' = builds
  BY <1>2, QuietStay DEF Entries
<1>3. CASE builds' = SetLatestRows(num[g], LatestScope(g))
  <2> DEFINE W(r) == [r EXCEPT !.latest = \/ r.order = num[g]
                                          \/ r.latest /\ ~LatestCleared(r, LatestScope(g))]
  <2>1. builds' = {W(r) : r \in builds}
    BY <1>3 DEF SetLatestRows
  <2>2. \A r \in builds : W(r).order = r.order /\ W(r).gen = r.gen /\ W(r).old = r.old
    BY <1>1 DEF Row
  <2> HIDE DEF W
  <2>3. \A r \in builds' : \E s \in builds :
          r.order = s.order /\ r.gen = s.gen /\ r.old = s.old
    BY <2>1, <2>2
  <2>4. \A s \in builds : \E r \in builds' : r.order = s.order /\ r.gen = s.gen
    BY <2>1, <2>2
  <2>5. QED
    BY <2>3, <2>4, EntriesStay DEF RowsStay, AgesStay
<1>4. QED
  BY <1>2, <1>3 DEF SetLatest, MayFail

\* Deleting a branches row keeps the builds it spares.
LEMMA DropStays ==
  ASSUME TypeOK, NEW S \in SUBSET builds, NEW b, NEW n,
         \A s \in builds : s.order = n => s \in S,
         builds' = DropBranch(b, S)
  PROVE  RowsStay(n) /\ AgesStay(n)
<1> DEFINE W(r) == [r EXCEPT !.branch = IF @ = b THEN NoBranch ELSE @]
<1>1. \A r \in S : W(r).order = r.order /\ W(r).gen = r.gen /\ W(r).old = r.old
  BY DEF TypeOK, Row
<1>2. builds' = {W(r) : r \in S}
  BY DEF DropBranch
<1> HIDE DEF W
<1>3. /\ \A r \in builds' : \E s \in S :
           r.order = s.order /\ r.gen = s.gen /\ r.old = s.old
      /\ \A s \in S : \E r \in builds' : r.order = s.order /\ r.gen = s.gen
  BY <1>1, <1>2
<1>4. QED
  BY <1>3 DEF RowsStay, AgesStay

LEMMA AgingStays ==
  ASSUME TypeOK, NEW m \in Numbers, GrowOld(m), NEW n
  PROVE  RowsStay(n) /\ (m # n => AgesStay(n)) /\ Entries' = Entries
<1>1. builds' = DeleteOrders({m}) \cup {[r EXCEPT !.old = TRUE] : r \in RowsAt(m)}
  BY DEF GrowOld
<1>2. \A r \in builds : /\ [r EXCEPT !.old = TRUE].order = r.order
                        /\ [r EXCEPT !.old = TRUE].gen = r.gen
  BY DEF TypeOK, Row
<1>3. RowsStay(n) /\ (m # n => AgesStay(n))
  BY <1>1, <1>2 DEF RowsStay, AgesStay, DeleteOrders, RowsAt
<1>4. \A s \in builds : \E r \in builds' : r.order = s.order /\ r.gen = s.gen
  BY <1>1, <1>2 DEF DeleteOrders, RowsAt
<1>5. QED
  BY <1>3, <1>4, EntriesStay DEF RowsStay

\* Retention changes neither the job nor the commit flag.
LEMMA PruneLocals ==
  ASSUME NEW p, Prune(p)
  PROVE  UNCHANGED <<job, committed>>
  BY DEF Prune, CountSelect, CountDelete, CountDirs, AgeSelect, AgeDelete, AgeDirs,
         StaleSelect, StaleTx, StaleDone, StaleDirs, PruneDelete, PruneReportDirs, local

\* A retention step of the generation itself spares its row and its directory:
\* the row is the newest of its scope, so no count reaches it, and not old, so no
\* cutoff does.
LEMMA PruneSpares ==
  ASSUME PInv, NEW g \in Gens, Prune(g)
  PROVE  /\ RowsStay(num[g]) /\ AgesStay(num[g])
         /\ num[g] \notin todo'[g]
         /\ g \in dirs[num[g]] => g \in dirs'[num[g]]
<1> DEFINE n == num[g]
           Spared == /\ RowsStay(n) /\ AgesStay(n)
                     /\ n \notin todo'[g]
                     /\ g \in dirs[n] => g \in dirs'[n]
<1>1. TypeOK /\ NewestIsOwn(g) /\ NotChosen(g)
  BY DEF PInv
<1>2. HasNumber(g)
  BY PruneSteps DEF PruneControl, PrunePc, Pruners, HasNumber, InSection, Terminal
<1>3. /\ n \in Numbers /\ n \notin todo[g]
      /\ \A r \in builds : r.order <= n
      /\ \A r \in builds : r.order = n => ~r.old
  BY <1>1, <1>2 DEF NewestIsOwn, NotChosen, Past, RowsAt, TypeOK
<1>4. g \in DOMAIN todo
  BY <1>1 DEF TypeOK, Pruners
<1> SUFFICES Spared
  OBVIOUS
<1> HIDE DEF n
<1>5. ASSUME UNCHANGED <<builds, dirs>>, n \notin todo'[g]
      PROVE  Spared
  BY <1>5, QuietStay
<1>6. CASE CountSelect(g)
  <2>1. Keep > 0 => n \notin BeyondKeep(ScopeRows(PruneScope(g)))
    <3> DEFINE rows == ScopeRows(PruneScope(g))
    <3>1. SUFFICES ASSUME Keep > 0, n \in BeyondKeep(rows)
                   PROVE  FALSE
      OBVIOUS
    <3>2. PICK r \in rows : r.order = n /\ Cardinality({s \in rows : s.order > r.order}) >= Keep
      BY <3>1 DEF BeyondKeep, Orders
    <3>3. rows \subseteq builds
      BY DEF ScopeRows
    <3>4. \A s \in rows : s.order \in Int /\ n \in Int
      BY <1>1, <1>3, <3>3 DEF TypeOK, Row, Numbers
    <3>5. {s \in rows : s.order > r.order} = {}
      BY <1>3, <3>2, <3>3, <3>4
    <3>6. QED
      BY <3>1, <3>2, <3>5, FS_EmptySet
  <2>2. n \notin todo'[g]
    BY <1>3, <1>4, <1>6, <2>1 DEF CountSelect
  <2>3. QED
    BY <1>5, <1>6, <2>2 DEF CountSelect, store
<1>7. CASE AgeSelect(g)
  <2>1. n \notin Orders({r \in builds : r.old /\ ~r.latest})
    BY <1>3 DEF Orders
  <2>2. n \notin todo'[g]
    BY <1>3, <1>4, <1>7, <2>1 DEF AgeSelect
  <2>3. QED
    BY <1>5, <1>7, <2>2 DEF AgeSelect, store
<1>8. CASE CountDelete(g) \/ AgeDelete(g)
  <2>1. /\ UNCHANGED builds \/ builds' = DeleteOrders(todo[g])
        /\ dirs' = dirs
        /\ todo' = todo \/ todo' = [todo EXCEPT ![g] = {}]
    BY <1>8 DEF CountDelete, AgeDelete, PruneDelete
  <2>2. RowsStay(n) /\ AgesStay(n)
    BY <1>3, <2>1, QuietStay
  <2>3. QED
    BY <1>3, <1>4, <2>1, <2>2
<1>9. CASE CountDirs(g) \/ AgeDirs(g) \/ StaleDirs(g)
  <2>1. /\ builds' = builds
        /\ todo' = [todo EXCEPT ![g] = {}]
        /\ \E gone \in SUBSET todo[g] :
             dirs' = [m \in Numbers |-> IF m \in gone THEN {} ELSE dirs[m]]
    BY <1>9 DEF CountDirs, AgeDirs, StaleDirs, PruneReportDirs
  <2>2. dirs'[n] = dirs[n]
    BY <1>3, <2>1
  <2>3. QED
    BY <1>4, <2>1, <2>2, QuietStay
<1>10. CASE StaleTx(g)
  <2>1. PICK b \in names[g] :
          /\ \/ builds' = builds
             \/ builds' = builds \ StaleRows(b)
             \/ builds' = DropBranch(b, builds \ StaleRows(b))
          /\ todo' = todo \/ todo' = [todo EXCEPT ![g] = @ \cup Orders(StaleRows(b))]
          /\ dirs' = dirs
    BY <1>10 DEF StaleTx
  <2>2. \A r \in builds : r.order = n => r \notin StaleRows(b)
    BY <1>3 DEF StaleRows
  <2>3. n \notin Orders(StaleRows(b))
    BY <2>2 DEF Orders, StaleRows
  <2>4. n \notin todo'[g]
    BY <1>3, <1>4, <2>1, <2>3
  <2>5. CASE builds' = builds
    BY <1>5, <2>1, <2>4, <2>5
  <2>6. CASE builds' = builds \ StaleRows(b)
    <3>1. RowsStay(n) /\ AgesStay(n)
      BY <2>2, <2>6 DEF RowsStay, AgesStay
    <3>2. QED
      BY <2>1, <2>4, <3>1
  <2>7. CASE builds' = DropBranch(b, builds \ StaleRows(b))
    <3>1. RowsStay(n) /\ AgesStay(n)
      <4>1. builds \ StaleRows(b) \in SUBSET builds
        OBVIOUS
      <4>2. \A s \in builds : s.order = n => s \in builds \ StaleRows(b)
        BY <2>2
      <4>3. QED
        BY <1>1, <2>7, <4>1, <4>2, DropStays
    <3>2. QED
      BY <2>1, <2>4, <3>1
  <2>8. QED
    BY <2>1, <2>5, <2>6, <2>7
<1>11. CASE StaleSelect(g) \/ StaleDone(g)
  BY <1>3, <1>5, <1>11 DEF StaleSelect, StaleDone, store, local
<1>12. QED
  BY <1>6, <1>7, <1>8, <1>9, <1>10, <1>11 DEF Prune

\* The generation goes on with its number.
LEMMA GoesOn ==
  ASSUME PInv, NEW g \in Gens, HasNumber(g), num'[g] = num[g],
         RowsStay(num[g]), AgesStay(num[g]), num[g] \notin todo'[g],
         pc'[g] \notin {"idle", "waiting", "reserve", "insert"}
  PROVE  NewestIsOwn(g)' /\ NotChosen(g)'
<1>1. /\ \E r \in builds' : r.order = num'[g] /\ r.gen = g
      /\ \A r \in builds' : r.order <= num'[g]
      /\ \A r \in builds' : r.order = num'[g] => ~r.old
  BY OwnRowStays DEF Past
<1>2. QED
  BY <1>1 DEF NewestIsOwn, NotChosen, RowsAt

LEMMA OwnStep ==
  ASSUME PInv, TypeOK', NEW g \in Gens,
         \/ \E j \in Jobs : Start(g, j)
         \/ Work(g) \/ AcquireCancelled(g) \/ CrashGen(g)
  PROVE  NewestIsOwn(g)' /\ NotChosen(g)' /\ ReportIsThere(g)'
<1> DEFINE OK == NewestIsOwn(g)' /\ NotChosen(g)' /\ ReportIsThere(g)'
<1>a. /\ TypeOK /\ Phase
      /\ NewestIsOwn(g) /\ NotChosen(g) /\ ReportIsThere(g)
  BY DEF PInv
<1>b. /\ pc \in [Procs -> GenPc \cup PrunePc \cup AdminPc \cup SyncPc] /\ g \in Procs
      /\ g \in DOMAIN num /\ g \in DOMAIN todo /\ g \in DOMAIN committed
      /\ job[g].kind \in AllKinds
  BY <1>a DEF TypeOK, PcOK, Procs, Pruners
\* Without a number there is little to keep.
<1>1. ASSUME pc'[g] \in Terminal \cup {"waiting", "reserve", "release"},
             pc'[g] = "release" => ~committed'[g],
             pc'[g] \in {"waiting", "reserve"} => todo'[g] = {}
      PROVE  OK
  <2>1. ~Past(g)' /\ ~HasNumber(g)' /\ pc'[g] # "insert" /\ pc'[g] # "idle"
    BY <1>1 DEF Past, HasNumber, InSection, Terminal
  <2>2. QED
    BY <1>1, <2>1 DEF NewestIsOwn, NotChosen, ReportIsThere, Terminal
<1>2. ASSUME NEW j \in Jobs, Start(g, j)
      PROVE  OK
  <2>1. pc[g] = "idle" /\ pc'[g] = "waiting" /\ todo' = todo
    BY <1>2, <1>b DEF Start, Goto
  <2>2. QED
    BY <1>1, <1>a, <2>1 DEF NotChosen
<1>3. CASE AcquireLock(g) \/ ReserveConflict(g)
  <2>1. pc[g] \in {"waiting", "insert"} /\ pc'[g] = "reserve" /\ todo' = todo
    BY <1>3, <1>b DEF AcquireLock, ReserveConflict, Goto, local
  <2>2. QED
    BY <1>1, <1>a, <2>1 DEF NotChosen
<1>4. CASE AcquireCancelled(g) \/ Unlock(g) \/ CrashGen(g)
  <2>1. pc'[g] \in Terminal
    BY <1>4, <1>b DEF AcquireCancelled, Unlock, CrashGen, Goto, Terminal
  <2>2. QED
    BY <1>1, <2>1 DEF Terminal
<1>5. CASE ReserveFails(g)
  <2>1. pc[g] \in {"reserve", "insert"} /\ pc'[g] = "release" /\ committed' = committed
    BY <1>5, <1>b DEF ReserveFails, Goto
  <2>2. QED
    BY <1>1, <1>a, <2>1 DEF Phase
<1>6. CASE ReserveSelect(g)
  <2>1. /\ pc[g] = "reserve" /\ pc'[g] = "insert" /\ todo' = todo /\ builds' = builds
        /\ \E n \in Numbers : IsNextOrder(n) /\ num'[g] = n
    BY <1>6, <1>b DEF ReserveSelect, Goto, store
  <2>2. \A r \in builds' : r.order < num'[g]
    BY <2>1 DEF IsNextOrder
  <2>3. todo'[g] = {}
    BY <1>a, <2>1 DEF NotChosen
  <2>4. ~Past(g)' /\ ~HasNumber(g)'
    BY <2>1 DEF Past, HasNumber
  <2>5. QED
    BY <2>2, <2>3, <2>4 DEF NewestIsOwn, NotChosen, ReportIsThere
<1>7. CASE ReserveInsert(g)
  <2>1. /\ pc[g] = "insert" /\ pc'[g] = "generate" /\ todo' = todo
        /\ num' = num /\ committed' = committed
        /\ builds' = builds \cup {NewRow(num[g], g)}
    BY <1>7, <1>b DEF ReserveInsert, Goto, local
  <2>2. \A r \in builds : r.order < num[g] /\ r.order \in Int /\ num[g] \in Int
    BY <1>a, <2>1 DEF NewestIsOwn, TypeOK, Row, Numbers
  <2>3. /\ NewRow(num[g], g).order = num[g] /\ NewRow(num[g], g).gen = g
        /\ ~NewRow(num[g], g).old
    BY DEF NewRow
  <2>4. num[g] \in Int
    BY <1>a, <2>1 DEF TypeOK, Numbers
  <2>5. NewestIsOwn(g)'
    BY <2>1, <2>2, <2>3, <2>4 DEF NewestIsOwn
  <2>6. NotChosen(g)'
    <3>1. todo[g] = {}
      BY <1>a, <2>1 DEF NotChosen
    <3>2. \A r \in builds' : r.order = num[g] => ~r.old
      BY <2>1, <2>2, <2>3
    <3>3. QED
      BY <2>1, <3>1, <3>2 DEF NotChosen, RowsAt
  <2>7. ReportIsThere(g)'
    BY <1>a, <2>1 DEF ReportIsThere, Phase
  <2>8. QED
    BY <2>5, <2>6, <2>7
\* With one, the row stays and the number is not chosen.
<1>8. ASSUME HasNumber(g), num'[g] = num[g], todo'[g] = todo[g], job'[g] = job[g],
             RowsStay(num[g]), AgesStay(num[g]),
             pc'[g] \notin {"idle", "waiting", "reserve", "insert"},
             \/ committed'[g] \/ pc'[g] \in {"fill", "latest"}
             => \/ job[g].kind # "allure" \/ g \in dirs'[num[g]]
      PROVE  OK
  <2>1. num[g] \notin todo'[g]
    BY <1>8, <1>a DEF NotChosen
  <2>2. QED
    BY <1>8, <2>1, GoesOn DEF ReportIsThere
<1>9. CASE Generate(g)
  <2>1. /\ pc[g] = "generate" /\ pc'[g] \in {"publish", "resolve", "rollback"}
        /\ UNCHANGED <<builds, num, todo, job, committed>>
    BY <1>9, <1>b DEF Generate, AfterGenerate, Fail, Goto, store
  <2>2. HasNumber(g) /\ ~committed[g] /\ RowsStay(num[g]) /\ AgesStay(num[g])
    BY <1>a, <2>1, QuietStay DEF HasNumber, InSection, Terminal, Phase
  <2>3. QED
    BY <1>8, <2>1, <2>2
<1>10. CASE ResolveBranch(g)
  <2>1. /\ pc[g] = "resolve" /\ pc'[g] = AfterResolve(g)
        /\ UNCHANGED <<builds, num, todo, job, committed>>
    BY <1>10, <1>b DEF ResolveBranch, Goto
  <2>2. HasNumber(g) /\ ~committed[g] /\ RowsStay(num[g]) /\ AgesStay(num[g])
    BY <1>a, <2>1, QuietStay DEF HasNumber, InSection, Terminal, Phase
  <2>3. /\ AfterResolve(g) \in {"fill", "rollback", "latest", "publish"}
        /\ AfterResolve(g) \in {"fill", "latest"} => job[g].kind # "allure"
    BY <1>b DEF AfterResolve, AllKinds
  <2>4. QED
    BY <1>8, <2>1, <2>2, <2>3
<1>11. CASE PublishReport(g) \/ PublishFailsEarly(g)
  <2>1. /\ pc[g] = "publish" /\ pc'[g] \in {AfterPublish(g), "rollback"}
        /\ UNCHANGED <<builds, num, todo, job, committed>>
    BY <1>11, <1>b DEF PublishReport, PublishFailsEarly, Fail, Goto, store
  <2>2. HasNumber(g) /\ ~committed[g] /\ RowsStay(num[g]) /\ AgesStay(num[g])
    BY <1>a, <2>1, QuietStay DEF HasNumber, InSection, Terminal, Phase
  <2>3. /\ AfterPublish(g) \in {"resolve", "fill"}
        /\ pc'[g] = "fill" => job[g].kind # "playwright" /\ PublishReport(g)
    <3>1. PublishFailsEarly(g) => pc'[g] = "rollback"
      BY <1>b DEF PublishFailsEarly, Fail, Goto
    <3>2. AfterPublish(g) = IF job[g].kind = "playwright" THEN "resolve" ELSE "fill"
      BY DEF AfterPublish
    <3>3. QED
      BY <1>11, <2>1, <3>1, <3>2
  <2>4. pc'[g] = "fill" => g \in dirs'[num[g]]
    <3>1. num[g] \in Numbers /\ dirs \in [Numbers -> SUBSET Gens]
      BY <1>a, <2>2 DEF TypeOK
    <3>2. QED
      BY <2>3, <3>1 DEF PublishReport
  <2>5. QED
    BY <1>8, <2>1, <2>2, <2>3, <2>4
<1>12. CASE FillBuild(g)
  <2>1. /\ pc[g] = "fill" /\ pc'[g] = "latest"
        /\ UNCHANGED <<dirs, num, todo, job, committed>>
    BY <1>12, <1>b DEF FillBuild, Goto, local
  <2>2. HasNumber(g) /\ RowsStay(num[g]) /\ AgesStay(num[g])
    BY <1>12, <2>1, FillStays DEF HasNumber, InSection, Terminal
  <2>3. job[g].kind = "allure" => g \in dirs[num[g]]
    BY <1>a, <2>1, <2>2 DEF ReportIsThere, Past
  <2>4. QED
    BY <1>8, <2>1, <2>2, <2>3
<1>13. CASE SetLatest(g)
  <2>1. /\ pc[g] = "latest" /\ pc'[g] \in {"count_sel", "rollback"}
        /\ UNCHANGED <<dirs, num, todo, job>>
    BY <1>13, <1>b DEF SetLatest, Goto
  <2>2. HasNumber(g) /\ RowsStay(num[g]) /\ AgesStay(num[g])
    BY <1>13, <2>1, LatestStays DEF HasNumber, InSection, Terminal
  <2>3. job[g].kind = "allure" => g \in dirs[num[g]]
    BY <1>a, <2>1, <2>2 DEF ReportIsThere, Past
  <2>4. QED
    BY <1>8, <2>1, <2>2, <2>3
<1>14. CASE Rollback(g)
  <2>1. /\ pc[g] = "rollback" /\ pc'[g] = "release"
        /\ UNCHANGED <<dirs, num, todo, job, committed>>
    BY <1>14, <1>b DEF Rollback, Goto, local
  <2>2. CASE ~committed[g]
    BY <1>1, <2>1, <2>2
  <2>3. CASE committed[g]
    <3>1. builds' = builds
      BY <1>14, <2>3 DEF Rollback, RolledBack, MayFail, DeleteOrders
    <3>2. HasNumber(g) /\ RowsStay(num[g]) /\ AgesStay(num[g])
      BY <2>1, <3>1, QuietStay DEF HasNumber, InSection, Terminal
    <3>3. job[g].kind = "allure" => g \in dirs[num[g]]
      BY <1>a, <2>3, <3>2 DEF ReportIsThere, Past
    <3>4. QED
      BY <1>8, <2>1, <3>2, <3>3
  <2>4. QED
    BY <2>2, <2>3
<1>15. CASE Prune(g)
  <2>1. PruneControl(g)
    BY <1>15, PruneSteps DEF Pruners
  <2>2. /\ pc[g] \in PrunePc /\ HasNumber(g) /\ num' = num
        /\ pc'[g] \in PrunePc \cup {"rollback"}
    BY <2>1, <1>b DEF PruneControl, PrunePc, HasNumber, InSection, Terminal, Goto
  <2>3. UNCHANGED <<job, committed>>
    BY <1>15, PruneLocals
  <2>4. /\ RowsStay(num[g]) /\ AgesStay(num[g])
        /\ num[g] \notin todo'[g]
        /\ g \in dirs[num[g]] => g \in dirs'[num[g]]
    BY <1>15, PruneSpares
  <2>5. NewestIsOwn(g)' /\ NotChosen(g)'
    BY <2>2, <2>4, GoesOn DEF PrunePc
  <2>6. ReportIsThere(g)'
    BY <1>a, <2>2, <2>3, <2>4 DEF ReportIsThere, Past, PrunePc
  <2>7. QED
    BY <2>5, <2>6
<1> HIDE DEF OK
<1>16. QED
  BY <1>2, <1>3, <1>4, <1>5, <1>6, <1>7, <1>9, <1>10, <1>11, <1>12, <1>13, <1>14, <1>15
  DEF Work, OK

\* The processes without the lock do not start by themselves.
LEMMA AloneStep ==
  ASSUME PInv, Unlocked = {}, Next
  PROVE  /\ Alone'
         /\ \/ \E g \in Gens : \/ \E j \in Jobs : Start(g, j)
                               \/ Work(g) \/ AcquireCancelled(g) \/ CrashGen(g)
            \/ \E g \in Gens : LoseSession(g)
            \/ \E n \in Numbers : GrowOld(n)
<1>a. TypeOK /\ Alone
  BY DEF PInv
<1> DEFINE Mine == \E g \in Gens : \/ \E j \in Jobs : Start(g, j)
                                   \/ Work(g) \/ AcquireCancelled(g) \/ CrashGen(g)
           Rest == (\E g \in Gens : LoseSession(g)) \/ \E n \in Numbers : GrowOld(n)
<1>1. ~Prune(Sweep)
  <2>1. ~PruneControl(Sweep)
    BY <1>a DEF PruneControl, PrunePc, Alone
  <2>2. QED
    BY <2>1, PruneSteps DEF Pruners
<1>2. OtherStep => \E n \in Numbers : GrowOld(n)
  BY <1>a DEF OtherStep, Alone, SweepStart, DeleteOrphanBranches, DeleteReport,
              DeleteReportRunner, DeleteReportHandler, DeleteReportRow, CleanHistory,
              DeleteAllBuilds, Regenerate, SetDefault, DeleteBranchCheck, DeleteBranchRow,
              SyncList, SyncSubtract, SyncInsert, CrashSweep
<1>3. Mine \/ Rest
  BY <1>1, <1>2, NextCases
<1>4. ASSUME NEW g \in Gens,
             \/ \E j \in Jobs : Start(g, j)
             \/ Work(g) \/ AcquireCancelled(g) \/ CrashGen(g)
      PROVE  pc'[Sweep] = pc[Sweep] /\ pc'[Admin] = pc[Admin] /\ pc'[Syncer] = pc[Syncer]
  <2> USE DEF TypeOK, PcOK, Goto, Procs
  <2>1. CASE Prune(g)
    BY <1>a, <2>1, PruneSteps DEF PruneControl, Pruners
  <2>2. CASE ~Prune(g)
    <3>1. \E l : Goto(g, l)
      BY <1>4, <2>2 DEF Start, Work, AcquireCancelled, CrashGen, AcquireLock, Unlock,
           ReserveSelect, ReserveInsert, ReserveConflict, ReserveFails, Generate,
           ResolveBranch, PublishReport, PublishFailsEarly, FillBuild, SetLatest,
           Rollback, Fail
    <3>2. QED
      BY <1>a, <3>1
  <2>3. QED
    BY <2>1, <2>2
<1>5. Rest => pc' = pc
  BY DEF LoseSession, GrowOld
<1>6. Mine => Alone'
  BY <1>a, <1>4 DEF Alone
<1>7. Rest => Alone'
  BY <1>a, <1>5 DEF Alone
<1>8. QED
  BY <1>3, <1>6, <1>7

LEMMA PInvStep ==
  ASSUME PInv, ~SessionLoss, Unlocked = {}, [Next]_vars
  PROVE  PInv'
<1> DEFINE Mine(g) == \/ \E j \in Jobs : Start(g, j)
                      \/ Work(g) \/ AcquireCancelled(g) \/ CrashGen(g)
           OK(h) == NewestIsOwn(h) /\ NotChosen(h) /\ ReportIsThere(h)
<1>1. TypeOK' /\ LockHeld' /\ Phase'
  BY TypeStep, LockStep, PhaseStep DEF PInv
<1>2. CASE UNCHANGED vars
  <2>1. Alone'
    BY <1>2 DEF PInv, Alone, vars
  <2>2. ASSUME NEW h \in Gens
        PROVE  OK(h)'
    BY <1>1, <1>2, OthersStep DEF vars
  <2>3. QED
    BY <1>1, <2>1, <2>2 DEF PInv
<1>3. CASE Next
  <2>1. /\ Alone'
        /\ \/ \E g \in Gens : Mine(g)
           \/ \E n \in Numbers : GrowOld(n)
    BY <1>3, AloneStep DEF LoseSession
  <2>2. ASSUME NEW g \in Gens, Mine(g), NEW h \in Gens
        PROVE  OK(h)'
    <3>1. CASE h = g
      BY <1>1, <2>2, <3>1, OwnStep
    <3>2. CASE h # g
      <4>1. /\ pc'[h] = pc[h] /\ num'[h] = num[h] /\ todo'[h] = todo[h]
            /\ committed'[h] = committed[h] /\ job'[h] = job[h]
        BY <2>2, <3>2, OthersKeep DEF PInv
      <4>2. InSection(h) => ~InSection(g)
        BY <3>2 DEF PInv, LockHeld
      <4>3. InSection(h) => UNCHANGED <<builds, dirs>>
        BY <2>2, <4>2, OutsideKeeps DEF PInv
      <4>4. QED
        BY <1>1, <4>1, <4>3, OthersStep
    <3>3. QED
      BY <3>1, <3>2
  <2>3. ASSUME NEW n \in Numbers, GrowOld(n), NEW h \in Gens
        PROVE  OK(h)'
    <3>a. TypeOK /\ NewestIsOwn(h) /\ NotChosen(h) /\ ReportIsThere(h)
      BY DEF PInv
    <3>1. /\ UNCHANGED <<pc, num, todo, committed, job, dirs>>
          /\ HasNumber(h) => n # num[h]
      BY <2>3 DEF GrowOld, local
    <3>2. /\ HasNumber(h)' <=> HasNumber(h)
          /\ Past(h)' <=> Past(h)
      BY <3>1 DEF HasNumber, InSection, Past
    <3>3. RowsStay(num[h]) /\ (HasNumber(h) => AgesStay(num[h]))
      BY <2>3, <3>a, <3>1, AgingStays
    <3>4. pc'[h] = "insert" => \A r \in builds' : r.order < num'[h]
      BY <3>a, <3>1, <3>3 DEF NewestIsOwn, RowsStay
    <3>5. Past(h) => /\ \E r \in builds' : r.order = num'[h] /\ r.gen = h
                     /\ \A r \in builds' : r.order <= num'[h]
      BY <3>1, <3>3, OwnRowStays
    <3>6. HasNumber(h) => \A r \in builds' : r.order = num'[h] => ~r.old
      BY <3>1, <3>3, OwnRowStays DEF Past
    <3>7. NewestIsOwn(h)'
      BY <3>2, <3>4, <3>5 DEF NewestIsOwn
    <3>8. NotChosen(h)'
      BY <3>a, <3>1, <3>2, <3>6 DEF NotChosen, RowsAt
    <3>9. ReportIsThere(h)'
      BY <3>a, <3>1, <3>2 DEF ReportIsThere
    <3>10. QED
      BY <3>7, <3>8, <3>9
  <2>4. QED
    BY <1>1, <2>1, <2>2, <2>3 DEF PInv
<1>4. QED
  BY <1>2, <1>3

LEMMA PInvInit == Init => PInv
<1> SUFFICES ASSUME Init PROVE PInv
  OBVIOUS
<1>1. TypeOK /\ LockHeld /\ Phase
  BY LInvInit DEF LInv
<1>2. Alone
  BY DEF Init, Alone, Procs
<1>3. \A g \in Gens : pc[g] = "idle" /\ todo[g] = {}
  BY DEF Init, Procs, Pruners
<1>4. \A g \in Gens : NewestIsOwn(g) /\ NotChosen(g) /\ ReportIsThere(g)
  BY <1>3 DEF NewestIsOwn, NotChosen, ReportIsThere, Past, HasNumber, InSection
<1>5. QED
  BY <1>1, <1>2, <1>4 DEF PInv

\* Retention under the lock (KeepLatestHistory, IngestReport): while the sweep,
\* the administrator's requests and SyncMetadata rest, a generation that has
\* committed its build keeps the row and the report to its end, for any history
\* of builds, crashes and failed statements and any retention limits.
THEOREM CommittedBuildsStay ==
  ASSUME ~SessionLoss, Unlocked = {}
  PROVE  Spec => []PublishedKept
<1>1. PInv => PublishedKept
  <2> SUFFICES ASSUME PInv, NEW g \in Gens, InSection(g), committed[g]
               PROVE  /\ \E r \in builds : r.order = num[g] /\ r.gen = g
                      /\ job[g].kind = "allure" => g \in dirs[num[g]]
    BY DEF PublishedKept
  <2>1. Past(g)
    BY DEF PInv, Phase, Past, HasNumber, InSection
  <2>2. QED
    BY <2>1 DEF PInv, NewestIsOwn, ReportIsThere
<1>2. PInv /\ [Next]_vars => PInv'
  BY PInvStep
<1>3. QED
  BY PInvInit, <1>1, <1>2, PTL DEF Spec

-----------------------------------------------------------------------------
(* The stale-branch prune.                                                 *)

\* A stale name is taken off its list by the transaction that handles it, or
\* with its process; nothing else deletes rows then.
LEMMA StaleNamesStep ==
  ASSUME TypeOK, Next, NEW p \in Pruners, pc[p] = "stale_tx", names'[p] # names[p]
  PROVE  StaleTx(p) \/ UNCHANGED builds
<1> USE DEF TypeOK, PcOK, Goto, local, store, Procs, Pruners
<1>1. ASSUME NEW g \in Gens,
             \/ \E j \in Jobs : Start(g, j)
             \/ AcquireLock(g) \/ ReserveSelect(g) \/ ReserveInsert(g) \/ ReserveConflict(g)
             \/ ReserveFails(g) \/ LoseSession(g) \/ Generate(g) \/ ResolveBranch(g)
             \/ PublishReport(g) \/ PublishFailsEarly(g) \/ FillBuild(g) \/ SetLatest(g)
             \/ Rollback(g)
      PROVE  FALSE
  BY <1>1 DEF Start, AcquireLock, ReserveSelect, ReserveInsert, ReserveConflict,
              ReserveFails, LoseSession, Generate, ResolveBranch, PublishReport,
              PublishFailsEarly, FillBuild, SetLatest, Rollback, Fail
<1>2. ASSUME NEW g \in Gens, Unlock(g) \/ CrashGen(g) \/ AcquireCancelled(g)
      PROVE  UNCHANGED builds
  BY <1>2 DEF Unlock, CrashGen, AcquireCancelled
<1>3. ASSUME NEW q \in Pruners, Prune(q)
      PROVE  StaleTx(p) \/ UNCHANGED builds
  <2>1. CASE StaleSelect(q)
    BY <2>1 DEF StaleSelect
  <2>2. CASE StaleTx(q)
    BY <2>2 DEF StaleTx
  <2>3. CASE ~(StaleSelect(q) \/ StaleTx(q))
    BY <1>3, <2>3 DEF Prune, CountSelect, CountDelete, CountDirs, AgeSelect, AgeDelete,
                      AgeDirs, StaleDone, StaleDirs, PruneDelete, PruneReportDirs
  <2>4. QED
    BY <2>1, <2>2, <2>3
<1>4. CASE OtherStep
  <2>1. CASE CrashSweep
    BY <2>1 DEF CrashSweep
  <2>2. ASSUME NEW b \in Branches, DeleteBranchCheck(b)
        PROVE  UNCHANGED builds
    BY <2>2 DEF DeleteBranchCheck
  <2>3. CASE DeleteBranchRow
    BY <2>3 DEF DeleteBranchRow
  <2>4. CASE OtherStep /\ ~CrashSweep /\ ~DeleteBranchRow
             /\ ~\E b \in Branches : DeleteBranchCheck(b)
    BY <2>4 DEF OtherStep, SweepStart, DeleteOrphanBranches, DeleteReport, GrowOld,
                DeleteReportRunner, DeleteReportHandler, DeleteReportRow, CleanHistory,
                DeleteAllBuilds, Regenerate, SetDefault, SyncList, SyncSubtract, SyncInsert
  <2>5. QED
    BY <1>4, <2>1, <2>2, <2>3, <2>4
<1>5. QED
  BY <1>1, <1>2, <1>3, <1>4, NextCases DEF Work

\* PruneStaleBranches: whatever happens to the builds and to the default branch
\* after the names were read, no build newer than the cutoff and none of the
\* default branch goes with a stale name.
THEOREM StaleIsRechecked == Spec => StaleRechecked
<1> DEFINE Rechecked ==
      \A p \in Pruners :
        pc[p] = "stale_tx" /\ names'[p] # names[p] =>
          \A r \in builds : ~r.old \/ r.ci = dflt => r.order \in Orders(builds')
<1>1. TypeOK /\ [Next]_vars => [Rechecked]_vars
  <2> SUFFICES ASSUME TypeOK, Next,
                      NEW p \in Pruners, pc[p] = "stale_tx", names'[p] # names[p],
                      NEW r \in builds, ~r.old \/ r.ci = dflt
               PROVE  r.order \in Orders(builds')
    OBVIOUS
  <2>1. CASE UNCHANGED builds
    BY <2>1 DEF Orders
  <2>2. CASE StaleTx(p)
    <3>1. PICK b \in names[p] : \/ builds' = builds
                              \/ builds' = builds \ StaleRows(b)
                              \/ builds' = DropBranch(b, builds \ StaleRows(b))
      BY <2>2 DEF StaleTx
    <3>2. r \in builds \ StaleRows(b)
      BY DEF StaleRows
    <3>3. CASE builds' = DropBranch(b, builds \ StaleRows(b))
      <4> DEFINE W(q) == [q EXCEPT !.branch = IF @ = b THEN NoBranch ELSE @]
      <4>1. W(r) \in builds'
        BY <3>2, <3>3 DEF DropBranch
      <4>2. W(r).order = r.order
        BY DEF TypeOK, Row
      <4> HIDE DEF W
      <4>3. QED
        BY <4>1, <4>2 DEF Orders
    <3>4. QED
      BY <2>1, <3>1, <3>2, <3>3 DEF Orders
  <2>3. QED
    BY <2>1, <2>2, StaleNamesStep
<1>2. QED
  BY TypeCorrect, <1>1, PTL DEF Spec, StaleRechecked

-----------------------------------------------------------------------------
(* The latest build and retention.                                         *)

\* A generation that is past SetLatest has the build that is marked latest.
LatestMarked(g) ==
  /\ pc[g] \in PrunePc => committed[g]
  /\ HasNumber(g) /\ committed[g] => \A r \in RowsAt(num[g]) : r.latest

MInv == PInv /\ \A g \in Gens : LatestMarked(g)

\* Its row is not unmarked.
MarkStays(n) ==
  \A r \in builds' : r.order = n => \E s \in builds : s.order = n /\ (s.latest => r.latest)

\* A retention step takes rows away and the branch of others, never the mark.
LEMMA PruneKeepsMark ==
  ASSUME TypeOK, NEW g \in Gens, Prune(g), NEW n
  PROVE  MarkStays(n)
<1>1. CASE builds' \subseteq builds
  BY <1>1 DEF MarkStays
<1>2. ASSUME NEW b, NEW S \in SUBSET builds, builds' = DropBranch(b, S)
      PROVE  MarkStays(n)
  <2> DEFINE W(r) == [r EXCEPT !.branch = IF @ = b THEN NoBranch ELSE @]
  <2>1. \A r \in S : W(r).order = r.order /\ W(r).latest = r.latest
    BY DEF TypeOK, Row
  <2>2. builds' = {W(r) : r \in S}
    BY <1>2 DEF DropBranch
  <2> HIDE DEF W
  <2>3. QED
    BY <2>1, <2>2 DEF MarkStays
<1>3. CASE StaleTx(g)
  <2>1. PICK b \in names[g] : \/ builds' \subseteq builds
                            \/ builds' = DropBranch(b, builds \ StaleRows(b))
    BY <1>3 DEF StaleTx
  <2>2. builds \ StaleRows(b) \in SUBSET builds
    OBVIOUS
  <2>3. QED
    BY <1>1, <1>2, <2>1, <2>2
<1>4. CASE ~StaleTx(g)
  <2>1. builds' \subseteq builds
    BY <1>4 DEF Prune, CountSelect, CountDelete, CountDirs, AgeSelect, AgeDelete, AgeDirs,
                StaleSelect, StaleDone, StaleDirs, PruneDelete, PruneReportDirs, store,
                DeleteOrders
  <2>2. QED
    BY <1>1, <2>1
<1>5. QED
  BY <1>3, <1>4

LEMMA MarkedOwnStep ==
  ASSUME PInv, ~Faults, NEW g \in Gens, LatestMarked(g),
         \/ \E j \in Jobs : Start(g, j)
         \/ Work(g) \/ AcquireCancelled(g) \/ CrashGen(g)
  PROVE  LatestMarked(g)'
<1>a. TypeOK /\ Phase
  BY DEF PInv
<1>b. /\ pc \in [Procs -> GenPc \cup PrunePc \cup AdminPc \cup SyncPc] /\ g \in Procs
      /\ committed \in [Gens -> BOOLEAN]
  BY <1>a DEF TypeOK, PcOK, Procs
\* Elsewhere there is nothing to mark.
<1>1. ASSUME pc'[g] \notin PrunePc, ~HasNumber(g)' \/ ~committed'[g]
      PROVE  LatestMarked(g)'
  BY <1>1 DEF LatestMarked
<1>2. CASE Prune(g)
  <2>1. PruneControl(g)
    BY <1>2, PruneSteps DEF Pruners
  <2>2. pc[g] \in PrunePc /\ num' = num /\ committed' = committed
    BY <1>2, <2>1, PruneLocals DEF PruneControl
  <2>3. committed[g] /\ HasNumber(g)
    BY <2>2 DEF LatestMarked, HasNumber, InSection, PrunePc, Terminal
  <2>4. \A s \in builds : s.order = num[g] => s.latest
    BY <2>3 DEF LatestMarked, RowsAt
  <2>5. MarkStays(num[g])
    BY <1>2, <1>a, PruneKeepsMark
  <2>6. \A r \in RowsAt(num[g])' : r.latest
    BY <2>2, <2>4, <2>5 DEF MarkStays, RowsAt
  <2>7. QED
    BY <2>2, <2>3, <2>6 DEF LatestMarked
<1>3. CASE SetLatest(g)
  <2>1. /\ builds' = SetLatestRows(num[g], LatestScope(g)) /\ num' = num
        /\ committed'[g] = TRUE
    BY <1>3, <1>b DEF SetLatest, MayFail
  <2> DEFINE n    == num[g]
             W(r) == [r EXCEPT !.latest = \/ r.order = n
                                          \/ r.latest /\ ~LatestCleared(r, LatestScope(g))]
  <2>2. builds' = {W(r) : r \in builds}
    BY <2>1 DEF SetLatestRows
  <2>3. \A r \in builds : W(r).order = r.order /\ (r.order = n => W(r).latest)
    BY <1>a DEF TypeOK, Row
  <2> HIDE DEF W
  <2>4. \A r \in builds' : r.order = n => r.latest
    BY <2>2, <2>3
  <2>5. QED
    BY <2>1, <2>4 DEF LatestMarked, RowsAt
<1>4. CASE Unlock(g) \/ AcquireCancelled(g) \/ CrashGen(g)
  <2>1. pc'[g] \in Terminal
    BY <1>4, <1>b DEF Unlock, AcquireCancelled, CrashGen, Goto, Terminal
  <2>2. pc'[g] \notin PrunePc /\ ~HasNumber(g)'
    BY <2>1 DEF Terminal, PrunePc, HasNumber, InSection
  <2>3. QED
    BY <1>1, <2>2
<1>5. CASE Rollback(g)
  <2>1. pc'[g] = "release"
    BY <1>5, <1>b DEF Rollback, Goto
  <2>2. pc'[g] \notin PrunePc /\ ~HasNumber(g)'
    BY <2>1 DEF PrunePc, HasNumber
  <2>3. QED
    BY <1>1, <2>2
<1>6. ASSUME \/ \E j \in Jobs : Start(g, j)
             \/ AcquireLock(g) \/ ReserveSelect(g) \/ ReserveInsert(g) \/ ReserveConflict(g)
             \/ ReserveFails(g) \/ Generate(g) \/ ResolveBranch(g) \/ PublishReport(g)
             \/ PublishFailsEarly(g) \/ FillBuild(g)
      PROVE  LatestMarked(g)'
  <2>1. /\ pc[g] \in {"idle", "waiting", "reserve", "insert", "generate", "resolve", "publish", "fill"}
        /\ committed' = committed
        /\ \E l \in GenPc : Goto(g, l)
    BY <1>6 DEF Start, AcquireLock, ReserveSelect, ReserveInsert, ReserveConflict, ReserveFails,
                Generate, ResolveBranch, PublishReport, PublishFailsEarly, FillBuild, Fail,
                AfterGenerate, AfterResolve, AfterPublish, GenPc, local
  <2>2. ~committed'[g]
    BY <1>a, <2>1 DEF Phase
  <2>3. pc'[g] \notin PrunePc
    BY <1>b, <2>1 DEF Goto, GenPc, PrunePc
  <2>4. QED
    BY <1>1, <2>2, <2>3
<1>7. QED
  BY <1>2, <1>3, <1>4, <1>5, <1>6 DEF Work

LEMMA MInvStep ==
  ASSUME MInv, ~SessionLoss, ~Faults, Unlocked = {}, [Next]_vars
  PROVE  MInv'
<1> DEFINE Mine(g) == \/ \E j \in Jobs : Start(g, j)
                      \/ Work(g) \/ AcquireCancelled(g) \/ CrashGen(g)
<1>1. PInv /\ PInv'
  BY PInvStep DEF MInv
<1>2. CASE UNCHANGED vars
  BY <1>1, <1>2 DEF MInv, LatestMarked, HasNumber, InSection, RowsAt, vars
<1>3. CASE Next
  <2>1. \/ \E g \in Gens : Mine(g)
        \/ \E n \in Numbers : GrowOld(n)
    BY <1>1, <1>3, AloneStep DEF LoseSession
  <2>2. ASSUME NEW g \in Gens, Mine(g), NEW h \in Gens
        PROVE  LatestMarked(h)'
    <3>1. CASE h = g
      BY <1>1, <2>2, <3>1, MarkedOwnStep DEF MInv
    <3>2. CASE h # g
      <4>1. pc'[h] = pc[h] /\ num'[h] = num[h] /\ committed'[h] = committed[h]
        BY <1>1, <2>2, <3>2, OthersKeep DEF PInv
      <4>2. InSection(h) => ~InSection(g)
        BY <1>1, <3>2 DEF PInv, LockHeld
      <4>3. InSection(h) => builds' = builds
        BY <1>1, <2>2, <4>2, OutsideKeeps DEF PInv
      <4>4. HasNumber(h)' <=> HasNumber(h)
        BY <4>1 DEF HasNumber, InSection
      <4>5. HasNumber(h) => InSection(h)
        BY DEF HasNumber
      <4>6. QED
        BY <4>1, <4>3, <4>4, <4>5 DEF MInv, LatestMarked, RowsAt
    <3>3. QED
      BY <3>1, <3>2
  <2>3. ASSUME NEW n \in Numbers, GrowOld(n), NEW h \in Gens
        PROVE  LatestMarked(h)'
    <3>1. pc' = pc /\ num' = num /\ committed' = committed
          /\ builds' = DeleteOrders({n}) \cup {[r EXCEPT !.old = TRUE] : r \in RowsAt(n)}
      BY <2>3 DEF GrowOld, local
    <3>2. \A r \in builds : /\ [r EXCEPT !.old = TRUE].order = r.order
                            /\ [r EXCEPT !.old = TRUE].latest = r.latest
      BY <1>1 DEF PInv, TypeOK, Row
    <3>3. MarkStays(num[h])
      BY <3>1, <3>2 DEF MarkStays, DeleteOrders, RowsAt
    <3>4. HasNumber(h)' <=> HasNumber(h)
      BY <3>1 DEF HasNumber, InSection
    <3>5. QED
      BY <3>1, <3>3, <3>4 DEF MInv, LatestMarked, MarkStays, RowsAt
  <2>4. QED
    BY <1>1, <2>1, <2>2, <2>3 DEF MInv
<1>4. QED
  BY <1>2, <1>3

\* "The latest build per project is never deleted by either strategy": under
\* the lock, where PruneBuildsBranch and PruneBuildsByAge delete what an earlier
\* SELECT chose, as long as SetLatestBranch does what it is asked for. The build
\* that is latest is then the generation's own and the newest, for any number
\* of builds, branches and generations and any limits.
THEOREM LatestSurvives ==
  ASSUME ~SessionLoss, ~Faults, Unlocked = {}
  PROVE  Spec => LatestNeverPruned
<1> DEFINE Spared ==
      \A p \in Pruners :
        /\ pc[p] \in {"count_del", "age_del"}
        /\ pc'[p] # pc[p]
        => \A r \in builds : IsLatestBuild(r) => r.order \in Orders(builds')
<1>1. MInv /\ [Next]_vars => [Spared]_vars
  <2> SUFFICES ASSUME MInv, Next, NEW p \in Pruners, pc[p] \in {"count_del", "age_del"},
                      pc'[p] # pc[p], NEW r \in builds, IsLatestBuild(r)
               PROVE  r.order \in Orders(builds')
    OBVIOUS
  <2>1. PInv /\ TypeOK /\ Alone
    BY DEF MInv, PInv
  <2>2. p \in Gens
    BY <2>1 DEF Alone, Pruners
  <2>3. HasNumber(p) /\ committed[p] /\ Past(p)
    BY <2>2 DEF MInv, LatestMarked, PrunePc, HasNumber, InSection, Terminal, Past
  <2>4. PICK s \in builds : s.order = num[p] /\ s.gen = p
    BY <2>1, <2>2, <2>3 DEF PInv, NewestIsOwn
  <2>5. s.latest
    BY <2>2, <2>3, <2>4 DEF MInv, LatestMarked, RowsAt
  <2>6. r.order = num[p]
    <3>1. s.order <= r.order
      BY <2>5 DEF IsLatestBuild
    <3>2. r.order <= num[p]
      BY <2>1, <2>2, <2>3 DEF PInv, NewestIsOwn
    <3>3. r.order \in Nat /\ num[p] \in Nat
      BY <2>1, <2>4 DEF TypeOK, Row, Numbers
    <3>4. QED
      BY <2>4, <3>1, <3>2, <3>3
  <2>7. r.order \notin todo[p]
    BY <2>1, <2>2, <2>3, <2>6 DEF PInv, NotChosen
  <2>8. \/ \E g \in Gens : \/ \E j \in Jobs : Start(g, j)
                           \/ Work(g) \/ AcquireCancelled(g) \/ CrashGen(g)
        \/ \E g \in Gens : LoseSession(g)
        \/ \E n \in Numbers : GrowOld(n)
    BY <2>1, AloneStep
  <2>9. \/ \E j \in Jobs : Start(p, j)
        \/ Work(p) \/ AcquireCancelled(p) \/ CrashGen(p)
    <3>1. \A g \in Gens : LoseSession(g) => pc' = pc
      BY DEF LoseSession
    <3>2. \A n \in Numbers : GrowOld(n) => pc' = pc
      BY DEF GrowOld
    <3>3. PICK g \in Gens : \/ \E j \in Jobs : Start(g, j)
                            \/ Work(g) \/ AcquireCancelled(g) \/ CrashGen(g)
      BY <2>8, <3>1, <3>2
    <3>4. g = p
      BY <2>1, <2>2, <3>3, OthersKeep
    <3>5. QED
      BY <3>3, <3>4
  <2>10. builds' = builds \/ builds' = DeleteOrders(todo[p])
    BY <2>9 DEF Start, Work, AcquireCancelled, CrashGen, AcquireLock, Unlock, ReserveSelect,
         ReserveInsert, ReserveConflict, ReserveFails, Generate, ResolveBranch, PublishReport,
         PublishFailsEarly, FillBuild, SetLatest, Rollback, Prune, CountSelect, CountDelete,
         CountDirs, AgeSelect, AgeDelete, AgeDirs, StaleSelect, StaleTx, StaleDone, StaleDirs,
         PruneDelete, PruneReportDirs, store
  <2>11. r \in builds'
    BY <2>7, <2>10 DEF DeleteOrders
  <2>12. QED
    BY <2>11 DEF Orders
<1>2. MInv /\ [Next]_vars => MInv'
  BY MInvStep
<1>3. Init => MInv
  <2>1. Init => \A g \in Gens : pc[g] = "idle"
    BY DEF Init, Procs
  <2>2. QED
    BY <2>1, PInvInit DEF MInv, LatestMarked, HasNumber, InSection, PrunePc
<1>4. QED
  BY <1>1, <1>2, <1>3, PTL DEF Spec, LatestNeverPruned

-----------------------------------------------------------------------------
(* The build history of a project, as BuildLog states it.                  *)

\* A generation has kept its build when it prunes, and when it returns without
\* an error although history is kept.
Sealed(g) ==
  /\ pc[g] \in PrunePc => committed[g]
  /\ KeepHistory /\ pc[g] \in {"rollback", "release"} /\ ~err[g] => committed[g]

HInv == PInv /\ \A g \in Gens : Sealed(g)

Mine(g) == \/ \E j \in Jobs : Start(g, j)
           \/ Work(g) \/ AcquireCancelled(g) \/ CrashGen(g)

LEMMA SealedStep ==
  ASSUME TypeOK, \A g \in Gens : Sealed(g), NEW g \in Gens, Mine(g)
  PROVE  \A h \in Gens : Sealed(h)'
<1> USE DEF TypeOK, PcOK, Goto, local, Procs, Sealed, PrunePc
<1>1. ASSUME \/ \E j \in Jobs : Start(g, j)
             \/ AcquireLock(g) \/ ReserveSelect(g) \/ ReserveInsert(g) \/ ReserveConflict(g)
             \/ ReserveFails(g)
      PROVE  \A h \in Gens : Sealed(h)'
  BY <1>1 DEF Start, AcquireLock, ReserveSelect, ReserveInsert, ReserveConflict, ReserveFails
<1>2. CASE Unlock(g) \/ AcquireCancelled(g) \/ CrashGen(g)
  BY <1>2 DEF Unlock, AcquireCancelled, CrashGen, Forget
<1>3. CASE Generate(g)
  BY <1>3 DEF Generate, AfterGenerate, Fail
<1>4. CASE ResolveBranch(g)
  BY <1>4 DEF ResolveBranch, AfterResolve
<1>5. CASE PublishReport(g) \/ PublishFailsEarly(g)
  BY <1>5 DEF PublishReport, PublishFailsEarly, AfterPublish, Fail
<1>6. CASE FillBuild(g) \/ SetLatest(g) \/ Rollback(g)
  BY <1>6 DEF FillBuild, SetLatest, Rollback
<1>7. CASE Prune(g)
  <2>1. PruneControl(g)
    BY <1>7, PruneSteps DEF Pruners
  <2>2. UNCHANGED committed
    BY <1>7, PruneLocals
  <2>3. QED
    BY <2>1, <2>2 DEF PruneControl
<1>8. QED
  BY <1>1, <1>2, <1>3, <1>4, <1>5, <1>6, <1>7 DEF Mine, Work

\* A step of a generation takes it from one stage to another and leaves the
\* others where they are.
LEMMA StageMoves ==
  ASSUME TypeOK, NEW g \in Gens, Mine(g)
  PROVE  /\ Stage(g)' = Stage(g) => UNCHANGED Stages
         /\ \A from, to : Stage(g) \in from /\ Stage(g)' = to => History!Move(g, from, to)
<1>1. ASSUME NEW h \in Gens, h # g
      PROVE  Stage(h)' = Stage(h)
  <2>1. pc'[h] = pc[h] /\ num'[h] = num[h] /\ committed'[h] = committed[h]
    BY <1>1, OthersKeep DEF Mine
  <2>2. QED
    BY <2>1 DEF Stage, HasNumber, InSection
<1>2. Stages' = [h \in Gens |-> Stage(h)']
  BY DEF Stages
<1>3. QED
  BY <1>1, <1>2 DEF Stages, History!Move

\* Stages and labels.
LEMMA StageAt ==
  ASSUME NEW g \in Gens
  PROVE  /\ pc[g] \in {"idle", "waiting", "reserve", "insert"} => Stage(g) = "open"
         /\ pc[g] \in Terminal => Stage(g) = pc[g]
         /\ pc[g] = "release" => Stage(g) = "closing"
         /\ pc[g] \in Holding => Stage(g) = IF committed[g] THEN "kept" ELSE "writing"
  BY DEF Stage, Terminal, Holding, HasNumber, InSection, GenPc, PrunePc

LEMMA NextStageAt ==
  ASSUME NEW g \in Gens
  PROVE  /\ pc'[g] \in {"idle", "waiting", "reserve", "insert"} => Stage(g)' = "open"
         /\ pc'[g] \in Terminal => Stage(g)' = pc'[g]
         /\ pc'[g] = "release" => Stage(g)' = "closing"
         /\ pc'[g] \in Holding => Stage(g)' = IF committed'[g] THEN "kept" ELSE "writing"
  BY DEF Stage, Terminal, Holding, HasNumber, InSection, GenPc, PrunePc

\* A generation that has its row has the newest entry.
LEMMA OwnEntry ==
  ASSUME PInv, NEW g \in Gens, Past(g)
  PROVE  History!EndsWith(g)
<1>1. PICK r \in builds : r.order = num[g] /\ r.gen = g
  BY DEF PInv, NewestIsOwn
<1>2. \A s \in builds : s.order <= num[g]
  BY DEF PInv, NewestIsOwn
<1> DEFINE e == [number |-> r.order, gen |-> r.gen]
<1>3. e \in Entries /\ e.gen = g
  BY <1>1 DEF Entries
<1>4. \A f \in Entries : f.number <= e.number
  BY <1>1, <1>2 DEF Entries
<1>5. QED
  BY <1>3, <1>4 DEF History!EndsWith, History!Newest

LEMMA OwnEntryStays ==
  ASSUME PInv, NEW g \in Gens, Past(g), RowsStay(num[g]), num'[g] = num[g]
  PROVE  Entries' \subseteq Entries /\ History!EndsWith(g)'
<1>1. Entries' \subseteq Entries
  BY DEF RowsStay, Entries
<1>2. PICK r \in builds' : r.order = num'[g] /\ r.gen = g
  BY OwnRowStays
<1>3. \A s \in builds' : s.order <= num'[g]
  BY OwnRowStays
<1> DEFINE e == [number |-> r.order, gen |-> r.gen]
<1>4. e \in Entries' /\ e.gen = g
  BY <1>2 DEF Entries
<1>5. \A f \in Entries' : f.number <= e.number
  BY <1>2, <1>3 DEF Entries
<1>6. QED
  BY <1>1, <1>4, <1>5 DEF History!EndsWith, History!Newest

\* The deferred rollback takes the newest entry.
LEMMA NewestGoes ==
  ASSUME PInv, NEW g \in Gens, Past(g), builds' = DeleteOrders({num[g]})
  PROVE  Entries' = {e \in Entries : ~History!Newest(e)}
<1> DEFINE E(r) == [number |-> r.order, gen |-> r.gen]
<1>1. PICK s \in builds : s.order = num[g]
  BY DEF PInv, NewestIsOwn
<1>2. \A r \in builds : r.order <= num[g] /\ r.order \in Nat
  BY DEF PInv, NewestIsOwn, TypeOK, Row, Numbers
<1>3. Entries = {E(r) : r \in builds} /\ \A r \in builds : E(r).number = r.order
  BY DEF Entries
<1>4. Entries' = {E(r) : r \in builds'}
  BY DEF Entries
<1> HIDE DEF E
<1>5. ASSUME NEW r \in builds
      PROVE  History!Newest(E(r)) <=> r.order = num[g]
  <2>1. History!Newest(E(r)) <=> \A q \in builds : q.order <= r.order
    BY <1>3 DEF History!Newest
  <2>2. QED
    BY <1>1, <1>2, <2>1
<1>6. builds' = {r \in builds : r.order # num[g]}
  BY DEF DeleteOrders
<1>7. ASSUME NEW e \in Entries'
      PROVE  e \in Entries /\ ~History!Newest(e)
  <2>1. PICK r \in builds : r.order # num[g] /\ e = E(r)
    BY <1>4, <1>6, <1>7
  <2>2. QED
    BY <1>3, <1>5, <2>1
<1>8. ASSUME NEW e \in Entries, ~History!Newest(e)
      PROVE  e \in Entries'
  <2>1. PICK r \in builds : e = E(r)
    BY <1>3, <1>8
  <2>2. r.order # num[g]
    BY <1>5, <1>8, <2>1
  <2>3. QED
    BY <1>4, <1>6, <2>1, <2>2
<1>9. QED
  BY <1>7, <1>8

\* Every step of a generation is one of BuildLog's, or none.
LEMMA OwnStepWrites ==
  ASSUME HInv, NEW g \in Gens, Mine(g)
  PROVE  History!Next \/ UNCHANGED <<Entries, Stages>>
<1>a. /\ PInv /\ TypeOK /\ LockHeld /\ Phase /\ Sealed(g)
      /\ NewestIsOwn(g)
  BY DEF HInv, PInv
<1>b. /\ pc \in [Procs -> GenPc \cup PrunePc \cup AdminPc \cup SyncPc] /\ g \in Procs
      /\ g \in DOMAIN committed /\ committed \in [Gens -> BOOLEAN]
      /\ job[g].kind \in AllKinds
  BY <1>a DEF TypeOK, PcOK, Procs
<1>m. /\ Stage(g)' = Stage(g) => UNCHANGED Stages
      /\ \A from, to : Stage(g) \in from /\ Stage(g)' = to => History!Move(g, from, to)
  BY <1>a, StageMoves
<1>n. builds' = builds => Entries' = Entries
  BY DEF Entries
<1>1. CASE (\E j \in Jobs : Start(g, j)) \/ AcquireLock(g) \/ ReserveSelect(g) \/ ReserveConflict(g)
  <2>1. /\ pc[g] \in {"idle", "waiting", "reserve", "insert"}
        /\ pc'[g] \in {"idle", "waiting", "reserve", "insert"}
        /\ builds' = builds
    BY <1>1, <1>b DEF Start, AcquireLock, ReserveSelect, ReserveConflict, Goto, store
  <2>2. QED
    BY <2>1, <1>m, <1>n, StageAt, NextStageAt
<1>2. CASE AcquireCancelled(g)
  <2>1. pc[g] = "waiting" /\ pc'[g] = "failed" /\ builds' = builds
    BY <1>2, <1>b DEF AcquireCancelled, Goto, store
  <2>2. Stage(g) = "open" /\ Stage(g)' = "failed"
    BY <2>1, StageAt, NextStageAt DEF Terminal
  <2>3. History!Fail(g)
    BY <2>1, <2>2, <1>m, <1>n DEF History!Fail
  <2>4. QED
    BY <2>3 DEF History!Next
<1>3. CASE Unlock(g)
  <2>1. /\ pc[g] = "release" /\ builds' = builds
        /\ pc'[g] = IF err[g] THEN "failed" ELSE "done"
    BY <1>3, <1>b DEF Unlock, Goto, store
  <2>2. Stage(g) = "closing" /\ Stage(g)' = IF err[g] THEN "failed" ELSE "done"
    BY <2>1, StageAt, NextStageAt DEF Terminal
  <2>3. CASE err[g]
    <3>1. History!Fail(g)
      BY <2>1, <2>2, <2>3, <1>m, <1>n DEF History!Fail
    <3>2. QED
      BY <3>1 DEF History!Next
  <2>4. CASE ~err[g]
    <3>1. KeepHistory => History!EndsWith(g)
      BY <1>a, <2>1, <2>4, OwnEntry DEF Sealed, Past
    <3>2. History!Succeed(g)
      BY <2>1, <2>2, <2>4, <3>1, <1>m, <1>n DEF History!Succeed
    <3>3. QED
      BY <3>2 DEF History!Next
  <2>5. QED
    BY <2>3, <2>4
<1>4. CASE CrashGen(g)
  <2>1. /\ pc[g] \notin {"idle"} \cup Terminal /\ pc'[g] = "crashed" /\ builds' = builds
    BY <1>4, <1>b DEF CrashGen, Goto, store
  <2>2. Stage(g)' = "crashed"
    BY <2>1, NextStageAt DEF Terminal
  <2>3. Stage(g) \in {"open", "writing", "kept", "closing"}
    BY <2>1 DEF Stage
  <2>4. History!Crash(g)
    BY <2>1, <2>2, <2>3, <1>m, <1>n DEF History!Crash
  <2>5. QED
    BY <2>4 DEF History!Next
<1>5. CASE ReserveInsert(g)
  <2>1. /\ pc[g] = "insert" /\ pc'[g] = "generate" /\ committed' = committed
        /\ builds' = builds \cup {NewRow(num[g], g)}
    BY <1>5, <1>b DEF ReserveInsert, Goto, local
  <2>2. Stage(g) = "open" /\ Stage(g)' = "writing"
    BY <1>a, <2>1, StageAt, NextStageAt DEF Phase, Holding, GenPc, Terminal
  <2>3. \A h \in Gens : Stages[h] \notin {"writing", "kept", "closing"}
    <3> SUFFICES ASSUME NEW h \in Gens, Stage(h) \in {"writing", "kept", "closing"}
                 PROVE  FALSE
      BY DEF Stages
    <3>1. InSection(h)
      BY DEF Stage, HasNumber, InSection, Terminal
    <3>2. InSection(g)
      BY <2>1 DEF InSection, Terminal
    <3>3. h = g
      BY <1>a, <3>1, <3>2 DEF LockHeld
    <3>4. QED
      BY <2>2, <3>3
  <2>4. num[g] \in Numbers /\ \A r \in builds : r.order < num[g]
    BY <1>a, <2>1 DEF TypeOK, NewestIsOwn
  <2>5. \A e \in Entries : e.number < num[g]
    BY <2>4 DEF Entries
  <2>6. Entries' = Entries \cup {[number |-> num[g], gen |-> g]}
    <3>1. NewRow(num[g], g).order = num[g] /\ NewRow(num[g], g).gen = g
      BY DEF NewRow
    <3>2. QED
      BY <2>1, <3>1 DEF Entries
  <2>7. History!Add(g)
    BY <2>2, <2>3, <2>4, <2>5, <2>6, <1>m DEF History!Add
  <2>8. QED
    BY <2>7 DEF History!Next
<1>6. CASE ReserveFails(g)
  <2>1. pc[g] \in {"reserve", "insert"} /\ pc'[g] = "release" /\ builds' = builds
    BY <1>6, <1>b DEF ReserveFails, Goto, store
  <2>2. Stage(g) = "open" /\ Stage(g)' = "closing"
    BY <2>1, StageAt, NextStageAt
  <2>3. History!Close(g)
    BY <2>1, <2>2, <1>m, <1>n DEF History!Close
  <2>4. QED
    BY <2>3 DEF History!Next
<1>7. CASE Generate(g) \/ ResolveBranch(g) \/ PublishReport(g) \/ PublishFailsEarly(g) \/ FillBuild(g)
  <2>1. /\ pc[g] \in {"generate", "resolve", "publish", "fill"}
        /\ pc'[g] \in {"resolve", "publish", "fill", "latest", "rollback"}
        /\ committed' = committed
    BY <1>7, <1>b DEF Generate, AfterGenerate, ResolveBranch, AfterResolve, PublishReport,
                      PublishFailsEarly, AfterPublish, FillBuild, Fail, Goto, local
  <2>2. Stage(g)' = Stage(g)
    BY <2>1, StageAt, NextStageAt DEF Holding, GenPc, Terminal
  <2>3. Entries' = Entries
    <3>1. ~FillBuild(g) => builds' = builds
      BY <1>7 DEF Generate, ResolveBranch, PublishReport, PublishFailsEarly, store
    <3>2. QED
      BY <1>a, <1>n, <3>1, FillStays
  <2>4. QED
    BY <2>2, <2>3, <1>m
<1>8. CASE SetLatest(g)
  <2>1. /\ pc[g] = "latest" /\ pc'[g] \in {"count_sel", "rollback"}
        /\ ~committed[g] /\ committed'[g] = TRUE
    BY <1>8, <1>a, <1>b DEF SetLatest, Goto, Phase
  <2>2. Stage(g) = "writing" /\ Stage(g)' = "kept"
    BY <2>1, StageAt, NextStageAt DEF Holding, GenPc, PrunePc, Terminal
  <2>3. History!EndsWith(g)
    BY <1>a, <2>1, OwnEntry DEF Past, HasNumber, InSection, Terminal
  <2>4. Entries' = Entries
    BY <1>8, <1>a, LatestStays
  <2>5. History!Commit(g)
    BY <2>2, <2>3, <2>4, <1>m DEF History!Commit
  <2>6. QED
    BY <2>5 DEF History!Next
<1>9. CASE Rollback(g)
  <2>1. /\ pc[g] = "rollback" /\ pc'[g] = "release"
        /\ builds' \in MayFail(builds, DeleteOrders(RolledBack(g)))
    BY <1>9, <1>b DEF Rollback, Goto
  <2>2. /\ Stage(g) = IF committed[g] THEN "kept" ELSE "writing"
        /\ Stage(g)' = "closing"
    BY <2>1, StageAt, NextStageAt DEF Holding, GenPc, Terminal
  <2>3. Past(g)
    BY <2>1 DEF Past, HasNumber, InSection, Terminal
  <2>4. CASE committed[g]
    <3>1. builds' = builds
      BY <2>1, <2>4 DEF RolledBack, MayFail, DeleteOrders
    <3>2. History!Close(g)
      BY <2>2, <2>4, <3>1, <1>m, <1>n DEF History!Close
    <3>3. QED
      BY <3>2 DEF History!Next
  <2>5. CASE ~committed[g]
    <3>1. \/ builds' = DeleteOrders({num[g]})
          \/ Faults /\ builds' = builds
      BY <2>1, <2>5 DEF RolledBack, MayFail
    <3>2. \/ Entries' = {e \in Entries : ~History!Newest(e)}
          \/ Faults /\ Entries' = Entries
      BY <1>a, <1>n, <2>3, <3>1, NewestGoes
    <3>3. History!EndsWith(g)
      BY <1>a, <2>3, OwnEntry
    <3>4. History!TakeBack(g)
      BY <2>2, <2>5, <3>2, <3>3, <1>m DEF History!TakeBack
    <3>5. QED
      BY <3>4 DEF History!Next
  <2>6. QED
    BY <2>4, <2>5
<1>10. CASE Prune(g)
  <2>1. PruneControl(g)
    BY <1>10, PruneSteps DEF Pruners
  <2>2. /\ pc[g] \in PrunePc \ {"orphans"} /\ num' = num
        /\ pc'[g] \in (PrunePc \ {"orphans"}) \cup {"rollback"}
    <3>1. g # Sweep
      OBVIOUS
    <3>2. QED
      BY <2>1, <1>b, <3>1 DEF PruneControl, Goto
  <2>3. committed' = committed /\ committed[g]
    BY <1>10, <1>a, <2>2, PruneLocals DEF Sealed
  <2>4. Stage(g) = "kept" /\ Stage(g)' = "kept"
    BY <2>2, <2>3, StageAt, NextStageAt DEF Holding, GenPc, Terminal
  <2>5. Past(g)
    BY <2>2 DEF Past, HasNumber, InSection, PrunePc, Terminal
  <2>6. Entries' \subseteq Entries /\ History!EndsWith(g)'
    BY <1>10, <1>a, <2>2, <2>5, PruneSpares, OwnEntryStays
  <2>7. History!EndsWith(g)
    BY <1>a, <2>5, OwnEntry
  <2>8. History!Trim(g)
    BY <2>4, <2>6, <2>7, <1>m DEF History!Trim, Stages
  <2>9. QED
    BY <2>8 DEF History!Next
<1>11. QED
  BY <1>1, <1>2, <1>3, <1>4, <1>5, <1>6, <1>7, <1>8, <1>9, <1>10 DEF Mine, Work

LEMMA HInvStep ==
  ASSUME HInv, ~SessionLoss, Unlocked = {}, [Next]_vars
  PROVE  HInv'
<1>1. PInv /\ PInv'
  BY PInvStep DEF HInv
<1>2. CASE UNCHANGED vars
  BY <1>1, <1>2 DEF HInv, Sealed, vars
<1>3. CASE Next
  <2>1. (\E g \in Gens : Mine(g)) \/ \E n \in Numbers : GrowOld(n)
    BY <1>1, <1>3, AloneStep DEF LoseSession, Mine
  <2>2. ASSUME NEW n \in Numbers, GrowOld(n)
        PROVE  \A g \in Gens : Sealed(g)'
    BY <2>2 DEF HInv, Sealed, GrowOld, local
  <2>3. (\E g \in Gens : Mine(g)) => \A g \in Gens : Sealed(g)'
    BY <1>1, SealedStep DEF HInv, PInv
  <2>4. QED
    BY <1>1, <2>1, <2>2, <2>3 DEF HInv
<1>4. QED
  BY <1>2, <1>3

\* BuildLifecycle implements BuildLog while the processes without the lock rest:
\* the generations of a project write its history one after another, retention
\* follows the commit and spares the writer's build, and a job that succeeds
\* leaves its build as the newest, for any number of builds, branches and
\* generations, any limits, and any crashes and failures.
THEOREM BuildsImplementHistory ==
  ASSUME ~SessionLoss, Unlocked = {}
  PROVE  Spec => ImplementsHistory
<1>1. Init => HInv
  <2>1. Init => \A g \in Gens : pc[g] = "idle"
    BY DEF Init, Procs
  <2>2. QED
    BY <2>1, PInvInit DEF HInv, Sealed, PrunePc
<1>2. HInv /\ [Next]_vars => HInv'
  BY HInvStep
<1>3. Init => History!Init
  <2>1. Init => \A g \in Gens : pc[g] = "idle"
    BY DEF Init, Procs
  <2>2. Init => \A g \in Gens : Stage(g) = "open"
    BY <2>1, StageAt
  <2>3. Init => Entries = {}
    BY DEF Init, Entries
  <2>4. QED
    BY <2>2, <2>3 DEF History!Init, Stages
<1>4. HInv /\ [Next]_vars => [History!Next]_<<Entries, Stages>>
  <2>1. ASSUME UNCHANGED vars
        PROVE  UNCHANGED <<Entries, Stages>>
    BY <2>1 DEF vars, Entries, Stages, Stage, HasNumber, InSection
  <2>2. ASSUME HInv, Next
        PROVE  History!Next \/ UNCHANGED <<Entries, Stages>>
    <3>1. (\E g \in Gens : Mine(g)) \/ \E n \in Numbers : GrowOld(n)
      BY <2>2, AloneStep DEF HInv, LoseSession, Mine
    <3>2. ASSUME NEW n \in Numbers, GrowOld(n)
          PROVE  UNCHANGED <<Entries, Stages>>
      <4>1. pc' = pc /\ num' = num /\ committed' = committed
        BY <3>2 DEF GrowOld, local
      <4>2. Entries' = Entries
        BY <2>2, <3>2, AgingStays DEF HInv, PInv
      <4>3. QED
        BY <4>1, <4>2 DEF Stages, Stage, HasNumber, InSection
    <3>3. QED
      BY <2>2, <3>1, <3>2, OwnStepWrites
  <2>3. QED
    BY <2>1, <2>2
<1>5. QED
  BY <1>1, <1>2, <1>3, <1>4, PTL DEF Spec, ImplementsHistory, History!Spec

=============================================================================
