------------------------ MODULE StagedUpload_proofs ------------------------
(***************************************************************************)
(* Proofs about StagedUpload, for any number of uploads and attempts:      *)
(* types, that a completed job has its report, and that an archive is kept *)
(* while its job may still need it (when no cleanup runs).                 *)
(***************************************************************************)
EXTENDS StagedUpload, TLAPS

\* The worker of j has its report id.
Holding(j) == pc[j] \in {"drop", "finish", "hooks", "return"}

\* Only an accepted upload has a job, and it waits with attempts left.
Counters ==
  \A j \in Uploads :
    /\ reply[j] # "accepted" => state[j] = "none"
    /\ j \in deleting => state[j] # "none"
    /\ state[j] = "none" => attempt[j] = 0 /\ limit[j] = MaxAttempts
    /\ state[j] \in Queued => attempt[j] < limit[j]

\* A worker past generation, and a completed job, have the number of a report.
Reported ==
  \A j \in Uploads :
    /\ Holding(j) => made[j] /\ j \in ran
    /\ state[j] = "completed" => output[j] /\ j \in ran

\* Where history is kept, a report is a build; where it is not, there are none.
Kept ==
  /\ ~keep => builds = <<>>
  /\ \A j \in ran : keep => BuildsOf(j) # {}

\* Without the cleanup, an archive is there from the answer to the upload until
\* a report was made of it.
Archived ==
  \A j \in Staged :
    /\ blob[j] # "old"
    /\ reply[j] \in {"staged", "accepted"} /\ j \notin ran => blob[j] = "fresh"

-----------------------------------------------------------------------------
\* upsertJobProgress leaves one of the phases.
LEMMA ProgressType ==
  ASSUME NEW j \in Uploads, NEW p \in Phases, phase \in [Uploads -> Phases],
         Progress(j, p)
  PROVE  phase' \in [Uploads -> Phases]
  BY DEF Progress, Logged

\* Builds are only ever added.
LEMMA AppendBuild ==
  ASSUME NEW k \in Uploads, NEW j \in Uploads, builds \in Seq(Uploads),
         builds' \in {builds, Append(builds, k)}
  PROVE  /\ builds' \in Seq(Uploads)
         /\ BuildsOf(j) # {} => BuildsOf(j)' # {}
         /\ j # k /\ BuildsOf(j) = {} => BuildsOf(j)' = {}
         /\ builds' = Append(builds, k) => BuildsOf(k)' # {}
<1>1. CASE builds' = builds
  <2>1. builds # Append(builds, k)
    <3>1. Len(Append(builds, k)) = Len(builds) + 1 /\ Len(builds) \in Nat
      OBVIOUS
    <3>2. QED
      BY <3>1
  <2>2. QED
    BY <1>1, <2>1 DEF BuildsOf
<1>2. CASE builds' = Append(builds, k)
  <2>1. /\ builds' \in Seq(Uploads)
        /\ Len(builds) \in Nat
        /\ DOMAIN builds = 1..Len(builds)
        /\ DOMAIN builds' = 1..(Len(builds) + 1)
        /\ \A n \in 1..Len(builds) : builds'[n] = builds[n]
        /\ builds'[Len(builds) + 1] = k
    BY <1>2
  <2>2. BuildsOf(j) \subseteq BuildsOf(j)'
    BY <2>1 DEF BuildsOf
  <2>3. Len(builds) + 1 \in BuildsOf(k)'
    BY <2>1 DEF BuildsOf
  <2>4. j # k => BuildsOf(j)' \subseteq BuildsOf(j)
    BY <2>1 DEF BuildsOf
  <2>5. QED
    BY <2>1, <2>2, <2>3, <2>4
<1>3. QED
  BY <1>1, <1>2

\* A delivery names its job, attempt and build.
LEMMA DeliveryType ==
  ASSUME NEW j \in Uploads, TypeOK
  PROVE  Delivery(j) \in [job : Uploads, attempt : Nat, build : Nat]
<1>1. Notified(j) \in Nat
  BY DEF Notified, TypeOK
<1>2. QED
  BY <1>1 DEF Delivery, TypeOK

\* A build is added by the generation step of one job, or none is.
LEMMA BuildsStep ==
  ASSUME NEW j \in Uploads, TypeOK,
         \/ Stage(j) \/ Submit(j) \/ Fetch(j) \/ Attempt(j) \/ EndContext(j)
         \/ Crash(j) \/ Rescue(j) \/ Request(j) \/ Age(j) \/ CleanUp(j)
  PROVE  builds' \in {builds, Append(builds, j)}
  BY DEF Stage, Submit, Fetch, Attempt, Begin, Extract, ExtractFails, Generate,
     GenerateFails, DropBlob, Finish, EnqueueWebhooks, Complete, ReportFailure,
     HandleError, Settle, EndContext, Crash, Rescue, Request, Retry, Cancel,
     DeleteCheck, DeleteJob, Age, CleanUp, effects

\* The counters are kept by every step of every job.
LEMMA CountersStep ==
  ASSUME NEW j \in Uploads, TypeOK, Counters,
         \/ Stage(j) \/ Submit(j) \/ Fetch(j) \/ Attempt(j) \/ EndContext(j)
         \/ Crash(j) \/ Rescue(j) \/ Request(j) \/ Age(j) \/ CleanUp(j)
  PROVE  Counters'
<1>1. CASE Stage(j)
  BY <1>1, ConstantsAssumption DEF Stage, Written, Counters, TypeOK, States,
     Queued, Final, job, work, effects
<1>2. CASE Submit(j)
  BY <1>2, ConstantsAssumption DEF Submit, Counters, TypeOK, States, Queued,
     Final, job, work, effects
<1>3. CASE Fetch(j)
  BY <1>3, ConstantsAssumption DEF Fetch, Queued, Goto, Counters, TypeOK,
     States, Final, job, work, effects
<1>4. CASE Begin(j)
  BY <1>4, ConstantsAssumption DEF Begin, Goto, Progress, Logged, Counters,
     TypeOK, States, Queued, Final, job, work, effects
<1>5. CASE Extract(j)
  BY <1>5, ConstantsAssumption DEF Extract, Goto, Progress, Logged, Counters,
     TypeOK, States, Queued, Final, job, work, effects
<1>6. CASE ExtractFails(j)
  BY <1>6, ConstantsAssumption DEF ExtractFails, Goto, BlobAfterFailure,
     KeptOnFailure, Counters, TypeOK, States, Queued, Final, job, work,
     effects
<1>7. CASE Generate(j)
  BY <1>7, ConstantsAssumption DEF Generate, Goto, Counters, TypeOK, States,
     Queued, Final, job, work, effects
<1>8. CASE GenerateFails(j)
  BY <1>8, ConstantsAssumption DEF GenerateFails, Goto, Counters, TypeOK,
     States, Queued, Final, job, work, effects
<1>9. CASE DropBlob(j)
  BY <1>9, ConstantsAssumption DEF DropBlob, Goto, DroppedBlob, AfterDrop,
     Counters, TypeOK, States, Queued, Final, job, work, effects
<1>10. CASE Finish(j)
  BY <1>10, ConstantsAssumption DEF Finish, Goto, Progress, Logged, Counters,
     TypeOK, States, Queued, Final, job, work, effects
<1>11. CASE EnqueueWebhooks(j)
  BY <1>11, ConstantsAssumption DEF EnqueueWebhooks, Goto, Logged, Counters,
     TypeOK, States, Queued, Final, job, work, effects
<1>12. CASE Complete(j)
  <2>1. /\ state[j] = "running" /\ state' = [state EXCEPT ![j] = "completed"]
        /\ UNCHANGED <<reply, attempt, limit, deleting>>
    BY <1>12 DEF Complete, TypeOK
  <2>2. QED
    BY <2>1 DEF Counters, TypeOK, Queued
<1>13. CASE ReportFailure(j)
  BY <1>13, ConstantsAssumption DEF ReportFailure, Goto, Progress, Logged,
     Counters, TypeOK, States, Queued, Final, job, work, effects
<1>14. CASE HandleError(j)
  BY <1>14, ConstantsAssumption DEF HandleError, Goto, Counters, TypeOK,
     States, Queued, Final, job, work, effects
<1>15. CASE Settle(j)
  <2>1. state[j] = "running" /\ reply[j] = "accepted"
    BY <1>15 DEF Settle, TypeOK, Counters
  <2>2. /\ Verdict(j) \in {"cancelled", "discarded", "retryable"}
        /\ Verdict(j) = "retryable" => attempt[j] < limit[j]
    BY DEF Verdict, TypeOK
  <2>3. state' = [state EXCEPT ![j] = Verdict(j)]
    BY <1>15 DEF Settle
  <2>4. UNCHANGED <<reply, attempt, limit, deleting>>
    BY <1>15 DEF Settle
  <2>5. QED
    BY <2>1, <2>2, <2>3, <2>4 DEF Counters, TypeOK, Queued
<1>16. CASE EndContext(j)
  BY <1>16, ConstantsAssumption DEF EndContext, InWork, Counters, TypeOK,
     States, Queued, Final, job, work, effects
<1>17. CASE Crash(j)
  BY <1>17, ConstantsAssumption DEF Crash, Goto, InWork, Counters, TypeOK,
     States, Queued, Final, job, work, effects
<1>18. CASE Rescue(j)
  <2>1. state[j] = "running" /\ reply[j] = "accepted"
    BY <1>18 DEF Rescue, TypeOK, Counters
  <2>2. /\ Verdict(j) \in {"cancelled", "discarded", "retryable"}
        /\ Verdict(j) = "retryable" => attempt[j] < limit[j]
    BY DEF Verdict, TypeOK
  <2>3. state' = [state EXCEPT ![j] = Verdict(j)]
    BY <1>18 DEF Rescue
  <2>4. UNCHANGED <<reply, attempt, limit, deleting>>
    BY <1>18 DEF Rescue
  <2>5. QED
    BY <2>1, <2>2, <2>3, <2>4 DEF Counters, TypeOK, Queued
<1>19. CASE Retry(j)
  BY <1>19, ConstantsAssumption DEF Retry, Final, Counters, TypeOK, States,
     Queued, job, work, effects
<1>20. CASE Cancel(j)
  BY <1>20, ConstantsAssumption DEF Cancel, Counters, TypeOK, States, Queued,
     Final, job, work, effects
<1>21. CASE DeleteCheck(j)
  BY <1>21, ConstantsAssumption DEF DeleteCheck, Counters, TypeOK, States,
     Queued, Final, job, work, effects
<1>22. CASE DeleteJob(j)
  BY <1>22, ConstantsAssumption DEF DeleteJob, Counters, TypeOK, States,
     Queued, Final, job, work, effects
<1>23. CASE Age(j)
  BY <1>23, ConstantsAssumption DEF Age, InWork, Counters, TypeOK, States,
     Queued, Final, job, work, effects
<1>24. CASE CleanUp(j)
  BY <1>24, ConstantsAssumption DEF CleanUp, DroppedBlob, Counters, TypeOK,
     States, Queued, Final, job, work, effects
<1>25. QED
  BY <1>1, <1>2, <1>3, <1>4, <1>5, <1>6, <1>7, <1>8, <1>9, <1>10, <1>11,
     <1>12, <1>13, <1>14, <1>15, <1>16, <1>17, <1>18, <1>19, <1>20, <1>21,
     <1>22, <1>23, <1>24 DEF Attempt, Request

\* The types are kept by every step of every job.
LEMMA TypeStep ==
  ASSUME NEW j \in Uploads, TypeOK, Counters,
         \/ Stage(j) \/ Submit(j) \/ Fetch(j) \/ Attempt(j) \/ EndContext(j)
         \/ Crash(j) \/ Rescue(j) \/ Request(j) \/ Age(j) \/ CleanUp(j)
  PROVE  TypeOK'
<1>1. CASE Stage(j)
  <2>1. Written(j) \in [Uploads -> {"absent", "fresh", "old"}]
    BY DEF Written, TypeOK
  <2>2. /\ blob' \in [Uploads -> {"absent", "fresh", "old"}]
        /\ reply' \in [Uploads -> {"none", "staged", "refused", "accepted"}]
    BY <1>1, <2>1 DEF Stage, TypeOK
  <2>3. QED
    BY <1>1, <2>2 DEF Stage, TypeOK, job, work, effects
<1>2. CASE Submit(j)
  <2>1. state[j] = "none" /\ pc[j] = "idle"
    BY <1>2 DEF Submit, Counters, TypeOK
  <2>2. /\ state' \in [Uploads -> States]
        /\ \A i \in Uploads : state'[i] = "running" <=> pc[i] # "idle"
    BY <1>2, <2>1 DEF Submit, TypeOK, States, Queued
  <2>3. reply' \in [Uploads -> {"none", "staged", "refused", "accepted"}]
    BY <1>2 DEF Submit, TypeOK
  <2>4. QED
    BY <1>2, <2>2, <2>3 DEF Submit, TypeOK, work, effects
<1>3. CASE Fetch(j)
  <2>1. attempt[j] < limit[j] /\ attempt[j] \in Nat /\ limit[j] \in Nat
    BY <1>3 DEF Fetch, Counters, TypeOK
  <2>2. /\ attempt' \in [Uploads -> Nat]
        /\ \A i \in Uploads : attempt'[i] <= limit[i]
    BY <1>3, <2>1 DEF Fetch, TypeOK
  <2>3. /\ state' \in [Uploads -> States]
        /\ pc' \in [Uploads -> Steps]
        /\ \A i \in Uploads : state'[i] = "running" <=> pc'[i] # "idle"
    BY <1>3 DEF Fetch, Goto, TypeOK, States, Steps
  <2>4. asked' \in [Uploads -> BOOLEAN] /\ live' \in [Uploads -> BOOLEAN]
    BY <1>3 DEF Fetch, TypeOK
  <2>5. QED
    BY <1>3, <2>2, <2>3, <2>4 DEF Fetch, TypeOK, effects
<1>4. CASE Begin(j)
  <2>1. phase' \in [Uploads -> Phases]
    <3>1. CASE j \in Staged
      BY <1>4, <3>1, ProgressType DEF Begin, TypeOK, Phases
    <3>2. CASE j \notin Staged
      BY <1>4, <3>2, ProgressType DEF Begin, TypeOK, Phases
    <3>3. QED
      BY <3>1, <3>2
  <2>2. pc' \in {[pc EXCEPT ![j] = "open"], [pc EXCEPT ![j] = "generate"]}
    BY <1>4 DEF Begin, Goto
  <2>3. QED
    BY <1>4, <2>1, <2>2 DEF Begin, TypeOK, Steps, job, effects
<1>5. CASE Extract(j)
  BY <1>5, ProgressType DEF Extract, Goto, Phases, TypeOK, Steps, job,
     effects
<1>6. CASE ExtractFails(j)
  BY <1>6 DEF ExtractFails, Goto, BlobAfterFailure, KeptOnFailure, TypeOK,
     Steps, job, effects
<1>7. CASE Generate(j)
  <2>1. builds' \in {builds, Append(builds, j)}
    BY <1>7 DEF Generate
  <2>2. builds' \in Seq(Uploads)
    BY <2>1, AppendBuild DEF TypeOK
  <2>3. ran' \subseteq Uploads /\ reports' \subseteq ran'
    BY <1>7 DEF Generate, TypeOK
  <2>4. QED
    BY <1>7, <2>2, <2>3 DEF Generate, Goto, TypeOK, Steps, job
<1>8. CASE GenerateFails(j)
  <2>1. builds' \in {builds, Append(builds, j)}
    BY <1>8 DEF GenerateFails
  <2>2. builds' \in Seq(Uploads)
    BY <2>1, AppendBuild DEF TypeOK
  <2>3. QED
    BY <1>8, <2>2 DEF GenerateFails, Goto, TypeOK, Steps, job
<1>9. CASE DropBlob(j)
  <2>1. blob' \in [Uploads -> {"absent", "fresh", "old"}]
    <3>1. DroppedBlob(j) \in [Uploads -> {"absent", "fresh", "old"}]
      BY DEF DroppedBlob, TypeOK
    <3>2. PICK b \in {DroppedBlob(j)} \cup IF "archive" \in Faults \/ ~live[j] THEN {blob} ELSE {} :
            blob' = b
      BY <1>9 DEF DropBlob
    <3>3. QED
      BY <3>1, <3>2 DEF TypeOK
  <2>2. pc' = [pc EXCEPT ![j] = "finish"]
    BY <1>9 DEF DropBlob, Goto, AfterDrop
  <2>3. QED
    BY <1>9, <2>1, <2>2 DEF DropBlob, TypeOK, Steps, job, effects
<1>10. CASE Finish(j)
  BY <1>10, ProgressType DEF Finish, Goto, Phases, TypeOK, Steps, job,
     effects
<1>11. CASE EnqueueWebhooks(j)
  <2>1. sent' \in {sent, sent \cup {Delivery(j)}}
    BY <1>11 DEF EnqueueWebhooks, Logged, Delivered
  <2>2. Delivery(j) \in [job : Uploads, attempt : Nat, build : Nat]
    BY DeliveryType
  <2>3. sent \subseteq [job : Uploads, attempt : Nat, build : Nat]
    BY DEF TypeOK
  <2>4. sent' \subseteq [job : Uploads, attempt : Nat, build : Nat]
    BY <2>1, <2>2, <2>3
  <2>5. QED
    BY <1>11, <2>4 DEF EnqueueWebhooks, Goto, TypeOK, Steps, job
<1>12. CASE Complete(j)
  BY <1>12 DEF Complete, EndAttempt, Goto, TypeOK, States, Queued, Final,
     Steps, effects
<1>13. CASE ReportFailure(j)
  BY <1>13, ProgressType DEF ReportFailure, Goto, Phases, TypeOK, Steps, job,
     effects
<1>14. CASE HandleError(j)
  <2>1. notices' \in [Uploads -> Nat]
    <3>1. [notices EXCEPT ![j] = @ + 1] \in [Uploads -> Nat]
      BY DEF TypeOK
    <3>2. notices' \in {notices, [notices EXCEPT ![j] = @ + 1]}
      BY <1>14 DEF HandleError
    <3>3. QED
      BY <3>1, <3>2 DEF TypeOK
  <2>2. QED
    BY <1>14, <2>1 DEF HandleError, Goto, TypeOK, Steps, job
<1>15. CASE Settle(j)
  <2>1. Verdict(j) \in {"cancelled", "discarded", "retryable"}
    BY DEF Verdict
  <2>2. state' = [state EXCEPT ![j] = Verdict(j)] /\ pc' = [pc EXCEPT ![j] = "idle"]
    BY <1>15 DEF Settle, EndAttempt, Goto
  <2>3. /\ state' \in [Uploads -> States]
        /\ \A i \in Uploads : state'[i] = "running" <=> pc'[i] # "idle"
    BY <2>1, <2>2 DEF TypeOK, States, Queued, Final
  <2>4. pc' \in [Uploads -> Steps]
    BY <2>2 DEF TypeOK, Steps
  <2>5. output' \in [Uploads -> BOOLEAN]
    BY <1>15 DEF Settle, TypeOK
  <2>6. QED
    BY <1>15, <2>3, <2>4, <2>5 DEF Settle, EndAttempt, TypeOK, effects
<1>16. CASE EndContext(j)
  BY <1>16 DEF EndContext, InWork, TypeOK, Steps, job, work, effects
<1>17. CASE Crash(j)
  BY <1>17 DEF Crash, Goto, InWork, TypeOK, Steps, job, work, effects
<1>18. CASE Rescue(j)
  <2>1. Verdict(j) \in {"cancelled", "discarded", "retryable"}
    BY DEF Verdict
  <2>2. state' = [state EXCEPT ![j] = Verdict(j)] /\ pc' = [pc EXCEPT ![j] = "idle"]
    BY <1>18 DEF Rescue, Goto
  <2>3. /\ state' \in [Uploads -> States]
        /\ pc' \in [Uploads -> Steps]
        /\ \A i \in Uploads : state'[i] = "running" <=> pc'[i] # "idle"
    BY <2>1, <2>2 DEF TypeOK, States, Queued, Final, Steps
  <2>4. QED
    BY <1>18, <2>3 DEF Rescue, TypeOK, effects
<1>19. CASE Retry(j)
  <2>1. /\ state' \in [Uploads -> States]
        /\ \A i \in Uploads : state'[i] = "running" <=> pc[i] # "idle"
    BY <1>19 DEF Retry, TypeOK, States, Queued, Final
  <2>2. /\ limit' \in [Uploads -> Nat]
        /\ \A i \in Uploads : attempt[i] <= limit'[i]
    BY <1>19 DEF Retry, TypeOK
  <2>3. retries' \in [Uploads -> 0..MaxRetries]
    <3>1. retries[j] + 1 \in 0..MaxRetries
      BY <1>19, ConstantsAssumption DEF Retry, TypeOK
    <3>2. QED
      BY <1>19, <3>1 DEF Retry, TypeOK
  <2>4. QED
    BY <1>19, <2>1, <2>2, <2>3 DEF Retry, TypeOK, work, effects
<1>20. CASE Cancel(j)
  <2>1. CASE state[j] \in Queued
    BY <1>20, <2>1 DEF Cancel, TypeOK, States, Queued, Final, work, effects
  <2>2. CASE state[j] = "running"
    BY <1>20, <2>2 DEF Cancel, TypeOK, Queued, work, effects
  <2>3. QED
    BY <1>20, <2>1, <2>2 DEF Cancel
<1>21. CASE DeleteCheck(j)
  BY <1>21 DEF DeleteCheck, TypeOK, Steps, job, work, effects
<1>22. CASE DeleteJob(j)
  <2>1. CASE state[j] \notin {"running", "deleted"}
    <3>1. PICK p \in {"none"} \cup IF "progress" \in Faults THEN {phase[j]} ELSE {} :
            phase' = [phase EXCEPT ![j] = p]
      BY <1>22, <2>1 DEF DeleteJob
    <3>2. phase' \in [Uploads -> Phases]
      BY <3>1 DEF TypeOK, Phases
    <3>3. /\ state' \in [Uploads -> States]
          /\ \A i \in Uploads : state'[i] = "running" <=> pc[i] # "idle"
      BY <1>22, <2>1 DEF DeleteJob, TypeOK, States
    <3>4. QED
      BY <1>22, <3>2, <3>3 DEF DeleteJob, TypeOK, work, effects
  <2>2. CASE state[j] \in {"running", "deleted"}
    BY <1>22, <2>2 DEF DeleteJob, TypeOK, work, effects
  <2>3. QED
    BY <1>22, <2>1, <2>2
<1>23. CASE Age(j)
  BY <1>23 DEF Age, InWork, TypeOK, Steps, job, work, effects
<1>24. CASE CleanUp(j)
  BY <1>24 DEF CleanUp, DroppedBlob, TypeOK, Steps, job, work, effects
<1>25. QED
  BY <1>1, <1>2, <1>3, <1>4, <1>5, <1>6, <1>7, <1>8, <1>9, <1>10, <1>11,
     <1>12, <1>13, <1>14, <1>15, <1>16, <1>17, <1>18, <1>19, <1>20, <1>21,
     <1>22, <1>23, <1>24 DEF Attempt, Request

\* Only generation makes a report, and no step changes the mode.
LEMMA EffectsStep ==
  ASSUME NEW j \in Uploads,
         \/ Stage(j) \/ Submit(j) \/ Fetch(j) \/ Attempt(j) \/ EndContext(j)
         \/ Crash(j) \/ Rescue(j) \/ Request(j) \/ Age(j) \/ CleanUp(j)
  PROVE  /\ keep' = keep
         /\ \/ ran' = ran
            \/ /\ ran' = ran \cup {j}
               /\ builds' = IF keep THEN Append(builds, j) ELSE builds
         /\ ~keep => builds' = builds
<1>1. CASE Generate(j)
  BY <1>1 DEF Generate
<1>2. CASE GenerateFails(j)
  <2>1. keep' = keep /\ ran' = ran
    BY <1>2 DEF GenerateFails
  <2>2. ~keep => ~MayFailLate(j)
    BY DEF MayFailLate
  <2>3. ~keep => builds' = builds
    BY <1>2, <2>2 DEF GenerateFails
  <2>4. QED
    BY <2>1, <2>3
<1>3. CASE ~Generate(j) /\ ~GenerateFails(j)
  BY <1>3 DEF Stage, Submit, Fetch, Attempt, Begin, Extract, ExtractFails, DropBlob,
     Finish, EnqueueWebhooks, Complete, ReportFailure, HandleError, Settle,
     EndContext, Crash, Rescue, Request, Retry, Cancel, DeleteCheck, DeleteJob,
     Age, CleanUp, effects
<1>4. QED
  BY <1>1, <1>2, <1>3

\* Every step keeps the builds of the reports.
LEMMA KeptStep ==
  ASSUME NEW j \in Uploads, TypeOK, Kept,
         \/ Stage(j) \/ Submit(j) \/ Fetch(j) \/ Attempt(j) \/ EndContext(j)
         \/ Crash(j) \/ Rescue(j) \/ Request(j) \/ Age(j) \/ CleanUp(j)
  PROVE  Kept'
<1>1. builds' \in {builds, Append(builds, j)}
  BY BuildsStep
<1>2. builds \in Seq(Uploads) /\ ran \subseteq Uploads
  BY DEF TypeOK
<1>3. /\ \A i \in Uploads : BuildsOf(i) # {} => BuildsOf(i)' # {}
      /\ builds' = Append(builds, j) => BuildsOf(j)' # {}
  BY <1>1, <1>2, AppendBuild
<1>4. CASE keep
  <2>1. ran' = ran \/ (ran' = ran \cup {j} /\ builds' = Append(builds, j))
    BY <1>4, EffectsStep
  <2>2. QED
    BY <1>2, <1>3, <1>4, <2>1, EffectsStep DEF Kept
<1>5. CASE ~keep
  BY <1>5, EffectsStep DEF Kept
<1>6. QED
  BY <1>4, <1>5

\* Every step keeps the reports of workers and completed jobs.
LEMMA ReportedStep ==
  ASSUME NEW j \in Uploads, TypeOK, Reported,
         \/ Stage(j) \/ Submit(j) \/ Fetch(j) \/ Attempt(j) \/ EndContext(j)
         \/ Crash(j) \/ Rescue(j) \/ Request(j) \/ Age(j) \/ CleanUp(j)
  PROVE  Reported'
<1>1. CASE Stage(j)
  BY <1>1 DEF Stage, Written, Reported, Holding, TypeOK, Queued,
     Final, job, work, effects
<1>2. CASE Submit(j)
  BY <1>2 DEF Submit, Reported, Holding, TypeOK, Queued, Final,
     job, work, effects
<1>3. CASE Fetch(j)
  BY <1>3 DEF Fetch, Queued, Goto, Reported, Holding, TypeOK,
     Final, job, work, effects
<1>4. CASE Begin(j)
  BY <1>4 DEF Begin, Goto, Progress, Logged, Reported, Holding,
     TypeOK, Queued, Final, job, work, effects
<1>5. CASE Extract(j)
  BY <1>5 DEF Extract, Goto, Progress, Logged, Reported, Holding,
     TypeOK, Queued, Final, job, work, effects
<1>6. CASE ExtractFails(j)
  BY <1>6 DEF ExtractFails, Goto, BlobAfterFailure,
     KeptOnFailure, Reported, Holding, TypeOK, Queued, Final, job, work,
     effects
<1>7. CASE Generate(j)
  BY <1>7 DEF Generate, Goto, Reported, Holding, TypeOK, Queued,
     Final, job, work, effects
<1>8. CASE GenerateFails(j)
  BY <1>8 DEF GenerateFails, Goto, Reported, Holding, TypeOK,
     Queued, Final, job, work, effects
<1>9. CASE DropBlob(j)
  <2>1. pc[j] = "drop" /\ pc' = [pc EXCEPT ![j] = "finish"]
    BY <1>9 DEF DropBlob, Goto, AfterDrop
  <2>2. UNCHANGED <<state, output, made, ran>>
    BY <1>9 DEF DropBlob, job, effects
  <2>3. \A i \in Uploads : Holding(i)' => Holding(i)
    BY <2>1 DEF Holding, TypeOK
  <2>4. QED
    BY <2>2, <2>3 DEF Reported
<1>10. CASE Finish(j)
  BY <1>10 DEF Finish, Goto, Progress, Logged, Reported, Holding,
     TypeOK, Queued, Final, job, work, effects
<1>11. CASE EnqueueWebhooks(j)
  BY <1>11 DEF EnqueueWebhooks, Goto, Logged, Reported, Holding,
     TypeOK, Queued, Final, job, work, effects
<1>12. CASE Complete(j)
  BY <1>12 DEF Complete, EndAttempt, Goto, Reported, Holding,
     TypeOK, Queued, Final, job, work, effects
<1>13. CASE ReportFailure(j)
  BY <1>13 DEF ReportFailure, Goto, Progress, Logged, Reported,
     Holding, TypeOK, Queued, Final, job, work, effects
<1>14. CASE HandleError(j)
  BY <1>14 DEF HandleError, Goto, Reported, Holding, TypeOK,
     Queued, Final, job, work, effects
<1>15. CASE Settle(j)
  BY <1>15 DEF Settle, EndAttempt, Goto, Verdict, Reported,
     Holding, TypeOK, Queued, Final, job, work, effects
<1>16. CASE EndContext(j)
  BY <1>16 DEF EndContext, InWork, Reported, Holding, TypeOK,
     Queued, Final, job, work, effects
<1>17. CASE Crash(j)
  BY <1>17 DEF Crash, Goto, InWork, Reported, Holding, TypeOK,
     Queued, Final, job, work, effects
<1>18. CASE Rescue(j)
  BY <1>18 DEF Rescue, Goto, Verdict, Reported, Holding, TypeOK,
     Queued, Final, job, work, effects
<1>19. CASE Retry(j)
  BY <1>19 DEF Retry, Final, Reported, Holding, TypeOK, Queued,
     job, work, effects
<1>20. CASE Cancel(j)
  BY <1>20 DEF Cancel, Reported, Holding, TypeOK, Queued, Final,
     job, work, effects
<1>21. CASE DeleteCheck(j)
  BY <1>21 DEF DeleteCheck, Reported, Holding, TypeOK, Queued,
     Final, job, work, effects
<1>22. CASE DeleteJob(j)
  <2>1. \A i \in Uploads : state'[i] = "completed" => state[i] = "completed"
    BY <1>22 DEF DeleteJob, TypeOK
  <2>2. UNCHANGED <<pc, output, made, ran>>
    BY <1>22 DEF DeleteJob, work, effects
  <2>3. QED
    BY <2>1, <2>2 DEF Reported, Holding
<1>23. CASE Age(j)
  BY <1>23 DEF Age, InWork, Reported, Holding, TypeOK, Queued,
     Final, job, work, effects
<1>24. CASE CleanUp(j)
  BY <1>24 DEF CleanUp, DroppedBlob, Reported, Holding, TypeOK,
     Queued, Final, job, work, effects
<1>25. QED
  BY <1>1, <1>2, <1>3, <1>4, <1>5, <1>6, <1>7, <1>8, <1>9, <1>10, <1>11,
     <1>12, <1>13, <1>14, <1>15, <1>16, <1>17, <1>18, <1>19, <1>20, <1>21,
     <1>22, <1>23, <1>24 DEF Attempt, Request

\* No step but a cleanup takes away an archive that may be needed.
LEMMA ArchivedStep ==
  ASSUME NEW j \in Uploads, TypeOK, Counters, Reported, Archived, ~Cleanup,
         \/ Stage(j) \/ Submit(j) \/ Fetch(j) \/ Attempt(j) \/ EndContext(j)
         \/ Crash(j) \/ Rescue(j) \/ Request(j) \/ Age(j) \/ CleanUp(j)
  PROVE  Archived'
<1>1. CASE Stage(j)
  <2>1. /\ \A i \in Uploads : i # j => blob'[i] = blob[i] /\ reply'[i] = reply[i]
        /\ blob'[j] \in {blob[j], "fresh"}
        /\ j \in Staged /\ reply'[j] = "staged" => blob'[j] = "fresh"
        /\ reply'[j] \in {"staged", "refused"}
    BY <1>1 DEF Stage, Written, TypeOK
  <2>2. ran' = ran
    BY <1>1 DEF Stage, effects
  <2>3. QED
    BY <1>1, <2>1, <2>2, ConstantsAssumption DEF Archived, TypeOK
<1>2. CASE Submit(j)
  <2>1. /\ reply[j] = "staged"
        /\ reply' = [reply EXCEPT ![j] = "accepted"]
        /\ UNCHANGED <<blob, ran>>
    BY <1>2 DEF Submit, effects
  <2>2. QED
    BY <2>1, ConstantsAssumption DEF Archived, TypeOK
<1>3. CASE Fetch(j)
  BY <1>3, ConstantsAssumption DEF Fetch, Queued, Goto, Archived,
     Counters, Reported, Holding, TypeOK, Final, job, work, effects
<1>4. CASE Begin(j)
  BY <1>4, ConstantsAssumption DEF Begin, Goto, Progress, Logged,
     Archived, Counters, Reported, Holding, TypeOK, Queued, Final, job, work,
     effects
<1>5. CASE Extract(j)
  BY <1>5, ConstantsAssumption DEF Extract, Goto, Progress,
     Logged, Archived, Counters, Reported, Holding, TypeOK, Queued, Final,
     job, work, effects
<1>6. CASE ExtractFails(j)
  BY <1>6, ConstantsAssumption DEF ExtractFails, Goto,
     BlobAfterFailure, KeptOnFailure, Archived, Counters, Reported, Holding,
     TypeOK, Queued, Final, job, work, effects
<1>7. CASE Generate(j)
  BY <1>7, ConstantsAssumption DEF Generate, Goto, Archived,
     Counters, Reported, Holding, TypeOK, Queued, Final, job, work, effects
<1>8. CASE GenerateFails(j)
  BY <1>8, ConstantsAssumption DEF GenerateFails, Goto, Archived,
     Counters, Reported, Holding, TypeOK, Queued, Final, job, work, effects
<1>9. CASE DropBlob(j)
  <2>1. j \in ran
    BY <1>9 DEF DropBlob, Reported, Holding
  <2>2. /\ \A i \in Uploads : i # j => blob'[i] = blob[i]
        /\ blob'[j] \in {blob[j], "absent"}
    BY <1>9 DEF DropBlob, DroppedBlob, TypeOK
  <2>3. ran' = ran
    BY <1>9 DEF DropBlob, effects
  <2>4. reply' = reply
    BY <1>9 DEF DropBlob
  <2>5. QED
    BY <2>1, <2>2, <2>3, <2>4, ConstantsAssumption DEF Archived
<1>10. CASE Finish(j)
  BY <1>10, ConstantsAssumption DEF Finish, Goto, Progress,
     Logged, Archived, Counters, Reported, Holding, TypeOK, Queued, Final,
     job, work, effects
<1>11. CASE EnqueueWebhooks(j)
  BY <1>11, ConstantsAssumption DEF EnqueueWebhooks, Goto,
     Logged, Archived, Counters, Reported, Holding, TypeOK, Queued, Final,
     job, work, effects
<1>12. CASE Complete(j)
  BY <1>12, ConstantsAssumption DEF Complete, EndAttempt, Goto,
     Archived, Counters, Reported, Holding, TypeOK, Queued, Final, job, work,
     effects
<1>13. CASE ReportFailure(j)
  BY <1>13, ConstantsAssumption DEF ReportFailure, Goto,
     Progress, Logged, Archived, Counters, Reported, Holding, TypeOK, Queued,
     Final, job, work, effects
<1>14. CASE HandleError(j)
  BY <1>14, ConstantsAssumption DEF HandleError, Goto, Archived,
     Counters, Reported, Holding, TypeOK, Queued, Final, job, work, effects
<1>15. CASE Settle(j)
  BY <1>15, ConstantsAssumption DEF Settle, EndAttempt, Goto,
     Verdict, Archived, Counters, Reported, Holding, TypeOK, Queued, Final,
     job, work, effects
<1>16. CASE EndContext(j)
  BY <1>16, ConstantsAssumption DEF EndContext, InWork, Archived,
     Counters, Reported, Holding, TypeOK, Queued, Final, job, work, effects
<1>17. CASE Crash(j)
  BY <1>17, ConstantsAssumption DEF Crash, Goto, InWork,
     Archived, Counters, Reported, Holding, TypeOK, Queued, Final, job, work,
     effects
<1>18. CASE Rescue(j)
  BY <1>18, ConstantsAssumption DEF Rescue, Goto, Verdict,
     Archived, Counters, Reported, Holding, TypeOK, Queued, Final, job, work,
     effects
<1>19. CASE Retry(j)
  BY <1>19, ConstantsAssumption DEF Retry, Final, Archived,
     Counters, Reported, Holding, TypeOK, Queued, job, work, effects
<1>20. CASE Cancel(j)
  BY <1>20, ConstantsAssumption DEF Cancel, Archived, Counters,
     Reported, Holding, TypeOK, Queued, Final, job, work, effects
<1>21. CASE DeleteCheck(j)
  BY <1>21, ConstantsAssumption DEF DeleteCheck, Archived,
     Counters, Reported, Holding, TypeOK, Queued, Final, job, work, effects
<1>22. CASE DeleteJob(j)
  BY <1>22, ConstantsAssumption
     DEF DeleteJob, Archived, effects
<1>23. CASE Age(j)
  BY <1>23, ConstantsAssumption DEF Age, InWork, Archived,
     Counters, Reported, Holding, TypeOK, Queued, Final, job, work, effects
<1>24. CASE CleanUp(j)
  BY <1>24, ConstantsAssumption DEF CleanUp, DroppedBlob,
     Archived, Counters, Reported, Holding, TypeOK, Queued, Final, job, work,
     effects
<1>25. QED
  BY <1>1, <1>2, <1>3, <1>4, <1>5, <1>6, <1>7, <1>8, <1>9, <1>10, <1>11,
     <1>12, <1>13, <1>14, <1>15, <1>16, <1>17, <1>18, <1>19, <1>20, <1>21,
     <1>22, <1>23, <1>24 DEF Attempt, Request

-----------------------------------------------------------------------------
SInv == TypeOK /\ Counters

\* No step changes anything when the variables stay.
LEMMA Stutter ==
  ASSUME UNCHANGED vars
  PROVE  /\ TypeOK => TypeOK'
         /\ Counters => Counters'
         /\ Reported => Reported'
         /\ Kept => Kept'
         /\ Archived => Archived'
  BY DEF vars, TypeOK, Counters, Reported, Kept, Archived, Holding, BuildsOf

\* Nothing has been uploaded yet.
LEMMA InitHolds == Init => TypeOK /\ Counters /\ Reported /\ Kept /\ Archived
<1>1. Init => TypeOK
  BY ConstantsAssumption
  DEF Init, TypeOK, States, Queued, Final, Phases, Steps
<1>2. Init => Counters /\ Reported /\ Kept /\ Archived
  BY ConstantsAssumption
  DEF Init, Counters, Reported, Kept, Archived, Holding, Queued, Final
<1>3. QED
  BY <1>1, <1>2

\* Every variable keeps its type, no job gets an attempt beyond its limit, and a
\* job is running exactly while a worker has it, dead or alive.
THEOREM UploadTypeCorrect == Spec => []TypeOK
<1>1. Init => SInv
  BY InitHolds DEF SInv
<1>2. SInv /\ [Next]_vars => SInv'
  BY CountersStep, TypeStep, Stutter DEF SInv, Next
<1>3. SInv => TypeOK
  BY DEF SInv
<1>4. QED
  BY <1>1, <1>2, <1>3, PTL DEF Spec

\* A job shown as completed holds the number of a report of its batch, through any
\* crashes, retries and cancellations; the report is a build where history is kept,
\* and there is no build where it is not.
THEOREM CompletedJobsReport == Spec => []CompletedHasReport
<1>1. Init => SInv /\ Reported /\ Kept
  BY InitHolds DEF SInv
<1>2. SInv /\ Reported /\ Kept /\ [Next]_vars => (SInv /\ Reported /\ Kept)'
  BY CountersStep, TypeStep, ReportedStep, KeptStep, Stutter DEF SInv, Next
<1>3. SInv /\ Reported /\ Kept => CompletedHasReport
  <2>1. builds = <<>> => \A j \in Uploads : BuildsOf(j) = {}
    BY DEF BuildsOf
  <2>2. QED
    BY <2>1 DEF SInv, TypeOK, Reported, Kept, CompletedHasReport
<1>4. QED
  BY <1>1, <1>2, <1>3, PTL DEF Spec

\* Unless the cleanup takes it, an archive is there as long as its job may run
\* and no report was made of it, for any number of attempts and crashes, whether
\* history is kept or not.
THEOREM ArchivesAreKept ==
  ASSUME ~Cleanup
  PROVE  Spec => []ArchiveKept
<1>1. Init => SInv /\ Reported /\ Archived
  BY InitHolds DEF SInv
<1>2. SInv /\ Reported /\ Archived /\ [Next]_vars
        => (SInv /\ Reported /\ Archived)'
  BY CountersStep, TypeStep, ReportedStep, ArchivedStep, Stutter DEF SInv, Next
<1>3. SInv /\ Reported /\ Archived => ArchiveKept
  BY ConstantsAssumption DEF SInv, Counters, Archived, ArchiveKept, Queued
<1>4. QED
  BY <1>1, <1>2, <1>3, PTL DEF Spec

-----------------------------------------------------------------------------
(* That StagedUpload implements Upload when no pod dies, no attempt        *)
(* exceeds its time, retention does not fail and no job is retried by      *)
(* request: a report is made once of a completed job, none of a failed one. *)

\* The attempt that built, or the end it came to: none is begun after it.
Past(j) ==
  \/ Holding(j)
  \/ asked[j] /\ pc[j] \in {"failing", "error", "settle"}
  \/ state[j] \in {"completed", "cancelled", "deleted"}

\* A batch has a report or a build only past its attempt, and then a single one.
Exact ==
  /\ BuiltOnce
  /\ \A j \in Uploads :
       /\ j \in Worked => Past(j)
       /\ pc[j] # "dead"
       /\ j \in deleting => state[j] \in Final \cup {"deleted"}

\* Nothing interrupts a worker but a request to cancel.
Undisturbed == ~Crashes /\ ~Timeouts /\ ~LateErrors /\ "retry" \notin Requests

-----------------------------------------------------------------------------
\* Steps that build nothing leave every batch with the builds it has.
LEMMA SameBuilds ==
  ASSUME UNCHANGED builds
  PROVE  BuiltOnce' = BuiltOnce /\ \A i \in Uploads : BuildsOf(i)' = BuildsOf(i)
  BY DEF BuiltOnce, BuildsOf

\* The first build of a batch is its only one, and other batches keep theirs.
LEMMA FirstBuild ==
  ASSUME NEW j \in Uploads, builds \in Seq(Uploads), BuiltOnce,
         BuildsOf(j) = {}, builds' = Append(builds, j)
  PROVE  BuiltOnce' /\ \A i \in Uploads \ {j} : BuildsOf(i) = {} => BuildsOf(i)' = {}
<1>1. /\ Len(builds) \in Nat
      /\ DOMAIN builds = 1..Len(builds)
      /\ DOMAIN builds' = 1..(Len(builds) + 1)
      /\ \A n \in 1..Len(builds) : builds'[n] = builds[n]
      /\ builds'[Len(builds) + 1] = j
  OBVIOUS
<1>2. \A n \in DOMAIN builds : builds[n] # j
  BY DEF BuildsOf
<1>3. BuiltOnce'
  BY <1>1, <1>2 DEF BuiltOnce
<1>4. QED
  BY <1>1, <1>3 DEF BuildsOf

\* A batch past its attempt stays there, and nobody deletes an unfinished job.
LEMMA PastStays ==
  ASSUME NEW j \in Uploads, TypeOK, Counters, Exact, Undisturbed,
         \/ Stage(j) \/ Submit(j) \/ Fetch(j) \/ Attempt(j) \/ EndContext(j)
         \/ Crash(j) \/ Rescue(j) \/ Request(j) \/ Age(j) \/ CleanUp(j)
  PROVE  /\ \A i \in Uploads : Past(i) => Past(i)'
         /\ \A i \in Uploads :
              pc'[i] # "dead" /\ (i \in deleting' => state'[i] \in Final \cup {"deleted"})
<1>1. CASE Stage(j)
  BY <1>1 DEF Stage, Written, Counters, Exact, Past, Holding, TypeOK,
     Undisturbed, Queued, Final, job, work, effects
<1>2. CASE Submit(j)
  BY <1>2 DEF Submit, Counters, Exact, Past, Holding, TypeOK, Undisturbed,
     Queued, Final, job, work, effects
<1>3. CASE Fetch(j)
  <2>1. /\ state[j] \in Queued /\ UNCHANGED <<deleting, made>>
        /\ state' = [state EXCEPT ![j] = "running"]
        /\ asked' = [asked EXCEPT ![j] = FALSE]
        /\ pc' = [pc EXCEPT ![j] = "start"]
    BY <1>3 DEF Fetch, Goto
  <2>2. ~InWork(j) /\ state[j] \notin {"running", "deleted"} \cup Final
    BY <2>1 DEF TypeOK, Queued, Final, InWork
  <2>3. ~Past(j) /\ j \notin deleting
    BY <2>2 DEF Past, Holding, Exact, Final, InWork
  <2>4. \A i \in Uploads \ {j} :
          state'[i] = state[i] /\ asked'[i] = asked[i] /\ pc'[i] = pc[i]
    BY <2>1 DEF TypeOK
  <2>5. \A i \in Uploads \ {j} : Past(i)' = Past(i)
    BY <2>1, <2>4 DEF Past, Holding
  <2>6. pc'[j] = "start"
    BY <2>1 DEF TypeOK
  <2>7. QED
    BY <2>1, <2>3, <2>4, <2>5, <2>6 DEF Exact
<1>4. CASE Begin(j)
  BY <1>4 DEF Begin, Goto, Progress, Logged, Counters, Exact, Past, Holding,
     TypeOK, Undisturbed, Queued, Final, job, work, effects
<1>5. CASE Extract(j)
  BY <1>5 DEF Extract, Goto, Progress, Logged, Counters, Exact, Past,
     Holding, TypeOK, Undisturbed, Queued, Final, job, work, effects
<1>6. CASE ExtractFails(j)
  BY <1>6 DEF ExtractFails, Goto, BlobAfterFailure, KeptOnFailure, Counters,
     Exact, Past, Holding, TypeOK, Undisturbed, Queued, Final, job, work,
     effects
<1>7. CASE Generate(j)
  BY <1>7 DEF Generate, Goto, Counters, Exact, Past, Holding, TypeOK,
     Undisturbed, Queued, Final, job, work, effects
<1>8. CASE GenerateFails(j)
  BY <1>8 DEF GenerateFails, Goto, Counters, Exact, Past, Holding, TypeOK,
     Undisturbed, Queued, Final, job, work, effects
<1>9. CASE DropBlob(j)
  <2>1. /\ pc[j] = "drop" /\ pc' = [pc EXCEPT ![j] = "finish"]
        /\ UNCHANGED <<state, asked, deleting>>
    BY <1>9 DEF DropBlob, Goto, AfterDrop, job
  <2>2. QED
    BY <2>1 DEF Exact, Past, Holding, TypeOK
<1>10. CASE Finish(j)
  BY <1>10 DEF Finish, Goto, Progress, Logged, Counters, Exact, Past,
     Holding, TypeOK, Undisturbed, Queued, Final, job, work, effects
<1>11. CASE EnqueueWebhooks(j)
  BY <1>11 DEF EnqueueWebhooks, Goto, Logged, Counters, Exact, Past, Holding,
     TypeOK, Undisturbed, Queued, Final, job, work, effects
<1>12. CASE Complete(j)
  BY <1>12 DEF Complete, EndAttempt, Goto, Counters, Exact, Past, Holding,
     TypeOK, Undisturbed, Queued, Final, job, work, effects
<1>13. CASE ReportFailure(j)
  BY <1>13 DEF ReportFailure, Goto, Progress, Logged, Counters, Exact, Past,
     Holding, TypeOK, Undisturbed, Queued, Final, job, work, effects
<1>14. CASE HandleError(j)
  BY <1>14 DEF HandleError, Goto, Counters, Exact, Past, Holding, TypeOK,
     Undisturbed, Queued, Final, job, work, effects
<1>15. CASE Settle(j)
  <2>1. /\ pc[j] = "settle" /\ state[j] = "running"
        /\ pc' = [pc EXCEPT ![j] = "idle"]
        /\ state' = [state EXCEPT ![j] = Verdict(j)]
        /\ UNCHANGED <<asked, deleting>>
    BY <1>15 DEF Settle, EndAttempt, Goto, TypeOK
  <2>2. asked[j] => Verdict(j) = "cancelled"
    BY DEF Verdict
  <2>3. j \notin deleting
    BY <2>1 DEF Exact, Final
  <2>4. QED
    BY <2>1, <2>2, <2>3 DEF Exact, Past, Holding, TypeOK
<1>16. CASE EndContext(j)
  BY <1>16 DEF EndContext, InWork, Counters, Exact, Past, Holding, TypeOK,
     Undisturbed, Queued, Final, job, work, effects
<1>17. CASE Crash(j)
  BY <1>17 DEF Crash, Goto, InWork, Counters, Exact, Past, Holding, TypeOK,
     Undisturbed, Queued, Final, job, work, effects
<1>18. CASE Rescue(j)
  BY <1>18 DEF Rescue, Goto, Verdict, Counters, Exact, Past, Holding, TypeOK,
     Undisturbed, Queued, Final, job, work, effects
<1>19. CASE Retry(j)
  BY <1>19 DEF Retry, Final, Counters, Exact, Past, Holding, TypeOK,
     Undisturbed, Queued, job, work, effects
<1>20. CASE Cancel(j)
  <2>1. /\ UNCHANGED <<pc, deleting>>
        /\ \/ /\ state[j] \in Queued /\ UNCHANGED asked
              /\ state' = [state EXCEPT ![j] = "cancelled"]
           \/ /\ UNCHANGED state
              /\ asked' = [asked EXCEPT ![j] = TRUE]
    BY <1>20 DEF Cancel, work
  <2>2. CASE /\ state[j] \in Queued /\ UNCHANGED asked
             /\ state' = [state EXCEPT ![j] = "cancelled"]
    BY <2>1, <2>2 DEF Exact, Past, Holding, TypeOK, Final, Queued
  <2>3. CASE UNCHANGED state /\ asked' = [asked EXCEPT ![j] = TRUE]
    BY <2>1, <2>3 DEF Exact, Past, Holding, TypeOK
  <2>4. QED
    BY <2>1, <2>2, <2>3
<1>21. CASE DeleteCheck(j)
  BY <1>21 DEF DeleteCheck, Counters, Exact, Past, Holding, TypeOK,
     Undisturbed, Queued, Final, job, work, effects
<1>22. CASE DeleteJob(j)
  <2>1. /\ UNCHANGED <<pc, asked>>
        /\ deleting' = deleting \ {j}
        /\ \/ UNCHANGED state
           \/ state[j] # "running" /\ state' = [state EXCEPT ![j] = "deleted"]
    BY <1>22 DEF DeleteJob, work
  <2>2. QED
    BY <2>1 DEF Exact, Past, Holding, TypeOK, Final
<1>23. CASE Age(j)
  BY <1>23 DEF Age, InWork, Counters, Exact, Past, Holding, TypeOK,
     Undisturbed, Queued, Final, job, work, effects
<1>24. CASE CleanUp(j)
  BY <1>24 DEF CleanUp, DroppedBlob, Counters, Exact, Past, Holding, TypeOK,
     Undisturbed, Queued, Final, job, work, effects
<1>25. QED
  BY <1>1, <1>2, <1>3, <1>4, <1>5, <1>6, <1>7, <1>8, <1>9, <1>10, <1>11,
     <1>12, <1>13, <1>14, <1>15, <1>16, <1>17, <1>18, <1>19, <1>20, <1>21,
     <1>22, <1>23, <1>24 DEF Attempt, Request

\* A step of generation belongs to an attempt without a report, and is past it when
\* it makes one.
LEMMA GenerationStep ==
  ASSUME NEW j \in Uploads, TypeOK, Exact, Undisturbed,
         Generate(j) \/ GenerateFails(j)
  PROVE  /\ state[j] = "running" /\ UNCHANGED <<state, keep>>
         /\ j \notin Worked
         /\ \/ UNCHANGED <<builds, ran>>
            \/ /\ ran' \subseteq ran \cup {j}
               /\ ran \subseteq ran'
               /\ builds' = IF keep THEN Append(builds, j) ELSE builds
               /\ keep \/ j \in ran'
               /\ Past(j)'
<1>1. pc[j] = "generate" /\ UNCHANGED <<state, asked, keep>>
  BY DEF Generate, GenerateFails, job
<1>2. state[j] = "running" /\ j \notin Worked
  BY <1>1 DEF TypeOK, Exact, Past, Holding
<1>3. CASE Generate(j)
  <2>1. pc'[j] \in {"drop", "finish"}
    BY <1>3 DEF Generate, Goto, TypeOK
  <2>2. QED
    BY <1>1, <1>2, <1>3, <2>1 DEF Generate, Past, Holding
<1>4. CASE GenerateFails(j)
  <2>1. pc'[j] = "failing" /\ ran' = ran
    BY <1>4 DEF GenerateFails, Goto, TypeOK
  <2>2. UNCHANGED builds \/ (keep /\ builds' = Append(builds, j) /\ asked[j])
    <3>1. MayFailLate(j) => keep /\ asked[j]
      BY DEF MayFailLate, Undisturbed
    <3>2. builds' \in {builds} \cup IF MayFailLate(j) THEN {Append(builds, j)} ELSE {}
      BY <1>4 DEF GenerateFails
    <3>3. QED
      BY <3>1, <3>2
  <2>3. QED
    BY <1>1, <1>2, <2>1, <2>2 DEF Past
<1>5. QED
  BY <1>3, <1>4

\* Only generation makes reports and builds.
LEMMA OtherSteps ==
  ASSUME NEW j \in Uploads,
         \/ Stage(j) \/ Submit(j) \/ Fetch(j) \/ Attempt(j) \/ EndContext(j)
         \/ Crash(j) \/ Rescue(j) \/ Request(j) \/ Age(j) \/ CleanUp(j)
  PROVE  Generate(j) \/ GenerateFails(j) \/ UNCHANGED <<keep, builds, ran>>
  BY DEF Stage, Submit, Fetch, Attempt, Begin, Extract, ExtractFails, DropBlob,
     Finish, EnqueueWebhooks, Complete, ReportFailure, HandleError, Settle,
     EndContext, Crash, Rescue, Request, Retry, Cancel, DeleteCheck, DeleteJob,
     Age, CleanUp, effects

\* What is worked changes by one batch at a time, which then is built if at all.
LEMMA WorkedStep ==
  ASSUME NEW j \in Uploads, TypeOK, Exact, Undisturbed,
         Generate(j) \/ GenerateFails(j), ~UNCHANGED <<builds, ran>>
  PROVE  /\ Worked' = Worked \cup {j}
         /\ BuiltOnce'
<1>1. /\ j \notin Worked
      /\ ran' \subseteq ran \cup {j} /\ ran \subseteq ran'
      /\ builds' = IF keep THEN Append(builds, j) ELSE builds
      /\ keep \/ j \in ran'
  BY GenerationStep
<1>2. BuildsOf(j) = {} /\ builds \in Seq(Uploads) /\ BuiltOnce
  BY <1>1 DEF Worked, Exact, TypeOK
<1>3. CASE keep
  <2>1. builds' = Append(builds, j)
    BY <1>1, <1>3
  <2>2. /\ BuiltOnce'
        /\ \A i \in Uploads \ {j} : BuildsOf(i) = {} => BuildsOf(i)' = {}
    BY <1>2, <2>1, FirstBuild
  <2>3. /\ \A i \in Uploads : BuildsOf(i) # {} => BuildsOf(i)' # {}
        /\ BuildsOf(j)' # {}
    BY <1>2, <2>1, AppendBuild
  <2>4. QED
    BY <1>1, <2>2, <2>3 DEF Worked
<1>4. CASE ~keep
  <2>1. UNCHANGED builds /\ ran' = ran \cup {j}
    BY <1>1, <1>4
  <2>2. BuiltOnce' /\ \A i \in Uploads : BuildsOf(i)' = BuildsOf(i)
    BY <1>2, <2>1, SameBuilds
  <2>3. QED
    BY <2>1, <2>2 DEF Worked
<1>5. QED
  BY <1>3, <1>4

\* Every step keeps a batch at one build.
LEMMA ExactStep ==
  ASSUME NEW j \in Uploads, TypeOK, Counters, Exact, Undisturbed,
         \/ Stage(j) \/ Submit(j) \/ Fetch(j) \/ Attempt(j) \/ EndContext(j)
         \/ Crash(j) \/ Rescue(j) \/ Request(j) \/ Age(j) \/ CleanUp(j)
  PROVE  Exact'
<1>1. /\ \A i \in Uploads : Past(i) => Past(i)'
      /\ \A i \in Uploads :
           pc'[i] # "dead" /\ (i \in deleting' => state'[i] \in Final \cup {"deleted"})
  BY PastStays
<1>2. CASE UNCHANGED <<builds, ran>>
  <2>1. BuiltOnce' = BuiltOnce /\ Worked' = Worked
    BY <1>2, SameBuilds DEF Worked
  <2>2. QED
    BY <1>1, <2>1 DEF Exact
<1>3. CASE ~UNCHANGED <<builds, ran>>
  <2>1. Generate(j) \/ GenerateFails(j)
    BY <1>3, OtherSteps
  <2>2. Past(j)'
    BY <1>3, <2>1, GenerationStep
  <2>3. BuiltOnce' /\ Worked' = Worked \cup {j}
    BY <1>3, <2>1, WorkedStep
  <2>4. QED
    BY <1>1, <2>2, <2>3 DEF Exact
<1>4. QED
  BY <1>2, <1>3

-----------------------------------------------------------------------------
\* A change of a job's state is one of its upload's fate.
LEMMA FateMoves ==
  ASSUME NEW j \in Uploads, NEW s, TypeOK, state' = [state EXCEPT ![j] = s]
  PROVE  Fate' = [Fate EXCEPT ![j] = Shown(s)] /\ Fate[j] = Shown(state[j])
  BY DEF Fate, TypeOK

\* Where the states stay, the fates stay.
LEMMA FateStays ==
  ASSUME UNCHANGED state
  PROVE  UNCHANGED Fate
  BY DEF Fate

\* The names the job list has for River's states.
LEMMA ShownStates ==
  /\ Shown("none") = "none" /\ Shown("available") = "open"
  /\ Shown("retryable") = "open" /\ Shown("running") = "open"
  /\ Shown("completed") = "completed" /\ Shown("cancelled") = "cancelled"
  /\ Shown("discarded") = "failed" /\ Shown("deleted") = "removed"
  BY DEF Shown, Queued

\* Every step of StagedUpload is a step of Upload or leaves its variables alone.
LEMMA StepRefines ==
  ASSUME NEW j \in Uploads, TypeOK, Counters, Reported, Exact, Undisturbed,
         \/ Stage(j) \/ Submit(j) \/ Fetch(j) \/ Attempt(j) \/ EndContext(j)
         \/ Crash(j) \/ Rescue(j) \/ Request(j) \/ Age(j) \/ CleanUp(j)
  PROVE  Promise!Next \/ UNCHANGED <<keep, Fate, Worked, builds>>
<1>0. UNCHANGED <<builds, ran>> => UNCHANGED Worked
  BY SameBuilds DEF Worked
<1>1. CASE Submit(j)
  <2>1. state[j] = "none" /\ UNCHANGED <<keep, builds, ran>>
    BY <1>1 DEF Submit, Counters, effects
  <2>2. UNCHANGED state \/ state' = [state EXCEPT ![j] = "available"]
    BY <1>1 DEF Submit
  <2>3. UNCHANGED Fate \/ Promise!Accept(j)
    BY <1>0, <2>1, <2>2, FateMoves, FateStays, ShownStates
    DEF Promise!Accept, Promise!Move
  <2>4. QED
    BY <1>0, <2>1, <2>3 DEF Promise!Next
<1>2. CASE Fetch(j)
  <2>1. /\ state[j] \in {"available", "retryable"} /\ UNCHANGED <<keep, builds, ran>>
        /\ state' = [state EXCEPT ![j] = "running"]
    BY <1>2 DEF Fetch, Queued, effects
  <2>2. Fate' = [Fate EXCEPT ![j] = "open"] /\ Fate[j] = "open"
    <3>1. Fate' = [Fate EXCEPT ![j] = Shown("running")] /\ Fate[j] = Shown(state[j])
      BY <2>1, FateMoves
    <3>2. QED
      BY <2>1, <3>1, ShownStates
  <2>3. Fate' = Fate
    BY <2>2 DEF Fate
  <2>4. QED
    BY <1>0, <2>1, <2>3
<1>3. CASE Generate(j) \/ GenerateFails(j)
  <2>1. /\ state[j] = "running" /\ UNCHANGED <<state, keep>>
        /\ j \notin Worked
    BY <1>3, GenerationStep
  <2>2. UNCHANGED Fate /\ Fate[j] = "open"
    BY <2>1, FateStays, ShownStates DEF Fate
  <2>3. CASE UNCHANGED <<builds, ran>>
    BY <1>0, <2>1, <2>2, <2>3
  <2>4. CASE ~UNCHANGED <<builds, ran>>
    <3>1. Worked' = Worked \cup {j}
      BY <1>3, <2>4, WorkedStep
    <3>2. builds' = IF keep THEN Append(builds, j) ELSE builds
      BY <1>3, <2>4, GenerationStep
    <3>3. Promise!Work(j)
      BY <2>1, <2>2, <3>1, <3>2 DEF Promise!Work
    <3>4. QED
      BY <3>3 DEF Promise!Next
  <2>5. QED
    BY <2>3, <2>4
<1>4. CASE Complete(j)
  <2>1. /\ state[j] = "running" /\ UNCHANGED <<keep, builds, ran>>
        /\ state' = [state EXCEPT ![j] = "completed"]
    BY <1>4 DEF Complete, TypeOK, effects
  <2>2. j \in Worked
    BY <1>4 DEF Complete, Reported, Holding, Worked
  <2>3. Promise!Succeed(j)
    <3>1. Fate' = [Fate EXCEPT ![j] = Shown("completed")] /\ Fate[j] = Shown(state[j])
      BY <2>1, FateMoves
    <3>2. QED
      BY <1>0, <2>1, <2>2, <3>1, ShownStates
      DEF Promise!Succeed, Promise!Move
  <2>4. QED
    BY <2>3 DEF Promise!Next
<1>5. CASE Settle(j)
  <2>1. /\ pc[j] = "settle" /\ state[j] = "running" /\ UNCHANGED <<keep, builds, ran>>
        /\ state' = [state EXCEPT ![j] = Verdict(j)]
    BY <1>5 DEF Settle, TypeOK, effects
  <2>2. CASE Verdict(j) = "cancelled"
    <3>1. Promise!Withdraw(j)
      <4>1. Fate' = [Fate EXCEPT ![j] = Shown("cancelled")] /\ Fate[j] = Shown(state[j])
        BY <2>1, <2>2, FateMoves
      <4>2. QED
        BY <1>0, <2>1, <4>1, ShownStates
        DEF Promise!Withdraw, Promise!Move
    <3>2. QED
      BY <3>1 DEF Promise!Next
  <2>3. CASE Verdict(j) = "discarded"
    <3>1. ~asked[j]
      BY <2>3 DEF Verdict
    <3>2. j \notin Worked
      BY <2>1, <3>1 DEF Exact, Past, Holding
    <3>3. Promise!Fail(j)
      <4>1. Fate' = [Fate EXCEPT ![j] = Shown("discarded")] /\ Fate[j] = Shown(state[j])
        BY <2>1, <2>3, FateMoves
      <4>2. QED
        BY <1>0, <2>1, <3>2, <4>1, ShownStates
        DEF Promise!Fail, Promise!Move
    <3>4. QED
      BY <3>3 DEF Promise!Next
  <2>4. CASE Verdict(j) = "retryable"
    <3>1. Fate' = [Fate EXCEPT ![j] = "open"] /\ Fate[j] = "open"
      <4>1. Fate' = [Fate EXCEPT ![j] = Shown("retryable")] /\ Fate[j] = Shown(state[j])
        BY <2>1, <2>4, FateMoves
      <4>2. QED
        BY <2>1, <4>1, ShownStates
    <3>2. Fate' = Fate
      BY <3>1 DEF Fate
    <3>3. QED
      BY <1>0, <2>1, <3>2
  <2>5. QED
    BY <2>2, <2>3, <2>4 DEF Verdict
<1>6. CASE Cancel(j)
  <2>1. CASE UNCHANGED state
    BY <1>0, <1>6, <2>1, FateStays DEF Cancel, effects
  <2>2. CASE ~UNCHANGED state
    <3>1. /\ state[j] \in {"available", "retryable"} /\ UNCHANGED <<keep, builds, ran>>
          /\ state' = [state EXCEPT ![j] = "cancelled"]
      BY <1>6, <2>2 DEF Cancel, Queued, effects
    <3>2. Promise!Withdraw(j)
      <4>1. Fate' = [Fate EXCEPT ![j] = Shown("cancelled")] /\ Fate[j] = Shown(state[j])
        BY <3>1, FateMoves
      <4>2. QED
        BY <1>0, <3>1, <4>1, ShownStates
        DEF Promise!Withdraw, Promise!Move
    <3>3. QED
      BY <3>2 DEF Promise!Next
  <2>3. QED
    BY <2>1, <2>2
<1>7. CASE DeleteJob(j)
  <2>1. /\ state[j] \in Final \cup {"deleted"} /\ UNCHANGED <<keep, builds, ran>>
        /\ \/ UNCHANGED state
           \/ state[j] # "deleted" /\ state' = [state EXCEPT ![j] = "deleted"]
    BY <1>7 DEF DeleteJob, Exact, effects
  <2>2. CASE UNCHANGED state
    BY <1>0, <2>1, <2>2, FateStays
  <2>3. CASE ~UNCHANGED state
    <3>1. /\ state[j] \in {"completed", "discarded", "cancelled"}
          /\ state' = [state EXCEPT ![j] = "deleted"]
      BY <2>1, <2>3 DEF Final
    <3>2. Promise!Remove(j)
      <4>1. Fate' = [Fate EXCEPT ![j] = Shown("deleted")] /\ Fate[j] = Shown(state[j])
        BY <3>1, FateMoves
      <4>2. QED
        BY <1>0, <2>1, <3>1, <4>1, ShownStates
        DEF Promise!Remove, Promise!Move
    <3>3. QED
      BY <3>2 DEF Promise!Next
  <2>4. QED
    BY <2>2, <2>3
<1>8. CASE UNCHANGED <<state, keep, builds, ran>>
  BY <1>0, <1>8, FateStays
<1>9. ~Rescue(j) /\ ~Retry(j)
  BY DEF Rescue, Retry, Exact, Undisturbed
<1>10. QED
  BY <1>1, <1>2, <1>3, <1>4, <1>5, <1>6, <1>7, <1>8, <1>9
  DEF Stage, Attempt, Begin, Extract, ExtractFails, DropBlob, Finish,
      EnqueueWebhooks, ReportFailure, HandleError, EndContext, Crash, Request,
      DeleteCheck, Age, CleanUp, job, effects

-----------------------------------------------------------------------------
RInv == SInv /\ Reported /\ Exact

\* All of it holds before the first upload.
LEMMA InitRInv == Init => RInv
<1>1. Init => Exact
  BY DEF Init, Exact, BuiltOnce, BuildsOf, Worked, Past
<1>2. QED
  BY <1>1, InitHolds DEF RInv, SInv

\* And every step keeps it.
LEMMA NextRInv ==
  ASSUME Undisturbed, RInv, [Next]_vars
  PROVE  RInv'
<1>1. CASE UNCHANGED vars
  <2>1. Exact'
    BY <1>1 DEF RInv, Exact, BuiltOnce, BuildsOf, Worked, Past, Holding, vars
  <2>2. QED
    BY <1>1, <2>1, Stutter DEF RInv, SInv
<1>2. CASE Next
  BY <1>2, CountersStep, TypeStep, ReportedStep, ExactStep DEF RInv, SInv, Next
<1>3. QED
  BY <1>1, <1>2

\* When nothing interrupts the workers but requests to cancel, no batch is built
\* twice, for any number of uploads and attempts and whatever logged-only writes
\* fail.
THEOREM BatchesBuiltOnce ==
  ASSUME Undisturbed
  PROVE  Spec => []BuiltOnce
<1>1. Init => RInv
  BY InitRInv
<1>2. RInv /\ [Next]_vars => RInv'
  BY NextRInv
<1>3. RInv => BuiltOnce
  BY DEF RInv, Exact
<1>4. QED
  BY <1>1, <1>2, <1>3, PTL DEF Spec

\* StagedUpload implements Upload, with history kept and without: a job is completed
\* when a report was made of its batch, once, and fails when none was.
THEOREM QueueKeepsPromise ==
  ASSUME Undisturbed
  PROVE  Spec => ImplementsUpload
<1>1. Init => RInv
  BY InitRInv
<1>2. RInv /\ [Next]_vars => RInv'
  BY NextRInv
<1>3. Init => Promise!Init
  <2>1. Init => Fate = [j \in Uploads |-> "none"]
    BY ShownStates DEF Init, Fate
  <2>2. QED
    BY <2>1, ConstantsAssumption DEF Init, Promise!Init, Worked, BuildsOf
<1>4. RInv /\ [Next]_vars => [Promise!Next]_<<keep, Fate, Worked, builds>>
  <2>1. ASSUME UNCHANGED vars
        PROVE  UNCHANGED <<keep, Fate, Worked, builds>>
    BY <2>1, FateStays, SameBuilds DEF vars, Worked
  <2>2. ASSUME RInv, Next
        PROVE  Promise!Next \/ UNCHANGED <<keep, Fate, Worked, builds>>
    BY <2>2, StepRefines DEF Next, RInv, SInv
  <2>3. QED
    BY <2>1, <2>2
<1>5. QED
  BY <1>1, <1>2, <1>3, <1>4, PTL DEF Spec, ImplementsUpload, Promise!Spec

=============================================================================
