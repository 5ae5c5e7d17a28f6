------------------------------- MODULE Upload -------------------------------
(***************************************************************************)
(* What the job queue promises for the uploads of a project as long as no  *)
(* pod dies, no time limit is exceeded and nobody retries a finished job:  *)
(* a report is made once of an upload that is completed, and none of one   *)
(* that failed. Only cancelling a job leaves open whether there is one.    *)
(* Where history is kept, a report is a build.                             *)
(***************************************************************************)
EXTENDS Naturals, Sequences

CONSTANT Uploads

VARIABLES
  keep,      \* whether history is kept
  fate,      \* what the job list shows of an upload, "open" until it ends
  worked,    \* uploads a report was made of
  builds     \* the project's builds: whose batch each was made of

Move(j, from, to) ==
  /\ fate[j] \in from
  /\ fate' = [fate EXCEPT ![j] = to]
  /\ UNCHANGED <<keep, worked, builds>>

Init ==
  /\ keep \in BOOLEAN
  /\ fate = [j \in Uploads |-> "none"]
  /\ worked = {} /\ builds = <<>>

Accept(j) == Move(j, {"none"}, "open")

Work(j) ==
  /\ fate[j] = "open" /\ j \notin worked
  /\ worked' = worked \cup {j}
  /\ builds' = IF keep THEN Append(builds, j) ELSE builds
  /\ UNCHANGED <<keep, fate>>

Succeed(j) == j \in worked /\ Move(j, {"open"}, "completed")

Fail(j) == j \notin worked /\ Move(j, {"open"}, "failed")

Withdraw(j) == Move(j, {"open"}, "cancelled")

Remove(j) == Move(j, {"completed", "failed", "cancelled"}, "removed")

Next ==
  \E j \in Uploads :
    Accept(j) \/ Work(j) \/ Succeed(j) \/ Fail(j) \/ Withdraw(j) \/ Remove(j)

Spec == Init /\ [][Next]_<<keep, fate, worked, builds>>

=============================================================================
