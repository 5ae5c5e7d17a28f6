SPECIFICATION FairSpec
CONSTANTS
  Uploads = {u1}
  Staged = {u1}
  MaxAttempts = 3
  MaxRetries = 2
  Requests = {"retry", "cancel", "delete"}
  Cleanup = FALSE
  Crashes = TRUE
  Timeouts = TRUE
  LateErrors = TRUE
  KeepHistory = {TRUE, FALSE}
  Storage = "s3"
  Faults = {"insert", "progress", "archive", "webhook"}
CHECK_DEADLOCK FALSE
INVARIANTS
  ArchiveKept
  CompletedHasReport
PROPERTIES
  JobEnds
