SPECIFICATION Spec
CONSTANTS
  Uploads = {u1, u2}
  Staged = {u1}
  MaxAttempts = 2
  MaxRetries = 1
  Requests = {"cancel", "delete"}
  Cleanup = TRUE
  Crashes = FALSE
  Timeouts = FALSE
  LateErrors = FALSE
  KeepHistory = {TRUE, FALSE}
  Storage = "s3"
  Faults = {"insert", "progress", "archive", "webhook"}
CHECK_DEADLOCK FALSE
PROPERTIES
  ImplementsUpload
