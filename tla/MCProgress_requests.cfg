SPECIFICATION FairSpec
CONSTANTS
    Procs = {p1}
    Elsewhere = p0
    Callers = {c1, c2}
    TTL = 1
    LoadTimeout = 1
    KeyTimeout = 1
    Horizon = 2
    NoCaller = none
    Hooks = {w1, w2}
    OldHooks = {w1}
    Editors = {e1}
    Sources = {s1}
    Kinds = {"report", "failure", "digest"}
    MaxHooks = 1
    MaxAttempts = 2
    MaxEdits = 2
    DeliveryFaults = {"list", "insert", "load", "log"}
    Crashes = 1
    NoHook = none
    Replicas = {p1}
    Requests = {r1, r2, r3}
    Contents = {some, half, bare}
    Partial = half
    Bare = bare
    MaxChanges = 1
    SummaryFaults = {"evidence", "write", "model", "client"}
    NoContent = none
    UploadIds = {1, 2}
    History = 3
    Manual = manual
    Watcher = watcher
    ResultFiles = {f1}
    MaxRequests = 2
    Keeping = {TRUE, FALSE}
    BatchFaults = {"write"}
CHECK_DEADLOCK FALSE
INVARIANT RepeatNeedsCrash
PROPERTIES
    EveryoneAnswered
    NoticesEnd
    CallsAreNeeded
    BatchesDrain
