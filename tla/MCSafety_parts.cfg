SPECIFICATION AllSpec
CONSTANTS
    Uploads = {u1, u2}
    Jobs = {u1, u2}
    Allure = allure
    MaxNumber = 2
    MaxAttempts = 2
    MaxGenerations = 1
    MaxDeletions = 1
    Crashes = 1
    Faults = {"write", "insert", "copy", "exists", "read", "flag", "clean"}
    Nobody = none
    UploadIds = {1, 2}
    History = 3
    Manual = manual
    Watcher = watcher
    ResultFiles = {f1, f2}
    MaxRequests = 2
    Storages = {"local", "s3"}
    MaxCleans = 1
    Keeping = {TRUE, FALSE}
    Sweeping = TRUE
    BatchFaults = {"write", "prepare", "insert", "allure", "empty", "publish", "prune", "clean"}
    Procs = {p1}
    Elsewhere = p0
    Callers = {c1, c2}
    TTL = 2
    LoadTimeout = 1
    KeyTimeout = 2
    Horizon = 5
    NoCaller = none
    Accounts = {u1}
    Attempts = {a1, a2}
    Window = 2
    Threshold = 2
    LockTime = 4
    Rate = 1
    Burst = 2
    IdleTime = 2
    NoAccount = none
CHECK_DEADLOCK FALSE
INVARIANTS
    FlagMeansReport
    
    AccessEnds
    LimitsHold
PROPERTY CleanedIsCopied
