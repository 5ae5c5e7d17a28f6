SPECIFICATION Spec
CONSTANTS
    Requests = {r1, r2}
    Families = {f1}
    Mails = {m1, m2}
    MaxToken = 3
    MaxSecret = 2
    AutoLink = TRUE
    Locks = TRUE
    ById = id
    NoRequest = none
    Faults = {"create", "revoke", "compromise", "rotate", "blacklist", "answer"}
SYMMETRY Symmetry
CHECK_DEADLOCK FALSE
INVARIANTS
    CompromiseIsStable
    EndedSessionsStayEnded
    TabsKeepSession
