CONSTANTS
    Parts = {"defects", "proposals", "diagnosis", "rows"}
    Hashes = {h1, h2}
    MaxBuilds = 3
    Threshold = 3
    MaxEdits = 1
    Decisions = {"open", "muted"}
    MaxRuns = 1
    LinksFail = TRUE
    MaxIds = 3
    MaxKeys = 1
    Calls = {c1, c2}
    Kinds = {"defect", "known_issue"}
    Subjects = {s1}
    Details = {d1}
    MaxProps = 3
    Reviewers = {v1}
    Accounts = {v1}
    Hists <- TwoTests
    FullName <- TestOf
    Colon <- OfColon
    Ways <- TwinSilent
    ServerErrors = {"500 /api"}
    Asserts = {"expected"}
    Locates = {"locator"}
    Ruled = {}
    Branches = {""}
    MaxCommits = 2
    Commitless = FALSE
    Depth = 3
    DiagnosedBuilds = 3
    Caps = {1, 2}
    Summaries = {FALSE}
    ReadFaults = {"lastgood"}
    RowTests <- OneName
    GivenIds <- Regiven
    Stops = {0, 1}
    MaxFiles = 2
    BatchSize = 2
    RowFaults = {"listing", "entry", "parse", "insert", "enrich"}
SYMMETRY Symmetry
SPECIFICATION AllSpec
CHECK_DEADLOCK FALSE
INVARIANTS FixedWasClean ExcessBounded VerdictIsEffect WholeUnlessTruncated HistoryIsSupport RowPerTest
PROPERTIES DispositionKept LastCopyKept
