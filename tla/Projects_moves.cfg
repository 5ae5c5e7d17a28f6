CONSTANTS
    Parts = {"projects", "storage"}
    Slugs = {a, b}
    MaxRows = 3
    MaxAsked = 6
    Requests = {r1, r2}
    Traced = {}
    NoRow = none
    NoSlug = nameless
    Wide = FALSE
    StorageOps = {1, 2}
    MaxOps = 2
    StorageKinds = {"rename", "migrate", "delete", "batch", "clean", "report", "prune", "keep", "prepare",
                    "publish", "playwright", "gc", "write"}
CHECK_DEADLOCK FALSE
SPECIFICATION AllSpec
INVARIANTS NoSharedHome OneLevel ServedDataIsOwn NothingDropped
SYMMETRY Symmetry
