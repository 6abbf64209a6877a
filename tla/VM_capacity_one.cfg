\* Mutating commands of a controller do not overlap; an operator edits and deletes.
SPECIFICATION Spec
CONSTANTS
    Proc = {p1, p2}
    Controller = {c1}
    Runner = {r}
    MaxCalls = 3
    Commands = {"Create", "ReconcileBootstrap", "Get", "List", "Stop", "Delete", "RemoveAll"}
    Overlap = FALSE
    HostEvents = {"edit", "delete"}
    None = None
    NoController = NoController
    NoRequest = NoRequest
SYMMETRY MCSymmetry
INVARIANTS TypeOK OnlyOwnVMsTargeted SeedOutlivesRun
PROPERTIES StartsFreshWithSeed ActiveNeverDeleted KeepsPromise
CHECK_DEADLOCK FALSE
