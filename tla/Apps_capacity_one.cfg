\* Mutating commands of a controller do not overlap and nobody restarts an app.
SPECIFICATION Spec
CONSTANTS
    c1 = c1
    c2 = c2
    r1 = r1
    r2 = r2
    Proc = {p1, p2}
    Controller = {c1, c2}
    Pool = {pool}
    AnyPool = AnyPool
    Padded = {}
    Runner = {r1}
    Name = {1, 2, 4}
    OwnedName <- MCOwnedName
    TenantName = {4}
    Plausible = {1, 2, 4}
    CallbackHostGateway <- MCNoGateway
    RawState = {"DEPLOYING", "UNKNOWN", "STOPPED"}
    MaxCalls = 2
    Commands = {"Create", "Delete", "RemoveAll"}
    Overlap = FALSE
    HostEvents = {"delete", "install"}
    None = None
    NoController = NoController
    NoRequest = NoRequest
SYMMETRY MCSymmetry
VIEW MCView
PROPERTIES ActiveNeverDestroyed KeepsPromise
CHECK_DEADLOCK FALSE
