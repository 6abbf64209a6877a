\* RemoveAll while an operator may start a finished app.
SPECIFICATION Spec
CONSTANTS
    c1 = c1
    c2 = c2
    r1 = r1
    r2 = r2
    Proc = {p1}
    Controller = {c1, c2}
    Pool = {pool}
    AnyPool = AnyPool
    Padded = {}
    Runner = {r1, r2}
    Name = {1, 2, 3}
    OwnedName <- MCOwnedName
    TenantName = {}
    Plausible = {1, 2, 3}
    CallbackHostGateway <- MCNoGateway
    RawState = {"DEPLOYING", "STOPPED", "CRASHED"}
    MaxCalls = 1
    Commands = {"RemoveAll"}
    Overlap = FALSE
    HostEvents = {"start"}
    None = None
    NoController = NoController
    NoRequest = NoRequest
PROPERTIES ActiveNeverDestroyed
CHECK_DEADLOCK FALSE
