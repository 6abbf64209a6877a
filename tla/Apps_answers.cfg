\* Every command of one process, three in a row, while the host does all it can.
SPECIFICATION FairSpec
CONSTANTS
    c1 = c1
    c2 = c2
    r1 = r1
    r2 = r2
    Proc = {p1}
    Controller = {c1}
    Pool = {pool, otherPool}
    AnyPool = AnyPool
    Padded = {otherPool}
    Runner = {r1}
    Name = {1, 4}
    OwnedName <- MCOwnedName
    TenantName = {4}
    Plausible = {1, 4}
    CallbackHostGateway <- MCGateway
    RawState = {"DEPLOYING", "STOPPED"}
    MaxCalls = 3
    Commands = {"Create", "Get", "List", "Delete", "Start", "Stop", "RemoveAll"}
    Overlap = TRUE
    HostEvents = {"start", "edit", "delete", "install", "policy"}
    None = None
    NoController = NoController
    NoRequest = NoRequest
INVARIANT TypeOK
PROPERTIES RefusedCreateOwnsNothing EveryCallReturns KeepsPromise
CHECK_DEADLOCK FALSE
