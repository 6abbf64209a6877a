\* Overlapping commands of both controllers; an operator starts finished apps.
SPECIFICATION Spec
CONSTANTS
    c1 = c1
    c2 = c2
    r1 = r1
    r2 = r2
    Proc = {p1, p2}
    Controller = {c1, c2}
    Pool = {pool}
    AnyPool = AnyPool
    Padded = {}
    Runner = {r1, r2}
    Name = {1, 2, 3}
    OwnedName <- MCOwnedName
    TenantName = {}
    Plausible = {1, 2, 3}
    CallbackHostGateway <- MCNoGateway
    RawState = {"DEPLOYING", "STOPPED"}
    MaxCalls = 2
    Commands = {"Create", "List", "Delete", "RemoveAll"}
    Overlap = TRUE
    HostEvents = {"start"}
    None = None
    NoController = NoController
    NoRequest = NoRequest
SYMMETRY MCSymmetry
VIEW MCView
PROPERTIES ForeignNeverDestroyed RetirementComplete ListComplete KeepsPromise
CHECK_DEADLOCK FALSE
