\* Overlapping commands of two controllers, an operator at work.
SPECIFICATION Spec
CONSTANTS
    Proc = {p1, p2}
    Controller = {c1, c2}
    Runner = {r}
    MaxCalls = 2
    Commands = {"Create", "Get", "List", "Stop", "Delete", "RemoveAll"}
    HostEvents = {"edit", "delete"}
    None = None
    NoController = NoController
    NoRequest = NoRequest
SYMMETRY MCSymmetry
VIEW MCView
INVARIANTS TypeOK OnlyOwnContainersTargeted SteadyWasStarted
PROPERTIES ActiveNeverDeleted CompletedCreateScrubbed KeepsPromise
CHECK_DEADLOCK FALSE
