\* Create of a name whose container an earlier Create left behind.
SPECIFICATION Spec
CONSTANTS
    Proc = {p1}
    Controller = {c1}
    Runner = {r}
    MaxCalls = 2
    Commands = {"Create"}
    HostEvents = {}
    None = None
    NoController = NoController
    NoRequest = NoRequest
PROPERTIES CreatedHasNoToken
CHECK_DEADLOCK FALSE
