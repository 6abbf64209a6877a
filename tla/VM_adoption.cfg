\* Create of a name whose VM an earlier Create left behind.
SPECIFICATION Spec
CONSTANTS
    Proc = {p1}
    Controller = {c1}
    Runner = {r}
    MaxCalls = 2
    Commands = {"Create"}
    Overlap = FALSE
    HostEvents = {}
    None = None
    NoController = NoController
    NoRequest = NoRequest
PROPERTIES CreatedWasStarted
CHECK_DEADLOCK FALSE
