\* Delete after an interrupted Delete.
SPECIFICATION Spec
CONSTANTS
    Proc = {p1}
    Controller = {c1}
    Runner = {r}
    MaxCalls = 3
    Commands = {"Create", "Delete"}
    Overlap = FALSE
    HostEvents = {}
    None = None
    NoController = NoController
    NoRequest = NoRequest
PROPERTIES DeletedLeavesNoSeed
CHECK_DEADLOCK FALSE
