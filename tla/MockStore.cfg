\* Two processes, kills and failing calls at every step.
SPECIFICATION Spec
CONSTANTS
    Proc = {p1, p2}
    Name = {a, b}
    State = {"RUNNING", "STOPPED"}
    MaxCalls = 4
    None = None
INVARIANTS TypeOK FileWhole NoLostUpdate
CHECK_DEADLOCK FALSE
