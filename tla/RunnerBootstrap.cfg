\* The whole script, as an app's init and as a child of init.
SPECIFICATION FairSpec
CONSTANTS
    MaxAttempts = 2
    Documents = 3
INVARIANTS TypeOK StartedFromVerifiedTree NothingLeftBehind NoOrphan FailureReported IdleTruthful NoSecondRunner
PROPERTIES ScriptSettles
CHECK_DEADLOCK FALSE
