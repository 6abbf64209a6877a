SPECIFICATION Spec
CONSTANTS
    Alphanumeric = {"a", "b"}
    ControllerMax = 2
    NameMax = 8
    PrefixMax = 7
    DigestLen = 1
    None = None
    TargetVersion = {"25.04.1", "25.04.2.6", "25.10.7", "26.0.0-BETA.3"}
    Character = {"a", "b", " ", "."}
    ControllerLen = 3
    RunnerCharacter = {"a", " "}
    RunnerLen = 4
    MaxEdits = 2
INVARIANTS AcceptedConfigWorks ContractIsEnough ValidatedPoolIsServed
INVARIANTS NamesApart FindsItsOwn ReadsItsOwn AcceptedServiceIsFixed
CHECK_DEADLOCK FALSE
