CONSTANTS
    Cases <- MCCases
    Contents <- MCContents
    Letters = {"a", "b", "k"}
    Digits = {"1"}
    None = None
SPECIFICATION Spec
CHECK_DEADLOCK FALSE
INVARIANTS ContainersResolved FailsOnMandatory
