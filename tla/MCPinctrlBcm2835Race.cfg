CONSTANTS
    Thread = {"a", "b"}
    Owner <- MCOwner
    Cases <- MCCases
    Fns = {4}
    ConfCalls <- MCConfCalls
    DtNodes <- MCDtNodes
SPECIFICATION Spec
PROPERTY AlwaysThroughInput
CHECK_DEADLOCK FALSE
