CONSTANTS
    Thread = {"a", "b"}
    Owner <- MCOwner
    Cases <- MCCases
    Fns = {4}
    ConfCalls <- MCConfCalls
    DtNodes <- MCDtNodes
SPECIFICATION Spec
INVARIANTS TypeOK MuxSettingsKept DetectsByType NoEventLeft MapsRight
PROPERTIES CleanTransitions EventServed
CHECK_DEADLOCK FALSE
