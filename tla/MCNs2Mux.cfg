CONSTANTS
    Device = {"a", "b"}
    Wants <- MCWants
    ConfPins = {62, 67, 68}
    ConfCalls <- MCConfCalls
    BootMux = {0}
    BootConf <- MCBootConf
SPECIFICATION Spec
INVARIANTS TypeOK MuxHonoured SettingsKept TablesAgree
PROPERTY ConfiguredOnce
