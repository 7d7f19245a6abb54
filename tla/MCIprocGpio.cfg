CONSTANTS
    Pin <- MCPin
    Thread = {"a", "b"}
    Owner <- MCOwner
    Chips <- MCChips
    ConfCalls <- MCConfCalls
    IrqTypes = {"both", "low"}
SPECIFICATION Spec
INVARIANTS TypeOK SettingsKept NoEdgeLost
PROPERTIES ImplementsGpioLines EdgeServed
CHECK_DEADLOCK FALSE
