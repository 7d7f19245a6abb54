CONSTANTS
    Bits = 3
    BITS_PER_LONG = 64
    Thread = {"t1", "t2"}
    Owner <- MCOwner
    Chips <- MCChips
    Pins <- MCPins
SPECIFICATION Spec
INVARIANTS TypeOK GetReadsLine
PROPERTIES ImplementsGpioLines
CHECK_DEADLOCK FALSE
