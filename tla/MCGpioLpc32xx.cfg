CONSTANTS
    Spec_args <- MCSpec_args
    Boot <- MCBoot
    AddFails = {{}, {"gpio_p2"}}
SPECIFICATION Spec
INVARIANTS TypeOK ReadsOwnBit
PROPERTY ImplementsGpioLines
CHECK_DEADLOCK FALSE
