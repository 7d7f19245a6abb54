CONSTANTS
    Message <- MCMessage
    ZeroMessage = 0
    Size = 4
SPECIFICATION Spec
INVARIANT TypeOK
PROPERTY ImplementsStack
