CONSTANTS
    CDIV_MIN = 2
    CDIV_MAX = 65534
    UINT_MOD = 1048576
    Dividers = {0, 1, 65534, 65535, 1048575}
    Transfers <- MCTransfers
SPECIFICATION Spec
INVARIANTS TypeOK DelaysWithinHalf SuccessIsReal QuietBetweenTransfers
PROPERTIES NoBytesAfterReturn XferReturns
