CONSTANTS
    UINT_MOD = 2
    MAX_MESSAGES_BUFFER_SIZE = 1
    MAX_RX_RETRY = 0
    MAX_CLIENTS = 2
    MAX_BACKLOG = 1
    Socket = {4, 5, 6}
    Conn = {c1, c2, c3}
    NoConn = NoConn
    Tag = {1, 2, 3}
    NoMessage = NoMessage
    Incoming <- MCHeaders
SPECIFICATION FairSpec
INVARIANTS TypeOK FdAccounting ReportsFresh
PROPERTIES SlotsAreSessions InputIsRead
CHECK_DEADLOCK FALSE
