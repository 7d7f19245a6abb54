CONSTANTS
    UINT_MOD = 4
    MAX_MESSAGES_BUFFER_SIZE = 2
    MAX_RX_RETRY = 5
    Socket = {4}
    Conn = {c1, c2}
    NoConn = NoConn
    Tag = {1, 2, 3, 4}
    NoMessage = NoMessage
    Incoming <- MCHeaders
SPECIFICATION CSpec
PROPERTY KeptWhileConforming
