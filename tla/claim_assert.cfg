\* A build with assertions (VERSION other than release), on a plain read.
SPECIFICATION Spec
CONSTANTS
    Modulus = 3
    HeaderSize = 1
    DefaultBlockSize = 2
    MAX_TIMEOUTS = 1
    NDEBUG = FALSE
    FileSize = 5
    Requests <- ReadRequests
    MtuResults <- NoMtu
    Datagrams <- AckDatagrams
    MaxDatagrams = 2
    OlderConnections = 0
INVARIANT AssertionHolds
