\* get_file of a file of three blocks, over a network that loses, repeats
\* and reorders; more acknowledgements arrive than the transfer needs.
SPECIFICATION GetSpec
CONSTANTS
    Modulus = 4
    HeaderSize = 1
    DefaultBlockSize = 2
    MAX_TIMEOUTS = 1
    NDEBUG = TRUE
    FileSize = 5
    Requests <- GetRequests
    MtuResults <- NoMtu
    Datagrams <- Acks
    MaxDatagrams = 4
    OlderConnections = 1
INVARIANTS GetTypeOK GetPrefix GetWhole ServerSuccess
PROPERTY ImplementsTransfer
