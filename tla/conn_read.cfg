\* A plain read: three blocks, lost, duplicated and foreign acknowledgements,
\* time-outs, socket errors, a busy send buffer, and a skipped clean-up.
SPECIFICATION FairSpec
CONSTANTS
    Modulus = 3
    HeaderSize = 1
    DefaultBlockSize = 2
    MAX_TIMEOUTS = 1
    NDEBUG = TRUE
    FileSize = 5
    Requests <- ReadRequests
    MtuResults <- NoMtu
    Datagrams <- AckDatagrams
    MaxDatagrams = 4
    OlderConnections = 1
INVARIANTS TypeOK StopAndWait DataFidelity ReadComplete RetryBound
PROPERTY SessionEnds
