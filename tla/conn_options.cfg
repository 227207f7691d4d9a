\* Requests with options and refused requests, on the default (release) build.
\* A session that waits for the answer to its OACK has no timer and may stop.
SPECIFICATION Spec
CONSTANTS
    Modulus = 3
    HeaderSize = 1
    DefaultBlockSize = 2
    MAX_TIMEOUTS = 1
    NDEBUG = TRUE
    FileSize = 4
    Requests <- OptionRequests
    MtuResults <- SomeMtu
    Datagrams <- AllDatagrams
    MaxDatagrams = 3
    OlderConnections = 1
INVARIANTS StopAndWait DataFidelity ReadComplete AckMeansStored NoErrorState
CHECK_DEADLOCK FALSE
