\* Plain writes and refused requests: stored, repeated, wrong and foreign
\* blocks, failing disks, time-outs, and the end of every session, on the
\* default (release) build.
SPECIFICATION FairSpec
CONSTANTS
    Modulus = 3
    HeaderSize = 1
    DefaultBlockSize = 2
    MAX_TIMEOUTS = 1
    NDEBUG = TRUE
    FileSize = 0
    Requests <- WriteRequests
    MtuResults <- NoMtu
    Datagrams <- DataDatagrams
    MaxDatagrams = 3
    OlderConnections = 1
INVARIANTS AckMeansStored RetryBound NoErrorState
PROPERTY WriteSessionEnds
