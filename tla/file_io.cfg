\* Every file of up to five bytes in blocks of three: read by a session for
\* get_file or for another client, or received by a session, a header of one
\* byte cutting its blocks to two.
SPECIFICATION FairSpec
CONSTANTS
    BlockSize = 3
    HeaderSize = 1
    MaxLength = 5
    MaxFaults = 2
INVARIANTS TypeOK BlocksExact ShortMeansEnd ArrivesWhole StoredExact OnlySplitPairThrows
PROPERTY FileEnds
