\* Three requests for two places, a bad and an empty datagram: a full list,
\* a waiting request, sessions that finish together, and a stop at any time.
SPECIFICATION FairSpec
CONSTANTS
    Clients = {c1, c2, c3}
    Bad = Bad
    Empty = Empty
    Listener = Listener
    MaxClients = 2
    MaxNoise = 1
INVARIANTS TypeOK NoDanglingEvent RequestsConserved WithinCapacity
PROPERTIES FinishedErased StopHonoured
