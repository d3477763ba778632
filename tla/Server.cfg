SPECIFICATION FairSpec
CONSTANTS
    sock1 = sock1
    sock2 = sock2
    sock3 = sock3
    stop1 = stop1
    stop2 = stop2
    Sockets <- MCTwoSockets
    Stoppers <- MCTwoStoppers
    MaxConnections = 1
    MaxHandshakes = 1
INVARIANTS
    TypeOK
    CountersExact
    StoppedMeansQuiescent
    DrainedMeansComplete
PROPERTIES
    SealStopsAdmission
    EndsCleanly
CHECK_DEADLOCK FALSE
