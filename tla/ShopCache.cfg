SPECIFICATION FairSpec
CONSTANTS
    NoReader = NoReader
    Shops = {1}
    Servers = {1, 2}
    Readers = {r1, r2}
    Writers = {w1, w2}
    MaxVersion = 3
    FaultKinds <- AllFaults
INVARIANTS
    TypeOK
    StaleExplained
    FlightHasLeader
PROPERTIES
    ReadAnswered
    EventuallyFresh
CHECK_DEADLOCK FALSE
