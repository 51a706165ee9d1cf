SPECIFICATION FairSpec
CONSTANTS
    NoKey = NoKey
    Nobody = Nobody
    Users = {u1, u2}
    Vouchers = {v1}
    Servers = {s1, s2}
    OrderIDs = {o1}
    Stocks = {1, 2}
    MaxRetries = 2
    MaxStream = 3
    FaultKinds <- DatabaseFaults
INVARIANTS
    ReservationTracked
PROPERTIES
    ReservationSettled
CHECK_DEADLOCK FALSE
