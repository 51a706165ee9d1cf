SPECIFICATION FairSpec
CONSTANTS
    NoKey = NoKey
    Nobody = Nobody
    Users = {u1, u2}
    Vouchers = {v1}
    Servers = {s1, s2}
    OrderIDs = {o1}
    Stocks = {2}
    MaxRetries = 1
    MaxStream = 3
    FaultKinds <- RequeueFails
PROPERTIES
    UnackedIsClaimed
CHECK_DEADLOCK FALSE
