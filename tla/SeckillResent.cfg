SPECIFICATION Spec
CONSTANTS
    NoKey = NoKey
    Nobody = Nobody
    Users = {u1, u2}
    Vouchers = {v1}
    Servers = {s1}
    OrderIDs = {o1, o2}
    Stocks = {1, 2}
    MaxRetries = 1
    MaxStream = 3
    FaultKinds <- AllFaults
SYMMETRY Symmetry
INVARIANTS
    OneOrderPerUser
    AnswerHonoured
    DbNeverOversold
CHECK_DEADLOCK FALSE
