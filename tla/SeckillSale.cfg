SPECIFICATION Spec
CONSTANTS
    NoKey = NoKey
    Nobody = Nobody
    Users = {u1, u2}
    Vouchers = {v1, v2}
    Servers = {s1}
    OrderIDs = {o1, o2}
    Stocks = {0, 2}
    MaxRetries = 2
    MaxStream = 3
    FaultKinds <- CleanFaults
INVARIANTS
    TypeOK
    StockReconciles
    AttemptsInOrder
    DeadLetterUnfulfilled
    PromiseDeliverable
PROPERTIES
    ImplementsFlashSale
    ImplementsVoucherStore
CHECK_DEADLOCK FALSE
