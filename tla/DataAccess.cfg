SPECIFICATION FairSpec
CONSTANTS
    w1 = w1
    w2 = w2
    w3 = w3
    c1 = c1
    c2 = c2
    Root = Root
    AutoID = AutoID
    NoRow = NoRow
    Unwritten = Unwritten
    Nobody = Nobody
    Users = {u1}
    Vouchers = {v1}
    OrderIDs = {o1, o2}
    Stocks = {1}
    Shops = {h1}
    Workers = {w1, w2, w3}
    Consumers = {w2, w3}
    Conns = {c1, c2}
    PoolOf <- Pools
    FaultKinds <- AllFaults
INVARIANTS
    TypeOK
    VoucherHasItsStock
    NothingLeftBehind
    NoCircle
    InsertsAccepted
PROPERTIES
    ImplementsVoucherStore
    AnsweredIsStored
    CallsEnd
CHECK_DEADLOCK FALSE
