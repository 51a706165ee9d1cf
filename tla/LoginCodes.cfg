SPECIFICATION Spec
CONSTANTS
    Phones = {p1}
    Codes = {c1, c2}
    UserIDs = {1, 2}
    Requests = {r1, r2, r3}
    MaxIssues = 2
    FaultKinds <- AllFaults
INVARIANTS
    TypeOK
    OneAccountPerPhone
PROPERTIES
    SpentCodeRefused
CHECK_DEADLOCK FALSE
