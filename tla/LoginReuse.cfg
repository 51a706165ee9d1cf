SPECIFICATION Spec
CONSTANTS
    Phones = {p1}
    Codes = {c1}
    UserIDs = {1}
    Requests = {r1}
    MaxIssues = 1
    FaultKinds <- NoFaults
PROPERTIES
    CodeUsedOnce
CHECK_DEADLOCK FALSE
