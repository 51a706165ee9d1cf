SPECIFICATION Spec
CONSTANTS
    food = food
    cinema = cinema
    hotel = hotel
    Types <- ThreeTypes
    Requests = {r1, r2, r3}
    MaxFailures = 2
    FaultKinds <- AllFaults
INVARIANTS
    TypeOK
    AnswersWhole
    CopiesBounded
CHECK_DEADLOCK FALSE
