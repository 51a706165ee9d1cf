SPECIFICATION Spec
CONSTANTS
    Requests = {r1}
    MaxEdits = 2
    r1 = r1
INVARIANTS
    TypeOK
    TokenCurrent
    DrainedBeforeClose
    NoHandlerCutOff
PROPERTIES
    EditTakesEffect
    StopCompletes
CHECK_DEADLOCK FALSE
