CONSTANTS
    Id = {a, b, c}
    MaxNodes = 3
SPECIFICATION Spec
INVARIANTS
    LayersRespectDeps
    EachIdOnce
    NoNeedlessBarrier
    VerdictExact
PROPERTY Terminates
CHECK_DEADLOCK FALSE
