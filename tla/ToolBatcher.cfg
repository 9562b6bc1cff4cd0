CONSTANTS
    Caller = {c1, c2, c3, c4}
    Key = {k1, k2}
    Cancellable = {c1}
    None = None
SPECIFICATION Spec
INVARIANTS
    TypeOK
    OneExecutionPerKey
    ResultsAreRight
PROPERTY CallsReturn
CHECK_DEADLOCK FALSE
