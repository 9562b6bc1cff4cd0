CONSTANTS
    Caller = {c1, c2, c3}
    Key = {k1, k2}
    Cancellable = {c1}
    None = None
SPECIFICATION Spec
PROPERTY AllReturn
CHECK_DEADLOCK FALSE
