CONSTANTS
    Task = {1, 2}
    TTL = 2
    MaxTime = 3
    MaxVersion = 2
    MaxLines = 4
    PipeSize = 1
    HighWater = 1
    LowWater = 0
    Call = {1, 2}
    Question = {"meet", "audit"}
    AnchorSets = {"a1"}
    NoAnchors = NoAnchors
    Nothing = Nothing
    Redis = TRUE
    Cids = {1, 2}
    MaxTurns = 7
    MaxText = 2
    Limit = 3
    HeadLen = 2
    Cap = 3
SPECIFICATION MCSpec
INVARIANTS
    ClientKnowsPeer
    McpIsReliable
    CallsAreSound
    TurnsAreKept
PROPERTIES
    ServicesEnd
\* tasks, clients and calls come to their ends
CHECK_DEADLOCK FALSE
