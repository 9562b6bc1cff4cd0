CONSTANTS
    a = a
    b = b
    c = c
    d = d
    Node <- MCNode
    PlanTokens = {0, 2}
    PromptTokens = {1}
    AnswerFloor = 1
    AnswerCap = 3
    Threshold = 70
    Run = {r1, r2}
    PlanSet <- SmallPlans
    RequestSet <- SmallRequests
SPECIFICATION Spec
INVARIANTS
    ReviewedIffUnsure
PROPERTIES
    RunEnds
    KeepsPromise
CHECK_DEADLOCK FALSE
