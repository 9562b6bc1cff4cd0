CONSTANTS
    a = a
    b = b
    c = c
    d = d
    Node <- MCNode
    PlanTokens = {2}
    PromptTokens = {1}
    AnswerFloor = 1
    AnswerCap = 3
    Threshold = 70
    Run = {r1}
    PlanSet <- AllPlans
    RequestSet <- SpentRequests
SPECIFICATION Spec
INVARIANT NeverOvershoots
CHECK_DEADLOCK FALSE
