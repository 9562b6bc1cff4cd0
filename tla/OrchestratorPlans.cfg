CONSTANTS
    a = a
    b = b
    c = c
    d = d
    Node <- MCNode
    PlanTokens = {0, 2}
    PromptTokens = {1}
    AnswerFloor = 1
    AnswerCap = 3
    Threshold = 70
    Run = {r1}
    PlanSet <- AllPlans
    RequestSet <- AllRequests
SPECIFICATION Spec
INVARIANTS
    DepsBeforeNode
    NodesRunOnce
    BudgetGate
    ViolationDominates
    AnswerHasProvenance
CHECK_DEADLOCK FALSE
