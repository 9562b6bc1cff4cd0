CONSTANTS
    a = a
    b = b
    c = c
    d = d
    Node <- MCNode
    Workflow = {w1}
    Worker = {k1, k2}
    PlanSet <- MCPlanSet
    RequestSet <- MCRequestSet
    PlanTokens = {0, 2}
    PromptTokens = {1}
    AnswerFloor = 1
    AnswerCap = 1
    Threshold = 60
    DecisionSet <- MCDecisionSet
    MaxAttempts = 3
    MaxCrashes = 1
    EnqueueArgs = {"None", "plan"}
SPECIFICATION Spec
INVARIANTS
    TypeOK
    OneRowPerProcess
    AnswerIsReviewed
    ViolationDominates
    BudgetGate
PROPERTIES
    RunSettles
    KeepsPromise
CHECK_DEADLOCK FALSE
