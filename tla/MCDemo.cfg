CONSTANTS
    Place <- MCPlace
    Dist <- MCDist
    Slack = 1
    Domain = {"vessel"}
    VMax <- MCVMax
    Anchors <- MCAnchors
    MaxAnchors = 4
    LlmPairs <- MCLlmPairs
    NrPrisms = 2
    NSlices = 2
    Session = {1, 2}
    Query = {"meet", "audit"}
    QuestionOf <- MCQuestionOf
    Plans <- MCPlans
    MaxClicks <- MCClicks
    MaxTouches <- MCTouches
    Nobody = Nobody
    Deadline = 3
SPECIFICATION MCSpec
INVARIANTS
    RegionsAreComplete
    GateIsExact
    DemoIsHonest
PROPERTIES
    DemoEnds
\* one request, sessions that come to rest, a check that exits
CHECK_DEADLOCK FALSE
