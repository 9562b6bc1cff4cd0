CONSTANTS
    N = 4
    NegativeThreshold = TRUE
    Lengths = {4, 5, 6}
    SeqLen = 5
    VMax = 25
    AMax = 1
    VTurn = 31
    Speeds = {7, 15}
    Wobble = 1
    Jumps = {18, 34}
    Strides = {57, 99}
    NrTest = 4
    NrCal = 3
    Batch = 3
    MaxScore = 2
    NumT = 60
    EvalLevel = 50
    DdimSteps = 20
    MaxSteps = 24
    Procs = {1, 2}
    Sizes = {1, 3, 4}
    BatchSize = 2
    Epochs = 2
    MaxKills = 2
    NrQueries = 2
    NrTests = 2
    MaxEdits = 2
    Runners = {1, 2}
    NrMigrations = 3
    MaxRuns = 2
    MaxTimes = 2
SPECIFICATION MCSpec
INVARIANTS
    ReportIsSound
    
    CheckpointsAreTrained
    ScriptsAreSound
PROPERTIES
    JobsEnd
\* detect() and the jobs come to their ends
CHECK_DEADLOCK FALSE
