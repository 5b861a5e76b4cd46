SPECIFICATION Spec
CONSTANTS
    NumReqs = 3
    Prompt <- PromptLoss
    BlockSize = 1
    NumGpu = 5
    NumCpu = 2
    BatchMax = 4
    MaxNumSeqs = 2
    MaxModelLen = 5
    MaxTokens = 2
    ApiRets = {4}
    MaxCalls = 1
    Classes <- ClassesAll
    Abortable = {2}
VIEW View
INVARIANTS
    TypeOK
    BlocksConserved
    TableMatchesData
    ModeMatchesBlocks
    PausedNotScheduled
PROPERTIES
    EvictionRespectsArrival
    LossesExplained
\* the engine stops for good when schedule() raises
CHECK_DEADLOCK FALSE
