SPECIFICATION FairSpec
CONSTANTS
    NumReqs = 3
    Prompt <- PromptLive
    BlockSize = 2
    NumGpu = 3
    NumCpu = 8
    BatchMax = 2
    MaxNumSeqs = 2
    MaxModelLen = 9
    MaxTokens = 2
    ApiRets = {1}
    MaxCalls = 1
    Classes <- ClassesHold
    Abortable = {}
PROPERTIES
    StepEnds
    EveryRequestFinishes
    FollowsProtocol
    EmptyOnlyBehindPaused
INVARIANT VictimsHoldBlocks
