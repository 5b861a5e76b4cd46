SPECIFICATION Spec
CONSTANTS
    NumReqs = 3
    Prompt <- PromptShort
    BlockSize = 1
    NumGpu = 2
    NumCpu = 1
    BatchMax = 4
    MaxNumSeqs = 3
    MaxModelLen = 2
    MaxTokens = 1
    ApiRets = {2}
    MaxCalls = 1
    Classes <- ClassesSwap
    Abortable = {}
INVARIANT OneQueue
