SPECIFICATION Spec
CONSTANTS
    NumReqs = 3
    Prompt <- PromptSmall
    BlockSize = 1
    NumGpu = 4
    NumCpu = 2
    BatchMax = 4
    MaxNumSeqs = 2
    MaxModelLen = 9
    MaxTokens = 3
    ApiRets = {1}
    MaxCalls = 1
    Classes <- ClassesSwap
    Abortable = {}
INVARIANT VictimsHoldBlocks
