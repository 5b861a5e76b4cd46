SPECIFICATION FairSpec
CONSTANTS
    g1 = g1
    g2 = g2
    g3 = g3
    c1 = c1
    Seqs = {1, 2, 3}
    GpuBlocks = {g1, g2, g3}
    CpuBlocks = {c1}
    BlockSize = 1
    Prompt <- PromptsShort
    PromptLimit = 3
    MaxModelLen = 4
    MaxTokens = 2
    BatchMax = 3
    MaxNumSeqs = 3
    InLimits = {1}
    OutLimits = {3}
    PauseModes = {"SWAP"}
    ApiRets = {1}
    MaxCalls = 1
    Abortable = {}
CHECK_DEADLOCK TRUE
PROPERTIES
    EveryRequestFinishes
