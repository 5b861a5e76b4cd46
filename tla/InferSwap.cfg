SPECIFICATION CacheSpec
CONSTANTS
    g1 = g1
    g2 = g2
    g3 = g3
    c1 = c1
    c2 = c2
    Seqs = {1, 2, 3}
    GpuBlocks = {g1, g2, g3}
    CpuBlocks = {c1, c2}
    BlockSize = 1
    Nothing = Nothing
    Prompt <- Prompts
    PromptLimit = 3
    MaxModelLen = 4
    MaxTokens = 2
    BatchMax = 3
    MaxNumSeqs = 3
    InLimits = {0, 1, 2}
    OutLimits = {0, 2}
    PauseModes = {"PRESERVE"}
    ApiRets = {1}
    MaxCalls = 1
    Abortable = {}
SYMMETRY BlockSymmetry
CHECK_DEADLOCK TRUE
INVARIANTS
    ReadsOwnTokens
