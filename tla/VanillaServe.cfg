SPECIFICATION Spec
CONSTANTS
    g1 = g1
    g2 = g2
    g3 = g3
    g4 = g4
    g5 = g5
    c1 = c1
    c2 = c2
    Seqs = {1, 2, 3, 4}
    GpuBlocks = {g1, g2, g3, g4, g5}
    CpuBlocks = {c1, c2}
    BlockSize = 1
    Nothing = Nothing
    Prompt <- Prompts
    MaxModelLen = 3
    MaxTokens = 3
    MaxBatched = 3
    MaxNumSeqs = 3
    PauseModes = {"PRESERVE", "SWAP"}
    ApiRets = {1}
    MaxCalls = 1
    Abortable = {2}
SYMMETRY BlockSymmetry
CHECK_DEADLOCK FALSE
INVARIANTS
    TableMatchesData
    OneQueue
PROPERTIES
    EmptyOnlyBehindPaused
    ServesTokens
