SPECIFICATION Spec
CONSTANTS
    HeadDim = 2
    VocabPad = 4
    PackFactor = 2
    GroupSize = 2
    IntermediateSize = 12
    Configs <- MCConfigs
    Batches <- MCBatches
    FileOrders <- MCFileOrders
INVARIANTS
    ForwardIsUnsharded
    VocabularyIsUnsharded
    CacheFitsAttention
    OutputsReachTheirRequest
CHECK_DEADLOCK FALSE
