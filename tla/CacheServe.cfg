SPECIFICATION Spec
CONSTANTS
    s1 = s1
    s2 = s2
    s3 = s3
    g1 = g1
    g2 = g2
    c1 = c1
    c2 = c2
    c3 = c3
    Seqs = {s1, s2, s3}
    GpuBlocks = {g1, g2}
    CpuBlocks = {c1, c2, c3}
    BlockSize = 2
    Lengths = {0, 1, 2, 3}
    AfterStep = {"idle"}
    Nothing = Nothing
SYMMETRY Symmetry
CHECK_DEADLOCK TRUE
INVARIANTS
    TypeOK
    BlocksExclusive
    CacheIntact
    CopiesApart
PROPERTIES
    ServesTokens
