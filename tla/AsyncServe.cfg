SPECIFICATION FairSpec
CONSTANTS
    Calls <- Two
    Ids = {1, 2, 3}
    IdOf <- OwnIds
    TooLong = {2}
    MayLeave = {1}
    MayRefuse = {1, 2}
    MayRaise = {"schedule", "workers"}
    WorkerUseRay = TRUE
    MaxForwards <- FirstGoesOn
    MaxApiCalls = 1
INVARIANTS
    TypeOK
    AnsweredInFull
    StreamsMatchClients
    NoOrphanInEngine
    NoLostWakeup
PROPERTIES
    DeathExplained
    EveryClientAnswered
CHECK_DEADLOCK FALSE
