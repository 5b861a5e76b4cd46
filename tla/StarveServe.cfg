SPECIFICATION FairSpec
CONSTANTS
    Reqs = {1, 2, 3, 4}
    Slots = 2
    Score <- Scores
    Threshold = 2
    Quantum = 3
    MaxRun = 3
    Callers = {1}
    Growing = {1}
CHECK_DEADLOCK TRUE
INVARIANTS
    PriorityInTime
PROPERTIES
    PriorityServedFirst
    ResumedServed
