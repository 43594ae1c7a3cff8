CONSTANTS
    Volumes <- Cards
    Here <- W
    TmpName = "_BLBTMP_"
    Ops <- All
    Faults <- AllCalls
    MaxFaults = 1
    MaxOps = 2
    PowerFails = TRUE
SPECIFICATION Spec
INVARIANTS
    CopiedTrue
    NothingLost
CHECK_DEADLOCK FALSE
