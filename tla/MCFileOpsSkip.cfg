CONSTANTS
    Volumes <- Cards
    Here <- W
    TmpName = "_BLBTMP_"
    Ops <- Skipping
    Faults <- AllCalls
    MaxFaults = 0
    MaxOps = 2
    PowerFails = FALSE
SPECIFICATION Spec
INVARIANTS
    NeverOnASkip
CHECK_DEADLOCK FALSE
