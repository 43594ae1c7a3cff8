CONSTANTS
    FRAME = 2
    BLK = 2
    CSDLEN = 1
    NCR = 1
    NAC = 1
    WBUSY = 2
    A41 = 1
    SEQMOD = 4
    CAP = 3
    IMG = 2
    HostOps <- AllReads
    MaxOps = 2
    LastSector = FALSE
    EagerStops = TRUE
    MediumFails = TRUE
SPECIFICATION FairSpec
INVARIANTS
    DeliveredRight
    WriteAnsweredTruly
PROPERTIES
    OnlyHostWrites
    OperationsEnd
CHECK_DEADLOCK FALSE
