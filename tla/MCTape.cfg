CONSTANTS
    Tapes <- Files
    RING = 5
    Spare = 1
    PRIME = 3
    FIFO = 2
    BITS = 2
    WORD = 65535
    WIRE = 16777216
    PilotHeader = 2
    PilotData = 1
    GUARD = 12
    MaxPauses = 1
    STUCK = 10500000
    MaxOvers = 1
    Second = {4, 5}
SPECIFICATION FairSpec
INVARIANTS
    HeardRight
    EndsWhole
    TotalExact
PROPERTIES
    TapeEnds
