CONSTANTS
    NBUF = 5
    MaxFrames = 9
SPECIFICATION Spec
INVARIANTS
    TypeOK
    WriterIsolated
    PairAdjacent
PROPERTIES
    NeverBackwards
