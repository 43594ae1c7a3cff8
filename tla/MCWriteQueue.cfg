CONSTANTS
    N = 2
    LBA = {l1, l2, l3}
    Val = {u, v}
    MediumFails = TRUE
    SyncFails = FALSE
    PowerFails = TRUE
    MaxWrites = 3
SPECIFICATION FairSpec
INVARIANTS
    TypeOK
    OneCopy
    QueuedOnlyWhileOpen
    QuietMeansDurable
PROPERTIES
    EventuallyDurable
    ImplementsStore
