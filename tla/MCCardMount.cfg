CONSTANTS
    Paths <- Media
    GRAIN = 2
    UserOps <- Handlers
    MaxActs = 3
    StrobesLost = TRUE
SPECIFICATION FairSpec
INVARIANTS
    CardShowsVolume
    BeliefMatchesFabric
PROPERTIES
    UnwantedCardLeaves
    MountedCardComesBack
    FirstCardStartsMachine
CHECK_DEADLOCK FALSE
