CONSTANTS
    Drive = {0, 1}
    Image = {1, 2}
    Sectors = 3
    Bytes = 1
    Size <- Sizes
    Scl = {2}
    ReadOnly = {}
    SclFiles <- Packed
    Mounts <- Placed
    MaxWrites = 1
SPECIFICATION Spec
INVARIANTS
    TypeOK
    ImageHonest
    ReadRight
    WriteKept
    NeverStuck
    SclDirectoryTrue
CHECK_DEADLOCK FALSE
