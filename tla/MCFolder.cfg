CONSTANTS
 Tree <- Small
 Alphabet <- Letters
 Space = 6
 Slots = 3
 MaxOps = 2
SPECIFICATION Spec
INVARIANTS FolderMatches VolumeMatches OthersIntact NeverRefused
PROPERTIES FormatHarmless
CHECK_DEADLOCK FALSE
