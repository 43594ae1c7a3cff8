CONSTANTS
 Tree <- Small
 Alphabet <- Letters
 Space = 6
 Slots = 3
 MaxOps = 2
SPECIFICATION Spec
INVARIANT OrderFree
CHECK_DEADLOCK FALSE
