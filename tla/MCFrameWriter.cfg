CONSTANTS
    WORDS = 3
    BEATS = 2
    MaxFrames = 4
SPECIFICATION Spec
INVARIANTS
    BurstsHitWriteBuffer
    NeverSlips
PROPERTIES
    AwValidHeld
    ManagerSpec
