CONSTANTS
    Null = Null
    I64Min <- MCMin
    I64Max = 7
    Bits = 2
    U32Bytes = 2
    I64Bytes = 2
    Ints <- MCInts
    Strings <- MCStrings
    Bodies <- MCBodies
    GroupSize = 3
SPECIFICATION Spec
INVARIANTS
    FilesHoldWhatWasStored
    CutDetected
    ReadIsTyped
    SmallestLayout
    BitErrorsCaught
CHECK_DEADLOCK FALSE
