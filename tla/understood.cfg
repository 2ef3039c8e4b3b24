CONSTANTS
    Null = Null
    I64Min <- MCMin
    I64Max = 1
    Cols <- MCCols
    Type <- MCType
    Letters <- MCLetters
    Digits = {"1"}
    Lower <- MCLower
    MaxIdentLen = 2
    BenchColumns <- MCBenchColumns
    BenchRow <- MCBenchRow
    Readings <- MCReadings
    Lowered <- MCLowered
    Commands <- MCCommands
    MaxId = 3
    MaxRid = 2
SPECIFICATION Spec
INVARIANT FullyUnderstood
CHECK_DEADLOCK FALSE
