CONSTANTS
    Null = Null
    None = None
    I64Min <- MCMin
    I64Max = 2
    Cols <- MCCols
    Type <- MCType
    IsCondition <- MCIsCondition
    Keeps <- MCKeeps
    Reads <- MCReads
    HintsOf <- MCHintsOf
    Tables <- MCTables
    Statements <- MCStatements
SPECIFICATION Spec
INVARIANTS
    SameRows
