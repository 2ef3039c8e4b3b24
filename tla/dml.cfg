\* INSERT, DELETE and UPDATE, stopped anywhere.
SPECIFICATION FairSpec
CONSTANTS
    Null = Null
    None = None
    I64Min <- MCMin
    I64Max = 2
    Cols <- MCCols
    Schema <- MCSchema
    Type <- MCType
    NotNullCols = {"t"}
    Record <- MCRecord
    IntValues = {0, 1}
    TextValues = {0}
    IsCondition <- MCIsCondition
    Keeps <- MCKeeps
    Reads <- MCReads
    HintsOf <- MCHintsOf
    Statements <- MCStatements
    MaxRows = 5
INVARIANTS
    DmlInv
    StatementEffect
    HalfDoneIsPrefix
    FailsClean
PROPERTIES
    StatementEnds
