\* Every call, bulk_load within one row group, a crash between any two writes.
SPECIFICATION Spec
CONSTANTS
    Null = Null
    a = a
    b = b
    I64Min <- MCMin
    I64Max <- MCMax
    IntValues <- MCInts
    TextValues = {a, b}
    Columns = 2
    IntCols = {1}
    NullableCols = {1}
    R = 2
    Payloads <- MCPayloads
    Loads <- OneGroupLoads
    MaxRid = 5
INVARIANTS
    TypeOK
    ScanCorrect
    GetCorrect
    PruningInvisible
    TombstonesCommitted
    ReopensMidGroup
PROPERTIES
    CommittedImmutable
    ImplementsTable
