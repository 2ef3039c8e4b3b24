\* bulk_load across row groups, and progress: calls end, recovery gets through.
SPECIFICATION FairSpec
CONSTANTS
    Null = Null
    a = a
    b = b
    I64Min <- MCMin
    I64Max <- MCMax
    IntValues <- MCInts
    TextValues = {a, b}
    Columns = 2
    IntCols = {1}
    NullableCols = {1}
    R = 2
    Payloads <- MCPayloads
    Loads <- TwoGroupLoads
    MaxRid = 4
INVARIANTS
    TableInv
PROPERTIES
    ImplementsTable
    CallsEnd
    RecoveryServes
