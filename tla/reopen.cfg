\* A crash while a row group is created: can the database be opened again?
SPECIFICATION Spec
CONSTANTS
    Null = Null
    a = a
    b = b
    I64Min <- MCMin
    I64Max <- MCMax
    IntValues <- MCInts
    TextValues = {a, b}
    Columns = 2
    IntCols = {1}
    NullableCols = {1}
    R = 2
    Payloads <- MCPayloads
    Loads <- NoLoads
    MaxRid = 3
INVARIANTS
    Reopens
