\* Two commands at a time, any of them failing or dying anywhere.
SPECIFICATION Spec
SYMMETRY Symmetry
CONSTANTS
    Procs = {p1, p2}
    Names = {t1, t2}
    NoProc = NoProc
    NoName = NoName
    MaxId = 2
    MaxRows = 1
INVARIANTS
    DbInv
    MemoryIsDisk
    FreshDir
    DataReachable
PROPERTIES
    ImplementsNameSpace
