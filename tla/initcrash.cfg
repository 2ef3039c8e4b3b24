\* docs/storage-design.md: balik.meta is replaced atomically.
SPECIFICATION Spec
SYMMETRY Symmetry
CONSTANTS
    Procs = {p1, p2}
    Names = {t1, t2}
    NoProc = NoProc
    NoName = NoName
    MaxId = 2
    MaxRows = 1
INVARIANTS
    InitAllOrNothing
