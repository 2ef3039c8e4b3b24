\* insert's comment: "Group 0 is materialized at create time".
SPECIFICATION Spec
SYMMETRY Symmetry
CONSTANTS
    Procs = {p1, p2}
    Names = {t1, t2}
    NoProc = NoProc
    NoName = NoName
    MaxId = 2
    MaxRows = 1
INVARIANTS
    NoTableWithoutGroup
