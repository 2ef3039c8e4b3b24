---------------------------- MODULE MCSelectExec ----------------------------
(***************************************************************************)
(* Small tables and statements for SelectExec: a nullable INT column k, a  *)
(* TEXT column t, two rows per group.                                      *)
(***************************************************************************)
EXTENDS SelectExec

P == INSTANCE Predicate
MCIsCondition(expr) == P!Evaluable(expr)
MCKeeps(expr, row) == P!Holds(expr, row)
MCReads(expr) == P!ExprColumns(expr)
MCHintsOf(expr) == P!ScanPredicates(expr)

MCMin == -1
MCCols == {"k", "t"}
MCType == [c \in MCCols |-> IF c = "k" THEN "Int" ELSE "Text"]

Row(k, t) == [c \in MCCols |-> IF c = "k" THEN k ELSE t]
RowKinds == {Row(Null, 1), Row(0, 1), Row(1, 0)}

GroupSize == 2

(* All rows of a table with some of them deleted.  `loose` zones still     *)
(* enclose the deleted rows.                                               *)
Group(rows, dead, from, loose) ==
    LET to == IF from + GroupSize > Len(rows) THEN Len(rows) ELSE from + GroupSize
        mine == SubSeq(rows, from + 1, to)
        deletes == {o \in 0 .. Len(mine) - 1 : from + o \in dead}
    IN  [rows |-> mine,
         deletes |-> deletes,
         zone |-> [c \in {"k"} |-> IntRange([i \in DOMAIN mine |-> mine[i][c]],
                                            IF loose THEN {} ELSE deletes)]]

Table(rows, dead, loose) ==
    [g \in 1 .. (Len(rows) + GroupSize - 1) \div GroupSize |->
        Group(rows, dead, (g - 1) * GroupSize, loose)]

(* Up to three rows of every kind with any of them deleted, and four live  *)
(* ones.                                                                   *)
MCTables ==
    UNION {{Table(rows, dead, loose) : dead \in SUBSET (0 .. n - 1), loose \in BOOLEAN} :
              <<n, rows>> \in UNION {{m} \X [1 .. m -> RowKinds] : m \in 0 .. 3}}
    \cup {Table(rows, {}, FALSE) : rows \in [1 .. 4 -> RowKinds]}

K == P!Column("k")
T == P!Column("t")
IntLit(n) == P!Literal("Int", n)
TextLit(n) == P!Literal("Text", n)

MCFilters ==
    {None,
     P!Compare(IntLit(0), "Lt", K),
     P!Compare(K, "NotEq", P!Literal("Null", Null)),
     P!Logical(P!Compare(K, "Eq", IntLit(0)), "Or", P!Compare(T, "Eq", TextLit(0))),
     P!Logical(P!Compare(IntLit(1), "Gt", K), "And", P!Compare(T, "Gt", TextLit(0))),
     P!Logical(P!Compare(T, "LtEq", IntLit(1)), "Or", P!Compare(K, "GtEq", IntLit(1))),
     P!Logical(P!Compare(K, "GtEq", IntLit(1)), "And", T)}

MCOrders ==
    {None} \cup {[column |-> c, descending |-> d] : c \in {"k", "t"}, d \in BOOLEAN}

MCStatements ==
    {[cols |-> {"t"}, filter |-> f, order |-> o, limit |-> l] :
        f \in MCFilters, o \in MCOrders, l \in {None, 0, 1, 2}}
    \cup {[cols |-> {"k", "t"}, filter |-> None,
           order |-> [column |-> "t", descending |-> FALSE], limit |-> 2]}
    \cup {[cols |-> {"k", "t"}, filter |-> None, order |-> [column |-> "x", descending |-> FALSE],
           limit |-> None]}
=============================================================================
