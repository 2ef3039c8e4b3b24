----------------------------- MODULE MCDmlExec -----------------------------
(***************************************************************************)
(* A nullable INT column k and a NOT NULL TEXT column t for DmlExec.       *)
(***************************************************************************)
EXTENDS DmlExec

P == INSTANCE Predicate
MCIsCondition(expr) == P!Evaluable(expr)
MCKeeps(expr, row) == P!Holds(expr, row)
MCReads(expr) == P!ExprColumns(expr)
MCHintsOf(expr) == P!ScanPredicates(expr)

MCMin == -1
MCCols == {"k", "t"}
MCSchema == <<"k", "t">>
MCType == [c \in MCCols |-> IF c = "k" THEN "Int" ELSE "Text"]
MCRecord == {[c \in MCCols |-> IF c = "k" THEN k ELSE t] : k \in {Null, 0, 1}, t \in {0}}

K == P!Column("k")
IntLit(n) == P!Literal("Int", n)
TextLit(n) == P!Literal("Text", n)
NullLit == P!Literal("Null", Null)

(* The valid ones, then one for each way the binder refuses.               *)
MCInserts ==
    {[kind |-> "insert", values |-> v] :
        v \in {<<IntLit(0), TextLit(0)>>, <<IntLit(1), TextLit(0)>>, <<NullLit, TextLit(0)>>,
               <<IntLit(0)>>, <<IntLit(0), NullLit>>, <<TextLit(0), TextLit(0)>>}}

MCFilters ==
    {None,
     P!Compare(K, "GtEq", IntLit(0)),
     P!Compare(K, "Eq", IntLit(1)),
     P!Logical(P!Compare(K, "Eq", IntLit(0)), "Or", K),
     P!Compare(P!Column("x"), "Eq", IntLit(0))}

(* The second writes a column twice; the last two are refused.             *)
MCSets ==
    {<<[column |-> "k", value |-> IntLit(1)]>>,
     <<[column |-> "k", value |-> IntLit(1)], [column |-> "k", value |-> NullLit]>>,
     <<[column |-> "t", value |-> NullLit]>>,
     <<[column |-> "k", value |-> TextLit(0)]>>}

MCStatements ==
    MCInserts
    \cup {[kind |-> "delete", filter |-> f] : f \in MCFilters}
    \cup {[kind |-> "update", sets |-> s, filter |-> f] : s \in MCSets, f \in MCFilters}

(* Every comparison of a column with anything, what is no condition, and   *)
(* how they nest.                                                          *)
WhereColumns == {K, P!Column("t")}
WhereOperands == {IntLit(0), IntLit(1), TextLit(0), NullLit}
Comparisons ==
    UNION {{P!Compare(c, op, x), P!Compare(x, op, c)} :
              c \in WhereColumns, op \in ScanOps, x \in WhereOperands \cup WhereColumns}
Few == {P!Compare(K, op, IntLit(0)) : op \in {"Eq", "Lt"}}
       \cup {P!Compare(IntLit(1), "LtEq", K), P!Compare(P!Column("t"), "Gt", TextLit(0)), K}
Nested(below) ==
    UNION {{P!Logical(a, "And", b), P!Logical(a, "Or", b)} : a \in below, b \in below}
WhereRows == [MCCols -> {Null, 0, 1}]
Level == <<WhereColumns \cup WhereOperands, Comparisons, Nested(Few), Nested(Nested(Few))>>
Trees == UNION {Level[i] : i \in DOMAIN Level}

(* What Predicate makes of each tree is what its nodes make of their       *)
(* parts, which the proofs about SELECT start from (HintsAreSound).        *)
ASSUME TreesAreByParts ==
    TreesByParts(Trees, [expr \in Trees |-> CHOOSE i \in DOMAIN Level : expr \in Level[i]])

(* What these proofs end in: the hints of a tree let through what it keeps.*)
ASSUME HintsSound ==
    \A expr \in Trees, row \in WhereRows :
        HintsAllow(expr, row) /\ \A names \in SUBSET MCCols : SameOn(expr, row, names)
=============================================================================
