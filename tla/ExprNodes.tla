----------------------------- MODULE ExprNodes -----------------------------
(***************************************************************************)
(* The nodes of a WHERE clause, and what the code does at one of them      *)
(* before it descends: src/execution/physical/expr.rs and prune.rs.  No    *)
(* state.                                                                  *)
(*                                                                         *)
(* A row is a function from column names to values.  The values of a TEXT  *)
(* column are integers too: the ranks of its strings.  Type keeps the two  *)
(* apart, so that an INT is never compared with a TEXT.                    *)
(*                                                                         *)
(* An expression is a record:                                              *)
(*   [node |-> "Column", name |-> c]     [node |-> "Literal", ty, val]     *)
(*   [node |-> "Compare" or "Logical", left, op, right]                    *)
(***************************************************************************)
EXTENDS ZoneMap

CONSTANTS
    Cols,   \* the columns of the table
    Type    \* column -> "Int" or "Text"

ASSUME ColumnTypes == Type \in [Cols -> {"Int", "Text"}]

Column(name) == [node |-> "Column", name |-> name]
Literal(ty, val) == [node |-> "Literal", ty |-> ty, val |-> val]
Compare(left, op, right) ==
    [node |-> "Compare", left |-> left, op |-> op, right |-> right]
Logical(left, op, right) ==
    [node |-> "Logical", left |-> left, op |-> op, right |-> right]

(* The expressions below a node.                                           *)
Parts(expr) ==
    IF expr.node \in {"Compare", "Logical"} THEN {expr.left, expr.right} ELSE {}

(* operand: a column's value in this row, or the literal itself.           *)
Operand(expr, row) ==
    IF expr.node = "Column"
    THEN [ty |-> Type[expr.name], val |-> row[expr.name]]
    ELSE [ty |-> expr.ty, val |-> expr.val]

(* compare: NULL on either side, or two types, is never a match.           *)
CompareValues(a, op, b) ==
    /\ a.ty = b.ty
    /\ b.val # Null
    /\ RowMatches(op, a.val, b.val)

(* Mutant of Flip: the operator is kept when the operands are swapped.     *)
FlipNot(op) == op

(* flip: `5 < age` is `age > 5`.                                           *)
Flip(op) ==
    CASE op = "Lt" -> "Gt" [] op = "LtEq" -> "GtEq"
      [] op = "Gt" -> "Lt" [] op = "GtEq" -> "LtEq"
      [] OTHER -> op

IsIntLiteral(expr) == expr.node = "Literal" /\ expr.ty = "Int"

Hint(column, op, value) == [column |-> column, op |-> op, value |-> value]

(* as_scan_predicate: one column, one INT literal, on either side.         *)
AsScanPredicate(left, op, right) ==
    {Hint(c.name, op, right.val) :
        c \in {x \in {left} : x.node = "Column" /\ IsIntLiteral(right)}} \cup
    {Hint(c.name, Flip(op), left.val) :
        c \in {x \in {right} : x.node = "Column" /\ IsIntLiteral(left)}}
=============================================================================
