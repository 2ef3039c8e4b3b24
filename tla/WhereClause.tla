---------------------------- MODULE WhereClause -----------------------------
(***************************************************************************)
(* What the statements rely on in a WHERE clause, whatever its shape: the  *)
(* interface of src/execution/physical/expr.rs and prune.rs that the       *)
(* executor uses.  Module Predicate is what lies behind it; the instances  *)
(* for TLC take the operators from there, the proofs hold for any.         *)
(***************************************************************************)
EXTENDS ExprNodes

CONSTANTS
    IsCondition(_),     \* eval_mask accepts the expression
    Keeps(_, _),        \* the expression's entry in the mask, for a row
    Reads(_),           \* the columns it reads
    HintsOf(_)          \* the pruning hints drawn from it

(* The values of a row; a TEXT value is the rank of its string.            *)
Values == I64 \cup {Null}

(* The hints let through every row the expression keeps.                   *)
HintsAllow(expr, row) ==
    Keeps(expr, row) =>
        \A p \in HintsOf(expr) :
            (p.column \in Cols /\ Type[p.column] = "Int") =>
                p.value \in I64 /\ RowMatches(p.op, row[p.column], p.value)

(* The columns named are enough to evaluate it.                            *)
SameOn(expr, row, names) ==
    Reads(expr) \subseteq names =>
        (Keeps(expr, [c \in names |-> row[c]]) <=> Keeps(expr, row))

(* How the code evaluates a node from its parts: eval_mask,                *)
(* collect_expr_columns, and collect in prune.rs, which goes down through  *)
(* AND only.                                                               *)
KeepsByParts(expr, row) ==
    Keeps(expr, row) <=>
        \/ /\ expr.node = "Compare"
           /\ CompareValues(Operand(expr.left, row), expr.op, Operand(expr.right, row))
        \/ /\ expr.node = "Logical" /\ expr.op = "And"
           /\ Keeps(expr.left, row) /\ Keeps(expr.right, row)
        \/ /\ expr.node = "Logical" /\ expr.op = "Or"
           /\ Keeps(expr.left, row) \/ Keeps(expr.right, row)

ReadsByParts(expr) ==
    Reads(expr) = IF expr.node = "Column" THEN {expr.name}
                  ELSE UNION {Reads(part) : part \in Parts(expr)}

HintsByParts(expr) ==
    HintsOf(expr) =
        IF expr.node = "Compare" THEN AsScanPredicate(expr.left, expr.op, expr.right)
        ELSE IF expr.node = "Logical" /\ expr.op = "And"
             THEN HintsOf(expr.left) \cup HintsOf(expr.right)
        ELSE {}

(* Exprs is a set of finite trees with all below them, ranked by `depth`,  *)
(* and each of their nodes is evaluated like that.                         *)
TreesByParts(Exprs, depth) ==
    \A expr \in Exprs :
        /\ depth[expr] \in Nat
        /\ \A part \in Parts(expr) : part \in Exprs /\ depth[part] < depth[expr]
        /\ IsIntLiteral(expr) => expr.val \in I64
        /\ ReadsByParts(expr) /\ HintsByParts(expr)
        /\ \A names \in SUBSET Cols : \A row \in [names -> Values] :
              Reads(expr) \subseteq names => KeepsByParts(expr, row)
=============================================================================
