----------------------------- MODULE Predicate -----------------------------
(***************************************************************************)
(* The WHERE clause: what an expression selects                            *)
(* (src/execution/physical/expr.rs), which columns it reads                *)
(* (src/execution/logical/plan.rs) and which pruning hints it yields       *)
(* (src/execution/physical/prune.rs), by recursion over its nodes.  No     *)
(* state.                                                                  *)
(*                                                                         *)
(* Neither the parser nor the binder checks how the nodes nest: `WHERE     *)
(* age` or `(a = 1) = b` reach the executor, which refuses them            *)
(* (Evaluable).                                                            *)
(***************************************************************************)
EXTENDS ExprNodes, FiniteSets

---------------------------------------------------------------------------
(* Evaluation *)

(* The nestings eval_mask and operand accept; the others are an Err, as    *)
(* soon as there is a batch to evaluate them on.                           *)
RECURSIVE Evaluable(_)
Evaluable(expr) ==
    \/ /\ expr.node = "Compare"
       /\ {expr.left.node, expr.right.node} \subseteq {"Column", "Literal"}
    \/ /\ expr.node = "Logical"
       /\ Evaluable(expr.left) /\ Evaluable(expr.right)

(* eval_mask, one entry of the mask.                                       *)
RECURSIVE Holds(_, _)
Holds(expr, row) ==
    \/ /\ expr.node = "Compare"
       /\ CompareValues(Operand(expr.left, row), expr.op, Operand(expr.right, row))
    \/ /\ expr.node = "Logical" /\ expr.op = "And"
       /\ Holds(expr.left, row) /\ Holds(expr.right, row)
    \/ /\ expr.node = "Logical" /\ expr.op = "Or"
       /\ Holds(expr.left, row) \/ Holds(expr.right, row)

(* collect_expr_columns *)
RECURSIVE ExprColumns(_)
ExprColumns(expr) ==
    CASE expr.node = "Column"  -> {expr.name}
      [] expr.node = "Literal" -> {}
      [] OTHER -> ExprColumns(expr.left) \cup ExprColumns(expr.right)

---------------------------------------------------------------------------
(* Pruning hints *)

(* Mutant of ScanPredicates: descends into OR like into AND.               *)
RECURSIVE ScanPredicatesOr(_)
ScanPredicatesOr(expr) ==
    CASE expr.node = "Compare" -> AsScanPredicate(expr.left, expr.op, expr.right)
      [] expr.node = "Logical" ->
            ScanPredicatesOr(expr.left) \cup ScanPredicatesOr(expr.right)
      [] OTHER -> {}

(* extract_scan_predicates, collect: the comparisons every row must pass.  *)
RECURSIVE ScanPredicates(_)
ScanPredicates(expr) ==
    CASE expr.node = "Compare" -> AsScanPredicate(expr.left, expr.op, expr.right)
      [] expr.node = "Logical" /\ expr.op = "And" ->
            ScanPredicates(expr.left) \cup ScanPredicates(expr.right)
      [] OTHER -> {}
=============================================================================
