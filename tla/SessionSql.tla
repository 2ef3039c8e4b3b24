----------------------------- MODULE SessionSql -----------------------------
(***************************************************************************)
(* Session with the parser of SqlLower in place, against what the text of  *)
(* a command means (SqlGrammar, SqlTables).                                *)
(***************************************************************************)
EXTENDS Session, SqlGrammar

(* Lowered is Parse of SqlLower.                                           *)
ASSUME LoweredIsParse ==
    \A c \in Commands : c.cmd # "bench gen" => Lowered(c.text) = Parse(c.text)

---------------------------------------------------------------------------
(* An AST has the shape of src/parser/ast.rs, its integers are i64 and a   *)
(* LIMIT is never negative.                                                *)
IsLiteral(l) == l.ty = "Int" => l.val \in I64

RECURSIVE IsExpr(_)
IsExpr(e) ==
    CASE e.node = "Literal" -> IsLiteral(e)
      [] e.node = "Column"  -> TRUE
      [] e.node = "Compare" -> e.op \in CompareOps /\ IsExpr(e.left) /\ IsExpr(e.right)
      [] e.node = "Logical" -> e.op \in LogicalOps /\ IsExpr(e.left) /\ IsExpr(e.right)

IsStatement(s) ==
    CASE s.stmt = "CreateTable" ->
            s.columns # <<>> /\ \A i \in DOMAIN s.columns :
                s.columns[i].ty \in {"Int", "Text"} /\ s.columns[i].nullable \in BOOLEAN
      [] s.stmt = "Insert" -> s.values # <<>> /\ \A l \in ToSet(s.values) : IsLiteral(l)
      [] s.stmt = "Select" ->
            /\ s.projections.all \/ s.projections.columns # <<>>
            /\ \A e \in s.filter : IsExpr(e)
            /\ \A l \in s.limit : l >= 0
            /\ \A o \in s.order_by : o.descending \in BOOLEAN
      [] s.stmt = "Update" ->
            /\ \A a \in ToSet(s.assignments) : IsLiteral(a.value)
            /\ \A e \in s.filter : IsExpr(e)
      [] s.stmt = "Delete" -> \A e \in s.filter : IsExpr(e)
      [] s.stmt = "Describe" -> s.extended \in BOOLEAN
      [] s.stmt \in {"DropTable", "ShowTables"} -> TRUE

(* The text of a statement of the subset, in any of its spellings, is      *)
(* lowered to exactly that statement: lower.rs loses and confuses nothing  *)
(* of it.  The exception is a statement with the least i64 anywhere in it, *)
(* or a LIMIT above the greatest: it is refused, although the AST has room *)
(* for it (TooWide).                                                       *)
SubsetUnderstood ==
    \A ast \in Meaning(asked.text) : parsed = IF TooWide(ast) THEN {} ELSE {ast}

(* A text is accepted exactly if it is one statement of the grammar: a     *)
(* qualified name, an expression or a clause that the grammar does not     *)
(* have is refused in whatever place it stands, and whatever else the      *)
(* statement says.  (Only the clauses of Overlooked get through;           *)
(* FullyUnderstood is about these.)                                        *)
AcceptsExactly ==
    parsed # {} <=> \E trees \in asked.text : Len(trees) = 1 /\ Grammatical(trees[1])


(* A WHERE clause that was lowered holds for a row, in the engine's        *)
(* two-valued logic, exactly if the condition that was written is true in  *)
(* SQL's three-valued one.  (Holds of expr.rs says FALSE for a comparison  *)
(* with NULL; that is only right as long as no NOT gets through.)          *)
WhereMeansSql ==
    Running /\ pc = "parsed" =>
        \A s \in {t \in parsed : t.stmt = "Delete"} : \A e \in s.filter :
            Evaluable(e) =>
                \A row \in [Cols -> {Null, 0, 1}] :
                    Holds(e, row) <=>
                    \E trees \in asked.text : \E c \in trees[1].selection :
                        SqlTruth(c, row) = "true"

(* Everything the text says is in the AST or makes the parser refuse it:   *)
(* "a returned AST always means fully understood" (lower.rs).              *)
FullyUnderstood ==
    Running /\ pc = "parsed" /\ parsed # {} =>
        \A trees \in asked.text : trees[1].clauses = {}

(* What the files hold, as the user sees it.                               *)
Contents ==
    [n \in DOMAIN catalog |->
        LET d == manifest[catalog[n]]
            live == SelectSeq(SubSeq(groups[catalog[n]], 1, d.next_rid), LAMBDA r : ~ r.dead)
        IN  [columns |-> d.columns, rows |-> [i \in DOMAIN live |-> live[i].values]]]

Sql == INSTANCE SqlTables WITH tables <- Contents

(* The commands do to the files, and print, what their text means: CREATE, *)
(* INSERT, UPDATE, DELETE, DROP, SELECT, DESCRIBE, SHOW TABLES, EXPLAIN    *)
(* and `bench gen`, each refused exactly if it does not fit.               *)
ImplementsSql == Sql!Spec
=============================================================================
