----------------------------- MODULE SqlGrammar -----------------------------
(***************************************************************************)
(* What the statements of the supported subset are and mean, written down  *)
(* without looking at how src/parser/lower.rs reads them: the reference    *)
(* that SqlLower is checked against.  The subset is the grammar of         *)
(* docs/sql-grammar.md, the meaning of a condition is SQL's.               *)
(***************************************************************************)
EXTENDS SqlLower, SqlNames

CONSTANT
    Readings  \* ReadingsOf the statements somebody may have in mind

---------------------------------------------------------------------------
(* The trees of an AST: every way the grammar has to write it.             *)

Name(id) == << [part |-> "Ident", id |-> id] >>
PlainTable(id) == << [factor |-> "Table", name |-> Name(id), joins |-> 0] >>

Identifier(id) == [expr |-> "Identifier", id |-> id]
Number(n) == [expr |-> "Value", value |-> "Number", val |-> n]
String(n) == [expr |-> "Value", value |-> "String", val |-> n]
NullValue == [expr |-> "Value", value |-> "Null"]
Unary(op, inner) == [expr |-> "Unary", op |-> op, inner |-> inner]
Binary(left, op, right) ==
    [expr |-> "Binary", left |-> left, op |-> op, right |-> right]
Nested(inner) == [expr |-> "Nested", inner |-> inner]

LiteralTree(l) ==
    CASE l.ty = "Int" /\ l.val >= 0 -> Number(l.val)
      [] l.ty = "Int" /\ l.val < 0  -> Unary("Minus", Number(- l.val))
      [] l.ty = "Text" -> String(l.val)
      [] OTHER -> NullValue

RECURSIVE ExprTree(_)
ExprTree(e) ==
    CASE e.node = "Column"  -> Identifier(e.name)
      [] e.node = "Literal" -> LiteralTree(e)
      [] OTHER -> Nested(Binary(ExprTree(e.left), e.op, ExprTree(e.right)))

ColumnTrees(c) ==
    [name : {c.name},
     ty : IF c.ty = "Int" THEN {"Int", "Integer"}
                          ELSE {"Text", "Varchar", "Char", "String"},
     options : IF c.nullable THEN {<<>>, <<"Null">>} ELSE {<<"NotNull">>}]

(* All sequences that pick their i-th element from the i-th set.           *)
Picks(sets) == {f \in [DOMAIN sets -> UNION ToSet(sets)] :
                     \A i \in DOMAIN sets : f[i] \in sets[i]}

ItemTrees(projections) ==
    IF projections.all THEN << [item |-> "Wildcard"] >>
    ELSE [i \in DOMAIN projections.columns |->
             [item |-> "Identifier", id |-> projections.columns[i]]]

OrderTrees(o) ==
    {[exprs |-> << [expr |-> "Identifier", id |-> o.column, asc |-> a] >>] :
        a \in IF o.descending THEN {{FALSE}} ELSE {{}, {TRUE}}}

OptionTrees(Op(_), option) ==
    {{} : x \in {o \in {0} : option = {}}} \cup {{x} : x \in UNION {Op(o) : o \in option}}

Filter(option) == {ExprTree(f) : f \in option}

Spellings(ast) ==
    CASE ast.stmt = "CreateTable" ->
            [kind : {"CreateTable"}, clauses : {{}}, name : {Name(ast.table)},
             columns : Picks([i \in DOMAIN ast.columns |-> ColumnTrees(ast.columns[i])])]
      [] ast.stmt = "Insert" ->
            {[kind |-> "Insert", clauses |-> {}, name |-> Name(ast.table),
              body |-> "Values",
              rows |-> << [i \in DOMAIN ast.values |-> LiteralTree(ast.values[i])] >>]}
      [] ast.stmt = "DropTable" ->
            {[kind |-> "Drop", clauses |-> {}, object |-> "Table",
              names |-> << Name(ast.table) >>]}
      [] ast.stmt = "ShowTables" -> {[kind |-> "ShowTables", clauses |-> {}]}
      [] ast.stmt = "Describe" ->
            [kind : {"ExplainTable"}, clauses : {{}}, name : {Name(ast.table)},
             alias : {"Describe", "Desc"},
             format : IF ast.extended THEN {{"Extended"}, {"Formatted"}} ELSE {{}}]
      [] ast.stmt = "Delete" ->
            {[kind |-> "Delete", clauses |-> {}, from |-> PlainTable(ast.table),
              selection |-> Filter(ast.filter)]}
      [] ast.stmt = "Update" ->
            {[kind |-> "Update", clauses |-> {}, from |-> PlainTable(ast.table),
              assignments |-> [i \in DOMAIN ast.assignments |->
                                  [target |-> "ColumnName",
                                   name |-> Name(ast.assignments[i].column),
                                   value |-> LiteralTree(ast.assignments[i].value)]],
              selection |-> Filter(ast.filter)]}
      [] ast.stmt = "Select" ->
            [kind : {"Query"}, clauses : {{}}, body : {"Select"},
             from : {PlainTable(ast.from)}, items : {ItemTrees(ast.projections)},
             selection : {Filter(ast.filter)},
             order_by : OptionTrees(OrderTrees, ast.order_by),
             limit : {{Number(l) : l \in ast.limit}}]

---------------------------------------------------------------------------
(* Which trees are of the subset, by the grammar of docs/sql-grammar.md.   *)
(* It has three leniencies of the code: the clauses nobody looks at, more  *)
(* than one NULL or NOT NULL on a column, and signs, of which it needs     *)
(* just the minus of a negative integer; and one thing less than the       *)
(* grammar: an integer is a numeral that an i64 holds, without its sign    *)
(* (see TooWide).                                                          *)

(* Clauses the crate reads and lowering never looks at.                    *)
Overlooked(kind) ==
    CASE kind = "CreateTable" -> {"if not exists"}
      [] kind = "Insert"      -> {"returning"}
      [] kind = "Query"       -> {"nulls first", "nulls last", "table alias"}
      [] OTHER -> {}

BareName(name) == Len(name) = 1 /\ name[1].part = "Ident"
BareColumn(e) == e.expr = "Identifier"

OneTable(from) ==
    /\ Len(from) = 1
    /\ from[1].factor = "Table" /\ from[1].joins = 0 /\ BareName(from[1].name)

Signed(e) == e.expr = "Unary" /\ e.op \in {"Minus", "Plus"}

RECURSIVE SignsOf(_)
SignsOf(e) == IF Signed(e) THEN {e.op} \cup SignsOf(e.inner) ELSE {}

RECURSIVE Unsigned(_)
Unsigned(e) == IF Signed(e) THEN Unsigned(e.inner) ELSE e

(* literal := integer | string | NULL *)
LiteralText(e) ==
    LET v == Unsigned(e)
    IN  /\ v.expr = "Value"
        /\ \/ v.value = "Number" /\ v.val <= I64Max
           \/ v.value \in {"String", "Null"} /\ "Minus" \notin SignsOf(e)

(* expr *)
RECURSIVE ConditionText(_)
ConditionText(e) ==
    \/ BareColumn(e) \/ LiteralText(e)
    \/ e.expr = "Nested" /\ ConditionText(e.inner)
    \/ /\ e.expr = "Binary" /\ e.op \in CompareOps \cup LogicalOps
       /\ ConditionText(e.left) /\ ConditionText(e.right)

ColumnText(column) ==
    /\ column.ty \in {"Int", "Integer", "Text", "Varchar", "Char", "String"}
    /\ ToSet(column.options) \subseteq {"Null", "NotNull"}

---------------------------------------------------------------------------
(* The condition of a tree, in SQL's three-valued logic. *)

(* The value of an operand in a row: a column, a number with its signs, a  *)
(* string or NULL.                                                         *)
RECURSIVE SqlValue(_, _)
SqlValue(e, row) ==
    CASE e.expr = "Identifier" -> [ty |-> Type[e.id], val |-> row[e.id]]
      [] e.expr = "Nested" -> SqlValue(e.inner, row)
      [] e.expr = "Unary"  ->
            LET v == SqlValue(e.inner, row)
            IN  IF e.op = "Minus" THEN [v EXCEPT !.val = - @] ELSE v
      [] e.value = "Number" -> [ty |-> "Int", val |-> e.val]
      [] e.value = "String" -> [ty |-> "Text", val |-> e.val]
      [] OTHER -> [ty |-> "Null", val |-> Null]

SqlCompare(a, op, b) ==
    CASE a.val = Null \/ b.val = Null -> "unknown"
      [] a.ty # b.ty -> "unknown"   \* SQL has no answer; the engine's is no match
      [] OTHER -> IF RowMatches(op, a.val, b.val) THEN "true" ELSE "false"

RECURSIVE SqlTruth(_, _)
SqlTruth(e, row) ==
    CASE e.expr = "Nested" -> SqlTruth(e.inner, row)
      [] e.expr = "Unary" ->
            LET t == SqlTruth(e.inner, row)
            IN  CASE t = "true" -> "false" [] t = "false" -> "true" [] OTHER -> t
      [] e.expr = "Binary" /\ e.op \in CompareOps ->
            SqlCompare(SqlValue(e.left, row), e.op, SqlValue(e.right, row))
      [] e.expr = "Binary" ->
            LET both == {SqlTruth(e.left, row), SqlTruth(e.right, row)}
                strong == IF e.op = "And" THEN "false" ELSE "true"
            IN  CASE strong \in both -> strong
                  [] "unknown" \in both -> "unknown"
                  [] OTHER -> CHOOSE t \in both : TRUE

---------------------------------------------------------------------------
(* Whole statements of the subset. *)

(* LIMIT integer *)
LimitText(e) ==
    LiteralText(e) /\ Unsigned(e).value = "Number" /\ SqlValue(e, <<>>).val >= 0

QueryText(tree) ==
    /\ tree.body = "Select" /\ OneTable(tree.from)
    /\ \/ tree.items = << [item |-> "Wildcard"] >>
       \/ tree.items # <<>> /\ \A i \in DOMAIN tree.items : tree.items[i].item = "Identifier"
    /\ \A e \in tree.selection : ConditionText(e)
    /\ \A o \in tree.order_by : Len(o.exprs) = 1 /\ BareColumn(o.exprs[1])
    /\ \A l \in tree.limit : LimitText(l)

Grammatical(tree) ==
    /\ tree.clauses \subseteq Overlooked(tree.kind)
    /\ CASE tree.kind = "CreateTable" ->
               /\ BareName(tree.name) /\ tree.columns # <<>>
               /\ \A i \in DOMAIN tree.columns : ColumnText(tree.columns[i])
         [] tree.kind = "Insert" ->
               /\ BareName(tree.name) /\ tree.body = "Values"
               /\ Len(tree.rows) = 1 /\ tree.rows[1] # <<>>
               /\ \A i \in DOMAIN tree.rows[1] : LiteralText(tree.rows[1][i])
         [] tree.kind = "Drop" ->
               tree.object = "Table" /\ Len(tree.names) = 1 /\ BareName(tree.names[1])
         [] tree.kind = "ShowTables" -> TRUE
         [] tree.kind = "ExplainTable" ->
               tree.alias \in {"Describe", "Desc"} /\ BareName(tree.name)
         [] tree.kind = "Delete" ->
               OneTable(tree.from) /\ \A e \in tree.selection : ConditionText(e)
         [] tree.kind = "Update" ->
               /\ OneTable(tree.from) /\ \A e \in tree.selection : ConditionText(e)
               /\ \A i \in DOMAIN tree.assignments :
                     LET a == tree.assignments[i]
                     IN  a.target = "ColumnName" /\ BareName(a.name) /\ LiteralText(a.value)
         [] tree.kind = "Query" -> QueryText(tree)
         [] OTHER -> FALSE

---------------------------------------------------------------------------
(* What a text means, and what may be asked of tables. *)

(* The statements that each tree spells, and the one a text stands for.    *)
ReadingsOf(asts) ==
    [tree \in UNION {Spellings(ast) : ast \in asts} |->
        {ast \in asts : tree \in Spellings(ast)}]

Meaning(text) ==
    UNION {Readings[trees[1]] : trees \in {t \in text : Len(t) = 1 /\ t[1] \in DOMAIN Readings}}

(* What an AST can hold and its text cannot say: Literal::Int(i64) and     *)
(* `limit: Option<u64>` of ast.rs reach further than the i64 numeral that  *)
(* lower_value reads, which has no sign.  So the least i64 is of the       *)
(* subset of docs/sql-grammar.md, and cannot be written.                   *)
RECURSIVE LiteralsIn(_)
LiteralsIn(e) ==
    CASE e.node = "Literal" -> {e}
      [] e.node = "Column"  -> {}
      [] OTHER -> LiteralsIn(e.left) \cup LiteralsIn(e.right)

LiteralsOf(ast) ==
    CASE ast.stmt = "Insert" -> ToSet(ast.values)
      [] ast.stmt = "Update" -> {a.value : a \in ToSet(ast.assignments)}
                                    \cup UNION {LiteralsIn(f) : f \in ast.filter}
      [] ast.stmt \in {"Select", "Delete"} -> UNION {LiteralsIn(f) : f \in ast.filter}
      [] OTHER -> {}

TooWide(ast) ==
    \/ Literal("Int", I64Min) \in LiteralsOf(ast)
    \/ ast.stmt = "Select" /\ \E l \in ast.limit : l > I64Max

Readable(text) == {ast \in Meaning(text) : ~ TooWide(ast)}

LegalName(id) ==
    /\ Len(id) \in 1 .. MaxIdentLen
    /\ \A i \in DOMAIN id : id[i] \in Letters \cup {"_"} \/ (i > 1 /\ id[i] \in Digits)

LegalTable(ast) ==
    /\ LegalName(ast.table)
    /\ \A i \in DOMAIN ast.columns : LegalName(ast.columns[i].name)
    /\ \A i, j \in DOMAIN ast.columns :
          Fold(ast.columns[i].name) = Fold(ast.columns[j].name) => i = j

Fits(value, column) == value.ty = column.ty \/ (value.ty = "Null" /\ column.nullable)
=============================================================================
