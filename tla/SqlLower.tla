------------------------------ MODULE SqlLower ------------------------------
(***************************************************************************)
(* The SQL front end: src/parser/lower.rs turns the tree the sqlparser     *)
(* crate builds into the AST of src/parser/ast.rs, or refuses it.  Pure    *)
(* operators; Session runs them.                                           *)
(*                                                                         *)
(* A tree is a record with the fields lowering descends into.  Its         *)
(* `clauses` are the names of the optional clauses written anywhere in     *)
(* the statement that have no field here: all lowering can do with one is  *)
(* refuse it, or not look.                                                 *)
(*                                                                         *)
(* An Option is a set of at most one element, and so is a Result: {} is    *)
(* the Err, whose message is left out.                                     *)
(***************************************************************************)
EXTENDS Predicate, SequencesExt

CompareOps == ScanOps
LogicalOps == {"And", "Or"}

(* The numeral of a number that no i64 holds, or that has a fraction.      *)
NotAnI64 == I64Max + 1

---------------------------------------------------------------------------
(* Results *)

(* The `collect` of an iterator of Results: the first Err wins.            *)
Collect(results) ==
    {[i \in DOMAIN results |-> CHOOSE x \in results[i] : TRUE] :
        ok \in {TRUE} \ {\E i \in DOMAIN results : results[i] = {}}}

(* `option.map(Op).transpose()`                                            *)
Transpose(Op(_), option) ==
    {{} : x \in {o \in {0} : option = {}}} \cup {{x} : x \in UNION {Op(o) : o \in option}}

Only(condition, results) == IF condition THEN results ELSE {}

---------------------------------------------------------------------------
(* Names, literals, expressions *)

(* single_name *)
SingleName(name) ==
    {part.id : part \in {p \in ToSet(name) : Len(name) = 1 /\ p.part = "Ident"}}

(* Mutant of LowerValue: the numeral is read as a u64 and cast.            *)
LowerValueWide(expr) ==
    CASE expr.value = "Number" -> {Literal("Int", expr.val)}
      [] expr.value = "String" -> {Literal("Text", expr.val)}
      [] expr.value = "Null"   -> {Literal("Null", Null)}
      [] OTHER -> {}

(* lower_value: a numeral has no sign, so i64::MIN is not among them.      *)
LowerValue(expr) ==
    CASE expr.value = "Number" ->
            Only(expr.val <= I64Max, {Literal("Int", expr.val)})
      [] expr.value = "String" -> {Literal("Text", expr.val)}
      [] expr.value = "Null"   -> {Literal("Null", Null)}
      [] OTHER -> {}

(* lower_literal: a minus wants a number under it, a plus takes anything.  *)
RECURSIVE LowerLiteral(_)
LowerLiteral(expr) ==
    CASE expr.expr = "Value" -> LowerValue(expr)
      [] expr.expr = "Unary" /\ expr.op = "Minus" ->
            {Literal("Int", - l.val) : l \in {x \in LowerLiteral(expr.inner) : x.ty = "Int"}}
      [] expr.expr = "Unary" /\ expr.op = "Plus" -> LowerLiteral(expr.inner)
      [] OTHER -> {}

(* Mutant of LowerExpr: NOT is looked through like a parenthesis.          *)
RECURSIVE LowerExprNot(_)
LowerExprNot(expr) ==
    CASE expr.expr = "Identifier" -> {Column(expr.id)}
      [] expr.expr = "Nested" \/ (expr.expr = "Unary" /\ expr.op = "Not") ->
            LowerExprNot(expr.inner)
      [] expr.expr = "Value"  -> LowerValue(expr)
      [] expr.expr = "Unary"  -> LowerLiteral(expr)
      [] expr.expr = "Binary" ->
            {Logical(l, expr.op, r) :
                l \in Only(expr.op \in LogicalOps, LowerExprNot(expr.left)),
                r \in LowerExprNot(expr.right)} \cup
            {Compare(l, expr.op, r) :
                l \in Only(expr.op \in CompareOps, LowerExprNot(expr.left)),
                r \in LowerExprNot(expr.right)}
      [] OTHER -> {}

(* lower_expr and lower_binary_op.  NOT, qualified names, other operators  *)
(* and everything that is not listed are refused; the Binary node keeps    *)
(* its operator and becomes a comparison or a combination by it.           *)
RECURSIVE LowerExpr(_)
LowerExpr(expr) ==
    CASE expr.expr = "Identifier" -> {Column(expr.id)}
      [] expr.expr = "Nested" -> LowerExpr(expr.inner)
      [] expr.expr = "Value"  -> LowerValue(expr)
      [] expr.expr = "Unary" /\ expr.op \in {"Minus", "Plus"} -> LowerLiteral(expr)
      [] expr.expr = "Binary" ->
            {Compare(l, expr.op, r) :
                l \in Only(expr.op \in CompareOps, LowerExpr(expr.left)),
                r \in LowerExpr(expr.right)} \cup
            {Logical(l, expr.op, r) :
                l \in Only(expr.op \in LogicalOps, LowerExpr(expr.left)),
                r \in LowerExpr(expr.right)}
      [] OTHER -> {}

---------------------------------------------------------------------------
(* Statements *)

(* lower_from: one plain table.  Its alias is among the clauses nobody     *)
(* looks at.                                                               *)
LowerFrom(from) ==
    UNION {SingleName(from[i].name) :
              i \in {j \in DOMAIN from : /\ Len(from) = 1
                                         /\ from[j].joins = 0
                                         /\ from[j].factor = "Table"}}

(* lower_nullability: the last option decides.                             *)
LowerNullability(options) ==
    Only(ToSet(options) \subseteq {"Null", "NotNull"},
         {options = <<>> \/ Last(options) = "Null"})

LowerDataType(ty) ==
    {"Int" : t \in {ty} \cap {"Int", "Integer"}} \cup
    {"Text" : t \in {ty} \cap {"Text", "Varchar", "String", "Char"}}

LowerColumn(column) ==
    {[name |-> column.name, ty |-> t, nullable |-> n] :
        t \in LowerDataType(column.ty), n \in LowerNullability(column.options)}

LowerCreateTable(ct) ==
    {[stmt |-> "CreateTable", table |-> t, columns |-> cs] :
        t \in Only(ct.clauses \cap {"constraints"} = {} /\ ct.columns # <<>>,
                   SingleName(ct.name)),
        cs \in Collect([i \in DOMAIN ct.columns |-> LowerColumn(ct.columns[i])])}

(* lower_insert: VALUES with one row that is not empty.                    *)
LowerInsert(ins) ==
    LET row == FlattenSeq(ins.rows)
    IN  {[stmt |-> "Insert", table |-> t, values |-> vs] :
            t \in Only(/\ ins.clauses \cap {"function target", "columns", "set"} = {}
                       /\ ins.body = "Values"
                       /\ Len(ins.rows) = 1 /\ row # <<>>,
                       SingleName(ins.name)),
            vs \in Collect([i \in DOMAIN row |-> LowerLiteral(row[i])])}


LowerDropTable(drop) ==
    {[stmt |-> "DropTable", table |-> t] :
        t \in Only(/\ drop.object = "Table"
                   /\ drop.clauses \cap {"if exists"} = {}
                   /\ Len(drop.names) = 1,
                   UNION {SingleName(n) : n \in ToSet(drop.names)})}

LowerShowTables(show) ==
    Only(show.clauses \cap {"in", "starts with", "limit", "from", "like"} = {},
         {[stmt |-> "ShowTables"]})

(* lower_describe: EXPLAIN of a table is refused; FORMATTED and EXTENDED   *)
(* mean the same.                                                          *)
LowerDescribe(d) ==
    {[stmt |-> "Describe", table |-> t, extended |-> d.format # {}] :
        t \in Only(d.alias \in {"Describe", "Desc"}, SingleName(d.name))}

LowerDelete(del) ==
    {[stmt |-> "Delete", table |-> t, filter |-> f] :
        t \in Only(del.clauses \cap {"tables", "using", "returning", "output",
                                     "order by", "limit"} = {},
                   LowerFrom(del.from)),
        f \in Transpose(LowerExpr, del.selection)}

LowerAssignment(a) ==
    {[column |-> c, value |-> v] :
        c \in Only(a.target = "ColumnName", SingleName(a.name)),
        v \in LowerLiteral(a.value)}

(* lower_update: a join is refused by lower_from as well.                  *)
LowerUpdate(upd) ==
    {[stmt |-> "Update", table |-> t, assignments |-> as, filter |-> f] :
        t \in Only(upd.clauses \cap {"from", "returning", "output", "or",
                                     "order by", "limit"} = {},
                   LowerFrom(upd.from)),
        as \in Collect([i \in DOMAIN upd.assignments |->
                            LowerAssignment(upd.assignments[i])]),
        f \in Transpose(LowerExpr, upd.selection)}

---------------------------------------------------------------------------
(* SELECT *)

Star == [all |-> TRUE, columns |-> <<>>]

(* Mutant of LowerProjection: the table of a qualified column is dropped.  *)
LowerProjectionLast(items) ==
    IF \E i \in DOMAIN items : items[i].item = "Wildcard"
    THEN Only(Len(items) = 1, {Star})
    ELSE {[all |-> FALSE, columns |-> cs] :
             cs \in Only(items # <<>>,
                         Collect([i \in DOMAIN items |->
                                     Only(items[i].item \in {"Identifier", "Compound"},
                                          {items[i].id})]))}

(* lower_projection: one `*`, or bare columns.                             *)
LowerProjection(items) ==
    IF \E i \in DOMAIN items : items[i].item = "Wildcard"
    THEN Only(Len(items) = 1, {Star})
    ELSE {[all |-> FALSE, columns |-> cs] :
             cs \in Only(items # <<>>,
                         Collect([i \in DOMAIN items |->
                                     Only(items[i].item = "Identifier", {items[i].id})]))}

(* Mutant of LowerOrderBy: ASC is taken for "the other order".             *)
LowerOrderByAsc(order) ==
    {[column |-> order.exprs[i].id, descending |-> order.exprs[i].asc # {}] :
        i \in {j \in DOMAIN order.exprs : /\ Len(order.exprs) = 1
                                          /\ order.exprs[j].expr = "Identifier"}}

(* lower_order_by: one bare column; anything but an explicit DESC sorts    *)
(* ascending.                                                              *)
LowerOrderBy(order) ==
    {[column |-> order.exprs[i].id, descending |-> order.exprs[i].asc = {FALSE}] :
        i \in {j \in DOMAIN order.exprs : /\ Len(order.exprs) = 1
                                          /\ order.exprs[j].expr = "Identifier"}}

LowerLimit(limit) ==
    {l.val : l \in {x \in LowerLiteral(limit) : x.ty = "Int" /\ x.val >= 0}}

(* Mutant of LowerSelect: a GROUP BY is not noticed.                       *)
LowerSelectGrouped(query) ==
    {[stmt |-> "Select", projections |-> p, from |-> t, filter |-> f,
      order_by |-> o, limit |-> l] :
        t \in Only(/\ query.body = "Select"
                   /\ query.clauses \cap {"with", "fetch", "distinct", "having",
                                          "interpolate", "order by all", "with fill",
                                          "offset", "limit by", "offset comma"} = {},
                   LowerFrom(query.from)),
        p \in LowerProjection(query.items),
        f \in Transpose(LowerExpr, query.selection),
        o \in Transpose(LowerOrderBy, query.order_by),
        l \in Transpose(LowerLimit, query.limit)}

(* lower_select, with the clauses lower_order_by and lower_limit refuse.   *)
LowerSelect(query) ==
    {[stmt |-> "Select", projections |-> p, from |-> t, filter |-> f,
      order_by |-> o, limit |-> l] :
        t \in Only(/\ query.body = "Select"
                   /\ query.clauses \cap {"with", "fetch", "distinct", "having",
                                          "group by", "interpolate",
                                          "order by all", "with fill", "offset",
                                          "limit by", "offset comma"} = {},
                   LowerFrom(query.from)),
        p \in LowerProjection(query.items),
        f \in Transpose(LowerExpr, query.selection),
        o \in Transpose(LowerOrderBy, query.order_by),
        l \in Transpose(LowerLimit, query.limit)}

LowerStatement(tree) ==
    CASE tree.kind = "CreateTable"  -> LowerCreateTable(tree)
      [] tree.kind = "Insert"       -> LowerInsert(tree)
      [] tree.kind = "Query"        -> LowerSelect(tree)
      [] tree.kind = "Drop"         -> LowerDropTable(tree)
      [] tree.kind = "ShowTables"   -> LowerShowTables(tree)
      [] tree.kind = "ExplainTable" -> LowerDescribe(tree)
      [] tree.kind = "Delete"       -> LowerDelete(tree)
      [] tree.kind = "Update"       -> LowerUpdate(tree)
      [] OTHER -> {}

(* parser::parse.  `text` is what the crate makes of the query: the trees  *)
(* of its statements, or {} when it cannot read it.                        *)
Parse(text) ==
    UNION {LowerStatement(trees[1]) : trees \in {t \in text : Len(t) = 1}}
=============================================================================
