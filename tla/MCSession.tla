----------------------------- MODULE MCSession ------------------------------
(***************************************************************************)
(* Small commands for Session: one or two tables, columns a INT and        *)
(* b TEXT, and for the parser every construct once.                        *)
(***************************************************************************)
EXTENDS SessionSql, TLC

a == <<"a">>
bigA == <<"A">>
b == <<"b">>
t == <<"t">>
bigT == <<"T">>

MCMin == -2
MCCols == {a, b}
MCType == (a :> "Int") @@ (b :> "Text")
MCLetters == {"a", "b", "t", "A", "T"}
MCLower == [l \in MCLetters |->
               CASE l = "A" -> "a" [] l = "T" -> "t" [] OTHER -> l]

NullLit == Literal("Null", Null)
IntLit(n) == Literal("Int", n)
TextLit(n) == Literal("Text", n)
Col(name, ty, nullable) == [name |-> name, ty |-> ty, nullable |-> nullable]

MCBenchColumns == << Col(b, "Text", FALSE), Col(a, "Int", FALSE) >>
MCBenchRow == << TextLit(1), IntLit(1) >>

---------------------------------------------------------------------------
(* Statements *)

Create(n, columns) == [stmt |-> "CreateTable", table |-> n, columns |-> columns]
Insert(n, values) == [stmt |-> "Insert", table |-> n, values |-> values]
Update(n, assignments, f) ==
    [stmt |-> "Update", table |-> n, filter |-> f, assignments |-> assignments]
Set(c, v) == [column |-> c, value |-> v]
Select(n, projections, f, o, l) ==
    [stmt |-> "Select", projections |-> projections, from |-> n, filter |-> f,
     order_by |-> o, limit |-> l]
Columns(cs) == [all |-> FALSE, columns |-> cs]

Schemas == { << Col(a, "Int", FALSE), Col(b, "Text", TRUE) >>,
             << Col(b, "Int", TRUE) >> }

SmallAsts ==
    {Create(t, s) : s \in Schemas} \cup
    {Create(bigT, << Col(a, "Int", TRUE) >>),
     Create(t, << Col(a, "Int", TRUE), Col(bigA, "Text", TRUE) >>),
     Create(t, << Col(<<"1">>, "Int", TRUE) >>),
     Create(<<"t", "a", "b">>, << Col(a, "Int", TRUE) >>),
     Insert(t, << IntLit(1), TextLit(0) >>), Insert(t, << IntLit(-1), NullLit >>),
     Insert(t, << NullLit, TextLit(0) >>), Insert(t, << NullLit >>),
     Insert(t, << IntLit(MCMin), NullLit >>),
     Update(t, << Set(a, IntLit(0)), Set(b, NullLit) >>, {}),
     Update(t, << Set(b, IntLit(0)), Set(b, IntLit(1)) >>, {}),
     Update(t, << Set(a, NullLit) >>, {}),
     [stmt |-> "Delete", table |-> t, filter |-> {}],
     Select(t, Star, {}, {}, {}), Select(t, Columns(<<b, a, b>>), {}, {}, {}),
     Select(t, Columns(<<bigA>>), {}, {}, {}),
     [stmt |-> "ShowTables"],
     [stmt |-> "Describe", table |-> t, extended |-> FALSE]} \cup
    {[stmt |-> "DropTable", table |-> n] : n \in {t, bigT}}

K == Column(a)
OtherAsts ==
    {Select(t, p, f, o, l) :
        p \in {Star, Columns(<<a, b>>)},
        f \in {{}, {Logical(Compare(K, "Lt", IntLit(-1)), "And", Compare(K, "NotEq", NullLit))}},
        o \in {{}} \cup {{[column |-> a, descending |-> d]} : d \in BOOLEAN},
        l \in {{}, {0}, {1}}} \cup
    {[stmt |-> "Describe", table |-> t, extended |-> TRUE],
     [stmt |-> "Delete", table |-> t, filter |-> {Compare(TextLit(0), "GtEq", Column(b))}],
     Update(t, << Set(a, IntLit(-1)) >>, {Logical(K, "Or", K)})}

(* What the AST can hold and no text can say, in every place.              *)
WideFilter == {Logical(Compare(K, "Eq", NullLit), "Or", Compare(IntLit(MCMin), "Lt", K))}
WideAsts ==
    {Select(t, Star, {}, {}, {NotAnI64}), Select(t, Star, WideFilter, {}, {}),
     Update(t, << Set(b, NullLit), Set(a, IntLit(MCMin)) >>, {}),
     Update(t, << Set(a, IntLit(0)) >>, WideFilter),
     [stmt |-> "Delete", table |-> t, filter |-> WideFilter]}

MCAsts == SmallAsts \cup OtherAsts \cup WideAsts
MCReadings == ReadingsOf(MCAsts)

(* The parser is SqlLower's.                                               *)
MCLowered(text) == Parse(text)

---------------------------------------------------------------------------
(* Conditions: what can be written between two of them, with a NOT, a sign *)
(* and parentheses in every place.                                         *)

Atoms == {Identifier(a), Identifier(b), Number(0), Number(NotAnI64), NullValue, String(1),
          Nested(Identifier(a)), Unary("Minus", Number(1)), Unary("Plus", Number(1)),
          Unary("Minus", Unary("Minus", Number(1))), Unary("Minus", String(1)), Unary("Minus", Number(NotAnI64)),
          [expr |-> "Compound"], [expr |-> "Other"],
          [expr |-> "Value", value |-> "Other"]}

Comparisons ==
    {Binary(Identifier(a), op, y) : op \in CompareOps \cup {"Plus"}, y \in Atoms} \cup
    {Binary(x, "LtEq", y) : x \in Atoms, y \in {Identifier(a), Identifier(b)}}

Simple == {Binary(Identifier(a), "Eq", Number(0)), Binary(Identifier(a), "NotEq", Number(0)),
           Binary(Identifier(b), "Lt", NullValue), Identifier(a)}
Negated == Simple \cup {Unary("Not", c) : c \in Simple} \cup {Nested(c) : c \in Simple}

Conditions ==
    Atoms \cup Comparisons \cup
    {Binary(x, op, y) : x \in Negated, y \in Negated, op \in {"And", "Or", "Xor"}} \cup
    {Unary("Not", Nested(Binary(x, "And", y))) : x \in Simple, y \in Simple}

DeleteTree(c) == [kind |-> "Delete", clauses |-> {}, from |-> PlainTable(t), selection |-> {c}]

---------------------------------------------------------------------------
(* Trees that are not of the subset, or only by what lowering overlooks.   *)

Clauses(kind) ==
    CASE kind = "CreateTable"  -> {"constraints"}
      [] kind = "Insert"       -> {"function target", "columns", "set"}
      [] kind = "Drop"         -> {"if exists"}
      [] kind = "ShowTables"   -> {"in", "starts with", "limit", "from", "like"}
      [] kind = "Delete"       -> {"tables", "using", "returning", "output", "order by", "limit"}
      [] kind = "Update"       -> {"from", "returning", "output", "or", "order by", "limit"}
      [] kind = "Query"        -> {"with", "fetch", "distinct", "having", "group by",
                                   "interpolate", "order by all", "with fill", "offset",
                                   "limit by", "offset comma"}
      [] OTHER -> {}

AllTrees == DOMAIN MCReadings

WithClause ==
    UNION {{[tree EXCEPT !.clauses = {c}] : c \in Clauses(tree.kind) \cup Overlooked(tree.kind)} :
              tree \in {CHOOSE x \in Spellings(ast) : TRUE : ast \in MCAsts}}

Query(from, items) ==
    [kind |-> "Query", clauses |-> {}, body |-> "Select", from |-> from, items |-> items,
     selection |-> {}, order_by |-> {}, limit |-> {}]
InsertTree(name, rows) ==
    [kind |-> "Insert", clauses |-> {}, name |-> name, body |-> "Values", rows |-> rows]
UpdateTree(from, target, name, value) ==
    [kind |-> "Update", clauses |-> {}, from |-> from, selection |-> {},
     assignments |-> << [target |-> target, name |-> name, value |-> value] >>]
CreateTree(name, columns) ==
    [kind |-> "CreateTable", clauses |-> {}, name |-> name, columns |-> columns]
DropTree(object, names) ==
    [kind |-> "Drop", clauses |-> {}, object |-> object, names |-> names]
DescribeTree(name, alias) ==
    [kind |-> "ExplainTable", clauses |-> {}, name |-> name, alias |-> alias, format |-> {}]
ColumnTree(ty, options) == [name |-> a, ty |-> ty, options |-> options]

StarItem == << [item |-> "Wildcard"] >>
Item(kind) == [item |-> kind, id |-> a]
OrderExpr(kind) == [expr |-> kind, id |-> a, asc |-> {}]
Factor(kind, name, joins) == << [factor |-> kind, name |-> name, joins |-> joins] >>
Qualified == Name(bigT) \o Name(t)
FunctionName == << [part |-> "Function", id |-> t] >>

(* A name in every place a statement has one.                              *)
NamedTrees(name) ==
    {CreateTree(name, << ColumnTree("Int", <<>>) >>), InsertTree(name, << <<Number(1)>> >>),
     DropTree("Table", << name >>), DescribeTree(name, "Desc"),
     Query(Factor("Table", name, 0), StarItem),
     [DeleteTree(Identifier(a)) EXCEPT !.from = Factor("Table", name, 0)],
     UpdateTree(Factor("Table", name, 0), "ColumnName", Name(a), Number(1)),
     UpdateTree(PlainTable(t), "ColumnName", name, Number(1))}

(* A relation in every place (an UPDATE has exactly one), and likewise an  *)
(* expression where a literal, or a number, has to be.                     *)
FromTrees(from) ==
    {Query(from, StarItem)} \cup
    {[DeleteTree(Identifier(a)) EXCEPT !.from = f] : f \in {from} \ {<<>>}} \cup
    {UpdateTree(f, "ColumnName", Name(a), Number(1)) : f \in {x \in {from} : Len(x) = 1}}

LiteralTrees(e) ==
    {InsertTree(Name(t), << <<e>> >>), InsertTree(Name(t), << <<Number(1), e>> >>),
     UpdateTree(PlainTable(t), "ColumnName", Name(a), e),
     [Query(PlainTable(t), StarItem) EXCEPT !.limit = {e}]}

Expressions ==
    Atoms \cup {Unary("Not", Number(1)), Unary("Plus", String(1)), Unary("Plus", NullValue),
                Unary("Minus", NullValue), Unary("Minus", Unary("Plus", String(1))),
                Unary("Minus", Number(0)), Nested(Number(1)), Binary(Number(1), "Eq", Number(1)),
                Binary(Number(1), "Plus", Number(1))}

OddTrees ==
    UNION {NamedTrees(name) : name \in {Name(t), Qualified, FunctionName}} \cup
    UNION {FromTrees(from) :
              from \in {<<>>, PlainTable(t) \o PlainTable(bigT), Factor("Table", Name(t), 1)} \cup
                       {Factor(k, Name(t), 0) : k \in {"Function", "Derived"}}} \cup
    UNION {LiteralTrees(e) : e \in Expressions} \cup
    {Query(PlainTable(t), items) :
        items \in {<<>>, StarItem \o StarItem, StarItem \o << Item("Identifier") >>} \cup
                  UNION {{<< Item(k) >>, << Item("Identifier"), Item(k) >>} :
                            k \in {"Compound", "Expr", "Alias", "QualifiedWildcard"}}} \cup
    {[Query(PlainTable(t), StarItem) EXCEPT !.body = k] :
        k \in {"SetOperation", "Query", "Values", "Other"}} \cup
    {[Query(PlainTable(t), StarItem) EXCEPT !.order_by = {[exprs |-> o]}] :
        o \in {<<>>, <<OrderExpr("Identifier"), OrderExpr("Identifier")>>} \cup
              {<<OrderExpr(k)>> : k \in {"Compound", "Other"}}} \cup
    {CreateTree(Name(t), cs) :
        cs \in {<<>>} \cup
               {<< ColumnTree(ty, o) >> :
                   ty \in {"Int", "Float"},
                   o \in {<<"NotNull", "Null">>, <<"Null", "NotNull">>, <<"Default">>,
                          <<"Null", "Default">>}}} \cup
    {[InsertTree(Name(t), r) EXCEPT !.body = k] :
        k \in {"Values", "Select", "None"},
        r \in {<<>>, << <<>> >>, << <<Number(1)>>, <<Number(0)>> >>, << <<Number(1)>> >>}} \cup
    {DropTree(o, n) : o \in {"Table", "View"},
                      n \in {<<>>, <<Name(t), Name(bigT)>>, <<Name(t)>>}} \cup
    {DescribeTree(Name(t), "Explain"), [kind |-> "CreateView", clauses |-> {}],
     UpdateTree(PlainTable(t), "Tuple", Name(a), Number(1))}

---------------------------------------------------------------------------
(* Commands *)

Command(cmd, text) == [cmd |-> cmd, text |-> text]

Texts == {{<< CHOOSE x \in Spellings(ast) : TRUE >>} : ast \in SmallAsts} \cup
         {{}, {<<>>}, {[i \in 1 .. 2 |-> [kind |-> "ShowTables", clauses |-> {}]]},
          {<< DeleteTree(Unary("Not", Identifier(a))) >>}}

MCCommands ==
    {Command(cmd, text) : cmd \in {"query", "explain"}, text \in Texts} \cup
    {Command("parse", {<<tree>>}) :
        tree \in AllTrees \cup WithClause \cup OddTrees \cup {DeleteTree(c) : c \in Conditions}} \cup
    {[cmd |-> "bench gen", table |-> n, rows |-> 2] : n \in {t, <<"1">>}}
=============================================================================
