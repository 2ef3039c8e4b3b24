----------------------------- MODULE SqlTables ------------------------------
(***************************************************************************)
(* The database as the user of `balik-cli` knows it: named tables of rows, *)
(* and commands that are answered one at a time.  What a statement means   *)
(* is read off the tree of its SQL text (module SqlGrammar); nothing here  *)
(* knows of ASTs being lowered, plans, catalogs, files or handles.         *)
(***************************************************************************)
EXTENDS SqlGrammar

VARIABLES
    tables,  \* tables[n]: the columns and the rows of table n
    asked,   \* the command that runs
    answer   \* what the last one printed; NoAnswer while one runs

Target(ast) == IF ast.stmt = "Select" THEN ast.from ELSE ast.table

(* The columns of a SELECT's answer.                                       *)
Header(ast) ==
    IF ast.projections.all THEN NamesOf(tables[ast.from].columns)
    ELSE ast.projections.columns

Allowed(ast) ==
    CASE ast.stmt = "ShowTables"  -> TRUE
      [] ast.stmt = "CreateTable" -> LegalTable(ast) /\ ast.table \notin DOMAIN tables
      [] Target(ast) \notin DOMAIN tables -> FALSE
      [] OTHER ->
            LET columns == tables[Target(ast)].columns
            IN  CASE ast.stmt = "Insert" ->
                        /\ Len(ast.values) = Len(columns)
                        /\ \A i \in DOMAIN columns : Fits(ast.values[i], columns[i])
                  [] ast.stmt = "Update" ->
                        \A a \in ToSet(ast.assignments) :
                            /\ HasColumn(columns, a.column)
                            /\ Fits(a.value, columns[Position(columns, a.column)])
                  [] ast.stmt = "Select" ->
                        \A name \in ToSet(Header(ast)) : HasColumn(columns, name)
                  [] OTHER -> TRUE

(* A row after a SET: of two assignments to one column the last one stays. *)
SetColumns(row, columns, assignments) ==
    [i \in DOMAIN row |->
        LET mine == SelectSeq(assignments, LAMBDA a : a.column = columns[i].name)
        IN  IF mine = <<>> THEN row[i] ELSE Last(mine).value]

Changed(n, rows) == [tables EXCEPT ![n].rows = rows]
Without(n) == [m \in DOMAIN tables \ {n} |-> tables[m]]
NewTable(columns) == [columns |-> columns, rows |-> <<>>]

Effect(ast) ==
    CASE ast.stmt = "CreateTable" -> (ast.table :> NewTable(ast.columns)) @@ tables
      [] ast.stmt = "DropTable"   -> Without(ast.table)
      [] ast.stmt = "Insert" ->
            Changed(ast.table, Append(tables[ast.table].rows, ast.values))
      [] ast.stmt = "Delete" -> Changed(ast.table, <<>>)
      [] ast.stmt = "Update" ->
            LET t == tables[ast.table]
            IN  Changed(ast.table,
                        [i \in DOMAIN t.rows |->
                            SetColumns(t.rows[i], t.columns, ast.assignments)])
      [] OTHER -> tables

Reply(ast) ==
    CASE ast.stmt = "ShowTables" -> [names |-> DOMAIN tables]
      [] ast.stmt = "Describe"   -> [columns |-> tables[ast.table].columns]
      [] ast.stmt = "Select" ->
            LET t == tables[ast.from]
                places == [i \in DOMAIN Header(ast) |-> Position(t.columns, Header(ast)[i])]
            IN  [header |-> Header(ast),
                 rows |-> [r \in DOMAIN t.rows |->
                              [i \in DOMAIN places |-> t.rows[r][places[i]]]]]
      [] OTHER -> Done

(* EXPLAIN of a CREATE TABLE does not look whether the name is taken.      *)
Explainable(ast) == Allowed(ast) \/ (ast.stmt = "CreateTable" /\ LegalTable(ast))

---------------------------------------------------------------------------
Init == tables = <<>> /\ asked = NoCommand /\ answer = Refused

Ask ==
    /\ answer # NoAnswer
    /\ asked'.cmd \in {"parse", "query", "explain", "bench gen"}
    /\ answer' = NoAnswer
    /\ UNCHANGED tables

Answer(reply) == answer' = reply /\ asked' = NoCommand

(* A statement has its whole effect and is answered, or it is refused; and *)
(* it is refused only when it is not a statement of the subset, has an     *)
(* integer that cannot be written (TooWide), or does not fit the tables.   *)
Query ==
    /\ asked.cmd = "query" /\ answer = NoAnswer
    /\ \/ \E ast \in Readable(asked.text) :
             /\ Allowed(ast)
             /\ tables' = Effect(ast)
             /\ Answer(Reply(ast))
       \/ /\ \A ast \in Readable(asked.text) : ~ Allowed(ast)
          /\ Answer(Refused)
          /\ UNCHANGED tables

Explain ==
    /\ asked.cmd = "explain" /\ answer = NoAnswer
    /\ Answer(IF \E ast \in Readable(asked.text) : Explainable(ast)
              THEN Done ELSE Refused)
    /\ UNCHANGED tables

(* PARSE touches no table.  What it accepts is the subject of invariants   *)
(* of their own.                                                           *)
ParseOnly ==
    /\ asked.cmd = "parse" /\ answer = NoAnswer
    /\ \E reply \in {Done, Refused} : Answer(reply)
    /\ UNCHANGED tables

(* `bench gen` may be seen half done, and only by a reader of the files:   *)
(* the old table gone, the new one empty, loaded in part.  It says it is   *)
(* done when the table is what was asked for.                              *)
Generate ==
    /\ asked.cmd = "bench gen" /\ answer = NoAnswer
    /\ \/ /\ asked.table \in DOMAIN tables
          /\ tables' = Without(asked.table)
          /\ UNCHANGED <<asked, answer>>
       \/ /\ asked.table \notin DOMAIN tables
          /\ LegalName(asked.table)
          /\ tables' = (asked.table :> NewTable(BenchColumns)) @@ tables
          /\ UNCHANGED <<asked, answer>>
       \/ /\ asked.table \in DOMAIN tables
          /\ \E n \in 1 .. asked.rows :
                tables' = Changed(asked.table,
                                  tables[asked.table].rows \o [i \in 1 .. n |-> BenchRow])
          /\ UNCHANGED <<asked, answer>>
       \/ /\ asked.table \in DOMAIN tables
          /\ tables[asked.table] = [columns |-> BenchColumns,
                                    rows |-> [i \in 1 .. asked.rows |-> BenchRow]]
          /\ Answer(Done)
          /\ UNCHANGED tables
       \/ /\ ~ LegalName(asked.table)
          /\ Answer(Refused)
          /\ UNCHANGED tables

Next == Ask \/ Query \/ Explain \/ ParseOnly \/ Generate

Spec == Init /\ [][Next]_<<tables, asked, answer>>
=============================================================================
