------------------------------ MODULE Session -------------------------------
(***************************************************************************)
(* The commands of balik-cli from the SQL text to the printed result:      *)
(* src/cli/commands (parse, query, explain, bench_gen), the parser         *)
(* (module SqlLower), the binder's look at the catalog, the executor's     *)
(* statements and, below the Storage trait, the catalog, the manifests and *)
(* the rows of every table.                                                *)
(*                                                                         *)
(* The whole-database lock makes commands run one after the other, so one  *)
(* process is enough here.  Its catalog is the one on disk.  Crashes and   *)
(* the steps inside a catalog or storage call are the subject of Database  *)
(* and ColumnStore; WHERE, ORDER BY and LIMIT that of SelectExec and       *)
(* DmlExec: the statements of `query` have none here.                      *)
(* The parser is known only by the ASTs it hands on; module SessionSql     *)
(* puts SqlLower in its place and says what commands mean to their user.   *)
(***************************************************************************)
EXTENDS SqlNames, RidOrder, SequencesExt

CONSTANTS
    Lowered(_),  \* what the parser makes of a text: one AST or none
    Commands,    \* the commands somebody may run
    MaxId,       \* bound: tables created
    MaxRid       \* bound: rows of a table above which nothing is appended

VARIABLES
    catalog,   \* name -> table id, which names the directory
    nextId,
    manifest,  \* id -> manifest.toml of that directory
    groups,    \* id -> the rows in its row groups, with their tombstones
    pc,
    parsed,    \* the AST of the running command, if it has one
    plan,      \* and its plan
    handle,    \* the TableHandle it holds
    loaded,    \* bench gen: rows loaded
    asked,     \* the command that runs
    answer     \* what the last one printed; NoAnswer while one runs

disk == <<catalog, nextId, manifest, groups>>
locals == <<parsed, plan, handle, loaded>>
vars == <<catalog, nextId, manifest, groups, pc, parsed, plan, handle, loaded,
          asked, answer>>

---------------------------------------------------------------------------
(* schema.rs *)

(* validate_identifier *)
ValidIdentifier(id) ==
    /\ id # <<>>
    /\ Len(id) <= MaxIdentLen
    /\ id[1] \in Letters \cup {"_"}
    /\ ToSet(Tail(id)) \subseteq Letters \cup Digits \cup {"_"}

(* Mutant of ValidSchema: duplicates are looked for as they are spelled.   *)
ValidSchemaCase(table, columns) ==
    /\ ValidIdentifier(table)
    /\ columns # <<>>
    /\ \A i \in DOMAIN columns :
          /\ ValidIdentifier(columns[i].name)
          /\ columns[i].name \notin {columns[j].name : j \in 1 .. i - 1}

(* Schema::validate: `seen` holds the lower-case names before this one.    *)
ValidSchema(table, columns) ==
    /\ ValidIdentifier(table)
    /\ columns # <<>>
    /\ \A i \in DOMAIN columns :
          /\ ValidIdentifier(columns[i].name)
          /\ Fold(columns[i].name) \notin {Fold(columns[j].name) : j \in 1 .. i - 1}

---------------------------------------------------------------------------
(* The catalog and the storage calls.  An Option or a Result is a set of   *)
(* at most one element, as in SqlLower.                                    *)

(* describe_table: what the manifest says, and where the table is.         *)
DescribeTable(name) ==
    {[id |-> manifest[i].id, name |-> manifest[i].name, columns |-> manifest[i].columns,
      dir |-> i, next_rid |-> manifest[i].next_rid] :
        i \in {catalog[n] : n \in {name} \cap DOMAIN catalog}}

(* ColumnStore::open_table *)
OpenTable(name) ==
    {[name |-> d.name, columns |-> d.columns, dir |-> d.dir] : d \in DescribeTable(name)}

(* create_table, seen from outside: the directory with its manifest and    *)
(* row group 0, and then the entry.                                        *)
CanCreate(name, columns) == ValidSchema(name, columns) /\ name \notin DOMAIN catalog

With(f, key, value) == [k \in DOMAIN f \cup {key} |-> IF k = key THEN value ELSE f[k]]

CreateTable(name, columns) ==
    /\ manifest' = With(manifest, nextId, [id |-> nextId, name |-> name, columns |-> columns,
                                           next_rid |-> 0])
    /\ groups' = With(groups, nextId, <<>>)
    /\ catalog' = With(catalog, name, nextId)
    /\ nextId' = nextId + 1

(* drop_table: the entry, then the directory.                              *)
DropTable(name) ==
    LET gone == catalog[name]
    IN  /\ catalog' = [n \in DOMAIN catalog \ {name} |-> catalog[n]]
        /\ manifest' = [i \in DOMAIN manifest \ {gone} |-> manifest[i]]
        /\ groups' = [i \in DOMAIN groups \ {gone} |-> groups[i]]
        /\ UNCHANGED nextId

(* validate_record: arity, types and NULLs.                                *)
ValidRecord(columns, record) ==
    /\ Len(record) = Len(columns)
    /\ \A i \in DOMAIN record :
          IF record[i].ty = "Null" THEN columns[i].nullable
                                   ELSE record[i].ty = columns[i].ty

(* The committed live rows of a handle: next_rid by name, rows by          *)
(* directory.                                                              *)
ScanRids(h) ==
    {r \in 0 .. manifest[catalog[h.name]].next_rid - 1 :
        r < Len(groups[h.dir]) /\ ~ groups[h.dir][r + 1].dead}

Scan(h) ==
    LET rids == InRidOrder(ScanRids(h), manifest[catalog[h.name]].next_rid)
    IN  [i \in DOMAIN rids |-> groups[h.dir][rids[i] + 1].values]

(* Mutant of AppendRows: next_rid is counted up once per statement.        *)
AppendRowsOnce(h, rows, records) ==
    LET id == catalog[h.name]
        from == manifest[id].next_rid
        new == [i \in DOMAIN records |-> [values |-> records[i], dead |-> FALSE]]
    IN  /\ groups' = [groups EXCEPT ![h.dir] = SubSeq(rows, 1, from) \o new]
        /\ manifest' = [manifest EXCEPT ![id].next_rid = from + 1]
        /\ UNCHANGED <<catalog, nextId>>

(* insert of several records, one after the other: the files are found by  *)
(* the handle's directory, next_rid by its name; what the files hold from  *)
(* next_rid on is overwritten.                                             *)
AppendRows(h, rows, records) ==
    LET id == catalog[h.name]
        from == manifest[id].next_rid
        new == [i \in DOMAIN records |-> [values |-> records[i], dead |-> FALSE]]
    IN  /\ groups' = [groups EXCEPT ![h.dir] = SubSeq(rows, 1, from) \o new]
        /\ manifest' = [manifest EXCEPT ![id].next_rid = from + Len(records)]
        /\ UNCHANGED <<catalog, nextId>>

Tombstoned(h, rids) ==
    [i \in DOMAIN groups[h.dir] |->
        [groups[h.dir][i] EXCEPT !.dead = @ \/ i - 1 \in rids]]

---------------------------------------------------------------------------
(* Binding *)

CheckValue(value, column) ==
    IF value.ty = "Null" THEN column.nullable ELSE value.ty = column.ty

BindCreateTable(ast) ==
    {[exec |-> "CreateTable", table |-> ast.table, columns |-> ast.columns] :
        ok \in {TRUE} \cap {ValidSchema(ast.table, ast.columns)}}

BindInsert(ast) ==
    {[exec |-> "Insert", table |-> ast.table, values |-> ast.values] :
        d \in {t \in DescribeTable(ast.table) :
                  /\ Len(ast.values) = Len(t.columns)
                  /\ \A i \in DOMAIN t.columns : CheckValue(ast.values[i], t.columns[i])}}

(* Mutant of BindUpdate: the value is not checked against its column.      *)
BindUpdateLoose(ast) ==
    {[exec |-> "Update", table |-> ast.table, assignments |-> ast.assignments] :
        d \in {t \in DescribeTable(ast.table) :
                  \A a \in ToSet(ast.assignments) : HasColumn(t.columns, a.column)}}

BindUpdate(ast) ==
    {[exec |-> "Update", table |-> ast.table, assignments |-> ast.assignments] :
        d \in {t \in DescribeTable(ast.table) :
                  \A a \in ToSet(ast.assignments) :
                      \E i \in DOMAIN t.columns :
                          /\ t.columns[i].name = a.column
                          /\ CheckValue(a.value, t.columns[i])}}

(* bind_delete, bind_drop_table, bind_describe: the table must exist.      *)
BindNamed(exec, ast) ==
    {[exec |-> exec, table |-> ast.table] : d \in DescribeTable(ast.table)}

(* bind_select of a statement that is a projection of a scan.              *)
BindSelect(ast) ==
    {[exec |-> "Projection", table |-> ast.from,
      columns |-> IF ast.projections.all THEN NamesOf(d.columns)
                                         ELSE ast.projections.columns] :
        d \in {t \in DescribeTable(ast.from) :
                  ToSet(ast.projections.columns) \subseteq ToSet(NamesOf(t.columns))}}

(* bind.  The plan lower() makes of it has the same parts.                 *)
Bind(ast) ==
    CASE ast.stmt = "CreateTable" -> BindCreateTable(ast)
      [] ast.stmt = "Insert"      -> BindInsert(ast)
      [] ast.stmt = "Select"      -> BindSelect(ast)
      [] ast.stmt = "Update"      -> BindUpdate(ast)
      [] ast.stmt = "ShowTables"  -> {[exec |-> "ShowTables"]}
      [] OTHER -> BindNamed(ast.stmt, ast)

---------------------------------------------------------------------------
(* The commands *)

Init ==
    /\ catalog = <<>> /\ nextId = 1 /\ manifest = <<>> /\ groups = <<>>
    /\ pc = "idle" /\ parsed = {} /\ plan = {} /\ handle = {} /\ loaded = 0
    /\ asked = NoCommand /\ answer = Refused

(* Bounds: room for another table and for more rows; `parse`, which reads  *)
(* no database, runs on the empty one.                                     *)
Room(command) ==
    /\ command.cmd # "parse" => nextId <= MaxId
    /\ command.cmd = "parse" => nextId = 1
    /\ \A i \in DOMAIN manifest : manifest[i].next_rid <= MaxRid

(* The process starts.  parse, query and explain parse first and open the  *)
(* database only if that worked.                                           *)
Submit ==
    /\ pc = "idle"
    /\ \E command \in Commands :
          /\ Room(command)
          /\ asked' = command
          /\ IF command.cmd = "bench gen"
             THEN pc' = "generate" /\ parsed' = {}
             ELSE pc' = "parsed" /\ parsed' = Lowered(command.text)
    /\ answer' = NoAnswer
    /\ UNCHANGED <<plan, handle, loaded, disk>>

(* The result is printed and the process is gone.                          *)
Answer(reply) ==
    /\ answer' = reply /\ asked' = NoCommand
    /\ pc' = "idle" /\ parsed' = {} /\ plan' = {} /\ handle' = {} /\ loaded' = 0

ParseCommand ==
    /\ pc = "parsed" /\ asked.cmd = "parse"
    /\ Answer(IF parsed = {} THEN Refused ELSE Done)
    /\ UNCHANGED disk

(* query and explain bind alike; explain prints the plans and is done.     *)
BindCommand ==
    /\ pc = "parsed" /\ asked.cmd \in {"query", "explain"}
    /\ LET bound == UNION {Bind(ast) : ast \in parsed}
       IN  \/ /\ bound = {}
              /\ Answer(Refused)
           \/ /\ bound # {} /\ asked.cmd = "explain"
              /\ Answer(Done)
           \/ /\ bound # {} /\ asked.cmd = "query"
              /\ plan' = bound /\ pc' = "execute"
              /\ UNCHANGED <<asked, answer, parsed, handle, loaded>>
    /\ UNCHANGED disk

Executes(exec) == pc = "execute" /\ \E p \in plan : p.exec = exec
Plan == CHOOSE p \in plan : TRUE
Handle == CHOOSE h \in handle : TRUE

ExecCreateTable ==
    /\ Executes("CreateTable")
    /\ IF CanCreate(Plan.table, Plan.columns)
       THEN CreateTable(Plan.table, Plan.columns) /\ Answer(Done)
       ELSE Answer(Refused) /\ UNCHANGED disk

ExecDropTable ==
    /\ Executes("DropTable")
    /\ DropTable(Plan.table)
    /\ Answer(Done)

ExecShowTables ==
    /\ Executes("ShowTables")
    /\ Answer([names |-> DOMAIN catalog])
    /\ UNCHANGED disk

(* Mutant of ExecDescribe: the columns are listed as the executor's        *)
(* ColumnDefs, which know a column only by its type.                       *)
ExecDescribeTypes ==
    /\ Executes("Describe")
    /\ \E d \in DescribeTable(Plan.table) :
          Answer([columns |-> [i \in DOMAIN d.columns |->
                                  [d.columns[i] EXCEPT !.nullable = TRUE]]])
    /\ UNCHANGED disk

(* exec_describe; EXTENDED adds the id, the track and the group size.      *)
ExecDescribe ==
    /\ Executes("Describe")
    /\ \E d \in DescribeTable(Plan.table) : Answer([columns |-> d.columns])
    /\ UNCHANGED disk

(* The other statements open the table and then work with the handle.      *)
Open ==
    /\ pc = "execute" /\ \E p \in plan : p.exec \in {"Insert", "Delete", "Update", "Projection"}
    /\ handle' = OpenTable(Plan.table)
    /\ pc' = "opened"
    /\ UNCHANGED <<asked, answer, parsed, plan, loaded, disk>>

Works(exec) == pc = "opened" /\ Plan.exec = exec

ExecInsert ==
    /\ Works("Insert")
    /\ IF ValidRecord(Handle.columns, Plan.values)
       THEN AppendRows(Handle, groups[Handle.dir], <<Plan.values>>) /\ Answer(Done)
       ELSE Answer(Refused) /\ UNCHANGED disk

ExecDelete ==
    /\ Works("Delete")
    /\ groups' = [groups EXCEPT ![Handle.dir] = Tombstoned(Handle, ScanRids(Handle))]
    /\ Answer(Done)
    /\ UNCHANGED <<catalog, nextId, manifest>>

(* exec_update's loop over the SETs; their columns are found in the        *)
(* handle's schema.                                                        *)
NewRecord(record) ==
    LET sets == Plan.assignments
        after[n \in 0 .. Len(sets)] ==
            IF n = 0 THEN record
            ELSE [after[n - 1] EXCEPT ![Position(Handle.columns, sets[n].column)] = sets[n].value]
    IN  after[Len(sets)]

(* Mutant of ExecUpdate: the new rows are written, the old ones stay.      *)
ExecUpdateKeeps ==
    /\ Works("Update")
    /\ LET records == [i \in DOMAIN Scan(Handle) |-> NewRecord(Scan(Handle)[i])]
       IN  IF \A r \in ToSet(records) : ValidRecord(Handle.columns, r)
           THEN AppendRows(Handle, groups[Handle.dir], records) /\ Answer(Done)
           ELSE Answer(Refused) /\ UNCHANGED disk

ExecUpdate ==
    /\ Works("Update")
    /\ LET records == [i \in DOMAIN Scan(Handle) |-> NewRecord(Scan(Handle)[i])]
       IN  IF \A r \in ToSet(records) : ValidRecord(Handle.columns, r)
           THEN /\ AppendRows(Handle, Tombstoned(Handle, ScanRids(Handle)), records)
                /\ Answer(Done)
           ELSE Answer(Refused) /\ UNCHANGED disk

(* A SELECT: output_columns names the header; the scan resolves the        *)
(* columns in the handle's schema.                                         *)
ExecSelect ==
    /\ Works("Projection")
    /\ LET places == [i \in DOMAIN Plan.columns |->
                         Position(Handle.columns, Plan.columns[i])]
           rows == Scan(Handle)
       IN  Answer([header |-> Plan.columns,
                   rows |-> [r \in DOMAIN rows |->
                                [i \in DOMAIN places |-> rows[r][places[i]]]]])
    /\ UNCHANGED disk

---------------------------------------------------------------------------
(* bench gen *)

(* Mutant of GenerateSteps: the table is opened before it is replaced.     *)
GenerateStepsEarly == <<"open", "drop", "create", "load">>

(* What run does after it opened the store, in this order.                 *)
GenerateSteps == <<"drop", "create", "open", "load">>

At(step) ==
    /\ asked.cmd = "bench gen" /\ answer = NoAnswer
    /\ pc = IF step = Head(GenerateSteps) THEN "generate" ELSE step

GoOn(step) ==
    pc' = GenerateSteps[(CHOOSE i \in DOMAIN GenerateSteps : GenerateSteps[i] = step) + 1]

GenerateDrop ==
    /\ At("drop")
    /\ IF asked.table \in DOMAIN catalog THEN DropTable(asked.table) ELSE UNCHANGED disk
    /\ GoOn("drop")
    /\ UNCHANGED <<asked, answer, locals>>

GenerateCreate ==
    /\ At("create")
    /\ IF CanCreate(asked.table, BenchColumns)
       THEN /\ CreateTable(asked.table, BenchColumns)
            /\ GoOn("create")
            /\ UNCHANGED <<asked, answer, locals>>
       ELSE Answer(Refused) /\ UNCHANGED disk

GenerateOpen ==
    /\ At("open")
    /\ handle' = OpenTable(asked.table)
    /\ GoOn("open")
    /\ UNCHANGED <<asked, answer, parsed, plan, loaded, disk>>

(* One bulk_load of a row group of rows (here: of one row).                *)
GenerateLoad ==
    /\ At("load") /\ loaded < asked.rows /\ handle # {}
    /\ AppendRows(Handle, groups[Handle.dir], <<BenchRow>>)
    /\ loaded' = loaded + 1
    /\ UNCHANGED <<asked, answer, pc, parsed, plan, handle>>

GenerateEnds ==
    /\ At("load") /\ loaded = asked.rows
    /\ Answer(Done)
    /\ UNCHANGED disk

Next ==
    \/ Submit
    \/ ParseCommand \/ BindCommand
    \/ ExecCreateTable \/ ExecDropTable \/ ExecShowTables \/ ExecDescribe
    \/ Open
    \/ ExecInsert \/ ExecDelete \/ ExecUpdate \/ ExecSelect
    \/ GenerateDrop \/ GenerateCreate \/ GenerateOpen \/ GenerateLoad \/ GenerateEnds

Spec == Init /\ [][Next]_vars

---------------------------------------------------------------------------
(* Assumptions *)

IsSequence(s) == s \in Seq(ToSet(s))

(* The parser hands on one AST at most, and what ast.rs keeps in a Vec is  *)
(* a sequence.                                                             *)
IsAst(ast) ==
    /\ ast.stmt = "CreateTable" => IsSequence(ast.columns)
    /\ ast.stmt = "Insert" => IsSequence(ast.values)
    /\ ast.stmt = "Update" => IsSequence(ast.assignments)

ASSUME CommandAssumption ==
    \A c \in Commands :
        /\ c.cmd \in {"parse", "query", "explain", "bench gen"}
        /\ c.cmd # "bench gen" =>
              \A ast \in Lowered(c.text) : IsAst(ast) /\ Lowered(c.text) = {ast}

(* What `bench gen` loads fits the table it makes.                         *)
ASSUME BenchAssumption ==
    IsSequence(BenchColumns) /\ IsSequence(BenchRow) /\ ValidRecord(BenchColumns, BenchRow)

---------------------------------------------------------------------------
(* Properties *)

Running == answer = NoAnswer

(* A handle that a data-plane call uses is about the table its name stands *)
(* for now: same directory, same columns.  The calls mix the two, they     *)
(* look up next_rid by the name and the files by the directory.            *)
HandleFresh ==
    Running => \A h \in handle : OpenTable(h.name) = {h}

(* Each column of a table has a `.col` file of its own, also where file    *)
(* names are compared without case.                                        *)
ColumnFilesDistinct ==
    \A i \in DOMAIN manifest : \A c, d \in DOMAIN manifest[i].columns :
        Fold(manifest[i].columns[c].name) = Fold(manifest[i].columns[d].name) => c = d

(* Once a statement is bound, executing it fails only where it meets a     *)
(* table the binder does not look for: CREATE TABLE of a name that is      *)
(* taken.  The storage never finds fault with a row the binder let         *)
(* through, and no statement fails after it changed something.             *)
BoundMeansDone ==
    [][/\ pc \in {"execute", "opened"} /\ answer' = Refused
       => Plan.exec = "CreateTable" /\ Plan.table \in DOMAIN catalog]_vars

---------------------------------------------------------------------------
(* The inductive invariant *)

TypeOK ==
    /\ nextId \in Nat \ {0}
    /\ DOMAIN manifest \subseteq 1 .. nextId - 1 /\ DOMAIN groups = DOMAIN manifest
    /\ \A i \in DOMAIN manifest :
          /\ DOMAIN manifest[i] = {"id", "name", "columns", "next_rid"}
          /\ IsSequence(manifest[i].columns) /\ IsSequence(groups[i])
          /\ manifest[i].next_rid \in Nat
    /\ loaded \in Nat
    /\ pc \in {"idle", "parsed", "execute", "opened", "generate"} \cup ToSet(GenerateSteps)

(* A name stands for the directory whose manifest has that name.           *)
CatalogPart ==
    \A n \in DOMAIN catalog :
        catalog[n] \in DOMAIN manifest /\ manifest[catalog[n]].name = n

(* The files hold next_rid rows, and each fits the columns.                *)
RowsPart ==
    \A i \in DOMAIN manifest :
        /\ Len(groups[i]) = manifest[i].next_rid
        /\ \A r \in DOMAIN groups[i] :
              /\ DOMAIN groups[i][r] = {"values", "dead"}
              /\ IsSequence(groups[i][r].values)
              /\ ValidRecord(manifest[i].columns, groups[i][r].values)

(* What the process holds while it runs.                                   *)
ProcessPart ==
    /\ IF pc = "idle" THEN answer # NoAnswer ELSE answer = NoAnswer /\ asked \in Commands
    /\ pc = "parsed" => asked.cmd # "bench gen" /\ parsed = Lowered(asked.text)
    /\ pc \in {"execute", "opened"} =>
          \E ast \in parsed : IsAst(ast) /\ plan = Bind(ast) /\ plan # {}
    /\ pc \notin {"execute", "opened"} => plan = {}
    /\ pc = "opened" => handle = OpenTable(Plan.table) /\ handle # {}
    /\ pc \notin {"opened", "load"} => handle = {}

(* bench gen: what stands in the catalog at its steps.                     *)
GeneratePart ==
    /\ pc \in {"generate"} \cup ToSet(GenerateSteps) => asked.cmd = "bench gen"
    /\ pc = "create" => asked.table \notin DOMAIN catalog
    /\ pc = "open" => /\ asked.table \in DOMAIN catalog
                      /\ manifest[catalog[asked.table]].columns = BenchColumns
    /\ pc = "load" => /\ handle = OpenTable(asked.table) /\ handle # {}
                      /\ \A h \in handle : h.columns = BenchColumns

SessionInv ==
    /\ TypeOK /\ CatalogPart /\ RowsPart /\ ProcessPart /\ GeneratePart
    /\ HandleFresh /\ ColumnFilesDistinct
=============================================================================
