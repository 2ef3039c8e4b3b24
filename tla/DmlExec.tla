------------------------------ MODULE DmlExec ------------------------------
(***************************************************************************)
(* INSERT, DELETE and UPDATE: the binder's checks                          *)
(* (src/execution/logical/binder.rs) and the executor's loops              *)
(* (src/execution/physical/executor.rs), which first collect what a WHERE  *)
(* clause selects and then make one storage call per row.  Storage is the  *)
(* abstract table of TableSpec, which ColumnStore implements; its          *)
(* variables are part of the state here and its actions are the calls.     *)
(***************************************************************************)
EXTENDS TableSpec, WhereClause, RidOrder, FiniteSets

CONSTANTS
    None,           \* Option::None
    Schema,         \* the columns in declared order
    NotNullCols,    \* the columns declared NOT NULL
    IntValues,      \* the values of an INT
    TextValues,     \* and of a TEXT
    Statements,     \* the INSERTs, DELETEs and UPDATEs a caller may submit
    MaxRows         \* bound on the length of the table

ASSUME SchemaAssumption ==
    /\ Schema \in Seq(Cols) /\ Len(Schema) = Cardinality(Cols)
    /\ \A c \in Cols : \E i \in DOMAIN Schema : Schema[i] = c
    /\ NotNullCols \subseteq Cols
    /\ Null \notin IntValues \cup TextValues

(* validate_record: a value of the column's type, or NULL where it may be. *)
Fitting(c) ==
    (IF Type[c] = "Int" THEN IntValues ELSE TextValues)
    \cup (IF c \in NotNullCols THEN {} ELSE {Null})

(* What storage takes for a row is what validate_record lets through.      *)
ASSUME RecordAssumption ==
    Record = {rec \in [Cols -> IntValues \cup TextValues \cup {Null}] :
                 \A c \in Cols : rec[c] \in Fitting(c)}

(* A literal carries its type, and a value of it.                          *)
Literals ==
    [node : {"Literal"}, ty : {"Int"}, val : IntValues]
    \cup [node : {"Literal"}, ty : {"Text"}, val : TextValues]
    \cup [node : {"Literal"}, ty : {"Null"}, val : {Null}]

(* What the parser hands on: any number of values, any column names.       *)
ASSUME StatementAssumption ==
    \A s \in Statements :
        \/ s.kind = "insert" /\ s.values \in Seq(Literals)
        \/ s.kind = "delete"
        \/ /\ s.kind = "update"
           /\ s.sets \in Seq([column : {s.sets[i].column : i \in DOMAIN s.sets},
                              value : Literals])

VARIABLES
    stmt,      \* the statement
    pc,        \* "idle", "bound", "apply", "done", "failed" or "refused"
    pending,   \* the storage calls not made yet, each [rid, recs]
    before     \* the table when the statement began (no code reads it)

vars == <<rows, phase, victim, pend, stmt, pc, pending, before>>

NoStatement == [kind |-> "none"]

---------------------------------------------------------------------------
(* Binding *)

(* Mutant of CheckValue: NULL fits everywhere.                             *)
CheckValueNull(lit, c) == lit.ty \in {"Null", Type[c]}

(* check_value: a literal fits the column it lands in.                     *)
CheckValue(lit, c) ==
    \/ lit.ty = "Null" /\ c \notin NotNullCols
    \/ lit.ty = Type[c]

FilterOK(s) == s.filter = None \/ Reads(s.filter) \subseteq Cols

BindInsert(s) ==
    /\ Len(s.values) = Len(Schema)
    /\ \A i \in DOMAIN s.values : CheckValue(s.values[i], Schema[i])

BindUpdate(s) ==
    /\ \A i \in DOMAIN s.sets :
          s.sets[i].column \in Cols /\ CheckValue(s.sets[i].value, s.sets[i].column)
    /\ FilterOK(s)

Bind(s) ==
    \/ s.kind = "insert" /\ BindInsert(s)
    \/ s.kind = "delete" /\ FilterOK(s)
    \/ s.kind = "update" /\ BindUpdate(s)

---------------------------------------------------------------------------
(* What a statement asks of storage *)

(* exec_insert's record.                                                   *)
InsertRecord(s) ==
    [c \in Cols |-> s.values[CHOOSE i \in DOMAIN Schema : Schema[i] = c].val]

(* Mutant of Assigned: the first SET of a column wins.                     *)
AssignedFirst(s, rec) ==
    LET after[n \in 0 .. Len(s.sets)] ==
            IF n = 0 THEN rec
            ELSE LET set == s.sets[Len(s.sets) + 1 - n]
                 IN  [after[n - 1] EXCEPT ![set.column] = set.value.val]
    IN  after[Len(s.sets)]

(* exec_update's loop over the targets: the last SET of a column wins.     *)
Assigned(s, rec) ==
    LET after[n \in 0 .. Len(s.sets)] ==
            IF n = 0 THEN rec
            ELSE [after[n - 1] EXCEPT ![s.sets[n].column] = s.sets[n].value.val]
    IN  after[Len(s.sets)]

(* scan: the live rids, in order.                                          *)
LiveRids(table) ==
    InRidOrder({rid \in 0 .. Len(table) - 1 : table[rid + 1].live}, Len(table))

(* The rows of it that the WHERE clause keeps.                             *)
Selected(s, table) ==
    InRidOrder({rid \in 0 .. Len(table) - 1 :
                   /\ table[rid + 1].live
                   /\ s.filter = None \/ Keeps(s.filter, table[rid + 1].rec)},
               Len(table))

(* One storage call per selected row: delete(rid), or update(rid, record). *)
Calls(s, table) ==
    LET rids == Selected(s, table)
    IN  [i \in DOMAIN rids |->
            [rid |-> rids[i],
             recs |-> IF s.kind = "update" THEN <<Assigned(s, table[rids[i] + 1].rec)>>
                      ELSE <<>>]]

---------------------------------------------------------------------------
(* Execution *)

(* A statement that might outgrow the bound is not submitted.              *)
Fits(s) ==
    Len(rows) + (CASE s.kind = "insert" -> 1
                   [] s.kind = "update" -> Len(LiveRids(rows))
                   [] OTHER -> 0) <= MaxRows

Submit(s) ==
    /\ pc = "idle" /\ Fits(s)
    /\ stmt' = s
    /\ before' = rows
    /\ pc' = IF Bind(s) THEN "bound" ELSE "refused"
    /\ UNCHANGED <<rows, phase, victim, pend, pending>>

(* exec_insert: validate_record refuses, or the append begins.             *)
ExecInsert ==
    /\ pc = "bound" /\ stmt.kind = "insert"
    /\ IF InsertRecord(stmt) \in Record
       THEN pend' = <<InsertRecord(stmt)>> /\ CallAppend /\ pc' = "apply"
       ELSE pc' = "failed" /\ UNCHANGED avars
    /\ UNCHANGED <<stmt, pending, before>>

(* exec_delete, exec_update, the scan: the predicate is evaluated on every *)
(* live row before storage is touched.                                     *)
Collect ==
    /\ pc = "bound" /\ stmt.kind \in {"delete", "update"}
    /\ IF stmt.filter = None \/ IsCondition(stmt.filter) \/ LiveRids(rows) = <<>>
       THEN pending' = Calls(stmt, rows) /\ pc' = "apply"
       ELSE pc' = "failed" /\ UNCHANGED pending
    /\ UNCHANGED <<rows, phase, victim, pend, stmt, before>>

(* Mutant of NextCall: the table is scanned again after every call.        *)
NextCallRescans ==
    /\ pc = "apply" /\ phase = "idle" /\ pending # <<>>
    /\ victim' = Head(pending).rid
    /\ pend' = Head(pending).recs
    /\ CallKill
    /\ pending' = SelectSeq(Calls(stmt, rows), LAMBDA call : call.rid # victim')
    /\ UNCHANGED <<stmt, pc, before>>

(* Mutant of NextCall: the list is popped from its end.                    *)
NextCallPops ==
    /\ pc = "apply" /\ phase = "idle" /\ pending # <<>>
    /\ victim' = pending[Len(pending)].rid
    /\ pend' = pending[Len(pending)].recs
    /\ CallKill
    /\ pending' = SubSeq(pending, 1, Len(pending) - 1)
    /\ UNCHANGED <<stmt, pc, before>>

(* The loop: the next storage call.  Storage refuses a rid that is not     *)
(* alive and, before it kills anything, a record that is not valid.        *)
NextCall ==
    /\ pc = "apply" /\ phase = "idle" /\ pending # <<>>
    /\ IF LiveRow(Head(pending).rid) /\ Head(pending).recs \in Seq(Record)
       THEN /\ victim' = Head(pending).rid
            /\ pend' = Head(pending).recs
            /\ CallKill
            /\ pending' = Tail(pending)
            /\ UNCHANGED pc
       ELSE pc' = "failed" /\ UNCHANGED <<rows, phase, victim, pend, pending>>
    /\ UNCHANGED <<stmt, before>>

(* Storage works on the call, and answers.  An INSERT is one call.         *)
InStorage ==
    /\ \/ Kill
       \/ AppendAll /\ Len(rows') <= MaxRows
       \/ Respond
    /\ UNCHANGED <<stmt, pc, pending, before>>

Report ==
    /\ pc = "apply" /\ phase = "idle" /\ pending = <<>>
    /\ pc' = "done"
    /\ UNCHANGED <<rows, phase, victim, pend, stmt, pending, before>>

Ends ==
    /\ pc' = "idle"
    /\ stmt' = NoStatement
    /\ pending' = <<>>
    /\ before' = <<>>

Finish ==
    /\ pc \in {"done", "failed", "refused"}
    /\ Ends
    /\ UNCHANGED avars

(* The process dies, or storage answers Err and the command exits.         *)
Crash ==
    /\ pc \in {"bound", "apply"}
    /\ Abandon \/ (phase = "idle" /\ UNCHANGED avars)
    /\ Ends

Init ==
    /\ AInit
    /\ pc = "idle" /\ stmt = NoStatement /\ pending = <<>> /\ before = <<>>

Exec == ExecInsert \/ Collect \/ NextCall \/ InStorage \/ Report

Next == (\E s \in Statements : Submit(s)) \/ Exec \/ Finish \/ Crash

Spec == Init /\ [][Next]_vars

(* A statement that runs keeps running; nobody promises another.           *)
FairSpec == Spec /\ WF_vars(Exec)

---------------------------------------------------------------------------
(* Properties *)

BadPredicate ==
    stmt.kind \in {"delete", "update"} /\ stmt.filter # None /\ ~ IsCondition(stmt.filter)

(* What the statement means: the live rows of the table it found that the  *)
(* WHERE clause holds for, and what each becomes.                          *)
Meant(rid) ==
    before[rid + 1].live /\ (stmt.filter = None \/ Keeps(stmt.filter, before[rid + 1].rec))

Becomes(rid) ==
    [c \in Cols |->
        LET sets == {i \in DOMAIN stmt.sets : stmt.sets[i].column = c}
        IN  IF sets = {} THEN before[rid + 1].rec[c]
            ELSE stmt.sets[Greatest(sets)].value.val]

MeantRids ==
    InRidOrder({rid \in 0 .. Len(before) - 1 : Meant(rid)}, Len(before))

Updating == stmt.kind = "update"

(* The table it found with the first `killed` of those rows dead, and      *)
(* behind it what the first `appended` of them became.                     *)
Applied(killed, appended) ==
    [i \in DOMAIN before |->
        [rec  |-> before[i].rec,
         live |-> /\ before[i].live
                  /\ \A m \in 1 .. killed : MeantRids[m] # i - 1]]
    \o NewRows([m \in 1 .. appended |-> Becomes(MeantRids[m])])

(* A DELETE or UPDATE that is through with m rows.                         *)
Through(m) == Applied(m, IF Updating THEN m ELSE 0)

Table == Seq([rec : Record, live : BOOLEAN])

TypeOK ==
    /\ ATypeOK
    /\ pc \in {"idle", "bound", "apply", "done", "failed", "refused"}
    /\ stmt \in Statements \cup {NoStatement}
    /\ before \in Table
    /\ pending \in Seq([rid : 0 .. Len(before) - 1, recs : Seq(Record)])

(* When a statement reports success it has had its whole effect on the     *)
(* table it found, and no other.                                           *)
StatementEffect ==
    pc = "done" =>
        rows = IF stmt.kind = "insert" THEN before \o NewRows(<<InsertRecord(stmt)>>)
               ELSE Through(Len(MeantRids))

(* Wherever a DELETE or UPDATE is when it stops, what it has done is the   *)
(* statement's effect on the first m of the rows it selects, in rid order, *)
(* the last of them possibly killed and not yet replaced.                  *)
HalfDoneIsPrefix ==
    (pc \notin {"idle", "refused"} /\ stmt.kind \in {"delete", "update"}) =>
        \E m \in 0 .. Len(MeantRids) :
            \/ rows = Through(m)
            \/ m > 0 /\ Updating /\ rows = Applied(m, m - 1)

(* Storage never refuses what the binder has let through: a statement      *)
(* fails only on a WHERE clause that is no condition, and then it has      *)
(* changed nothing.                                                        *)
FailsClean == pc = "failed" => BadPredicate /\ rows = before

(* Every statement comes to its end: UPDATE does not meet its own rows.    *)
StatementEnds == (pc \in {"bound", "apply"}) ~> (pc \notin {"bound", "apply"})

---------------------------------------------------------------------------
(* The inductive invariant *)

(* Storage and the list are busy only while the loop runs.                 *)
QuietPart ==
    /\ pc # "apply" => phase = "idle" /\ pending = <<>>
    /\ pc = "idle" => stmt = NoStatement

(* A statement gets past binding only if it binds; until the loop runs the *)
(* table is the one it found.                                              *)
BoundPart ==
    /\ pc \in {"bound", "apply", "done", "failed"} => stmt \in Statements /\ Bind(stmt)
    /\ pc \in {"bound", "failed"} => rows = before
    /\ pc = "failed" => BadPredicate

(* An INSERT is one call.                                                  *)
InsertPart ==
    (pc \in {"apply", "done"} /\ stmt.kind = "insert") =>
        /\ pending = <<>> /\ phase # "kill"
        /\ phase = "append" => rows = before /\ pend = <<InsertRecord(stmt)>>
        /\ phase # "append" => rows = before \o NewRows(<<InsertRecord(stmt)>>)

CallFor(m) ==
    [rid |-> MeantRids[m],
     recs |-> IF Updating THEN <<Becomes(MeantRids[m])>> ELSE <<>>]

(* How many of the selected rows have been handed to storage.              *)
HandedOver == Len(MeantRids) - Len(pending)

(* The list holds the calls not made yet, and the table shows the ones     *)
(* made, the last of them as far as storage is with it.                    *)
LoopPart ==
    (pc \in {"apply", "done"} /\ stmt.kind \in {"delete", "update"}) =>
        /\ HandedOver >= 0
        /\ \A i \in DOMAIN pending : pending[i] = CallFor(HandedOver + i)
        /\ phase \in {"idle", "done"} => rows = Through(HandedOver)
        /\ phase \in {"kill", "append"} => HandedOver > 0 /\ pend = CallFor(HandedOver).recs
        /\ phase = "kill" => /\ victim = MeantRids[HandedOver]
                             /\ rows = Through(HandedOver - 1)
        /\ phase = "append" => Updating /\ rows = Applied(HandedOver, HandedOver - 1)

DmlInv == TypeOK /\ QuietPart /\ BoundPart /\ InsertPart /\ LoopPart
=============================================================================
