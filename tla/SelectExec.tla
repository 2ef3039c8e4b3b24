----------------------------- MODULE SelectExec -----------------------------
(***************************************************************************)
(* A SELECT from the bound statement to its rows: the plan the binder      *)
(* builds (src/execution/logical/binder.rs), the optimizer's two rewrites  *)
(* (src/execution/logical/optimizer/), lowering (physical/lower.rs), and   *)
(* the pipeline that pulls batches out of the row groups                   *)
(* (physical/executor.rs, BatchScanState in src/storage/column_store.rs).  *)
(*                                                                         *)
(* A plan is always the same chain of operators, Scan, Filter, Sort,       *)
(* Limit, Projection, so it is a record of their parameters, None where an *)
(* operator is not there; `fused` says that one TopK stands for the Sort   *)
(* and the Limit.  A batch is a sequence of rows; a row carries its row    *)
(* group and offset, which no query sees and the properties need to tell   *)
(* equal rows apart.                                                       *)
(***************************************************************************)
EXTENDS WhereClause, RidOrder, FiniteSets, SequencesExt

CONSTANTS
    None,        \* Option::None
    Tables,      \* the stored tables to query, see TableAssumption
    Statements   \* the SELECTs a caller may submit, see StatementAssumption

IntCols == {c \in Cols : Type[c] = "Int"}

(* A stored table is its row groups, as ColumnStore leaves them between    *)
(* calls (TablesAreReadable, proved of it).                                *)
GroupOK(g) == ReadableGroup(g, Cols, IntCols)
TableOK(t) == Len(t) \in Nat /\ \A g \in 1 .. Len(t) : GroupOK(t[g])

ASSUME TableAssumption == \A t \in Tables : TableOK(t)

(* [cols, filter, order, limit]: filter, order and limit may be None; an   *)
(* order is [column, descending].                                          *)
ASSUME StatementAssumption ==
    /\ None \notin Nat
    /\ \A s \in Statements : /\ s.cols # {} /\ (s.limit = None \/ s.limit \in Nat)
                             /\ s.order = None \/ s.order.descending \in BOOLEAN

VARIABLES
    table,      \* the table on disk
    stmt,       \* the statement
    plan,       \* its physical plan
    pc,         \* what the pipeline does next
    group,      \* BatchScanState.current_group, from 1
    decoded,    \* the groups decoded (scanned_groups counts them)
    batch,      \* the batch on its way up
    acc,        \* what SortExec has concatenated
    heap,       \* what TopKExec keeps
    remaining,  \* what LimitExec may still let through; None without one
    out         \* the rows collected

vars == <<table, stmt, plan, pc, group, decoded, batch, acc, heap, remaining, out>>

NoStatement == [cols |-> {}, filter |-> None, order |-> None, limit |-> None]

---------------------------------------------------------------------------
(* Planning *)

FilterColumns(s) == IF s.filter = None THEN {} ELSE Reads(s.filter)
OrderColumns(s) == IF s.order = None THEN {} ELSE {s.order.column}

(* bind_select: the columns a statement names, which must all exist.       *)
Known(s) == s.cols \cup FilterColumns(s) \cup OrderColumns(s) \subseteq Cols

(* bind_select: Scan, Filter, Sort, Limit, Projection, innermost first.    *)
BindSelect(s) ==
    [columns |-> None, prune |-> {}, filter |-> s.filter, order |-> s.order,
     limit |-> s.limit, fused |-> FALSE, projection |-> s.cols]

NoPlan == BindSelect(NoStatement)

Sorts(p) == p.order # None /\ ~ p.fused
Limits(p) == p.limit # None /\ ~ p.fused

(* top_k::apply: a Limit directly over a Sort becomes a TopK.              *)
TopKRewrite(p) ==
    IF p.order # None /\ p.limit # None THEN [p EXCEPT !.fused = TRUE] ELSE p

(* Mutant of NeededColumns: the fused TopK is forgotten.                   *)
NeededColumnsUnfused(p) ==
    p.projection \cup FilterColumns(p) \cup (IF Sorts(p) THEN OrderColumns(p) ELSE {})

(* needed_columns: projected, filtered on, or ordered by.                  *)
NeededColumns(p) == p.projection \cup FilterColumns(p) \cup OrderColumns(p)

(* column_pushdown::apply: the Scan, always at the leaf, is stamped.       *)
PushDown(p) == [p EXCEPT !.columns = NeededColumns(p)]

(* optimize *)
Optimize(p) == PushDown(TopKRewrite(p))

(* lower: the hints of the WHERE clause travel down to the scan.           *)
Lower(p) ==
    IF p.filter = None THEN p ELSE [p EXCEPT !.prune = HintsOf(p.filter)]

PlanOf(s, optimize) ==
    Lower(IF optimize THEN Optimize(BindSelect(s)) ELSE BindSelect(s))

---------------------------------------------------------------------------
(* Order *)

(* order_values, as a strict order: NULL before every value.               *)
ValueBefore(a, b) == b # Null /\ (a # Null => a < b)

(* Mutant of Before: NULLs first in either direction.                      *)
BeforeNullsFirst(order, x, y) ==
    LET a == x.vals[order.column]
        b == y.vals[order.column]
    IN  IF order.descending /\ a # Null /\ b # Null THEN ValueBefore(b, a)
        ELSE ValueBefore(a, b)

(* ordered: does row x sort strictly before row y?                         *)
Before(order, x, y) ==
    LET a == x.vals[order.column]
        b == y.vals[order.column]
    IN  IF order.descending THEN ValueBefore(b, a) ELSE ValueBefore(a, b)

(* Rows by their places in a total order on their positions.               *)
Arranged(rows, precedes) ==
    LET Place(i) == Cardinality({j \in DOMAIN rows : <<j, i>> \in precedes}) + 1
    IN  [k \in DOMAIN rows |-> rows[CHOOSE i \in DOMAIN rows : Place(i) = k]]

(* Mutant of StableSort: equal keys come out last first.                   *)
UnstableSort(order, rows) ==
    Arranged(rows, {p \in (DOMAIN rows) \X (DOMAIN rows) :
                        \/ Before(order, rows[p[1]], rows[p[2]])
                        \/ p[2] < p[1] /\ ~ Before(order, rows[p[2]], rows[p[1]])})

(* sort_batches' sort_by, which is stable: positions decide among equals.  *)
StableSort(order, rows) ==
    Arranged(rows, {p \in (DOMAIN rows) \X (DOMAIN rows) :
                        \/ Before(order, rows[p[1]], rows[p[2]])
                        \/ p[1] < p[2] /\ ~ Before(order, rows[p[2]], rows[p[1]])})

(* The rows of the heap that BinaryHeap may have at its top.               *)
Worst(order, rows) == {x \in rows : \A y \in rows : ~ Before(order, x, y)}

(* into_sorted_vec: sorted, and any order among equals.                    *)
HeapOrders(order, rows) ==
    {s \in SetToSeqs(rows) :
        \A i, j \in DOMAIN s : i < j => ~ Before(order, s[j], s[i])}

---------------------------------------------------------------------------
(* The pipeline *)

Blocking == plan.order # None
(* scan_batches: the columns of every batch.                               *)
Names == IF plan.columns = None THEN Cols ELSE plan.columns

(* scan_batches keeps hints on INT columns; group_pruned asks each.        *)
GroupPruned(g) ==
    \E p \in plan.prune : /\ p.column \in IntCols
                             /\ ZonePrunes(p.op, p.value, table[g].zone[p.column])

LiveOffsets(g) == {o \in 0 .. Len(table[g].rows) - 1 : o \notin table[g].deletes}

Item(g, o, names) == [rid |-> <<g, o>>, vals |-> [c \in names |-> table[g].rows[o + 1][c]]]

(* load_group: the live rows of group g, projected.                        *)
LoadRows(g, names) ==
    LET offsets == InRidOrder(LiveOffsets(g), Len(table[g].rows))
    IN  [i \in DOMAIN offsets |-> Item(g, offsets[i], names)]

(* filter_batch: the rows whose entry in the mask is true.                 *)
Passing(predicate, rows) ==
    LET kept == InRidOrder({i \in 0 .. Len(rows) - 1 : Keeps(predicate, rows[i + 1].vals)},
                           Len(rows))
    IN  [i \in DOMAIN kept |-> rows[kept[i] + 1]]

(* project_batch, one row of it.                                           *)
Project(row, cols) == [rid |-> row.rid, vals |-> [c \in cols |-> row.vals[c]]]

(* bind, optimize if asked to, lower; then execute_stream sets up the      *)
(* operators.  An unknown column is refused here.                          *)
Submit(s, optimize) ==
    /\ pc = "idle"
    /\ stmt' = s
    /\ IF Known(s)
       THEN /\ plan' = PlanOf(s, optimize)
            /\ remaining' = IF Limits(plan') THEN s.limit ELSE None
            /\ pc' = "pull"
       ELSE /\ pc' = "refused"
            /\ UNCHANGED <<plan, remaining>>
    /\ UNCHANGED <<table, group, decoded, batch, acc, heap, out>>

(* Mutant of Pulling: LimitExec pulls first and counts later.              *)
PullingFirst == pc = "pull"

(* Sort and TopK drain their input before Limit is asked for anything.     *)
Pulling == pc = "pull" /\ (Blocking \/ remaining # 0)

SkipGroup ==
    /\ Pulling /\ group <= Len(table) /\ GroupPruned(group)
    /\ group' = group + 1
    /\ UNCHANGED <<table, stmt, plan, pc, decoded, batch, acc, heap, remaining, out>>

(* A group with no live row yields no batch and the loop goes on.          *)
LoadGroup ==
    /\ Pulling /\ group <= Len(table) /\ ~ GroupPruned(group)
    /\ batch' = LoadRows(group, Names)
    /\ decoded' = decoded \cup {group}
    /\ group' = group + 1
    /\ pc' = IF batch' = <<>> THEN "pull" ELSE "filter"
    /\ UNCHANGED <<table, stmt, plan, acc, heap, remaining, out>>

(* FilterExec; a batch that loses all its rows still travels on.  What is  *)
(* above it, if it is top_k, looks its column up in the first batch.       *)
Filter ==
    /\ pc = "filter"
    /\ LET ok == /\ plan.filter # None => /\ IsCondition(plan.filter)
                                          /\ Reads(plan.filter) \subseteq Names
                 /\ plan.fused => plan.order.column \in Names
       IN  /\ pc' = IF ok THEN "sink" ELSE "failed"
           /\ batch' = IF ok /\ plan.filter # None THEN Passing(plan.filter, batch) ELSE batch
    /\ UNCHANGED <<table, stmt, plan, group, decoded, acc, heap, remaining, out>>

(* sort_batches, the loop. *)
Collect ==
    /\ pc = "sink" /\ Sorts(plan)
    /\ acc' = acc \o batch
    /\ batch' = <<>>
    /\ pc' = "pull"
    /\ UNCHANGED <<table, stmt, plan, group, decoded, heap, remaining, out>>

(* top_k, the loop over the rows of a batch. *)

Full == Cardinality(heap) = plan.limit

(* Mutant of Admits: a full heap takes a row that beats its best.          *)
AdmitsBeatingBest(row) ==
    ~ Full \/ (\A x \in heap : Before(plan.order, row, x))

(* admit: there is room, or the row beats the worst one kept.              *)
Admits(row) ==
    ~ Full \/ (\E x \in Worst(plan.order, heap) : Before(plan.order, row, x))

Offering == pc = "sink" /\ plan.fused

Admit ==
    /\ Offering /\ batch # <<>> /\ plan.limit > 0 /\ Admits(Head(batch))
    /\ \/ ~ Full /\ heap' = heap \cup {Head(batch)}
       \/ Full /\ \E x \in Worst(plan.order, heap) : heap' = (heap \ {x}) \cup {Head(batch)}
    /\ batch' = Tail(batch)
    /\ UNCHANGED <<table, stmt, plan, pc, group, decoded, acc, remaining, out>>

Reject ==
    /\ Offering /\ batch # <<>> /\ plan.limit > 0 /\ ~ Admits(Head(batch))
    /\ batch' = Tail(batch)
    /\ UNCHANGED <<table, stmt, plan, pc, group, decoded, acc, heap, remaining, out>>

(* The batch is used up, or with LIMIT 0 not looked at.                    *)
NextBatch ==
    /\ Offering /\ (batch = <<>> \/ plan.limit = 0)
    /\ batch' = <<>>
    /\ pc' = "pull"
    /\ UNCHANGED <<table, stmt, plan, group, decoded, acc, heap, remaining, out>>

(* Some batch has reached the operator above the scan and the filter.      *)
Arrived == \E g \in decoded : LiveOffsets(g) # {}

(* The end of a blocking operator's input.  sort_batches looks its column  *)
(* up only now, and only if there was a batch to look in.                  *)
EndOfScan ==
    /\ Pulling /\ group > Len(table)
    /\ \/ /\ ~ Blocking
          /\ pc' = "done"
          /\ UNCHANGED batch
       \/ /\ Sorts(plan)
          /\ IF Arrived /\ plan.order.column \notin Names
             THEN pc' = "failed" /\ batch' = batch
             ELSE pc' = "emit" /\ batch' = StableSort(plan.order, acc)
       \/ /\ plan.fused
          /\ batch' \in HeapOrders(plan.order, heap)
          /\ pc' = "emit"
    /\ UNCHANGED <<table, stmt, plan, group, decoded, acc, heap, remaining, out>>

Emitting == pc = "emit" \/ (pc = "sink" /\ ~ Blocking)

(* Mutant of Take: the whole batch, however little is left.                *)
TakeAll(n) == n

(* LimitExec: how much of a batch of n rows passes.                        *)
Take(n) == IF remaining = None \/ n <= remaining THEN n ELSE remaining

(* LimitExec truncates, ProjectionExec projects, collect_rows collects.    *)
(* A blocking operator has only this one batch.                            *)
Emit ==
    /\ Emitting /\ remaining # 0
    /\ LET take == Take(Len(batch))
       IN  IF plan.projection \subseteq Names
           THEN /\ out' = out \o [i \in 1 .. take |-> Project(batch[i], plan.projection)]
                /\ remaining' = IF remaining = None THEN None ELSE remaining - take
                /\ pc' = IF Blocking THEN "done" ELSE "pull"
           ELSE /\ pc' = "failed"
                /\ UNCHANGED <<out, remaining>>
    /\ batch' = <<>>
    /\ UNCHANGED <<table, stmt, plan, group, decoded, acc, heap>>

(* LimitExec answers None without pulling.                                 *)
LimitSpent ==
    /\ remaining = 0
    /\ pc = "emit" \/ (pc = "pull" /\ ~ Blocking)
    /\ pc' = "done"
    /\ UNCHANGED <<table, stmt, plan, group, decoded, batch, acc, heap, remaining, out>>

(* The result is printed and the process ends; another may come.           *)
Finish ==
    /\ pc \in {"done", "failed", "refused"}
    /\ pc' = "idle" /\ stmt' = NoStatement /\ plan' = NoPlan
    /\ group' = 1 /\ decoded' = {} /\ batch' = <<>>
    /\ acc' = <<>> /\ heap' = {} /\ remaining' = None /\ out' = <<>>
    /\ UNCHANGED table

Init ==
    /\ table \in Tables
    /\ pc = "idle" /\ stmt = NoStatement /\ plan = NoPlan
    /\ group = 1 /\ decoded = {} /\ batch = <<>>
    /\ acc = <<>> /\ heap = {} /\ remaining = None /\ out = <<>>

Next ==
    \/ \E s \in Statements, optimize \in BOOLEAN : Submit(s, optimize)
    \/ SkipGroup \/ LoadGroup \/ Filter
    \/ Collect \/ Admit \/ Reject \/ NextBatch
    \/ EndOfScan \/ Emit \/ LimitSpent
    \/ Finish

Spec == Init /\ [][Next]_vars

---------------------------------------------------------------------------
(* Properties *)

(* The rows the WHERE clause selects, group by group, in rid order.        *)
Matches(g) ==
    LET live == LoadRows(g, Cols)
    IN  IF stmt.filter = None THEN live ELSE Passing(stmt.filter, live)

Matching[n \in 0 .. Len(table)] ==
    IF n = 0 THEN <<>> ELSE Matching[n - 1] \o Matches(n)

All == Matching[Len(table)]

(* ORDER BY as a number: the row with the smaller one comes first.         *)
KeyRank(r) ==
    LET v == r.vals[stmt.order.column]
        n == IF v = Null THEN I64Min - 1 ELSE v
    IN  IF stmt.order.descending THEN -n ELSE n

BadPredicate == stmt.filter # None /\ ~ IsCondition(stmt.filter)

ResultSize(n) == IF stmt.limit = None \/ n <= stmt.limit THEN n ELSE stmt.limit

RowOf(cols) == [rid : Nat \X Nat, vals : [cols -> Values]]

(* Every variable keeps its type; LimitExec's budget never goes below 0.   *)
TypeOK ==
    /\ TableOK(table)
    /\ pc \in {"idle", "pull", "filter", "sink", "emit", "done", "failed", "refused"}
    /\ stmt \in Statements \cup {NoStatement}
    /\ group \in 1 .. Len(table) + 1
    /\ decoded \subseteq 1 .. group - 1
    /\ remaining = None \/ remaining \in Nat
    /\ batch \in Seq(RowOf(Names)) /\ acc \in Seq(RowOf(Names))
    /\ IsFiniteSet(heap) /\ \A x \in heap : x \in RowOf(Names)
    /\ out \in Seq(RowOf(plan.projection))

(* However it was planned, a SELECT without ORDER BY has collected all     *)
(* matching rows in rid order, or under LIMIT the first ones of them.      *)
(* Pruning and push-down show nowhere.                                     *)
UnorderedCorrect ==
    (pc = "done" /\ stmt.order = None) =>
        out = [i \in 1 .. ResultSize(Len(All)) |-> Project(All[i], stmt.cols)]

(* Whether one of the rows that match may come before another: a plain     *)
(* sort is stable, so rows with equal keys stay in rid order.              *)
Precedes(i, j) ==
    \/ KeyRank(All[i]) < KeyRank(All[j])
    \/ KeyRank(All[i]) = KeyRank(All[j]) /\ (plan.fused \/ i < j)

PicksFirst(pick, n) ==
    /\ \A i, j \in 1 .. n : i < j => pick[i] # pick[j] /\ Precedes(pick[i], pick[j])
    /\ \A k \in DOMAIN All \ {pick[i] : i \in 1 .. n}, i \in 1 .. n : Precedes(pick[i], k)

(* The rows are the first of those that match in the order of the keys.    *)
FirstInOrder(rows) ==
    LET n == ResultSize(Len(All))
    IN  \E pick \in [1 .. n -> DOMAIN All] :
            PicksFirst(pick, n) /\ rows = [i \in 1 .. n |-> Project(All[pick[i]], stmt.cols)]

(* A SELECT with ORDER BY has collected the first rows in that order.      *)
OrderedCorrect == (pc = "done" /\ stmt.order # None) => FirstInOrder(out)

(* A bound statement fails on nothing but a WHERE clause that is no        *)
(* condition: every column an operator looks up is in its input.           *)
FailsOnlyOnBadPredicate == pc = "failed" => BadPredicate

(* The groups whose rows have left the pipeline, or gone into the operator *)
(* that blocks it; and the rows TopKExec has seen, one at a time.          *)
Behind == IF pc \in {"filter", "sink"} THEN group - 2 ELSE group - 1
Seen == IF pc = "sink" THEN Len(Matching[group - 1]) - Len(batch) ELSE Len(Matching[Behind])

(* These rows are as many as may be of the first n that match, and none    *)
(* left out of them comes before one that is in.                           *)
BestOf(rows, n) ==
    \E kept \in SUBSET (1 .. n) :
        /\ rows = {Project(All[i], Names) : i \in kept}
        /\ Cardinality(rows) = ResultSize(n)
        /\ \A i \in kept, j \in (1 .. n) \ kept : KeyRank(All[i]) <= KeyRank(All[j])

(* At every row TopKExec has seen, its heap holds as many as it may of the *)
(* rows seen, and no row it dropped comes before one it kept.              *)
HeapHoldsBest ==
    (pc \in {"pull", "filter", "sink", "emit"} /\ plan.fused) => BestOf(heap, Seen)

(* "A scan need not decode row groups the limit never reaches": without    *)
(* ORDER BY a group is decoded only if the groups before it did not hold   *)
(* enough matching rows.                                                   *)
LimitIsLazy ==
    (pc \notin {"idle", "refused"} /\ stmt.order = None /\ stmt.limit # None) =>
        \A g \in decoded : Len(Matching[g - 1]) < stmt.limit

(* The optimizer's own claim: an optimized query returns the rows the      *)
(* plain one returns (not necessarily in the same order).                  *)
SameRows ==
    (pc = "done" /\ stmt.order # None /\ ~ BadPredicate) =>
        LET sorted == StableSort(stmt.order, All)
            plain == SubSeq(sorted, 1, ResultSize(Len(sorted)))
        IN  ToBag([i \in DOMAIN out |-> out[i].vals])
              = ToBag([i \in DOMAIN plain |-> Project(plain[i], stmt.cols).vals])

---------------------------------------------------------------------------
(* The inductive invariant *)

(* What a WHERE clause is relied on for: what it keeps, its hints keep,    *)
(* and it looks at no column but its own.                                  *)
WhereSound ==
    \A s \in Statements : (s.filter # None /\ Reads(s.filter) \subseteq Cols) =>
        \A row \in [Cols -> Values] :
            /\ HintsAllow(s.filter, row)
            /\ \A names \in SUBSET Cols : SameOn(s.filter, row, names)

(* It is, when the WHERE clauses are among the trees of some set whose     *)
(* nodes are evaluated as the code evaluates them (HintsAreSound).         *)
WhereTrees(Exprs, depth) ==
    /\ TreesByParts(Exprs, depth)
    /\ \A s \in Statements : s.filter # None => s.filter \in Exprs

ProjectAll(rows, cols) == [i \in DOMAIN rows |-> Project(rows[i], cols)]

(* The first rows of the result, once n groups have been through.          *)
Result(n) ==
    [i \in 1 .. ResultSize(Len(Matching[n])) |-> Project(Matching[n][i], stmt.cols)]

(* A plan is one of the statement's two.                                   *)
PlanPart ==
    IF pc \in {"idle", "refused"}
    THEN /\ plan = NoPlan /\ group = 1 /\ batch = <<>> /\ acc = <<>> /\ heap = {}
         /\ remaining = None /\ out = <<>>
    ELSE stmt \in Statements /\ Known(stmt) /\ plan \in {PlanOf(stmt, o) : o \in BOOLEAN}

Active == pc \in {"pull", "filter", "sink", "emit", "done"}

(* What is on its way.                                                     *)
BatchPart ==
    /\ pc \in {"filter", "sink"} => group > 1
    /\ pc = "filter" => batch = LoadRows(group - 1, Names)
    /\ (pc = "sink" /\ ~ plan.fused) => batch = ProjectAll(Matches(group - 1), Names)
    /\ pc = "emit" => Blocking /\ group = Len(table) + 1
    /\ Active => remaining = IF Limits(plan) THEN stmt.limit - Len(out) ELSE None

(* Without ORDER BY: what is out.                                          *)
StreamPart ==
    (Active /\ ~ Blocking) =>
        /\ out = Result(Behind)
        /\ pc \in {"filter", "sink"} => remaining # 0
        /\ pc = "done" => remaining = 0 \/ group = Len(table) + 1

(* SortExec: what is collected, and what has become of it.                 *)
SortPart ==
    (Active /\ Sorts(plan) /\ pc # "done") =>
        /\ out = <<>>
        /\ acc = ProjectAll(Matching[Behind], Names)
        /\ pc = "emit" => batch = StableSort(plan.order, acc)

(* TopKExec: what is offered, and what has become of the heap.             *)
TopKPart ==
    (Active /\ plan.fused /\ pc # "done") =>
        /\ out = <<>>
        /\ pc = "sink" => /\ Len(batch) <= Len(Matches(group - 1))
                         /\ \A i \in DOMAIN batch :
                               batch[i] = Project(Matching[group - 1][Seen + i], Names)
        /\ pc = "emit" => batch \in HeapOrders(plan.order, heap)

SelectInv ==
    /\ TypeOK /\ PlanPart /\ BatchPart /\ StreamPart /\ SortPart /\ TopKPart
    /\ HeapHoldsBest /\ OrderedCorrect /\ LimitIsLazy /\ FailsOnlyOnBadPredicate
=============================================================================
