---------------------------- MODULE ColumnStore ----------------------------
(***************************************************************************)
(* One table of src/storage/column_store.rs: its files on disk and the one *)
(* process that has the database open.                                     *)
(*                                                                         *)
(* Every durable write of the code is an action of its own, in the code's  *)
(* order, and the process may die, or a system call may fail, before any   *)
(* of them (action Crash).  A failed call returns Err and every caller in  *)
(* src/ then exits, so both leave the same thing: the files as they are,   *)
(* the lock released, the locals gone.  The next Open recovers.            *)
(*                                                                         *)
(* The whole-database lock lets at most one process past Open; the table   *)
(* was created by a process that finished, so row group 0 exists.          *)
(***************************************************************************)
EXTENDS ColumnFiles

CONSTANTS
    Payloads,   \* the records a caller may pass, valid or not
    Loads,      \* the record sequences a caller may pass to bulk_load
    MaxRid      \* bound: next_rid never passes it

ASSUME InputAssumption == /\ MaxRid \in Nat
                          /\ \A p \in Payloads : p \in Seq(IntValues \cup TextValues \cup {Null})
                          /\ \A rs \in Loads : rs \in Seq(Payloads)

VARIABLES
    nextRid,    \* manifest.toml's next_rid
    dirs,       \* row-group directories that exist
    col,        \* col[g][c]: the `.col` file of column c in row group g
    bm,         \* bm[g]: the deletes.bm of row group g
    pc,         \* where the process is; "closed" when there is none
    op,         \* the call it executes
    victim,     \* the rid that call deletes
    recs,       \* the records that call appends
    grp,        \* the row group it works on (rg_dir)
    cur,        \* the column its loop is at
    deletes     \* the bitmap it loaded

disk == <<nextRid, dirs, col, bm>>
call == <<op, victim, recs>>
work == <<grp, cur, deletes>>
vars == <<nextRid, dirs, col, bm, pc, op, victim, recs, grp, cur, deletes>>

Record == {p \in Payloads : ValidRecord(p)}
Groups == 0 .. MaxRid \div R
Rids == 0 .. MaxRid

PCs == {"closed", "recover_load", "recover_col", "idle",
        "mkdir", "trunc_col", "fill_col", "trunc_bm", "fill_bm",
        "load_bm", "write_col", "commit", "mark", "refresh_col", "return"}
Ops == {"none", "insert", "update", "delete", "load"}

TypeOK ==
    /\ nextRid \in Rids
    /\ dirs \subseteq Groups
    /\ col \in [Groups -> [Cols -> ColFile]]
    /\ \A g \in Groups, c \in Cols : col[g][c].rows \in Seq(Domain(c))
    /\ bm \in [Groups -> BmFile]
    /\ pc \in PCs
    /\ op \in Ops
    /\ victim \in Rids
    /\ recs \in Seq(Record)
    /\ grp \in Groups
    /\ cur \in Cols
    /\ deletes \subseteq Offsets

OpenGroup == nextRid \div R
GroupOf(rid) == rid \div R
OffsetOf(rid) == rid % R

Init ==
    /\ nextRid = 0
    /\ dirs = {0}
    /\ col = [g \in Groups |-> [c \in Cols |->
                 IF g = 0 THEN ColImage(c, <<>>, {}) ELSE NoCol("missing")]]
    /\ bm = [g \in Groups |-> NoBm(IF g = 0 THEN "whole" ELSE "missing")]
    /\ pc = "closed"
    /\ op = "none"
    /\ victim = 0
    /\ recs = <<>>
    /\ grp = 0
    /\ cur = 1
    /\ deletes = {}

(* The locals of a call are gone when it returns or the process ends.      *)
Forget ==
    /\ op' = "none" /\ victim' = 0 /\ recs' = <<>>
    /\ grp' = 0 /\ cur' = 1 /\ deletes' = {}

LeaveFor(place) == pc' = place /\ Forget /\ UNCHANGED disk

-----------------------------------------------------------------------------
(* ColumnStore::open and its recovery pass.                                *)

(* status, acquire_lock, Catalog::load: the lock is held from here on.     *)
Open ==
    /\ pc = "closed"
    /\ pc' = "recover_load"
    /\ UNCHANGED <<disk, call, work>>

(* Mutant of RecoverNothing: a group with no committed row is left alone.  *)
RecoverNothingYet ==
    /\ pc = "recover_load"
    /\ OpenGroup \notin dirs \/ OffsetOf(nextRid) = 0
    /\ LeaveFor("idle")

(* reconcile_open_group up to its loop: nothing to do without a directory. *)
RecoverNothing ==
    /\ pc = "recover_load"
    /\ OpenGroup \notin dirs
    /\ LeaveFor("idle")

RecoverLoad ==
    /\ pc = "recover_load"
    /\ OpenGroup \in dirs
    /\ Readable(bm[OpenGroup])
    /\ pc' = "recover_col"
    /\ grp' = OpenGroup
    /\ cur' = 1
    /\ deletes' = bm[OpenGroup].bits
    /\ UNCHANGED <<disk, call>>

Expected == nextRid % R

(* Mutant of RecoverableCol: a longer column counts as corrupt as well.    *)
RecoverableExact(f) == Readable(f) /\ Len(f.rows) = Expected

(* A file that parses and holds at least what is committed.                *)
RecoverableCol(f) == Readable(f) /\ Len(f.rows) >= Expected

(* Mutant of Recovered: the surplus is reported and kept.                  *)
RecoveredKept(c, f) == f

(* A column longer than what is committed is rewritten at that length.     *)
Recovered(c, f) ==
    IF Len(f.rows) = Expected THEN f
    ELSE ColImage(c, SubSeq(f.rows, 1, Expected), deletes)

(* One round of the loop over the columns.                                 *)
RecoverCol ==
    /\ pc = "recover_col"
    /\ RecoverableCol(col[grp][cur])
    /\ col' = [col EXCEPT ![grp][cur] = Recovered(cur, col[grp][cur])]
    /\ IF cur < Columns
       THEN cur' = cur + 1 /\ UNCHANGED <<pc, grp, deletes, call>>
       ELSE pc' = "idle" /\ Forget
    /\ UNCHANGED <<nextRid, dirs, bm>>

(* A file of the open group that does not parse, or a column shorter than  *)
(* what is committed, makes open return Err.                               *)
RecoverFails ==
    /\ IF pc = "recover_load"
       THEN OpenGroup \in dirs /\ ~ Readable(bm[OpenGroup])
       ELSE pc = "recover_col" /\ ~ RecoverableCol(col[grp][cur])
    /\ LeaveFor("closed")

-----------------------------------------------------------------------------
(* Starting a call.  A call the code refuses (validate_record, "no such    *)
(* record", an unaligned bulk_load) writes nothing and ends its command:   *)
(* that is action Close.                                                   *)

(* Mutant of StartAppend: group 0 is created again like the others.        *)
StartAppendAny(g) ==
    /\ grp' = g
    /\ cur' = 1
    /\ pc' = IF OffsetOf(nextRid) = 0 THEN "mkdir" ELSE "load_bm"

(* Mutant of StartAppend: a directory that exists is used as it is.        *)
StartAppendReusing(g) ==
    /\ grp' = g
    /\ cur' = 1
    /\ pc' = IF g \notin dirs THEN "mkdir" ELSE "load_bm"

(* Where insert and every chunk of bulk_load begin: a group other than 0   *)
(* is created when its first row arrives.                                  *)
StartAppend(g) ==
    /\ grp' = g
    /\ cur' = 1
    /\ pc' = IF OffsetOf(nextRid) = 0 /\ g > 0 THEN "mkdir" ELSE "load_bm"

BeginInsert(p) ==
    /\ pc = "idle"
    /\ ValidRecord(p)
    /\ nextRid < MaxRid                       \* bound
    /\ op' = "insert"
    /\ recs' = <<p>>
    /\ StartAppend(OpenGroup)
    /\ UNCHANGED <<disk, victim, deletes>>

(* Mutant of CanDelete: next_rid is not looked at.                         *)
CanDeleteBeyond(rid) ==
    /\ Readable(bm[GroupOf(rid)])
    /\ OffsetOf(rid) \notin bm[GroupOf(rid)].bits

(* Mutant of CanDelete: the bitmap is not looked at.                       *)
CanDeleteTwice(rid) == rid < nextRid /\ Readable(bm[GroupOf(rid)])

CanDelete(rid) ==
    /\ rid < nextRid
    /\ Readable(bm[GroupOf(rid)])
    /\ OffsetOf(rid) \notin bm[GroupOf(rid)].bits

StartDelete(rid) ==
    /\ pc = "idle"
    /\ CanDelete(rid)
    /\ pc' = "mark"
    /\ victim' = rid
    /\ grp' = GroupOf(rid)
    /\ UNCHANGED <<disk, cur, deletes>>

BeginDelete(rid) ==
    /\ StartDelete(rid)
    /\ op' = "delete"
    /\ UNCHANGED recs

(* update validates the new record before the delete touches anything.     *)
BeginUpdate(rid, p) ==
    /\ ValidRecord(p)
    /\ nextRid < MaxRid                       \* bound
    /\ StartDelete(rid)
    /\ op' = "update"
    /\ recs' = <<p>>

(* Mutant of LoadAligned: bulk_load starts wherever next_rid is.           *)
LoadAnywhere == TRUE

LoadAligned == OffsetOf(nextRid) = 0

BeginLoad(rs) ==
    /\ pc = "idle"
    /\ \A i \in DOMAIN rs : ValidRecord(rs[i])
    /\ LoadAligned
    /\ nextRid + Len(rs) <= MaxRid            \* bound
    /\ op' = "load"
    /\ recs' = rs
    /\ IF rs = <<>>
       THEN pc' = "commit" /\ UNCHANGED <<grp, cur>>
       ELSE StartAppend(OpenGroup)
    /\ UNCHANGED <<disk, victim, deletes>>

-----------------------------------------------------------------------------
(* materialize_row_group: the directory, then each `.col` in schema order, *)
(* then deletes.bm.  write_empty is a plain fs::write, which first leaves  *)
(* an empty file; whatever the file held before is gone.                   *)

MkDir ==
    /\ pc = "mkdir"
    /\ dirs' = dirs \cup {grp}
    /\ pc' = "trunc_col"
    /\ UNCHANGED <<nextRid, col, bm, call, work>>

TruncCol ==
    /\ pc = "trunc_col"
    /\ col' = [col EXCEPT ![grp][cur] = NoCol("short")]
    /\ pc' = "fill_col"
    /\ UNCHANGED <<nextRid, dirs, bm, call, work>>

FillCol ==
    /\ pc = "fill_col"
    /\ col' = [col EXCEPT ![grp][cur] = ColImage(cur, <<>>, {})]
    /\ IF cur < Columns
       THEN pc' = "trunc_col" /\ cur' = cur + 1
       ELSE pc' = "trunc_bm" /\ cur' = 1
    /\ UNCHANGED <<nextRid, dirs, bm, call, grp, deletes>>

TruncBm ==
    /\ pc = "trunc_bm"
    /\ bm' = [bm EXCEPT ![grp] = NoBm("short")]
    /\ pc' = "fill_bm"
    /\ UNCHANGED <<nextRid, dirs, col, call, work>>

FillBm ==
    /\ pc = "fill_bm"
    /\ bm' = [bm EXCEPT ![grp] = NoBm("whole")]
    /\ pc' = "load_bm"
    /\ UNCHANGED <<nextRid, dirs, col, call, work>>

-----------------------------------------------------------------------------
(* The column loop of insert and bulk_load, and their commit.              *)

LoadBm ==
    /\ pc = "load_bm"
    /\ Readable(bm[grp])
    /\ deletes' = bm[grp].bits
    /\ pc' = "write_col"
    /\ UNCHANGED <<disk, call, grp, cur>>

(* insert reads the column, pushes the value and rewrites the file.        *)
InsertCol ==
    /\ pc = "write_col"
    /\ op # "load"
    /\ Readable(col[grp][cur])
    /\ col' = [col EXCEPT ![grp][cur] =
                 ColImage(cur, Append(col[grp][cur].rows, recs[1][cur]), deletes)]
    /\ IF cur < Columns
       THEN pc' = pc /\ cur' = cur + 1
       ELSE pc' = "commit" /\ cur' = 1
    /\ UNCHANGED <<nextRid, dirs, bm, call, grp, deletes>>

(* bulk_load cuts the records into chunks of R, one per row group.         *)
ChunkFirst == (grp - OpenGroup) * R
ChunkLen == IF ChunkFirst + R < Len(recs) THEN R ELSE Len(recs) - ChunkFirst
ChunkCol(c) == [i \in 1 .. ChunkLen |-> recs[ChunkFirst + i][c]]

(* Mutant of NextGroup: the chunk index is not added.                      *)
SameGroup == grp

NextGroup == grp + 1

(* bulk_load overwrites the file without reading it.                       *)
LoadCol ==
    /\ pc = "write_col"
    /\ op = "load"
    /\ col' = [col EXCEPT ![grp][cur] = ColImage(cur, ChunkCol(cur), deletes)]
    /\ IF cur < Columns
       THEN pc' = pc /\ cur' = cur + 1 /\ grp' = grp
       ELSE IF ChunkFirst + R < Len(recs)
            THEN StartAppend(NextGroup)
            ELSE pc' = "commit" /\ cur' = 1 /\ grp' = grp
    /\ UNCHANGED <<nextRid, dirs, bm, call, deletes>>

(* Catalog::set_next_rid: the rows exist from here on.                     *)
Commit ==
    /\ pc = "commit"
    /\ nextRid' = nextRid + Len(recs)
    /\ pc' = "return"
    /\ UNCHANGED <<dirs, col, bm, call, work>>

-----------------------------------------------------------------------------
(* delete, and the insert an update goes on with.                          *)

MarkDeleted ==
    /\ pc = "mark"
    /\ bm' = [bm EXCEPT ![grp] = Marked(bm[grp], OffsetOf(victim))]
    /\ deletes' = bm'[grp].bits
    /\ cur' = 1
    /\ pc' = "refresh_col"
    /\ UNCHANGED <<nextRid, dirs, col, call, grp>>

(* Rewrite the INT columns with the same values and fresh statistics.      *)
RefreshCol ==
    /\ pc = "refresh_col"
    /\ IF cur \in IntCols
       THEN /\ Readable(col[grp][cur])
            /\ col' = [col EXCEPT ![grp][cur] = ColImage(cur, col[grp][cur].rows, deletes)]
       ELSE UNCHANGED col
    /\ IF cur < Columns
       THEN pc' = pc /\ cur' = cur + 1 /\ grp' = grp
       ELSE IF op = "update"
            THEN StartAppend(OpenGroup)
            ELSE pc' = "return" /\ cur' = 1 /\ grp' = grp
    /\ UNCHANGED <<nextRid, dirs, bm, call, deletes>>

Return == pc = "return" /\ LeaveFor("idle")

-----------------------------------------------------------------------------
(* The command is over, or its call was refused: the process exits.        *)
Close == pc = "idle" /\ LeaveFor("closed")

(* The process dies, or a system call fails and the command exits.         *)
Crash == pc \notin {"closed", "idle"} /\ LeaveFor("closed")

(* What a process that is given CPU time goes on to do.                    *)
Step ==
    \/ RecoverNothing \/ RecoverLoad \/ RecoverCol \/ RecoverFails
    \/ MkDir \/ TruncCol \/ FillCol \/ TruncBm \/ FillBm
    \/ LoadBm \/ InsertCol \/ LoadCol \/ Commit
    \/ MarkDeleted \/ RefreshCol \/ Return

Begin ==
    \/ \E p \in Payloads : BeginInsert(p)
    \/ \E rid \in Rids : BeginDelete(rid)
    \/ \E rid \in Rids, p \in Payloads : BeginUpdate(rid, p)
    \/ \E rs \in Loads : BeginLoad(rs)

Next == Open \/ Step \/ Begin \/ Close \/ Crash

Spec == Init /\ [][Next]_vars

(* A process that has started a call or a recovery keeps running; nobody   *)
(* promises that another command comes.                                    *)
FairSpec == Spec /\ WF_vars(Step)

-----------------------------------------------------------------------------
(* What a reader gets.  Reads run between calls, in one process, and       *)
(* change nothing, so they are functions of the state.                     *)

Row(rid) == [c \in Cols |-> col[GroupOf(rid)][c].rows[OffsetOf(rid) + 1]]
Deleted(rid) == OffsetOf(rid) \in bm[GroupOf(rid)].bits
LiveRids == {rid \in 0 .. nextRid - 1 : ~ Deleted(rid)}

(* The groups scan and scan_batches walk, up to the next_rid they read at  *)
(* the start.                                                              *)
ScanGroups == {g \in Groups : g * R < nextRid}

(* load_current_group / load_group: every file parses, every column has as *)
(* many rows as the first.                                                 *)
GroupLoads(g) ==
    /\ Readable(bm[g])
    /\ \A c \in Cols : /\ Readable(col[g][c])
                       /\ Len(col[g][c].rows) = Len(col[g][1].rows)

(* The rids the scan yields: what the group's files hold, cut at next_rid. *)
ScanRids ==
    {rid \in Rids : /\ GroupOf(rid) \in ScanGroups
                    /\ OffsetOf(rid) < Len(col[GroupOf(rid)][1].rows)
                    /\ rid < nextRid
                    /\ ~ Deleted(rid)}

(* get looks at the files only, never at next_rid.                         *)
GetSucceeds(rid) ==
    GroupOf(rid) \in dirs =>
        /\ Readable(bm[GroupOf(rid)])
        /\ \A c \in Cols : Readable(col[GroupOf(rid)][c])

GetFinds(rid) ==
    /\ GroupOf(rid) \in dirs
    /\ ~ Deleted(rid)
    /\ \A c \in Cols : OffsetOf(rid) < Len(col[GroupOf(rid)][c].rows)

(* What open may ask of the files of the open group: they parse, and every *)
(* committed row is there.                                                 *)
OpenGroupRecoverable ==
    OpenGroup \in dirs =>
        /\ Readable(bm[OpenGroup])
        /\ \A c \in Cols : /\ Readable(col[OpenGroup][c])
                           /\ Len(col[OpenGroup][c].rows) >= Expected

-----------------------------------------------------------------------------
(* Properties.                                                             *)

(* A scan between calls never fails and yields exactly the committed rows  *)
(* that are not deleted: no row of a call that did not commit, no hole, no *)
(* "column has n rows but ... has m" (load_current_group), whatever        *)
(* crashes and recoveries came before.                                     *)
ScanCorrect ==
    pc = "idle" => /\ \A g \in ScanGroups : GroupLoads(g)
                   /\ ScanRids = LiveRids

(* Storage::get: "None if it is absent or tombstoned", the row otherwise.  *)
(* get has no next_rid to compare with, so this rests on what every crash  *)
(* and recovery left in the files past the last committed row.             *)
GetCorrect ==
    pc = "idle" =>
        \A rid \in Rids : /\ GetSucceeds(rid)
                           /\ GetFinds(rid) <=> rid \in LiveRids

(* scan_batches loses no row to pruning: when the zone map of a group      *)
(* rejects `column op value`, no live committed row of the group matches.  *)
(* Statistics may be out of date after a crash, but only on the safe side. *)
PruningInvisible ==
    pc = "idle" =>
        \A g \in ScanGroups, c \in IntCols, o \in ScanOps, v \in IntValues :
            ZonePrunes(o, v, col[g][c].zone) =>
                \A rid \in LiveRids :
                    GroupOf(rid) = g => ~ RowMatches(o, Row(rid)[c], v)

(* No tombstone waits for a row that does not exist yet: the bitmap loaded *)
(* by insert never hides the row it is about to append.                    *)
TombstonesCommitted ==
    \A g \in Groups : \A o \in bm[g].bits : g * R + o < nextRid

(* A committed row's values never change again: not by later inserts into  *)
(* the same file, not by the rewrites of delete, not by recovery's         *)
(* truncation, not by a crash between any two writes.                      *)
KeepsCommitted ==
    \A rid \in 0 .. nextRid - 1 : \A c \in Cols :
        col'[GroupOf(rid)][c].rows[OffsetOf(rid) + 1]
            = col[GroupOf(rid)][c].rows[OffsetOf(rid) + 1]

(* No step of the process, no crash, changes a committed row's values.     *)
CommittedImmutable == [][KeepsCommitted]_vars

(* Wherever the process died, a database whose next row does not start a   *)
(* row group can be opened again.                                          *)
ReopensMidGroup == OffsetOf(nextRid) # 0 \/ OpenGroup = 0 => OpenGroupRecoverable

(* Wherever the process died, the database can be opened again             *)
(* (docs/storage-design.md: a crash leaves the old or the new state, never *)
(* a partial file).                                                        *)
Reopens == pc = "closed" => OpenGroupRecoverable

(* The table on disk, seen as the abstract table.                          *)
TableRows == [i \in 1 .. nextRid |-> [rec |-> Row(i - 1), live |-> ~ Deleted(i - 1)]]

TablePhase ==
    CASE pc \in {"closed", "recover_load", "recover_col", "idle"} -> "idle"
      [] pc = "mark" -> "kill"
      [] pc = "return" \/ (pc = "refresh_col" /\ op = "delete") -> "done"
      [] OTHER -> "append"

Table == INSTANCE TableSpec WITH rows <- TableRows, phase <- TablePhase,
                                 pend <- recs

(* Every behaviour of the files is one of the abstract table: each call    *)
(* takes effect in one or (update) two atomic steps before it returns, a   *)
(* crash leaves a prefix of them, recovery changes nothing a caller sees.  *)
ImplementsTable == Table!ASpec

(* A call or a recovery that has begun comes to an end.                    *)
CallsEnd == pc \notin {"idle", "closed"} ~> pc \in {"idle", "closed"}

(* Once crashes stop, opening a database whose open group parses does not  *)
(* fail for ever: recovery gets through to serving calls.  An open that    *)
(* refuses the files is no crash, though it leaves the same state.         *)
RecoveryServes ==
    (/\ <>[][Crash => RecoverFails]_vars
     /\ []<>(pc = "recover_load" /\ OpenGroupRecoverable))
        => []<>(pc = "idle")
=============================================================================
