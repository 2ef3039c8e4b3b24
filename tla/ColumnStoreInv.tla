--------------------------- MODULE ColumnStoreInv ---------------------------
(***************************************************************************)
(* The inductive invariant of ColumnStore: what the files look like at     *)
(* every point of every call, in the parts the proofs cite by name.        *)
(***************************************************************************)
EXTENDS ColumnStore

Count == Len(recs)
OpenLen == OffsetOf(nextRid)

(* A row group whose files must be there: it holds committed rows, or it   *)
(* is group 0, which create_table made.                                    *)
Held(g) == g < OpenGroup \/ (g = OpenGroup /\ (OpenLen # 0 \/ OpenGroup = 0))

GroupWhole(g) == /\ g \in dirs
                 /\ Readable(bm[g])
                 /\ \A c \in Cols : Readable(col[g][c])

ColLen(g, c) == Len(col[g][c].rows)

(* Nothing committed is ever out of reach: sealed groups are full, the     *)
(* open group holds at least what next_rid says.                           *)
CommittedHeld ==
    \A g \in Groups : Held(g) =>
        /\ GroupWhole(g)
        /\ g < OpenGroup => \A c \in Cols : ColLen(g, c) = R
        /\ g = OpenGroup => \A c \in Cols : ColLen(g, c) >= OpenLen

(* Between the appends of a session, the open group holds nothing else.    *)
Aligned ==
    /\ pc \in {"idle", "mark", "refresh_col", "return"} \/ (pc = "commit" /\ Count = 0)
    /\ Held(OpenGroup)
    => \A c \in Cols : ColLen(OpenGroup, c) = OpenLen

RecoverPart ==
    pc = "recover_col" =>
        /\ grp = OpenGroup
        /\ OpenGroup \in dirs
        /\ Readable(bm[OpenGroup])
        /\ \A c \in Cols : c < cur => /\ Readable(col[OpenGroup][c])
                                      /\ ColLen(OpenGroup, c) = OpenLen

MaterializePCs == {"mkdir", "trunc_col", "fill_col", "trunc_bm", "fill_bm"}
AppendPCs == MaterializePCs \cup {"load_bm", "write_col", "commit"}

(* What the current call is about, and its room below the bound.           *)
CallPart ==
    /\ pc \in AppendPCs => /\ op \in {"insert", "update", "load"}
                           /\ op # "load" => Count = 1
                           /\ op = "load" => OpenLen = 0
                           /\ nextRid + Count <= MaxRid
    /\ pc \in {"mark", "refresh_col"} =>
           /\ op \in {"delete", "update"}
           /\ victim < nextRid
           /\ grp = GroupOf(victim)
           /\ op = "update" => Count = 1 /\ nextRid + 1 <= MaxRid

(* A loop over the columns starts at the first.                            *)
CurPart == pc \in {"mkdir", "trunc_bm", "fill_bm", "load_bm"} => cur = 1

(* The group an append works on: the open group, or for bulk_load one that *)
(* its chunk with the first record (grp - OpenGroup) * R falls in.         *)
GroupPart ==
    pc \in AppendPCs /\ Count # 0 =>
        /\ op # "load" => grp = OpenGroup
        /\ op = "load" => /\ grp >= OpenGroup
                          /\ ChunkFirst < Count
                          /\ \A g \in Groups : OpenGroup <= g /\ g < grp =>
                                GroupWhole(g) /\ \A c \in Cols : ColLen(g, c) = R

(* materialize_row_group only ever touches a group with nothing committed. *)
MaterializePart ==
    pc \in MaterializePCs =>
        /\ OpenLen = 0 /\ grp > 0 /\ grp >= OpenGroup /\ Count # 0
        /\ pc # "mkdir" => grp \in dirs
        /\ pc \in {"trunc_col", "fill_col"} =>
              \A c \in Cols : c < cur => Readable(col[grp][c]) /\ ColLen(grp, c) = 0
        /\ pc \in {"trunc_bm", "fill_bm"} =>
              \A c \in Cols : Readable(col[grp][c]) /\ ColLen(grp, c) = 0

(* The loop of insert: the columns before `cur` are one row ahead.         *)
InsertPart ==
    /\ pc \in {"load_bm", "write_col"} /\ op # "load" =>
           /\ GroupWhole(grp)
           /\ \A c \in Cols : ColLen(grp, c) =
                 IF pc = "write_col" /\ c < cur THEN OpenLen + 1 ELSE OpenLen
    /\ pc = "commit" /\ op # "load" =>
           /\ GroupWhole(OpenGroup)
           /\ \A c \in Cols : ColLen(OpenGroup, c) = OpenLen + 1

(* The loop of bulk_load: the columns before `cur` hold the chunk.         *)
LoadPart ==
    /\ pc \in {"load_bm", "write_col"} /\ op = "load" =>
           /\ Count # 0
           /\ GroupWhole(grp)
           /\ pc = "write_col" => \A c \in Cols : c < cur => ColLen(grp, c) = ChunkLen
    /\ pc = "commit" /\ op = "load" /\ Count # 0 =>
           /\ GroupWhole(grp)
           /\ ChunkFirst + R >= Count
           /\ \A c \in Cols : ColLen(grp, c) = Count - ChunkFirst

(* The invariant the proofs carry through every step.                      *)
IInv ==
    /\ TypeOK
    /\ CommittedHeld
    /\ Aligned
    /\ RecoverPart
    /\ CallPart
    /\ CurPart
    /\ GroupPart
    /\ MaterializePart
    /\ InsertPart
    /\ LoadPart
    /\ TombstonesCommitted

(* The zone map of a column encloses every value a scan could yield from   *)
(* it, committed or not, tombstoned rows aside.                            *)
ZoneCovers(g, c) ==
    \A i \in 1 .. Len(col[g][c].rows) :
        col[g][c].rows[i] # Null /\ (i - 1) \notin bm[g].bits =>
            /\ col[g][c].zone[1] <= col[g][c].rows[i]
            /\ col[g][c].rows[i] <= col[g][c].zone[2]

(* What pruning rests on: the bitmap a call encodes columns with is the    *)
(* one on disk, and no zone map is ever too tight.                         *)
ZoneInv ==
    /\ pc \in {"recover_col", "write_col", "refresh_col"} => deletes = bm[grp].bits
    /\ \A g \in Groups, c \in IntCols : ZoneCovers(g, c)

-----------------------------------------------------------------------------
(* More of the same, for the two properties that say what a row's values   *)
(* are and what lies past the committed rows.                              *)

(* No arguments outlive their call, and a DELETE has nothing to append.    *)
ArgumentPart ==
    /\ pc \in {"closed", "recover_load", "recover_col", "idle"} =>
           op = "none" /\ victim = 0 /\ recs = <<>>
    /\ op = "delete" => recs = <<>>

(* The value of column c of this rid is in its file already: the call has  *)
(* gone past its group, or past its column of the group it works on.       *)
Written(rid, c) ==
    \/ GroupOf(rid) < grp
    \/ GroupOf(rid) = grp /\ (pc = "commit" \/ (pc = "write_col" /\ c < cur))

(* What the call has written of its records is what it was given, each     *)
(* value in the place that its rid will have once the call commits.        *)
WrittenPart ==
    pc \in AppendPCs =>
        \A i \in 1 .. Count, c \in Cols :
            LET rid == nextRid + i - 1
            IN  Written(rid, c) =>
                    col[GroupOf(rid)][c].rows[OffsetOf(rid) + 1] = recs[i][c]

(* What shows that the files implement the abstract table.                 *)
TableInv == IInv /\ ArgumentPart /\ WrittenPart

(* No load is larger than a row group: bench gen's are not.                *)
LoadsFitGroup == \A rs \in Loads : Len(rs) <= R

LoadFits == op = "load" => Count <= R

(* Then no group after the open one is ever begun ...                      *)
NothingAhead == \A g \in Groups : g > OpenGroup => g \notin dirs

(* ... and between appends the open group, if it is there at all, is whole *)
(* and holds what is committed, also where nothing committed is in it.     *)
OpenGroupTidy ==
    /\ pc \in {"idle", "mark", "refresh_col", "return"} \/ (pc = "commit" /\ Count = 0)
    /\ OpenGroup \in dirs
    => GroupWhole(OpenGroup) /\ \A c \in Cols : ColLen(OpenGroup, c) = OpenLen

TidyInv == IInv /\ LoadFits /\ NothingAhead /\ OpenGroupTidy

-----------------------------------------------------------------------------
(* What other models take for granted of the files: SelectExec starts from *)
(* the row groups that a table has between calls.                          *)

(* A value as SelectExec has it: a text is its rank.                       *)
Ranked(rank, c, x) == IF c \in IntCols \/ x = Null THEN x ELSE rank[x]

StoredGroup(rank, g) ==
    [rows |-> [i \in 1 .. ColLen(g, 1) |->
                 [c \in Cols |-> Ranked(rank, c, col[g][c].rows[i])]],
     deletes |-> bm[g].bits,
     zone |-> [c \in IntCols |-> col[g][c].zone]]

(* Each group of a scan reads, and holds the committed rows, no more.      *)
TableReadable ==
    pc = "idle" =>
        \A g \in ScanGroups, rank \in [TextValues -> I64] :
            /\ ReadableGroup(StoredGroup(rank, g), Cols, IntCols)
            /\ Len(StoredGroup(rank, g).rows) = IF g < OpenGroup THEN R ELSE OpenLen
=============================================================================
