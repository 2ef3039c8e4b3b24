---------------------------- MODULE ColumnFiles ----------------------------
(***************************************************************************)
(* The two kinds of file in a row-group directory, as values, and what the *)
(* code computes from them: src/storage/column_file.rs (`.col`, one per    *)
(* column) and src/storage/delete_bitmap.rs (`deletes.bm`, one per group). *)
(*                                                                         *)
(* A file is "missing", "short" (it exists but holds less than a header,   *)
(* which is what fs::write leaves between truncating and writing) or       *)
(* "whole".  Only a whole file parses; the contents of the other two are   *)
(* given their empty value.                                                *)
(***************************************************************************)
EXTENDS ZoneMap, FiniteSets

CONSTANTS
    IntValues,    \* the i64 values used, inside I64Min .. I64Max
    TextValues,   \* the texts used
    Columns,      \* how many columns the schema has
    IntCols,      \* the columns of type INT; the others are TEXT
    NullableCols, \* the columns not declared NOT NULL
    R             \* row_group_size

Cols == 1 .. Columns

ASSUME SchemaAssumption == /\ Columns \in Nat \ {0}
                           /\ IntCols \subseteq Cols
                           /\ NullableCols \subseteq Cols
                           /\ IntValues \subseteq I64
                           /\ R \in Nat \ {0}

FileStates == {"missing", "short", "whole"}
Offsets == 0 .. R - 1
Value == IntValues \cup TextValues \cup {Null}

ColFile == [state : FileStates, rows : Seq(Value), zone : I64 \X I64]
BmFile == [state : FileStates, bits : SUBSET Offsets]

Readable(file) == file.state = "whole"

NoCol(state) == [state |-> state, rows |-> <<>>, zone |-> NoRange]
NoBm(state) == [state |-> state, bits |-> {}]

(* encode_column: the data area keeps every value, tombstoned or not; only *)
(* the INT statistics look at the bitmap.                                  *)
ColImage(c, values, deletes) ==
    [state |-> "whole",
     rows  |-> values,
     zone  |-> IF c \in IntCols THEN IntRange(values, deletes) ELSE NoRange]

(* Mutant of Marked: offsets counted from 1.                               *)
MarkedFromOne(bm, offset) == [bm EXCEPT !.bits = @ \cup {offset + 1}]

(* mark_deleted sets the bit of one offset.  deleted_count is left out:    *)
(* nothing reads it but mark_deleted itself.                               *)
Marked(bm, offset) == [bm EXCEPT !.bits = @ \cup {offset}]

(* validate_record: arity, NOT NULL, and the type of every value.          *)
Domain(c) ==
    (IF c \in IntCols THEN IntValues ELSE TextValues)
        \cup (IF c \in NullableCols THEN {Null} ELSE {})

ValidRecord(p) ==
    /\ Len(p) = Columns
    /\ \A c \in Cols : p[c] \in Domain(c)
=============================================================================
