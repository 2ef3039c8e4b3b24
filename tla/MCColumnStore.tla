--------------------------- MODULE MCColumnStore ---------------------------
(***************************************************************************)
(* Instances of ColumnStore for TLC: two columns (INT, TEXT), row groups   *)
(* of two rows.  The valid records differ in every column, so that a row   *)
(* put together from two calls is none of them.                            *)
(***************************************************************************)
EXTENDS ColumnStoreInv

CONSTANTS a, b   \* the texts

(* -1 and 2 are the ends of the model's i64 range.                         *)
MCInts == {-1, 0, 2}
MCMin == -1
MCMax == 2

(* Two valid records, one of them with a NULL in the nullable INT column,  *)
(* and one record for each way validate_record refuses.                    *)
MCPayloads == {<<2, a>>, <<Null, b>>, <<0>>, <<0, Null>>, <<a, b>>}

NoLoads == {}

(* Loads that stay inside one row group.                                   *)
OneGroupLoads == {<<>>, <<<<2, a>>>>, <<<<Null, b>>, <<2, a>>>>, <<<<0, Null>>>>}

(* A load of three records: a full row group and part of the next.         *)
TwoGroupLoads == {<<<<2, a>>, <<Null, b>>, <<2, a>>>>}
=============================================================================
