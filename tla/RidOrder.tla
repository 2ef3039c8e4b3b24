------------------------------ MODULE RidOrder ------------------------------
(***************************************************************************)
(* Collecting rids the way a scan does (ScanState in                       *)
(* src/storage/column_store.rs, load_group): by counting up through the    *)
(* rows and keeping those that are wanted.  Pure, no state.                *)
(***************************************************************************)
EXTENDS Integers, Sequences

(* The members of S below n, in ascending order.                           *)
InRidOrder(S, n) ==
    LET kept[i \in 0 .. n] ==
            IF i = 0 THEN <<>>
            ELSE IF i - 1 \in S THEN Append(kept[i - 1], i - 1)
            ELSE kept[i - 1]
    IN  kept[n]
=============================================================================
