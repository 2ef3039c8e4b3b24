----------------------------- MODULE TableSpec -----------------------------
(***************************************************************************)
(* What one table promises its caller: an append-only sequence of rows,    *)
(* each alive until it is deleted.  A row's position is its rid.           *)
(*                                                                         *)
(* A call names a row to kill, records to append, or (UPDATE) both; the    *)
(* kill and the append take effect one after the other, each at once, and  *)
(* the call returns only after both.  A call that never returns (the       *)
(* process died, or a system call failed) may have stopped before, between *)
(* or after them.  Nothing else ever changes a row.                        *)
(***************************************************************************)
EXTENDS Integers, Sequences

CONSTANTS Record   \* the rows a caller may append

VARIABLES
    rows,     \* the table: rows[rid + 1] = [rec |-> record, live |-> BOOLEAN]
    phase,    \* what the current call still owes: its kill, its append, nothing
    victim,   \* the rid the current call kills
    pend      \* the records the current call appends

avars == <<rows, phase, victim, pend>>

ATypeOK ==
    /\ rows \in Seq([rec : Record, live : BOOLEAN])
    /\ phase \in {"idle", "kill", "append", "done"}
    /\ victim \in Nat
    /\ pend \in Seq(Record)

AInit ==
    /\ rows = <<>>
    /\ phase = "idle"
    /\ victim = 0
    /\ pend = <<>>

LiveRow(rid) == rid + 1 \in DOMAIN rows /\ rows[rid + 1].live

(* insert and bulk_load: the caller hands over the records to append.      *)
CallAppend ==
    /\ phase = "idle"
    /\ phase' = "append"
    /\ pend' \in Seq(Record)
    /\ UNCHANGED <<rows, victim>>

(* delete (nothing to append) and update (one replacement record).         *)
CallKill ==
    /\ phase = "idle"
    /\ phase' = "kill"
    /\ victim' \in {rid \in 0 .. Len(rows) - 1 : rows[rid + 1].live}
    /\ pend' \in Seq(Record) /\ Len(pend') <= 1
    /\ UNCHANGED rows

Kill ==
    /\ phase = "kill"
    /\ rows' = [rows EXCEPT ![victim + 1].live = FALSE]
    /\ phase' = IF pend = <<>> THEN "done" ELSE "append"
    /\ UNCHANGED <<victim, pend>>

NewRows(recs) == [i \in DOMAIN recs |-> [rec |-> recs[i], live |-> TRUE]]

AppendAll ==
    /\ phase = "append"
    /\ rows' = rows \o NewRows(pend)
    /\ phase' = "done"
    /\ UNCHANGED <<victim, pend>>

CallEnds ==
    /\ phase' = "idle"
    /\ victim' = 0
    /\ pend' = <<>>
    /\ UNCHANGED rows

Respond == phase = "done" /\ CallEnds

(* The call is lost: its caller never learns how far it got.               *)
Abandon == phase # "idle" /\ CallEnds

ANext == CallAppend \/ CallKill \/ Kill \/ AppendAll \/ Respond \/ Abandon

ASpec == AInit /\ [][ANext]_avars
=============================================================================
