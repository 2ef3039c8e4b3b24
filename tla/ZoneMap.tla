------------------------------ MODULE ZoneMap ------------------------------
(***************************************************************************)
(* INT zone maps: the min/max pair every INT `.col` header carries, and    *)
(* the two questions asked of it (src/storage/column_file.rs computes it,  *)
(* src/storage/column_store.rs prunes row groups with it).  Pure           *)
(* operators, no state.                                                    *)
(*                                                                         *)
(* A column is a sequence of values; offset o of the row group is element  *)
(* o + 1.  `deletes` is the set of offsets whose bit is set in deletes.bm. *)
(***************************************************************************)
EXTENDS Integers, Sequences

CONSTANTS
    Null,     \* Value::Null
    I64Min,   \* i64::MIN, the "no live value" maximum
    I64Max    \* i64::MAX, the "no live value" minimum

ASSUME I64Assumption == /\ I64Min \in Int
                        /\ I64Max \in Int
                        /\ I64Min < I64Max
                        /\ Null \notin Int

I64 == I64Min .. I64Max

Least(S) == CHOOSE x \in S : \A y \in S : x <= y
Greatest(S) == CHOOSE x \in S : \A y \in S : y <= x

(* Mutant of LiveInts: the bit of the next offset is tested.               *)
LiveIntsShifted(values, deletes) ==
    {values[i] : i \in {j \in DOMAIN values : /\ values[j] # Null
                                              /\ j \notin deletes}}

(* The values compute_int_range folds over: neither NULL nor tombstoned.   *)
LiveInts(values, deletes) ==
    {values[i] : i \in {j \in DOMAIN values : /\ values[j] # Null
                                              /\ (j - 1) \notin deletes}}

(* compute_int_range: the loop starts from the sentinels, so they take     *)
(* part in the minimum and the maximum.                                    *)
IntRange(values, deletes) ==
    <<Least(LiveInts(values, deletes) \cup {I64Max}),
      Greatest(LiveInts(values, deletes) \cup {I64Min})>>

(* The header of an empty file.  A TEXT header stores no statistics; it    *)
(* reads back as "no range" like this one.                                 *)
NoRange == <<I64Max, I64Min>>

(* Mutant of HasRange: min = max is taken for empty too.                   *)
HasRangeStrict(zone) == zone[1] < zone[2]

(* Header::int_range: min > max is the encoding of "no live value".        *)
HasRange(zone) == zone[1] <= zone[2]

ScanOps == {"Eq", "NotEq", "Lt", "LtEq", "Gt", "GtEq"}

(* group_can_match: may a group whose live range is `zone` hold a match?   *)
GroupCanMatch(op, value, zone) ==
    \/ op = "Eq"    /\ zone[1] <= value /\ value <= zone[2]
    \/ op = "NotEq" /\ ~ (zone[1] = value /\ zone[2] = value)
    \/ op = "Lt"    /\ zone[1] < value
    \/ op = "LtEq"  /\ zone[1] <= value
    \/ op = "Gt"    /\ zone[2] > value
    \/ op = "GtEq"  /\ zone[2] >= value

(* BatchScanState::group_pruned for one predicate on one INT column.       *)
ZonePrunes(op, value, zone) ==
    ~ (HasRange(zone) /\ GroupCanMatch(op, value, zone))

(* expr::compare restricted to an INT column and an INT constant: NULL     *)
(* never matches, not even under NotEq.                                    *)
RowMatches(op, x, value) ==
    /\ x # Null
    /\ \/ op = "Eq"    /\ x = value
       \/ op = "NotEq" /\ x # value
       \/ op = "Lt"    /\ x < value
       \/ op = "LtEq"  /\ x <= value
       \/ op = "Gt"    /\ x > value
       \/ op = "GtEq"  /\ x >= value

(* A zone holds every live value; it may be wider.                         *)
ZoneEncloses(zone, values, deletes) ==
    \A x \in LiveInts(values, deletes) : zone[1] <= x /\ x <= zone[2]

(* What a reader of a row group relies on: rows over the columns `cols`,   *)
(* TEXT values as the ranks of their strings; deleted offsets, which exist;*)
(* for every column of `ints` a zone.                                      *)
ReadableGroup(g, cols, ints) ==
    /\ g.rows \in Seq([cols -> I64 \cup {Null}])
    /\ g.deletes \subseteq 0 .. Len(g.rows) - 1
    /\ \A c \in ints :
          /\ g.zone[c][1] \in I64 /\ g.zone[c][2] \in I64
          /\ ZoneEncloses(g.zone[c], [i \in DOMAIN g.rows |-> g.rows[i][c]], g.deletes)
=============================================================================
