------------------------------ MODULE SqlNames ------------------------------
(***************************************************************************)
(* Names, columns and answers: what every module about whole commands      *)
(* speaks of.  No state and no recursion.                                  *)
(***************************************************************************)
EXTENDS Integers, Sequences

CONSTANTS
    Letters,       \* characters of a name
    Digits,
    Lower,         \* the lower case of a letter
    MaxIdentLen,   \* the longest name
    BenchColumns,  \* the table `bench gen` makes
    BenchRow       \* and what its rows look like

NoCommand == [cmd |-> "none"]
NoAnswer == [waiting |-> TRUE]
Refused == [error |-> TRUE]
Done == [effect |-> TRUE]

Fold(id) == [i \in DOMAIN id |-> IF id[i] \in Letters THEN Lower[id[i]] ELSE id[i]]

Position(columns, name) == CHOOSE i \in DOMAIN columns : columns[i].name = name
NamesOf(columns) == [i \in DOMAIN columns |-> columns[i].name]
HasColumn(columns, name) == \E i \in DOMAIN columns : columns[i].name = name
=============================================================================
