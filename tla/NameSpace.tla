----------------------------- MODULE NameSpace -----------------------------
(***************************************************************************)
(* What the database promises about its tables as a whole: a name stands   *)
(* for at most one table, a table is known by an id no other table ever    *)
(* had, it starts empty, grows, and goes with all its rows or not at all.  *)
(* Every change happens at once, whoever asks for it.                      *)
(***************************************************************************)
EXTENDS Integers

CONSTANTS Names, Ids, NoId   \* NoId: the name stands for no table

VARIABLES
    idOf,    \* idOf[n]: the table n stands for
    used,    \* the ids given out so far
    size     \* size[n]: the rows of that table, 0 when there is none

nvars == <<idOf, used, size>>

NInit ==
    /\ idOf = [n \in Names |-> NoId]
    /\ used = {}
    /\ size = [n \in Names |-> 0]

Register(n) ==
    /\ idOf[n] = NoId
    /\ \E id \in Ids \ used :
          /\ idOf' = [idOf EXCEPT ![n] = id]
          /\ used' = used \cup {id}
    /\ UNCHANGED size

Grow(n) ==
    /\ idOf[n] # NoId
    /\ size' = [size EXCEPT ![n] = @ + 1]
    /\ UNCHANGED <<idOf, used>>

Retire(n) ==
    /\ idOf[n] # NoId
    /\ idOf' = [idOf EXCEPT ![n] = NoId]
    /\ size' = [size EXCEPT ![n] = 0]
    /\ UNCHANGED used

NNext == \E n \in Names : Register(n) \/ Grow(n) \/ Retire(n)

NSpec == NInit /\ [][NNext]_nvars
=============================================================================
