----------------------------- MODULE MCDatabase -----------------------------
(***************************************************************************)
(* Instances of Database for TLC.  Commands are interchangeable, and so    *)
(* are table names.                                                        *)
(***************************************************************************)
EXTENDS Database, TLC

Symmetry == Permutations(Procs) \cup Permutations(Names)
=============================================================================
