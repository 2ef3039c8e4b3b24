---------------------------- MODULE MCFileImages ----------------------------
(***************************************************************************)
(* Bytes of two bits, so that a u32 ends at 15 and an i64 is -8 .. 7, and  *)
(* groups of three rows, one more than a byte of a bitmap has bits.        *)
(***************************************************************************)
EXTENDS FileImages

MCMin == -8
MCInts == {-8, -1, 0, 7}
MCStrings == {<<>>, <<0>>, <<2, 3>>, <<0, 0, 0, 0, 0, 0>>, <<1, 1, 1, 1, 1, 1>>,
              <<2, 3, 0, 2, 3, 1>>}
(* The bodies include one longer than a burst of 32 bits.                  *)
MCBodies == {<<>>, << {0, 4} >>, << {7}, {0, 1} >>, << {3}, {}, 0 .. 7, {0, 6}, {2}, {1, 5} >>}
=============================================================================
