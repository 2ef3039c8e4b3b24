------------------------------ MODULE Checksum ------------------------------
(***************************************************************************)
(* The line in front of every TOML file of a database, which holds the     *)
(* CRC32 of the rest: src/checksum.rs.  Pure operators; FileImages runs    *)
(* them.                                                                   *)
(*                                                                         *)
(* A byte, and the 32-bit register, is the set of the positions of its     *)
(* one bits, 0 the least significant; xor is the symmetric difference.     *)
(***************************************************************************)
EXTENDS Integers, SequencesExt

(* 0xEDB88320 *)
Polynomial == {5, 8, 9, 15, 19, 20, 21, 23, 24, 26, 27, 29, 30, 31}
AllOnes == 0 .. 31

Shifted(crc) == {bit - 1 : bit \in crc \ {0}}

(* One turn of the inner loop.                                             *)
Turn(crc) == IF 0 \in crc THEN SymDiff(Shifted(crc), Polynomial) ELSE Shifted(crc)

(* Mutant of AddByte: seven turns.                                         *)
AddByteSeven(crc, byte) ==
    Turn(Turn(Turn(Turn(Turn(Turn(Turn(SymDiff(crc, byte))))))))

AddByte(crc, byte) ==
    Turn(Turn(Turn(Turn(Turn(Turn(Turn(Turn(SymDiff(crc, byte)))))))))

Crc32(data) ==
    LET crc[i \in 0 .. Len(data)] ==
            IF i = 0 THEN AllOnes ELSE AddByte(crc[i - 1], data[i])
    IN  SymDiff(crc[Len(data)], AllOnes)

(* The eight hex digits of a number, most significant first.               *)
Digits8(crc) ==
    [d \in 1 .. 8 |-> {bit \in 0 .. 3 : 4 * (8 - d) + bit \in crc}]

(* wrap: the prefix, the digits and the newline make the first line.       *)
Wrap(body) ==
    [prefix |-> "# crc32 = 0x", digits |-> Digits8(Crc32(body)), newline |-> TRUE,
     body |-> body]

(* verify.  Without its newline the first line runs on into the body or to *)
(* the end of the file, and is no number; nor is one with another          *)
(* character among the digits.  {} is the Err.                             *)
Verify(file) ==
    {body \in {file.body} :
        /\ file.newline
        /\ file.prefix = "# crc32 = 0x"
        /\ \A d \in 1 .. 8 : file.digits[d] \subseteq 0 .. 3
        /\ file.digits = Digits8(Crc32(body))}
=============================================================================
