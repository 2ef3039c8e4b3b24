---------------------------- MODULE ColumnCodec -----------------------------
(***************************************************************************)
(* The bytes of a `.col` and of a `deletes.bm` file: what encode_column    *)
(* and mark_deleted write, and what read_column and load make of any bytes *)
(* at all (src/storage/column_file.rs, delete_bitmap.rs).  Pure operators; *)
(* FileImages runs them.  ColumnFiles has the same files as the values     *)
(* they stand for.                                                         *)
(*                                                                         *)
(* The widths are constants.  The eight bytes of a magic are one byte      *)
(* here, the four of a u32 and the eight of an i64 as many as the          *)
(* constants say; offsets are counted from 0, as in the code.  A Result is *)
(* a set of at most one element: {} is the Err.                            *)
(***************************************************************************)
EXTENDS ZoneMap, SequencesExt

CONSTANTS
    Bits,      \* bits of a byte
    U32Bytes,  \* bytes of a u32
    I64Bytes   \* bytes of an i64

Power(base, n) ==
    LET power[i \in 0 .. n] == IF i = 0 THEN 1 ELSE base * power[i - 1]
    IN  power[n]

Base == Power(2, Bits)
Byte == 0 .. Base - 1

U32End == Power(Base, U32Bytes)
U32Max == U32End - 1
I64End == Power(Base, I64Bytes)

ASSUME WidthAssumption ==
    /\ Bits \in Nat \ {0} /\ U32Bytes \in Nat \ {0} /\ I64Bytes \in Nat \ {0}
    /\ I64Min = - (I64End \div 2)
    /\ I64Max = I64End \div 2 - 1

CeilDiv(n) == (n + Bits - 1) \div Bits

---------------------------------------------------------------------------
(* Integers, slices, bit sets *)

(* The digits of n, least significant first, and the number that digits    *)
(* stand for.                                                              *)
Digits(n, base, width) ==
    LET rest[i \in 0 .. width] == IF i = 0 THEN n ELSE rest[i - 1] \div base
    IN  [i \in 1 .. width |-> rest[i - 1] % base]

Number(digits, base) ==
    LET value[i \in 0 .. Len(digits)] ==
            IF i = 0 THEN 0 ELSE base * value[i - 1] + digits[Len(digits) + 1 - i]
    IN  value[Len(digits)]

(* to_le_bytes, from_le_bytes.  A negative number is its two's complement. *)
Signed(bytes) ==
    LET n == Number(bytes, Base)
    IN  IF n > I64Max THEN n - I64End ELSE n

U32(n) == Digits(n, Base, U32Bytes)
I64LE(n) == Digits(n % I64End, Base, I64Bytes)
Zeros(n) == [i \in 1 .. n |-> 0]

Slice(bytes, from, length) == SubSeq(bytes, from + 1, from + length)
From(bytes, from) == SubSeq(bytes, from + 1, Len(bytes))
U32At(bytes, from) == Number(Slice(bytes, from, U32Bytes), Base)
U32s(bytes, from, n) == [i \in 1 .. n |-> U32At(bytes, from + (i - 1) * U32Bytes)]

(* Bit i of a bitmap, least significant first within a byte.               *)
BitSet(bitmap, i) == Digits(bitmap[(i \div Bits) + 1], 2, Bits)[(i % Bits) + 1] = 1

Bitmap(size, set) ==
    [k \in 1 .. CeilDiv(size) |->
        Number([j \in 1 .. Bits |-> IF Bits * (k - 1) + (j - 1) \in set THEN 1 ELSE 0], 2)]

(* The i-th of the pieces with these ends starts where the one before ends.*)
StartOf(ends, i) == IF i = 1 THEN 0 ELSE ends[i - 1]
Pieces(blob, ends) == [i \in DOMAIN ends |-> SubSeq(blob, StartOf(ends, i) + 1, ends[i])]
EndsOf(texts) ==
    LET end[i \in 0 .. Len(texts)] == IF i = 0 THEN 0 ELSE end[i - 1] + Len(texts[i])
    IN  [i \in DOMAIN texts |-> end[i]]

EndsFit(blob, ends) ==
    \A i \in DOMAIN ends : ends[i] >= StartOf(ends, i) /\ ends[i] <= Len(blob)

(* Mutant of Utf8: from_utf8_unchecked.                                    *)
Utf8Unchecked(text) == TRUE

(* from_utf8, over an alphabet of its own: Base - 2 opens a character of   *)
(* two bytes, Base - 1 is its second byte, the others are ASCII.           *)
Utf8(text) ==
    /\ \A i \in DOMAIN text :
          text[i] = Base - 2 <=> i + 1 \in DOMAIN text /\ text[i + 1] = Base - 1
    /\ text # <<>> => text[1] # Base - 1

---------------------------------------------------------------------------
(* The header *)

Magic == 1
FormatVersion == 1
HeaderSize == 5 + 3 * U32Bytes + 4 * I64Bytes

TypeTag(ty) == IF ty = "Int" THEN 0 ELSE 1
Raw == 0
Dict == 1

(* The header encode_column fills in.  A min/max slot is twice an i64; a   *)
(* TEXT header leaves both zero.                                           *)
Header(ty, encoding, rows, nulls, range) ==
    LET slot(n) == (IF ty = "Int" THEN I64LE(n) ELSE Zeros(I64Bytes)) \o Zeros(I64Bytes)
    IN  << Magic >> \o U32(FormatVersion)
            \o << TypeTag(ty), encoding, IF nulls > 0 THEN 1 ELSE 0, 0 >>
            \o U32(rows) \o U32(nulls) \o slot(range[1]) \o slot(range[2])

EmptyHeader(ty) == Header(ty, Raw, 0, 0, NoRange)

(* parse_header: the magic, the version and the type are checked, nothing  *)
(* else.                                                                   *)
ParseHeader(bytes) ==
    LET rest == 1 + U32Bytes
        h == [ty       |-> IF bytes[rest + 1] = 0 THEN "Int" ELSE "Text",
              encoding |-> bytes[rest + 2],
              nulls    |-> bytes[rest + 3] % 2 = 1,
              rows     |-> U32At(bytes, rest + 4),
              range    |-> << Signed(Slice(bytes, rest + 4 + 2 * U32Bytes, I64Bytes)),
                              Signed(Slice(bytes, rest + 4 + 2 * U32Bytes + 2 * I64Bytes,
                                           I64Bytes)) >>]
    IN  IF /\ Len(bytes) >= HeaderSize
           /\ bytes[1] = Magic
           /\ U32At(bytes, 1) <= FormatVersion
           /\ bytes[rest + 1] \in {0, 1}
        THEN {h} ELSE {}

---------------------------------------------------------------------------
(* Encoding *)

Nulls(values) == {o \in 0 .. Len(values) - 1 : values[o + 1] = Null}
Present(values) == {o \in 0 .. Len(values) - 1 : values[o + 1] # Null}
Texts(values) == [i \in DOMAIN values |-> IF values[i] = Null THEN <<>> ELSE values[i]]
Size(texts) == Len(FlattenSeq(texts))

(* Mutant of PresentBitmap: most significant bit first.                    *)
PresentBitmapMsb(values) ==
    Bitmap(Bits * CeilDiv(Len(values)),
           {Bits * (i \div Bits) + Bits - 1 - (i % Bits) : i \in Present(values)})

(* build_present_bitmap *)
PresentBitmap(values) == Bitmap(Len(values), Present(values))

EncodeIntRaw(values) ==
    FlattenSeq([i \in DOMAIN values |-> I64LE(IF values[i] = Null THEN 0 ELSE values[i])])

(* The distinct texts in the order they are first seen, and a row's place  *)
(* among them; a NULL has code 0.                                          *)
DictTexts(values) ==
    LET dict[i \in 0 .. Len(values)] ==
            IF i = 0 THEN <<>>
            ELSE IF values[i] = Null \/ values[i] \in ToSet(dict[i - 1]) THEN dict[i - 1]
            ELSE Append(dict[i - 1], values[i])
    IN  dict[Len(values)]

Code(dict, v) == IF v = Null THEN 0 ELSE (CHOOSE i \in DOMAIN dict : dict[i] = v) - 1

RawSize(values) == Len(values) * U32Bytes + Size(Texts(values))

(* Mutant of DictSize: dict_count is forgotten.                            *)
DictSizeNoCount(values) ==
    LET dict == DictTexts(values)
    IN  Len(dict) * U32Bytes + Size(dict) + Len(values) * U32Bytes

DictSize(values) ==
    LET dict == DictTexts(values)
    IN  U32Bytes + Len(dict) * U32Bytes + Size(dict) + Len(values) * U32Bytes

OffsetsAndBlob(texts) ==
    FlattenSeq([i \in DOMAIN texts |-> U32(EndsOf(texts)[i])]) \o FlattenSeq(texts)

(* encode_text: the smaller layout, raw on a tie; an Err when the blob of  *)
(* the chosen one has an end that is no u32.                               *)
EncodeText(values) ==
    LET dict == DictTexts(values)
        codes == [i \in DOMAIN values |-> U32(Code(dict, values[i]))]
    IN  IF DictSize(values) < RawSize(values)
        THEN {[encoding |-> Dict,
               data |-> U32(Len(dict)) \o OffsetsAndBlob(dict) \o FlattenSeq(codes)] :
                 ok \in {n \in {Size(dict)} : n <= U32Max}}
        ELSE {[encoding |-> Raw, data |-> OffsetsAndBlob(Texts(values))] :
                 ok \in {n \in {Size(Texts(values))} : n <= U32Max}}

(* encode_column.  `deletes` is the set of tombstoned offsets: it is only  *)
(* looked at for the range.                                                *)
EncodeColumn(ty, values, deletes) ==
    LET nulls == Cardinality(Nulls(values))
        presence == IF nulls > 0 THEN PresentBitmap(values) ELSE <<>>
        areas == IF ty = "Int" THEN {[encoding |-> Raw, data |-> EncodeIntRaw(values)]}
                               ELSE EncodeText(values)
    IN  {Header(ty, a.encoding, Len(values), nulls,
                IF ty = "Int" THEN IntRange(values, deletes) ELSE NoRange)
             \o presence \o a.data :
            a \in {x \in areas : Len(values) <= U32Max}}

---------------------------------------------------------------------------
(* Decoding *)

(* One row of a decoded column: NULL where the presence bitmap says so.    *)
Masked(present, i, value) ==
    IF present = {} \/ \E bm \in present : BitSet(bm, i - 1) THEN value ELSE Null

(* Mutant of DecodeIntRaw: as many rows as there are.                      *)
DecodeIntRawChunks(data, n, present) ==
    {[i \in 1 .. Len(data) \div I64Bytes |->
         Masked(present, i, Signed(Slice(data, (i - 1) * I64Bytes, I64Bytes)))]}

(* decode_int_raw *)
DecodeIntRaw(data, n, present) ==
    IF Len(data) < n * I64Bytes THEN {}
    ELSE {[i \in 1 .. n |->
              Masked(present, i, Signed(Slice(data, (i - 1) * I64Bytes, I64Bytes)))]}

(* decode_text_raw: only the texts of present rows have to be UTF-8.       *)
DecodeTextRaw(data, n, present) ==
    LET ends == U32s(data, 0, n)
        blob == From(data, n * U32Bytes)
        rows == [i \in 1 .. n |-> Masked(present, i, Pieces(blob, ends)[i])]
    IN  IF /\ Len(data) >= n * U32Bytes
           /\ EndsFit(blob, ends)
           /\ \A i \in 1 .. n : rows[i] # Null => Utf8(rows[i])
        THEN {rows} ELSE {}

(* decode_text_dict: the last end is the length of the blob, the codes     *)
(* follow it.                                                              *)
DecodeTextDict(data, n, present) ==
    LET count == U32At(data, 0)
        ends == U32s(data, U32Bytes, count)
        blobStart == U32Bytes + count * U32Bytes
        blobLen == IF count = 0 THEN 0 ELSE ends[count]
        blob == Slice(data, blobStart, blobLen)
        codes == U32s(data, blobStart + blobLen, n)
        rows == [i \in 1 .. n |-> Masked(present, i, codes[i])]
    IN  IF n = 0 THEN {<<>>}
        ELSE IF /\ Len(data) >= U32Bytes
                /\ Len(data) >= blobStart
                /\ Len(data) >= blobStart + blobLen + n * U32Bytes
                /\ EndsFit(blob, ends)
                /\ \A i \in 1 .. count : Utf8(Pieces(blob, ends)[i])
                /\ \A i \in 1 .. n : rows[i] # Null => codes[i] < count
        THEN {[i \in 1 .. n |-> IF rows[i] = Null THEN Null
                                ELSE Pieces(blob, ends)[codes[i] + 1]]}
        ELSE {}

(* read_column: whatever follows the last part is not looked at.           *)
ReadRows(h, area) ==
    LET bm == IF h.nulls THEN CeilDiv(h.rows) ELSE 0
        present == IF h.nulls THEN {Slice(area, 0, bm)} ELSE {}
        data == From(area, bm)
    IN  IF Len(area) < bm THEN {}
        ELSE CASE h.ty = "Int" /\ h.encoding = Raw -> DecodeIntRaw(data, h.rows, present)
               [] h.ty = "Text" /\ h.encoding = Raw -> DecodeTextRaw(data, h.rows, present)
               [] h.ty = "Text" /\ h.encoding = Dict -> DecodeTextDict(data, h.rows, present)
               [] OTHER -> {}

ReadColumn(bytes) ==
    UNION {{[header |-> h, rows |-> r] : r \in ReadRows(h, From(bytes, HeaderSize))} :
              h \in ParseHeader(bytes)}

---------------------------------------------------------------------------
(* deletes.bm *)

DelMagic == 2
DelHeaderSize == 1 + 4 * U32Bytes

(* The file for a count and the bytes of the bitmap.                       *)
DeletesFile(count, bitmap) ==
    << DelMagic >> \o U32(FormatVersion) \o U32(count) \o Zeros(2 * U32Bytes) \o bitmap

EmptyDeletes(groupSize) == DeletesFile(0, Zeros(CeilDiv(groupSize)))

(* load: how long the bitmap is, is not checked.                           *)
Load(bytes) ==
    IF /\ Len(bytes) >= DelHeaderSize
       /\ bytes[1] = DelMagic
       /\ U32At(bytes, 1) <= FormatVersion
    THEN {[count |-> U32At(bytes, 1 + U32Bytes), bitmap |-> From(bytes, DelHeaderSize)]}
    ELSE {}

(* is_deleted: an offset past the bitmap is live.                          *)
IsDeleted(bitmap, offset) ==
    offset \div Bits < Len(bitmap) /\ BitSet(bitmap, offset)

(* Mutant of MarkDeleted: the byte is set to the mask.                     *)
MarkDeletedAssign(bytes, offset) ==
    {DeletesFile(f.count + 1, [f.bitmap EXCEPT ![offset \div Bits + 1] = Power(2, offset % Bits)]) :
        f \in {x \in Load(bytes) : offset \div Bits < Len(x.bitmap)}}

WithBit(byte, j) == Number([Digits(byte, 2, Bits) EXCEPT ![j + 1] = 1], 2)

(* mark_deleted: idempotent; an offset past the bitmap is an Err.          *)
MarkDeleted(bytes, offset) ==
    {DeletesFile(IF IsDeleted(f.bitmap, offset) THEN f.count ELSE f.count + 1,
                 [f.bitmap EXCEPT ![(offset \div Bits) + 1] = WithBit(@, offset % Bits)]) :
        f \in {x \in Load(bytes) : offset \div Bits < Len(x.bitmap)}}
=============================================================================
