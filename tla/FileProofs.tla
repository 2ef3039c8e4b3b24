---------------------------- MODULE FileProofs ----------------------------
(***************************************************************************)
(* The files of FileImages: FileInv, which says of every file byte for     *)
(* byte what it is, is inductive; what is stored is read, and nothing of a *)
(* file that has lost its end; whatever bytes are read give rows of their  *)
(* type; a TEXT file is as small as the smaller layout; and the checksum   *)
(* of a TOML file catches every burst of errors up to 32 bits.             *)
(***************************************************************************)
EXTENDS CodecProofs

---------------------------------------------------------------------------
(* The invariant *)

(* The deletes file is the one of the offsets marked, and a column file    *)
(* one that encode_column writes for the rows stored.                      *)
FileInv ==
    /\ kind \in {"Int", "Text", "Toml"}
    /\ marked \subseteq 0 .. GroupSize - 1
    /\ deletes = DeletesFile(Cardinality(marked), Bitmap(GroupSize, marked))
    /\ IsColumn => /\ values \in Seq(Storing(kind))
                   /\ \A o \in marked : o < Len(values)
                   /\ image \in EncodeColumn(kind, values, marked)
    /\ kind = "Toml" => marked = {} /\ values \in Bodies /\ image = Wrap(values)

(* A set of offsets has a count that fits its field.                       *)
LEMMA MarkedCount ==
    ASSUME NEW set \in SUBSET (0 .. GroupSize - 1)
    PROVE  /\ IsFiniteSet(set) /\ Cardinality(set) \in 0 .. U32Max
           /\ \A o : o \notin set => Cardinality(set \cup {o}) = Cardinality(set) + 1
<1>1. GroupSize \in 0 .. U32Max /\ U32Max \in Nat
  BY FileAssumption, WidthFacts
<1> DEFINE m == GroupSize - 1
<1>2. m \in Int /\ 0 \in Int /\ m < U32Max
  BY <1>1
<1>3. set \in SUBSET (0 .. m)
  OBVIOUS
<1>4. m < 0 \/ m - 0 + 1 <= U32Max
  BY <1>1, <1>2
<1> HIDE DEF m
<1>5. IsFiniteSet(0 .. m) /\ Cardinality(0 .. m) = IF 0 > m THEN 0 ELSE m - 0 + 1
  BY <1>2, FS_Interval
<1>6. /\ IsFiniteSet(set) /\ Cardinality(set) <= Cardinality(0 .. m) /\ Cardinality(set) \in Nat
  BY <1>3, <1>5, FS_Subset, FS_CardinalityType
<1>7. \A o : o \notin set => Cardinality(set \cup {o}) = Cardinality(set) + 1
  BY <1>6, FS_AddElement
<1>8. Cardinality(set) <= U32Max
  BY <1>1, <1>2, <1>4, <1>5, <1>6
<1> QED  BY <1>1, <1>6, <1>7, <1>8

(* What is read of the files of a state that satisfies it.                 *)
LEMMA InvReads ==
    ASSUME FileInv
    PROVE  /\ DeletedIn(deletes) = marked
           /\ Load(deletes) = {[count |-> Cardinality(marked), bitmap |-> Bitmap(GroupSize, marked)]}
           /\ IsColumn => \A r \in ReadColumn(image) : r.rows = values
<1>1. marked \in SUBSET (0 .. GroupSize - 1)
  BY DEF FileInv
<1>2. Cardinality(marked) \in 0 .. U32Max
  BY <1>1, MarkedCount
<1>3. deletes = DeletesFile(Cardinality(marked), Bitmap(GroupSize, marked))
  BY DEF FileInv
<1>4. Bitmap(GroupSize, marked) \in Seq(Byte)
  BY FileAssumption, BitmapBytes
<1>5. DeletedIn(deletes) = marked
  BY <1>1, <1>2, <1>3, DeletesHoldSet
<1>6. Load(deletes) = {[count |-> Cardinality(marked), bitmap |-> Bitmap(GroupSize, marked)]}
  BY <1>2, <1>3, <1>4, DeletesLoad
<1>7. ASSUME IsColumn, NEW r \in ReadColumn(image) PROVE r.rows = values
  <2>1. kind \in {"Int", "Text"} /\ values \in Seq(Storing(kind)) /\ image \in EncodeColumn(kind, values, marked)
    BY <1>7 DEF FileInv, IsColumn
  <2>2. PICK encoding, data : IsImage(image, kind, values, marked, encoding, data)
    BY <2>1, Encoded
  <2> DEFINE range == IF kind = "Int" THEN IntRange(values, marked) ELSE NoRange
  <2>3. PICK h : /\ ReadColumn(image) = {[header |-> h, rows |-> values]}
                 /\ Says(h, kind, encoding, Len(values), Cardinality(Nulls(values)), range)
    BY <2>1, <2>2, ReadBack
  <2> QED  BY <1>7, <2>3
<1> QED  BY <1>5, <1>6, <1>7

(* write_empty writes the image of an empty column.                        *)
LEMMA EmptyEncoded ==
    ASSUME NEW ty \in {"Int", "Text"}
    PROVE  EmptyHeader(ty) \in EncodeColumn(ty, <<>>, {})
<1> DEFINE areas == IF ty = "Int" THEN {[encoding |-> Raw, data |-> EncodeIntRaw(<<>>)]}
                                  ELSE EncodeText(<<>>)
<1> DEFINE a == [encoding |-> Raw, data |-> <<>>]
<1> DEFINE nulls == Cardinality(Nulls(<<>>))
<1>1. Len(<<>>) = 0 /\ Len(<<>>) <= U32Max /\ DOMAIN <<>> = {}
  BY WidthFacts
<1>2. nulls = 0 /\ ~ (nulls > 0)
  <2>1. Nulls(<<>>) = {}
    BY <1>1 DEF Nulls
  <2> QED  BY <2>1, FS_EmptySet
<1>3. a \in areas
  <2>1. CASE ty = "Int"
    <3>1. EncodeIntRaw(<<>>) = FlattenSeq(<<>>)
      BY <1>1 DEF EncodeIntRaw
    <3> QED  BY <2>1, <3>1, EmptyIsRaw
  <2>2. CASE ty = "Text"
    <3>1. 0 <= U32Max
      BY WidthFacts
    <3>2. a \in EncodeText(<<>>)
      BY <3>1, EmptyIsRaw DEF EncodeText
    <3> QED  BY <2>2, <3>2
  <2> QED  BY <2>1, <2>2
<1>4. (IF ty = "Int" THEN IntRange(<<>>, {}) ELSE NoRange) = NoRange
  <2>1. LiveInts(<<>>, {}) = {}
    BY <1>1 DEF LiveInts
  <2>2. Least({I64Max}) = I64Max /\ Greatest({I64Min}) = I64Min
    BY I64Assumption DEF Least, Greatest
  <2>3. IntRange(<<>>, {}) = NoRange
    BY <2>1, <2>2 DEF IntRange, NoRange
  <2> QED  BY <2>3
<1> DEFINE head == Header(ty, Raw, 0, 0, NoRange)
<1>5. head \o <<>> \o <<>> = head
  <2>1. Writable(ty, Raw, 0, 0, NoRange)
    BY WidthFacts, I64Assumption DEF Writable, Raw, NoRange, I64
  <2>2. head \in Seq(Byte)
    BY <2>1, HeaderFields
  <2> HIDE DEF head
  <2> QED  BY <2>2
<1>6. Header(ty, a.encoding, Len(<<>>), nulls, NoRange) \o <<>> \o a.data \in EncodeColumn(ty, <<>>, {})
  BY <1>1, <1>2, <1>3, <1>4 DEF EncodeColumn
<1>7. a.encoding = Raw /\ a.data = <<>>
  OBVIOUS
<1> QED  BY <1>1, <1>2, <1>5, <1>6, <1>7 DEF EmptyHeader

(* A TEXT image does not depend on what is deleted.                        *)
LEMMA TextIgnoresDeletes ==
    ASSUME NEW column, NEW d, NEW e
    PROVE  EncodeColumn("Text", column, d) = EncodeColumn("Text", column, e)
  BY DEF EncodeColumn

(* The files that are made satisfy the invariant.                          *)
LEMMA FileInit ==
    ASSUME Init
    PROVE  FileInv
<1>1. kind \in {"Int", "Text", "Toml"} /\ marked = {} /\ deletes = EmptyDeletes(GroupSize)
  BY DEF Init
<1>2. deletes = DeletesFile(Cardinality(marked), Bitmap(GroupSize, marked))
  BY <1>1, EmptyDeletesIs, FS_EmptySet
<1>3. CASE kind # "Toml"
  <2>1. image = EmptyHeader(kind) /\ values = <<>> /\ kind \in {"Int", "Text"}
    BY <1>1, <1>3 DEF Init
  <2>2. image \in EncodeColumn(kind, values, marked)
    BY <1>1, <2>1, EmptyEncoded
  <2>3. values \in Seq(Storing(kind))
    BY <2>1
  <2> QED  BY <1>1, <1>2, <1>3, <2>2, <2>3 DEF FileInv
<1>4. CASE kind = "Toml"
  <2>1. values \in Bodies /\ image = Wrap(values)
    BY <1>4 DEF Init
  <2> QED  BY <1>1, <1>2, <1>4, <2>1 DEF FileInv, IsColumn
<1> QED  BY <1>3, <1>4

(* Every rewrite keeps it.                                                 *)
LEMMA FileNext ==
    ASSUME FileInv, [Next]_vars
    PROVE  FileInv'
<1>0. /\ kind \in {"Int", "Text", "Toml"}
      /\ marked \subseteq 0 .. GroupSize - 1
      /\ deletes = DeletesFile(Cardinality(marked), Bitmap(GroupSize, marked))
      /\ IsColumn => /\ values \in Seq(Storing(kind))
                     /\ \A o \in marked : o < Len(values)
                     /\ image \in EncodeColumn(kind, values, marked)
      /\ kind = "Toml" => marked = {} /\ values \in Bodies /\ image = Wrap(values)
  BY DEF FileInv
<1>1. /\ DeletedIn(deletes) = marked
      /\ IsColumn => \A r \in ReadColumn(image) : r.rows = values
  BY InvReads
<1>2. Storable = Storing(kind)
  BY DEF Storable, Storing
<1>3. GroupSize \in Nat
  BY FileAssumption
<1>4. CASE UNCHANGED vars
  BY <1>0, <1>4 DEF vars, FileInv, IsColumn
<1>5. ASSUME NEW v \in Storable, Append1(v) PROVE FileInv'
  <2>1. IsColumn /\ values' = Append(values, v) /\ UNCHANGED <<kind, deletes, marked>>
    BY <1>5 DEF Append1
  <2>2. image' \in EncodeColumn(kind, Append(values, v), marked)
    BY <1>1, <1>5, <2>1 DEF Append1
  <2>3. values' \in Seq(Storing(kind)) /\ Len(values') = Len(values) + 1 /\ Len(values) \in Nat
    BY <1>0, <1>2, <1>5, <2>1
  <2>4. \A o \in marked : o < Len(values')
    BY <1>0, <1>3, <2>1, <2>3
  <2>5. kind # "Toml"
    BY <2>1 DEF IsColumn
  <2> QED  BY <1>0, <2>1, <2>2, <2>3, <2>4, <2>5 DEF FileInv, IsColumn
<1>6. ASSUME NEW o \in 0 .. GroupSize - 1, Delete(o) PROVE FileInv'
  <2>1. /\ IsColumn /\ o < Len(values) /\ o \notin marked
        /\ deletes' \in MarkDeleted(deletes, o)
        /\ marked' = marked \cup {o} /\ UNCHANGED <<kind, values>>
    BY <1>1, <1>6 DEF Delete
  <2>2. Cardinality(marked) \in 0 .. U32Max /\ Cardinality(marked \cup {o}) = Cardinality(marked) + 1
    BY <1>0, <2>1, MarkedCount
  <2>3. deletes' = DeletesFile(Cardinality(marked'), Bitmap(GroupSize, marked'))
    <3>1. marked \in SUBSET (0 .. GroupSize - 1)
      BY <1>0
    <3>2. MarkDeleted(DeletesFile(Cardinality(marked), Bitmap(GroupSize, marked)), o)
             = {DeletesFile(Cardinality(marked) + 1, Bitmap(GroupSize, marked \cup {o}))}
      BY <2>1, <2>2, <3>1, MarkDeletedAdds
    <3>3. MarkDeleted(deletes, o)
             = {DeletesFile(Cardinality(marked) + 1, Bitmap(GroupSize, marked \cup {o}))}
      BY <1>0, <3>2
    <3> QED  BY <2>1, <2>2, <3>3
  <2>4. DeletedIn(deletes') = marked'
    <3>1. marked' \in SUBSET (0 .. GroupSize - 1)
      BY <1>0, <2>1
    <3>2. Cardinality(marked') \in 0 .. U32Max
      BY <3>1, MarkedCount
    <3> QED  BY <2>3, <3>1, <3>2, DeletesHoldSet
  <2>5. image' \in EncodeColumn(kind, values, marked')
    <3>1. CASE kind = "Text"
      <4>1. image' = image
        BY <1>6, <3>1 DEF Delete
      <4> QED  BY <1>0, <2>1, <3>1, <4>1, TextIgnoresDeletes
    <3>2. CASE kind = "Int"
      <4>1. image' \in EncodeColumn(kind, values, DeletedIn(deletes'))
        BY <1>1, <1>6, <2>1, <3>2 DEF Delete
      <4> QED  BY <2>4, <4>1
    <3> QED  BY <2>1, <3>1, <3>2 DEF IsColumn
  <2>6. \A p \in marked' : p < Len(values)
    BY <1>0, <2>1
  <2>7. kind # "Toml"
    BY <2>1 DEF IsColumn
  <2> QED  BY <1>0, <2>1, <2>3, <2>5, <2>6, <2>7 DEF FileInv, IsColumn
<1>7. ASSUME NEW n \in 0 .. GroupSize - 1, TruncateColumn(n) PROVE FileInv'
  <2>1. /\ IsColumn /\ n < Len(values) /\ (\A o \in marked : o < n)
        /\ values' = SubSeq(values, 1, n) /\ UNCHANGED <<kind, deletes, marked>>
    BY <1>7 DEF TruncateColumn
  <2>2. image' \in EncodeColumn(kind, SubSeq(values, 1, n), marked)
    BY <1>1, <1>7, <2>1 DEF TruncateColumn
  <2>3. values' \in Seq(Storing(kind)) /\ Len(values') = n
    BY <1>0, <2>1
  <2>4. kind # "Toml"
    BY <2>1 DEF IsColumn
  <2> QED  BY <1>0, <2>1, <2>2, <2>3, <2>4 DEF FileInv, IsColumn
<1>8. ASSUME NEW body \in Bodies, Save(body) PROVE FileInv'
  BY <1>0, <1>8 DEF Save, FileInv, IsColumn
<1> QED  BY <1>4, <1>5, <1>6, <1>7, <1>8 DEF Next

(* The theorem: FileInv always holds, for any widths of a byte, a u32 and  *)
(* an i64, any row-group size, and any values and texts.                   *)
THEOREM FileInvariance == Spec => []FileInv
<1>1. Init => FileInv
  BY FileInit
<1>2. FileInv /\ [Next]_vars => FileInv'
  BY FileNext
<1> QED  BY <1>1, <1>2, PTL DEF Spec

(* verify of what wrap wrote.                                              *)
LEMMA WrapVerifies ==
    ASSUME NEW body
    PROVE  Verify(Wrap(body)) = {body}
<1>1. \A d \in 1 .. 8 : Digits8(Crc32(body))[d] \subseteq 0 .. 3
  BY DEF Digits8
<1> QED  BY <1>1 DEF Verify, Wrap

(* What is read back is what was stored (column_file.rs read_column,       *)
(* delete_bitmap.rs load, checksum.rs verify).                             *)
THEOREM StoredIsRead == Spec => []FilesHoldWhatWasStored
<1>1. FileInv => FilesHoldWhatWasStored
  <2> SUFFICES ASSUME FileInv PROVE FilesHoldWhatWasStored
    OBVIOUS
  <2>1. DeletesHold
    BY InvReads DEF DeletesHold
  <2>2. ASSUME IsColumn PROVE ColumnHolds
    <3>1. kind \in {"Int", "Text"} /\ values \in Seq(Storing(kind)) /\ image \in EncodeColumn(kind, values, marked)
      BY <2>2 DEF FileInv, IsColumn
    <3>2. PICK encoding, data : IsImage(image, kind, values, marked, encoding, data)
      BY <3>1, Encoded
    <3> DEFINE range == IF kind = "Int" THEN IntRange(values, marked) ELSE NoRange
    <3>3. PICK h : /\ ReadColumn(image) = {[header |-> h, rows |-> values]}
                   /\ Says(h, kind, encoding, Len(values), Cardinality(Nulls(values)), range)
      BY <3>1, <3>2, ReadBack
    <3>4. kind = "Int" => h.range = IntRange(values, marked)
      BY <3>3 DEF Says, IntRange
    <3>5. h.ty = kind /\ h.rows = Len(values)
      BY <3>3 DEF Says
    <3> DEFINE r == [header |-> h, rows |-> values]
    <3>6. r \in ReadColumn(image) /\ r.rows = values /\ r.header = h
      BY <3>3
    <3> HIDE DEF r
    <3> QED  BY <3>4, <3>5, <3>6 DEF ColumnHolds
  <2>3. ColumnHolds
    BY <2>2 DEF ColumnHolds
  <2>4. kind = "Toml" => Verify(image) = {values}
    BY WrapVerifies DEF FileInv
  <2> QED  BY <2>1, <2>3, <2>4 DEF FilesHoldWhatWasStored
<1> QED  BY <1>1, FileInvariance, PTL

(* A `.col` that lost any part of its end is never read (column_file.rs:   *)
(* "Corrupt or truncated files return Err").                               *)
THEOREM CutsAreDetected == Spec => []CutDetected
<1>1. FileInv => CutDetected
  <2> SUFFICES ASSUME FileInv, IsColumn
               PROVE  \A n \in 0 .. Len(image) - 1 : ReadColumn(SubSeq(image, 1, n)) = {}
    BY DEF CutDetected
  <2>1. kind \in {"Int", "Text"} /\ values \in Seq(Storing(kind)) /\ image \in EncodeColumn(kind, values, marked)
    BY DEF FileInv, IsColumn
  <2>2. PICK encoding, data : IsImage(image, kind, values, marked, encoding, data)
    BY <2>1, Encoded
  <2> QED  BY <2>1, <2>2, ReadBack
<1> QED  BY <1>1, FileInvariance, PTL

---------------------------------------------------------------------------
(* Reading any bytes *)

(* What is left behind a prefix.                                           *)
LEMMA FromType ==
    ASSUME NEW X, NEW s \in Seq(X), NEW k \in Nat, k <= Len(s)
    PROVE  From(s, k) \in Seq(X) /\ Len(From(s, k)) = Len(s) - k
<1> DEFINE t == SubSeq(s, k + 1, Len(s))
<1>1. t \in Seq(X) /\ Len(t) = Len(s) - k
  OBVIOUS
<1> QED  BY <1>1 DEF From

(* The i-th of n fields of one width lies inside them.                     *)
LEMMA FieldFits ==
    ASSUME NEW n \in Nat, NEW w \in Nat, NEW i \in 1 .. n
    PROVE  (i - 1) * w \in Nat /\ n * w \in Nat /\ (i - 1) * w + w <= n * w
<1>1. i - 1 \in Nat /\ n - i \in Nat /\ i \in Nat
  OBVIOUS
<1>2. (i - 1) * w \in Nat /\ (n - i) * w \in Nat /\ n * w \in Nat /\ i * w \in Nat
  BY <1>1
<1>3. (i - 1) * w + w = i * w
  BY <1>1
<1>4. i * w + (n - i) * w = n * w
  BY <1>1
<1> QED  BY <1>2, <1>3, <1>4

(* u32s that lie inside the bytes.                                         *)
LEMMA U32sType ==
    ASSUME NEW s \in Seq(Byte), NEW from \in Nat, NEW n \in Nat, from + n * U32Bytes <= Len(s)
    PROVE  U32s(s, from, n) \in [1 .. n -> Nat]
<1>1. U32Bytes \in Nat /\ U32Max \in Nat
  BY WidthFacts
<1>2. ASSUME NEW i \in 1 .. n PROVE U32At(s, from + (i - 1) * U32Bytes) \in Nat
  <2> DEFINE k == (i - 1) * U32Bytes
  <2> DEFINE size == n * U32Bytes
  <2>1. k \in Nat /\ size \in Nat /\ k + U32Bytes <= size
    BY <1>1, FieldFits
  <2>2. from + size <= Len(s) /\ Len(s) \in Nat
    OBVIOUS
  <2> HIDE DEF k, size
  <2>3. from + k \in Nat /\ (from + k) + U32Bytes <= Len(s)
    BY <1>1, <2>1, <2>2
  <2>4. U32At(s, from + k) \in 0 .. U32Max
    BY <2>3, U32AtType
  <2> QED  BY <1>1, <2>4 DEF k
<1> QED  BY <1>2 DEF U32s

(* A piece of a blob that its ends fit is bytes.                           *)
LEMMA PieceType ==
    ASSUME NEW blob \in Seq(Byte), NEW n \in Nat, NEW ends \in [1 .. n -> Nat],
           EndsFit(blob, ends), NEW i \in 1 .. n
    PROVE  Pieces(blob, ends)[i] \in Seq(Byte)
<1>1. i = 1 \/ i - 1 \in 1 .. n
  OBVIOUS
<1>2. StartOf(ends, i) \in Nat
  BY <1>1 DEF StartOf
<1>3. StartOf(ends, i) <= ends[i] /\ ends[i] <= Len(blob) /\ ends[i] \in Nat
  BY <1>2 DEF EndsFit
<1> DEFINE from == StartOf(ends, i)
<1> DEFINE to == ends[i]
<1>4. from \in Nat /\ to \in Nat /\ from <= to /\ to <= Len(blob)
  BY <1>2, <1>3
<1>5. Pieces(blob, ends)[i] = SubSeq(blob, from + 1, to)
  BY DEF Pieces
<1> HIDE DEF from, to
<1> QED  BY <1>4, <1>5

(* from_utf8 accepts whole characters only.                                *)
LEMMA Utf8IsText ==
    ASSUME NEW s \in Seq(Byte), Utf8(s)
    PROVE  IsText(s)
<1>1. Base \in Nat /\ Base >= 2
  BY WidthFacts
<1>2. DOMAIN s = 1 .. Len(s) /\ Len(s) \in Nat
  OBVIOUS
<1>3. ASSUME NEW i \in DOMAIN s
      PROVE  \/ s[i] < Base - 2
             \/ s[i] = Base - 2 /\ i < Len(s) /\ s[i + 1] = Base - 1
             \/ s[i] = Base - 1 /\ i > 1 /\ s[i - 1] = Base - 2
  <2>1. s[i] \in 0 .. Base - 1
    <3>1. s[i] \in Byte
      OBVIOUS
    <3> QED  BY <3>1 DEF Byte
  <2>2. CASE s[i] = Base - 2
    <3>1. i + 1 \in DOMAIN s /\ s[i + 1] = Base - 1
      BY <2>2 DEF Utf8
    <3> QED  BY <1>2, <2>2, <3>1
  <2>3. CASE s[i] = Base - 1
    <3>1. s[1] # Base - 1
      <4>1. s # <<>>
        BY <1>2
      <4> QED  BY <4>1 DEF Utf8
    <3>2. i \in 1 .. Len(s) /\ i # 1
      BY <1>2, <2>3, <3>1
    <3>3. i - 1 \in DOMAIN s /\ (i - 1) + 1 = i /\ i > 1
      BY <1>2, <3>2
    <3>4. s[i - 1] = Base - 2 <=> (i - 1) + 1 \in DOMAIN s /\ s[(i - 1) + 1] = Base - 1
      BY <3>3 DEF Utf8
    <3> QED  BY <2>3, <3>3, <3>4
  <2> QED  BY <1>1, <2>1, <2>2, <2>3
<1> QED  BY <1>3 DEF IsText

(* Rows of one type.                                                       *)
RowsTyped(rows, n, ty) ==
    /\ Len(rows) = n
    /\ \A j \in DOMAIN rows :
          rows[j] # Null => IF ty = "Int" THEN rows[j] \in I64 ELSE IsText(rows[j])

(* A row is masked or as it is.                                            *)
LEMMA MaskedOr ==
    ASSUME NEW present, NEW i, NEW x
    PROVE  Masked(present, i, x) = x \/ Masked(present, i, x) = Null
  BY DEF Masked

(* The three decoders give as many rows as asked for, of their type.       *)
LEMMA IntsTyped ==
    ASSUME NEW data \in Seq(Byte), NEW n \in Nat, NEW present,
           NEW rows \in DecodeIntRaw(data, n, present)
    PROVE  RowsTyped(rows, n, "Int")
<1> DEFINE x(i) == Signed(Slice(data, (i - 1) * I64Bytes, I64Bytes))
<1>1. rows = [i \in 1 .. n |-> Masked(present, i, x(i))] /\ ~ (Len(data) < n * I64Bytes)
  BY DEF DecodeIntRaw
<1>2. I64Bytes \in Nat /\ Len(data) \in Nat
  BY WidthFacts
<1>3. ASSUME NEW i \in 1 .. n PROVE x(i) \in I64
  <2> DEFINE k == (i - 1) * I64Bytes
  <2> DEFINE size == n * I64Bytes
  <2>1. k \in Nat /\ size \in Nat /\ k + I64Bytes <= size /\ ~ (Len(data) < size)
    BY <1>1, <1>2, FieldFits
  <2> HIDE DEF k, size
  <2>2. k + I64Bytes <= Len(data)
    BY <1>2, <2>1
  <2>3. Slice(data, k, I64Bytes) \in Seq(Byte) /\ Len(Slice(data, k, I64Bytes)) = I64Bytes
    BY <1>2, <2>1, <2>2, SliceType
  <2>4. Signed(Slice(data, k, I64Bytes)) \in I64
    BY <2>3, SignedType
  <2> QED  BY <2>4 DEF k
<1> HIDE DEF x
<1>4. \A i \in 1 .. n : rows[i] # Null => rows[i] \in I64
  <2> SUFFICES ASSUME NEW i \in 1 .. n, rows[i] # Null PROVE rows[i] \in I64
    OBVIOUS
  <2>1. rows[i] = Masked(present, i, x(i))
    BY <1>1
  <2> QED  BY <1>3, <2>1, MaskedOr
<1>5. DOMAIN rows = 1 .. n /\ Len(rows) = n
  BY <1>1
<1> QED  BY <1>4, <1>5 DEF RowsTyped

(* Texts one behind the other.                                             *)
LEMMA RawTextsTyped ==
    ASSUME NEW data \in Seq(Byte), NEW n \in Nat, NEW present,
           NEW rows \in DecodeTextRaw(data, n, present)
    PROVE  RowsTyped(rows, n, "Text")
<1> DEFINE ends == U32s(data, 0, n)
<1> DEFINE blob == From(data, n * U32Bytes)
<1>1. /\ rows = [i \in 1 .. n |-> Masked(present, i, Pieces(blob, ends)[i])]
      /\ Len(data) >= n * U32Bytes /\ EndsFit(blob, ends)
      /\ \A i \in 1 .. n : rows[i] # Null => Utf8(rows[i])
  BY DEF DecodeTextRaw
<1>2. U32Bytes \in Nat /\ n * U32Bytes \in Nat /\ Len(data) \in Nat
  BY WidthFacts
<1>3. ends \in [1 .. n -> Nat]
  <2>1. 0 \in Nat /\ 0 + n * U32Bytes <= Len(data)
    BY <1>1, <1>2
  <2> QED  BY <2>1, U32sType
<1>4. blob \in Seq(Byte)
  BY <1>1, <1>2, FromType
<1> HIDE DEF ends, blob
<1>5. ASSUME NEW i \in 1 .. n, rows[i] # Null PROVE IsText(rows[i])
  <2>1. rows[i] = Masked(present, i, Pieces(blob, ends)[i])
    BY <1>1
  <2>2. Pieces(blob, ends)[i] \in Seq(Byte)
    BY <1>1, <1>3, <1>4, PieceType
  <2>3. rows[i] \in Seq(Byte) /\ Utf8(rows[i])
    BY <1>1, <1>5, <2>1, <2>2, MaskedOr
  <2> QED  BY <2>3, Utf8IsText
<1>6. DOMAIN rows = 1 .. n /\ Len(rows) = n
  BY <1>1
<1> QED  BY <1>5, <1>6 DEF RowsTyped

(* Texts out of a dictionary.                                              *)
LEMMA DictTextsTyped ==
    ASSUME NEW data \in Seq(Byte), NEW n \in Nat, NEW present,
           NEW rows \in DecodeTextDict(data, n, present)
    PROVE  RowsTyped(rows, n, "Text")
<1> DEFINE w == U32Bytes
<1> DEFINE count == U32At(data, 0)
<1> DEFINE ends == U32s(data, w, count)
<1> DEFINE blobStart == w + count * w
<1> DEFINE blobLen == IF count = 0 THEN 0 ELSE ends[count]
<1> DEFINE blob == Slice(data, blobStart, blobLen)
<1> DEFINE codes == U32s(data, blobStart + blobLen, n)
<1> DEFINE masked == [i \in 1 .. n |-> Masked(present, i, codes[i])]
<1>1. w \in Nat /\ Len(data) \in Nat /\ U32Max \in Nat
  BY WidthFacts
<1>2. CASE n = 0
  <2>1. rows = <<>>
    BY <1>2 DEF DecodeTextDict
  <2> QED  BY <1>2, <2>1 DEF RowsTyped
<1>3. CASE n # 0
  <2>1. /\ Len(data) >= w
        /\ Len(data) >= blobStart
        /\ Len(data) >= blobStart + blobLen + n * w
        /\ EndsFit(blob, ends)
        /\ \A i \in 1 .. count : Utf8(Pieces(blob, ends)[i])
        /\ \A i \in 1 .. n : masked[i] # Null => codes[i] < count
        /\ rows = [i \in 1 .. n |-> IF masked[i] = Null THEN Null
                                    ELSE Pieces(blob, ends)[codes[i] + 1]]
    BY <1>3 DEF DecodeTextDict
  <2>2. count \in Nat
    <3>1. 0 \in Nat /\ 0 + U32Bytes <= Len(data)
      BY <1>1, <2>1
    <3>2. count \in 0 .. U32Max
      BY <3>1, U32AtType
    <3> QED  BY <1>1, <3>2
  <2> HIDE DEF count
  <2>3. ends \in [1 .. count -> Nat]
    <3>1. w + count * U32Bytes <= Len(data)
      BY <1>1, <2>1
    <3> QED  BY <1>1, <2>2, <3>1, U32sType
  <2> HIDE DEF ends
  <2>4. blobStart \in Nat /\ blobLen \in Nat /\ n * w \in Nat
    <3>1. count * w \in Nat /\ n * w \in Nat
      BY <1>1, <2>2
    <3> QED  BY <1>1, <2>2, <2>3, <3>1
  <2>5. blobStart + blobLen \in Nat /\ blobStart + blobLen + n * U32Bytes <= Len(data)
        /\ blobStart + blobLen <= Len(data)
    <3> DEFINE size == n * w
    <3>1. size \in Nat /\ Len(data) >= blobStart + blobLen + size
      BY <2>1, <2>4
    <3> HIDE DEF size, blobStart, blobLen
    <3>2. blobStart + blobLen \in Nat /\ blobStart + blobLen + size <= Len(data) /\ blobStart + blobLen <= Len(data)
      BY <1>1, <2>4, <3>1
    <3> QED  BY <3>2 DEF size
  <2> HIDE DEF blobStart, blobLen
  <2>6. blob \in Seq(Byte)
    BY <2>4, <2>5, SliceType
  <2>7. codes \in [1 .. n -> Nat]
    BY <2>5, U32sType
  <2> HIDE DEF blob, codes
  <2>8. ASSUME NEW i \in 1 .. n, rows[i] # Null PROVE IsText(rows[i])
    <3>1. masked[i] # Null /\ rows[i] = Pieces(blob, ends)[codes[i] + 1]
      BY <2>1, <2>8
    <3>2. codes[i] < count /\ codes[i] \in Nat
      BY <2>1, <2>7, <3>1
    <3>3. codes[i] + 1 \in 1 .. count
      BY <2>2, <3>2
    <3>4. Pieces(blob, ends)[codes[i] + 1] \in Seq(Byte)
      BY <2>1, <2>2, <2>3, <2>6, <3>3, PieceType
    <3>5. Utf8(Pieces(blob, ends)[codes[i] + 1])
      BY <2>1, <3>3
    <3> QED  BY <3>1, <3>4, <3>5, Utf8IsText
  <2>9. DOMAIN rows = 1 .. n /\ Len(rows) = n
    BY <2>1
  <2> QED  BY <2>8, <2>9 DEF RowsTyped
<1> QED  BY <1>2, <1>3

(* read_column of any bytes at all: nothing, or what the header says.      *)
THEOREM AnyReadIsTyped ==
    ASSUME NEW bytes \in Seq(Byte), NEW r \in ReadColumn(bytes)
    PROVE  RowsTyped(r.rows, r.header.rows, r.header.ty)
<1>1. PICK h \in ParseHeader(bytes) :
          \E q \in ReadRows(h, From(bytes, HeaderSize)) : r = [header |-> h, rows |-> q]
  BY DEF ReadColumn
<1>2. PICK q \in ReadRows(h, From(bytes, HeaderSize)) : r = [header |-> h, rows |-> q]
  BY <1>1
<1>3. HeaderSize \in Nat /\ U32Bytes \in Nat /\ I64Bytes \in Nat /\ U32Max \in Nat /\ Len(bytes) \in Nat
  BY WidthFacts DEF HeaderSize
<1>4. Len(bytes) >= HeaderSize
  BY <1>1 DEF ParseHeader
<1>5. h.ty \in {"Int", "Text"} /\ h.rows = U32At(bytes, (1 + U32Bytes) + 4)
  BY <1>1 DEF ParseHeader
<1>6. h.rows \in Nat
  <2> DEFINE k == (1 + U32Bytes) + 4
  <2>1. k \in Nat /\ k + U32Bytes <= Len(bytes)
    BY <1>3, <1>4 DEF HeaderSize
  <2> HIDE DEF k
  <2>2. U32At(bytes, k) \in 0 .. U32Max
    BY <2>1, U32AtType
  <2> QED  BY <1>3, <1>5, <2>2 DEF k
<1> DEFINE area == From(bytes, HeaderSize)
<1> DEFINE bm == IF h.nulls THEN CeilDiv(h.rows) ELSE 0
<1> DEFINE present == IF h.nulls THEN {Slice(area, 0, bm)} ELSE {}
<1> DEFINE data == From(area, bm)
<1>7. area \in Seq(Byte) /\ Len(area) \in Nat
  BY <1>3, <1>4, FromType
<1>8. bm \in Nat
  BY <1>6, CeilDivFacts
<1>9. /\ ~ (Len(area) < bm)
      /\ \/ h.ty = "Int" /\ q \in DecodeIntRaw(data, h.rows, present)
         \/ h.ty = "Text" /\ q \in DecodeTextRaw(data, h.rows, present)
         \/ h.ty = "Text" /\ q \in DecodeTextDict(data, h.rows, present)
  <2>1. q \in IF Len(area) < bm THEN {}
              ELSE CASE h.ty = "Int" /\ h.encoding = Raw -> DecodeIntRaw(data, h.rows, present)
                     [] h.ty = "Text" /\ h.encoding = Raw -> DecodeTextRaw(data, h.rows, present)
                     [] h.ty = "Text" /\ h.encoding = Dict -> DecodeTextDict(data, h.rows, present)
                     [] OTHER -> {}
    BY <1>2 DEF ReadRows
  <2>2. Raw # Dict
    BY DEF Raw, Dict
  <2> HIDE DEF area, bm, present, data
  <2>3. CASE h.ty = "Int" /\ h.encoding = Raw
    BY <2>1, <2>3
  <2>4. CASE h.ty = "Text" /\ h.encoding = Raw
    BY <2>1, <2>4
  <2>5. CASE h.ty = "Text" /\ h.encoding = Dict
    BY <2>1, <2>2, <2>5
  <2>6. CASE ~ (h.ty = "Int" /\ h.encoding = Raw) /\ ~ (h.ty = "Text" /\ h.encoding = Raw)
             /\ ~ (h.ty = "Text" /\ h.encoding = Dict)
    BY <2>1, <2>6
  <2> QED  BY <2>3, <2>4, <2>5, <2>6
<1>10. data \in Seq(Byte)
  <2> HIDE DEF area, bm
  <2>1. bm <= Len(area)
    BY <1>7, <1>8, <1>9
  <2> QED  BY <1>7, <1>8, <2>1, FromType
<1> HIDE DEF area, bm, present, data
<1>11. RowsTyped(q, h.rows, h.ty)
  BY <1>6, <1>9, <1>10, IntsTyped, RawTextsTyped, DictTextsTyped
<1>12. r.header = h /\ r.rows = q
  BY <1>2
<1> QED  BY <1>11, <1>12

(* One byte of a `.col` changed: an Err, or rows as many as its header     *)
(* says, of the type it says.                                              *)
THEOREM DamageIsTyped == Spec => []ReadIsTyped
<1>1. FileInv => ReadIsTyped
  <2> SUFFICES ASSUME FileInv, IsColumn, NEW i \in DOMAIN image, NEW b \in Byte \ {image[i]},
                      NEW r \in ReadColumn([image EXCEPT ![i] = b])
               PROVE  RowsTyped(r.rows, r.header.rows, r.header.ty)
    BY DEF ReadIsTyped, RowsTyped
  <2>1. kind \in {"Int", "Text"} /\ values \in Seq(Storing(kind)) /\ image \in EncodeColumn(kind, values, marked)
    BY DEF FileInv, IsColumn
  <2>2. PICK encoding, data : IsImage(image, kind, values, marked, encoding, data)
    BY <2>1, Encoded
  <2>3. image \in Seq(Byte)
    BY <2>1, <2>2, ReadBack
  <2>4. [image EXCEPT ![i] = b] \in Seq(Byte)
    BY <2>3
  <2> QED  BY <2>4, AnyReadIsTyped
<1> QED  BY <1>1, FileInvariance, PTL

---------------------------------------------------------------------------
(* The size of a file *)

(* One cell per byte of each of several texts, under names of their own.    *)
Apart(tag, n) == \A i, j \in 1 .. n : tag[i] = tag[j] => i = j
CellsOf(tag, texts) == UNION {{tag[i]} \X DOMAIN texts[i] : i \in 1 .. Len(texts)}

(* There are as many cells as bytes in the texts one behind the other.     *)
LEMMA Cells ==
    ASSUME NEW X, NEW pieces \in Seq(Seq(X)), NEW tag, Apart(tag, Len(pieces))
    PROVE  Cardinality(CellsOf(tag, pieces)) = Len(FlattenSeq(pieces))
<1> DEFINE n == Len(pieces)
<1> DEFINE s == FlattenSeq(pieces)
<1> DEFINE cells(i) == {tag[i]} \X (1 .. Len(pieces[i]))
<1> DEFINE C(k) == UNION {cells(i) : i \in 1 .. k}
<1>1. n \in Nat /\ \A i \in 1 .. n : DOMAIN pieces[i] = 1 .. Len(pieces[i]) /\ Len(pieces[i]) \in Nat
  <2>1. \A i \in 1 .. n : pieces[i] \in Seq(X)
    OBVIOUS
  <2> QED  BY <2>1
<1>2. PICK e : Ends(e, pieces, s)
  BY FlattenParts
<1> HIDE DEF s
<1>3. /\ e \in [0 .. n -> Nat] /\ e[0] = 0
      /\ \A i \in 1 .. n : e[i] = e[i - 1] + Len(pieces[i])
      /\ Len(s) = e[n]
  BY <1>2 DEF Ends
<1>4. CellsOf(tag, pieces) = C(n)
  BY <1>1 DEF CellsOf
<1>5. \A i, j \in 1 .. n : tag[i] = tag[j] => i = j
  BY DEF Apart
<1> HIDE DEF n
<1>6. ASSUME NEW i \in 1 .. n
      PROVE  IsFiniteSet(cells(i)) /\ Cardinality(cells(i)) = Len(pieces[i])
  <2> DEFINE m == Len(pieces[i])
  <2>1. m \in Nat
    BY <1>1
  <2> HIDE DEF m
  <2>2. IsFiniteSet(1 .. m) /\ Cardinality(1 .. m) = m
    <3>1. 1 \in Int /\ m \in Int
      BY <2>1
    <3>2. IsFiniteSet(1 .. m) /\ Cardinality(1 .. m) = IF 1 > m THEN 0 ELSE m - 1 + 1
      BY <3>1, FS_Interval
    <3> QED  BY <2>1, <3>2
  <2>3. IsFiniteSet({tag[i]}) /\ Cardinality({tag[i]}) = 1
    BY FS_Singleton
  <2>4. /\ IsFiniteSet({tag[i]} \X (1 .. m))
        /\ Cardinality({tag[i]} \X (1 .. m)) = Cardinality({tag[i]}) * Cardinality(1 .. m)
    BY <2>2, <2>3, FS_Product
  <2> QED  BY <2>1, <2>2, <2>3, <2>4 DEF m
<1>7. \A i, j \in 1 .. n : i # j => cells(i) \cap cells(j) = {}
  BY <1>5
<1>8. ASSUME NEW k \in 1 .. n
      PROVE  C(k) = C(k - 1) \cup cells(k) /\ C(k - 1) \cap cells(k) = {}
  <2>1. 1 .. k = (1 .. k - 1) \cup {k} /\ k \notin 1 .. k - 1 /\ 1 .. k - 1 \subseteq 1 .. n
    BY <1>1
  <2> HIDE DEF cells
  <2>2. C(k) = C(k - 1) \cup cells(k)
    BY <2>1
  <2>3. C(k - 1) \cap cells(k) = {}
    BY <1>7, <2>1
  <2> QED  BY <2>2, <2>3
<1>9. C(0) = {}
  OBVIOUS
<1> HIDE DEF C, cells
<1> DEFINE T == {k \in 0 .. n : IsFiniteSet(C(k)) /\ Cardinality(C(k)) = e[k]}
<1>10. 0 \in T
  <2>1. IsFiniteSet(C(0)) /\ Cardinality(C(0)) = 0
    BY <1>9, FS_EmptySet
  <2>2. 0 \in 0 .. n
    BY <1>1
  <2> QED  BY <1>3, <2>1, <2>2
<1>11. ASSUME NEW k \in 1 .. n, k - 1 \in T PROVE k \in T
  <2>1. k - 1 \in 0 .. n /\ k \in 0 .. n /\ e[k - 1] \in Nat
    BY <1>1, <1>3
  <2> DEFINE a == C(k - 1)
  <2> DEFINE c == cells(k)
  <2>2. C(k) = a \cup c /\ a \cap c = {}
    BY <1>8
  <2>3. /\ IsFiniteSet(a) /\ Cardinality(a) = e[k - 1]
        /\ IsFiniteSet(c) /\ Cardinality(c) = Len(pieces[k]) /\ Len(pieces[k]) \in Nat
    BY <1>1, <1>6, <1>11
  <2> HIDE DEF a, c
  <2>4. /\ IsFiniteSet(a \cup c)
        /\ Cardinality(a \cup c) = Cardinality(a) + Cardinality(c) - Cardinality(a \cap c)
    BY <2>3, FS_Union
  <2>5. Cardinality(a \cap c) = 0
    BY <2>2, FS_EmptySet
  <2>6. Cardinality(a \cup c) = e[k - 1] + Len(pieces[k])
    BY ONLY <2>1, <2>3, <2>4, <2>5
  <2>7. IsFiniteSet(C(k)) /\ Cardinality(C(k)) = e[k]
    BY <1>3, <2>2, <2>4, <2>6
  <2> QED  BY <2>1, <2>7
<1>12. \A k \in 1 .. n : k - 1 \in T => k \in T
  BY <1>11
<1> HIDE DEF T
<1>13. \A k \in 0 .. n : k \in T
  BY <1>1, <1>10, <1>12, Rounds
<1>14. Cardinality(C(n)) = e[n]
  BY <1>1, <1>13 DEF T
<1> QED  BY <1>3, <1>4, <1>14 DEF n, s

(* The bytes of the texts of a column, NULLs left out.                     *)
LEMMA RawBytes ==
    ASSUME NEW column \in Seq(Storing("Text"))
    PROVE  BytesOf([o \in Present(column) |-> column[o + 1]]) = Size(Texts(column))
<1> DEFINE n == Len(column)
<1> DEFINE texts == Texts(column)
<1> DEFINE f == [o \in Present(column) |-> column[o + 1]]
<1> DEFINE key == [i \in 1 .. n |-> i - 1]
<1>1. n \in Nat
  OBVIOUS
<1>2. /\ texts \in Seq(Seq(Byte)) /\ Len(texts) = n
      /\ \A i \in 1 .. n : column[i] # Null => texts[i] = column[i]
  BY TextsAre
<1>3. \A i \in 1 .. n : column[i] = Null => texts[i] = <<>>
  <2>1. DOMAIN column = 1 .. n
    OBVIOUS
  <2> QED  BY <2>1 DEF Texts
<1> HIDE DEF texts
<1>4. Apart(key, Len(texts))
  BY <1>1, <1>2 DEF Apart
<1>5. Cardinality(UNION {{key[i]} \X DOMAIN texts[i] : i \in 1 .. n}) = Size(texts)
  <2> HIDE DEF key, n
  <2>1. Cardinality(CellsOf(key, texts)) = Len(FlattenSeq(texts))
    <3>1. texts \in Seq(Seq(Byte))
      BY <1>2
    <3> QED  BY ONLY <3>1, <1>4, Cells
  <2> QED  BY <1>2, <2>1 DEF Size, CellsOf
<1>6. UNION {{key[i]} \X DOMAIN texts[i] : i \in 1 .. n} = UNION {{x} \X DOMAIN f[x] : x \in DOMAIN f}
  <2>1. DOMAIN f = Present(column)
    OBVIOUS
  <2>2. \A i \in 1 .. n : column[i] # Null =>
            /\ i - 1 \in DOMAIN f /\ {key[i]} \X DOMAIN texts[i] = {i - 1} \X DOMAIN f[i - 1]
    <3> SUFFICES ASSUME NEW i \in 1 .. n, column[i] # Null
                 PROVE  /\ i - 1 \in DOMAIN f
                        /\ {key[i]} \X DOMAIN texts[i] = {i - 1} \X DOMAIN f[i - 1]
      OBVIOUS
    <3>1. i - 1 \in 0 .. n - 1 /\ (i - 1) + 1 = i
      BY <1>1
    <3>2. i - 1 \in Present(column) /\ f[i - 1] = column[i]
      BY <3>1 DEF Present
    <3> QED  BY <1>2, <2>1, <3>2
  <2>3. \A i \in 1 .. n : column[i] = Null => {key[i]} \X DOMAIN texts[i] = {}
    BY <1>3
  <2>4. \A x \in DOMAIN f : x + 1 \in 1 .. n /\ (x + 1) - 1 = x /\ column[x + 1] # Null
    BY <1>1, <2>1 DEF Present
  <2>5. \A x \in DOMAIN f : {key[x + 1]} \X DOMAIN texts[x + 1] = {x} \X DOMAIN f[x]
    BY <2>2, <2>4
  <2> DEFINE a(i) == {key[i]} \X DOMAIN texts[i]
  <2> DEFINE b(x) == {x} \X DOMAIN f[x]
  <2> HIDE DEF f, key
  <2>6. /\ \A i \in 1 .. n : column[i] # Null => i - 1 \in DOMAIN f /\ a(i) = b(i - 1)
        /\ \A i \in 1 .. n : column[i] = Null => a(i) = {}
        /\ \A x \in DOMAIN f : x + 1 \in 1 .. n /\ a(x + 1) = b(x)
    BY <2>2, <2>3, <2>4, <2>5
  <2> HIDE DEF a, b, n
  <2>7. UNION {a(i) : i \in 1 .. n} \subseteq UNION {b(x) : x \in DOMAIN f}
    <3> SUFFICES ASSUME NEW i \in 1 .. n, NEW c \in a(i) PROVE \E x \in DOMAIN f : c \in b(x)
      OBVIOUS
    <3>1. column[i] # Null
      BY <2>6
    <3> QED  BY <2>6, <3>1
  <2>8. UNION {b(x) : x \in DOMAIN f} \subseteq UNION {a(i) : i \in 1 .. n}
    <3> SUFFICES ASSUME NEW x \in DOMAIN f, NEW c \in b(x) PROVE \E i \in 1 .. n : c \in a(i)
      OBVIOUS
    <3> QED  BY <2>6
  <2>9. UNION {a(i) : i \in 1 .. n} = UNION {b(x) : x \in DOMAIN f}
    BY <2>7, <2>8
  <2> QED  BY <2>9 DEF a, b
<1> QED  BY <1>5, <1>6 DEF BytesOf, texts

(* The entries of a dictionary and their bytes.                            *)
LEMMA DictBytes ==
    ASSUME NEW dict \in Seq(Strings), \A i, j \in DOMAIN dict : dict[i] = dict[j] => i = j
    PROVE  /\ Cardinality(ToSet(dict)) = Len(dict)
           /\ BytesOf([t \in ToSet(dict) |-> t]) = Size(dict)
<1> DEFINE n == Len(dict)
<1>1. n \in Nat /\ DOMAIN dict = 1 .. n /\ dict = [i \in 1 .. n |-> dict[i]]
  OBVIOUS
<1>2. dict \in Seq(Seq(Byte))
  <2>1. \A k \in 1 .. n : dict[k] \in Seq(Byte)
    BY FileAssumption
  <2> QED  BY <1>1, <2>1
<1>3. \A i, j \in 1 .. n : dict[i] = dict[j] => i = j
  BY <1>1
<1>4. ToSet(dict) = {dict[i] : i \in 1 .. n}
  BY <1>1 DEF ToSet
<1>5. Cardinality(ToSet(dict)) = n
  <2>1. dict \in [1 .. n -> ToSet(dict)]
    BY <1>1, <1>4
  <2>2. dict \in Bijection(1 .. n, ToSet(dict))
    BY <1>3, <1>4, <2>1 DEF Bijection, Injection, Surjection, IsInjective
  <2>3. ExistsBijection(1 .. n, ToSet(dict))
    BY <2>2 DEF ExistsBijection
  <2> QED  BY <1>1, <2>3, FS_CountingElements
<1>6. Cardinality(UNION {{dict[i]} \X DOMAIN dict[i] : i \in 1 .. n}) = Size(dict)
  <2>1. Apart(dict, Len(dict))
    BY <1>3 DEF Apart
  <2>2. Cardinality(CellsOf(dict, dict)) = Len(FlattenSeq(dict))
    BY ONLY <1>2, <2>1, Cells
  <2> QED  BY <2>2 DEF Size, CellsOf
<1> DEFINE f == [t \in ToSet(dict) |-> t]
<1>7. UNION {{x} \X DOMAIN f[x] : x \in DOMAIN f} = UNION {{dict[i]} \X DOMAIN dict[i] : i \in 1 .. n}
  <2>1. {{x} \X DOMAIN f[x] : x \in DOMAIN f} = {{x} \X DOMAIN x : x \in ToSet(dict)}
    OBVIOUS
  <2>2. {{x} \X DOMAIN x : x \in ToSet(dict)} = {{dict[i]} \X DOMAIN dict[i] : i \in 1 .. n}
    BY <1>4
  <2> QED  BY <2>1, <2>2
<1> QED  BY <1>5, <1>6, <1>7 DEF BytesOf

(* encode_text chose the smaller layout, and every byte of the file is one *)
(* of the header, the presence bitmap or that layout.                      *)
THEOREM LayoutIsSmallest == Spec => []SmallestLayout
<1>1. FileInv => SmallestLayout
  <2> SUFFICES ASSUME FileInv, kind = "Text" PROVE SmallestLayout
    BY DEF SmallestLayout
  <2>1. values \in Seq(Storing("Text")) /\ image \in EncodeColumn("Text", values, marked)
    BY DEF FileInv, IsColumn
  <2>2. PICK encoding, data : IsImage(image, "Text", values, marked, encoding, data)
    BY <2>1, Encoded
  <2>3. IsArea("Text", encoding, data, values)
    BY <2>2 DEF IsImage
  <2>4. /\ Len(data) = IF DictSize(values) < RawSize(values)
                       THEN DictSize(values) ELSE RawSize(values)
        /\ encoding = Dict <=> DictSize(values) < RawSize(values)
    BY <2>3 DEF IsArea
  <2>5. Len(image) = HeaderSize + Len(PresenceBytes(values)) + Len(data)
    BY <2>1, <2>2, ReadBack
  <2>6. PICK h : ParseHeader(image) = {h} /\ h.encoding = encoding
    <3> DEFINE range == IF "Text" = "Int" THEN IntRange(values, marked) ELSE NoRange
    <3>1. PICK h : /\ ParseHeader(image) = {h}
                   /\ ReadColumn(image) = {[header |-> h, rows |-> values]}
                   /\ Says(h, "Text", encoding, Len(values), Cardinality(Nulls(values)), range)
      BY <2>1, <2>2, ReadBack
    <3> QED  BY <3>1 DEF Says
  <2>7. Len(PresenceBytes(values)) = IF Nulls(values) # {} THEN CeilDiv(Len(values)) ELSE 0
    BY <2>1, PresenceWritten
  <2> DEFINE texts == ToSet(values) \ {Null}
  <2> DEFINE raw == U32Bytes * Len(values) + BytesOf([o \in Present(values) |-> values[o + 1]])
  <2> DEFINE dict == U32Bytes * (1 + Cardinality(texts) + Len(values)) + BytesOf([t \in texts |-> t])
  <2> DEFINE entries == DictTexts(values)
  <2>8. U32Bytes \in Nat /\ Len(values) \in Nat
    BY <2>1, WidthFacts
  <2>9. raw = RawSize(values)
    <3>1. BytesOf([o \in Present(values) |-> values[o + 1]]) = Size(Texts(values))
      BY <2>1, RawBytes
    <3>2. U32Bytes * Len(values) = Len(values) * U32Bytes
      BY <2>8
    <3> QED  BY <3>1, <3>2 DEF RawSize
  <2>10. dict = DictSize(values)
    <3>1. /\ entries \in Seq(Strings) /\ ToSet(entries) = texts
          /\ \A i, j \in DOMAIN entries : entries[i] = entries[j] => i = j
      BY <2>1, DictIs DEF IsDictOf
    <3> HIDE DEF entries
    <3>2. Cardinality(texts) = Len(entries) /\ BytesOf([t \in texts |-> t]) = Size(entries)
      BY <3>1, DictBytes
    <3>3. DictSize(values) = U32Bytes + Len(entries) * U32Bytes + Size(entries) + Len(values) * U32Bytes
      BY DEF DictSize, entries
    <3>4. Size(entries) \in Nat /\ Len(entries) \in Nat
      <4>1. entries \in Seq(Seq(Byte))
        <5>1. \A k \in 1 .. Len(entries) : entries[k] \in Seq(Byte)
          BY <3>1, FileAssumption
        <5> QED  BY <3>1, <5>1
      <4>2. FlattenSeq(entries) \in Seq(Byte)
        BY <4>1, FlattenParts
      <4> QED  BY <3>1, <4>2 DEF Size
    <3> DEFINE a == Len(entries) * U32Bytes
    <3> DEFINE b == Len(values) * U32Bytes
    <3>5. U32Bytes * (1 + Len(entries) + Len(values)) = U32Bytes + a + b /\ a \in Nat /\ b \in Nat
      BY <2>8, <3>4
    <3>6. DictSize(values) = U32Bytes + a + Size(entries) + b
      BY <3>3
    <3>7. dict = (U32Bytes + a + b) + Size(entries)
      BY <3>2, <3>5
    <3> HIDE DEF a, b, dict, texts
    <3> QED  BY <2>8, <3>4, <3>5, <3>6, <3>7
  <2> HIDE DEF texts, raw, dict
  <2>11. Len(image) = HeaderSize + (IF Nulls(values) = {} THEN 0 ELSE CeilDiv(Len(values)))
                         + (IF dict < raw THEN dict ELSE raw)
    BY <2>4, <2>5, <2>7, <2>9, <2>10
  <2>12. \A g \in ParseHeader(image) : g.encoding = Dict <=> dict < raw
    BY <2>4, <2>6, <2>9, <2>10
  <2> QED  BY <2>11, <2>12 DEF SmallestLayout, texts, raw, dict
<1> QED  BY <1>1, FileInvariance, PTL

---------------------------------------------------------------------------
(* The checksum *)

(* Differences of bits, of any length: a set of positions.  A burst is one *)
(* whose positions lie within 32 consecutive ones.                         *)
Wide == SUBSET Nat
Register == SUBSET (0 .. 31)
Burst(x) == x # {} /\ \E j \in Nat : x \subseteq j .. j + 31

(* The bits after one turn.                                                *)
LEMMA TurnMember ==
    ASSUME NEW x \in Wide
    PROVE  /\ Turn(x) \in Wide
           /\ \A b \in Nat :
                 b \in Turn(x) <=> \/ b + 1 \in x /\ ~ (0 \in x /\ b \in Polynomial)
                                   \/ b + 1 \notin x /\ 0 \in x /\ b \in Polynomial
<1>1. Polynomial \in Wide
  BY DEF Polynomial, Wide
<1>2. Shifted(x) \in Wide /\ \A b \in Nat : b \in Shifted(x) <=> b + 1 \in x
  <2>1. ASSUME NEW b \in Shifted(x) PROVE b \in Nat
    BY DEF Shifted, Wide
  <2>2. ASSUME NEW b \in Nat, b \in Shifted(x) PROVE b + 1 \in x
    BY <2>2 DEF Shifted, Wide
  <2>3. ASSUME NEW b \in Nat, b + 1 \in x PROVE b \in Shifted(x)
    <3>1. b + 1 \in x \ {0} /\ (b + 1) - 1 = b
      BY <2>3
    <3> QED  BY <3>1 DEF Shifted
  <2> QED  BY <2>1, <2>2, <2>3 DEF Wide
<1>3. Turn(x) = IF 0 \in x THEN SymDiff(Shifted(x), Polynomial) ELSE Shifted(x)
  BY DEF Turn
<1> DEFINE s == Shifted(x)
<1> HIDE DEF s
<1>4. CASE 0 \in x
  <2>1. Turn(x) = (s \ Polynomial) \cup (Polynomial \ s)
    BY <1>3, <1>4 DEF SymDiff, s
  <2> QED  BY <1>1, <1>2, <1>4, <2>1 DEF s, Wide
<1>5. CASE 0 \notin x
  BY <1>2, <1>3, <1>5
<1> QED  BY <1>4, <1>5

(* A turn is linear; it shifts bits that are not yet its turn; it keeps a  *)
(* register one; and it makes a burst a burst.                             *)
Facts(x, y, fx, fy, fxy, k) ==
    /\ fx \in Wide /\ fxy = SymDiff(fx, fy)
    /\ (\A b \in x : b >= k) => \A b \in Nat : b \in fx <=> b + k \in x
    /\ x \in Register => fx \in Register
    /\ Burst(x) => Burst(fx)

(* The difference of two differences.                                      *)
LEMMA WideDiff ==
    ASSUME NEW x \in Wide, NEW y \in Wide
    PROVE  SymDiff(x, y) \in Wide
  BY DEF Wide, SymDiff

(* One turn.                                                               *)
LEMMA TurnFacts ==
    ASSUME NEW x \in Wide, NEW y \in Wide
    PROVE  Facts(x, y, Turn(x), Turn(y), Turn(SymDiff(x, y)), 1)
<1> DEFINE z == SymDiff(x, y)
<1>1. z \in Wide /\ \A b : b \in z <=> (b \in x /\ b \notin y) \/ (b \notin x /\ b \in y)
  BY WideDiff DEF SymDiff
<1> HIDE DEF z
<1>2. Turn(x) \in Wide /\ Turn(y) \in Wide /\ Turn(z) \in Wide
  BY <1>1, TurnMember
<1>3. ASSUME NEW b \in Nat
      PROVE  b \in Turn(z) <=> (b \in Turn(x) /\ b \notin Turn(y)) \/ (b \notin Turn(x) /\ b \in Turn(y))
  <2>1. /\ b \in Turn(x) <=> \/ b + 1 \in x /\ ~ (0 \in x /\ b \in Polynomial)
                             \/ b + 1 \notin x /\ 0 \in x /\ b \in Polynomial
        /\ b \in Turn(y) <=> \/ b + 1 \in y /\ ~ (0 \in y /\ b \in Polynomial)
                             \/ b + 1 \notin y /\ 0 \in y /\ b \in Polynomial
        /\ b \in Turn(z) <=> \/ b + 1 \in z /\ ~ (0 \in z /\ b \in Polynomial)
                             \/ b + 1 \notin z /\ 0 \in z /\ b \in Polynomial
    BY <1>1, TurnMember
  <2>2. /\ b + 1 \in z <=> (b + 1 \in x /\ b + 1 \notin y) \/ (b + 1 \notin x /\ b + 1 \in y)
        /\ 0 \in z <=> (0 \in x /\ 0 \notin y) \/ (0 \notin x /\ 0 \in y)
    BY <1>1
  <2> QED  BY <2>1, <2>2
<1>4. Turn(z) = SymDiff(Turn(x), Turn(y))
  <2> DEFINE tx == Turn(x)
  <2> DEFINE ty == Turn(y)
  <2> DEFINE tz == Turn(z)
  <2>1. tx \in Wide /\ ty \in Wide /\ tz \in Wide
    BY <1>2
  <2>2. \A b \in Nat : b \in tz <=> (b \in tx /\ b \notin ty) \/ (b \notin tx /\ b \in ty)
    BY <1>3
  <2> HIDE DEF tx, ty, tz
  <2>3. tz = (tx \ ty) \cup (ty \ tx)
    BY <2>1, <2>2 DEF Wide
  <2> QED  BY <2>3 DEF SymDiff, tx, ty, tz
<1>5. ASSUME \A b \in x : b >= 1 PROVE \A b \in Nat : b \in Turn(x) <=> b + 1 \in x
  <2>1. 0 \notin x
    BY <1>5
  <2> QED  BY <2>1, TurnMember
<1>6. \A b \in Polynomial : b \in 0 .. 31
  BY DEF Polynomial
<1>7. ASSUME x \in Register PROVE Turn(x) \in Register
  <2>1. \A b \in Turn(x) : b \in Nat /\ (b + 1 \in x \/ b \in Polynomial)
    BY <1>2, TurnMember DEF Wide
  <2>2. \A b \in Turn(x) : b \in 0 .. 31
    BY <1>6, <1>7, <2>1 DEF Register
  <2> QED  BY <2>2 DEF Register
<1>8. ASSUME Burst(x) PROVE Burst(Turn(x))
  <2>1. PICK j \in Nat : x \subseteq j .. j + 31
    BY <1>8 DEF Burst
  <2>2. x # {}
    BY <1>8 DEF Burst
  <2>3. CASE 0 \in x
    <3>1. x \in Register
      <4>1. j = 0
        BY <2>1, <2>3
      <4> QED  BY <2>1, <4>1 DEF Register
    <3>2. 31 + 1 \notin x /\ 31 \in Polynomial /\ 31 \in Nat
      BY <3>1 DEF Register, Polynomial
    <3>3. 31 \in Turn(x)
      BY <2>3, <3>2, TurnMember
    <3>4. Turn(x) \subseteq 0 .. 0 + 31
      BY <1>7, <3>1 DEF Register
    <3> QED  BY <3>3, <3>4 DEF Burst
  <2>4. CASE 0 \notin x
    <3>1. \A b \in Nat : b \in Turn(x) <=> b + 1 \in x
      BY <2>4, TurnMember
    <3>2. PICK a \in x : a \in Nat /\ a # 0
      BY <2>2, <2>4 DEF Wide
    <3>3. a - 1 \in Nat /\ (a - 1) + 1 = a
      BY <3>2
    <3>4. a - 1 \in Turn(x)
      BY <3>1, <3>2, <3>3
    <3>5. \A b \in Turn(x) : b \in Nat /\ b + 1 \in j .. j + 31
      BY <1>2, <2>1, <3>1 DEF Wide
    <3>6. CASE j = 0
      <4>1. Turn(x) \subseteq 0 .. 0 + 31
        BY <3>5, <3>6
      <4> QED  BY <3>4, <4>1 DEF Burst
    <3>7. CASE j # 0
      <4>1. j - 1 \in Nat /\ Turn(x) \subseteq (j - 1) .. (j - 1) + 31
        BY <2>1, <3>5, <3>7
      <4> QED  BY <3>4, <4>1 DEF Burst
    <3> QED  BY <3>6, <3>7
  <2> QED  BY <2>3, <2>4
<1> QED  BY <1>2, <1>4, <1>5, <1>7, <1>8 DEF Facts, z

(* Two steps with these facts, one after the other.                        *)
LEMMA FactsCompose ==
    ASSUME NEW x \in Wide, NEW y \in Wide, NEW fx \in Wide, NEW fy \in Wide, NEW fxy,
           NEW gx, NEW gy, NEW gxy, NEW k \in Nat,
           Facts(x, y, fx, fy, fxy, k), Facts(fx, fy, gx, gy, gxy, k)
    PROVE  Facts(x, y, gx, gy, gxy, k + k)
<1>1. gx \in Wide /\ gxy = SymDiff(gx, gy)
  BY DEF Facts
<1>2. x \in Register => gx \in Register
  BY DEF Facts
<1>3. Burst(x) => Burst(gx)
  BY DEF Facts
<1>4. ASSUME \A b \in x : b >= k + k PROVE \A b \in Nat : b \in gx <=> b + (k + k) \in x
  <2>1. \A b \in x : b \in Nat /\ b >= k
    BY <1>4 DEF Wide
  <2>2. \A b \in Nat : b \in fx <=> b + k \in x
    BY <2>1 DEF Facts
  <2>3. \A b \in fx : b \in Nat /\ b >= k
    <3> SUFFICES ASSUME NEW b \in fx PROVE b \in Nat /\ b >= k
      OBVIOUS
    <3>1. b \in Nat /\ b + k \in x
      BY <2>2 DEF Wide
    <3>2. b + k >= k + k
      BY <1>4, <3>1
    <3> QED  BY <3>1, <3>2
  <2>4. \A b \in Nat : b \in gx <=> b + k \in fx
    BY <2>3 DEF Facts
  <2>5. ASSUME NEW b \in Nat PROVE b \in gx <=> b + (k + k) \in x
    <3>1. b + k \in Nat /\ (b + k) + k = b + (k + k)
      OBVIOUS
    <3> QED  BY <2>2, <2>4, <3>1
  <2> QED  BY <2>5
<1> QED  BY <1>1, <1>2, <1>3, <1>4 DEF Facts

(* The eight turns of the inner loop.                                      *)
Two(x) == Turn(Turn(x))
Four(x) == Two(Two(x))
Turns(x) == Four(Four(x))

(* A byte is taken in and turned over.                                     *)
LEMMA AddByteIs ==
    ASSUME NEW crc, NEW byte
    PROVE  AddByte(crc, byte) = Turns(SymDiff(crc, byte))
  BY DEF AddByte, Turns, Four, Two

(* The eight turns together.                                               *)
LEMMA TurnsFacts ==
    ASSUME NEW x \in Wide, NEW y \in Wide
    PROVE  Facts(x, y, Turns(x), Turns(y), Turns(SymDiff(x, y)), 8)
<1>0. 1 \in Nat /\ 2 \in Nat /\ 4 \in Nat /\ 1 + 1 = 2 /\ 2 + 2 = 4 /\ 4 + 4 = 8
  OBVIOUS
<1>1. ASSUME NEW u \in Wide, NEW v \in Wide
      PROVE  /\ Two(u) \in Wide /\ Two(v) \in Wide
             /\ Facts(u, v, Two(u), Two(v), Two(SymDiff(u, v)), 2)
  <2>1. Facts(u, v, Turn(u), Turn(v), Turn(SymDiff(u, v)), 1) /\ Turn(u) \in Wide /\ Turn(v) \in Wide
    BY TurnFacts, TurnMember
  <2>2. Turn(SymDiff(u, v)) = SymDiff(Turn(u), Turn(v))
    BY <2>1 DEF Facts
  <2>3. Facts(Turn(u), Turn(v), Two(u), Two(v), Two(SymDiff(u, v)), 1)
    BY <2>1, <2>2, TurnFacts DEF Two
  <2>4. Two(u) \in Wide /\ Two(v) \in Wide
    BY <2>1, TurnMember DEF Two
  <2>5. Facts(u, v, Two(u), Two(v), Two(SymDiff(u, v)), 1 + 1)
    BY <1>0, <2>1, <2>3, <2>4, FactsCompose
  <2> QED  BY <1>0, <2>4, <2>5
<1>2. ASSUME NEW u \in Wide, NEW v \in Wide
      PROVE  /\ Four(u) \in Wide /\ Four(v) \in Wide
             /\ Facts(u, v, Four(u), Four(v), Four(SymDiff(u, v)), 4)
  <2>1. Facts(u, v, Two(u), Two(v), Two(SymDiff(u, v)), 2) /\ Two(u) \in Wide /\ Two(v) \in Wide
    BY <1>1
  <2>2. Two(SymDiff(u, v)) = SymDiff(Two(u), Two(v))
    BY <2>1 DEF Facts
  <2>3. /\ Four(u) \in Wide /\ Four(v) \in Wide
        /\ Facts(Two(u), Two(v), Four(u), Four(v), Four(SymDiff(u, v)), 2)
    BY <1>1, <2>1, <2>2 DEF Four
  <2>4. Facts(u, v, Four(u), Four(v), Four(SymDiff(u, v)), 2 + 2)
    BY <1>0, <2>1, <2>3, FactsCompose
  <2> QED  BY <1>0, <2>3, <2>4
<1>3. Facts(x, y, Four(x), Four(y), Four(SymDiff(x, y)), 4) /\ Four(x) \in Wide /\ Four(y) \in Wide
  BY <1>2
<1>4. Four(SymDiff(x, y)) = SymDiff(Four(x), Four(y))
  BY <1>3 DEF Facts
<1>5. /\ Turns(x) \in Wide /\ Turns(y) \in Wide
      /\ Facts(Four(x), Four(y), Turns(x), Turns(y), Turns(SymDiff(x, y)), 4)
  BY <1>2, <1>3, <1>4 DEF Turns
<1>6. Facts(x, y, Turns(x), Turns(y), Turns(SymDiff(x, y)), 4 + 4)
  BY <1>0, <1>3, <1>5, FactsCompose
<1> QED  BY <1>0, <1>6

(* A byte.                                                                 *)
Octet == SUBSET (0 .. 7)

(* Bytes and registers are such differences.                               *)
LEMMA OctetsAreWide == Octet \subseteq Wide /\ Register \subseteq Wide
<1>1. 0 .. 7 \subseteq Nat /\ 0 .. 31 \subseteq Nat
  OBVIOUS
<1> QED  BY <1>1 DEF Octet, Register, Wide

(* The loop over the bytes.                                                *)
LEMMA CrcLoop ==
    ASSUME NEW data \in Seq(Octet)
    PROVE  \E c \in [0 .. Len(data) -> Register] :
              /\ \A i \in 1 .. Len(data) : c[i] = AddByte(c[i - 1], data[i])
              /\ c[0] = AllOnes /\ Crc32(data) = SymDiff(c[Len(data)], AllOnes)
<1> DEFINE n == Len(data)
<1> DEFINE b(i) == data[i]
<1> DEFINE step == [a \in (1 .. n) \X Register |-> AddByte(a[2], b(a[1]))]
<1> DEFINE IsCrc(f) == f = [i \in 0 .. n |-> IF i = 0 THEN AllOnes ELSE AddByte(f[i - 1], b(i))]
<1>1. n \in Nat /\ \A i \in 1 .. n : b(i) \in Octet
  OBVIOUS
<1>2. Crc32(data) = SymDiff((CHOOSE f : IsCrc(f))[n], AllOnes)
  BY DEF Crc32
<1> HIDE DEF n, b
<1>3. ASSUME NEW x \in Register, NEW o \in Octet PROVE AddByte(x, o) \in Register
  <2>1. SymDiff(x, o) \in Register
    BY DEF SymDiff, Register, Octet
  <2>2. SymDiff(x, o) \in Wide
    BY <2>1, OctetsAreWide
  <2> DEFINE z == SymDiff(x, o)
  <2>3. Facts(z, z, Turns(z), Turns(z), Turns(SymDiff(z, z)), 8)
    BY <2>2, TurnsFacts
  <2>4. Turns(z) \in Register
    BY <2>1, <2>3 DEF Facts
  <2> QED  BY <2>4, AddByteIs
<1>4. step \in [(1 .. n) \X Register -> Register]
  BY <1>1, <1>3
<1>5. \A i \in 1 .. n : \A x \in Register : step[<<i, x>>] = AddByte(x, b(i))
  OBVIOUS
<1>6. AllOnes \in Register
  BY DEF AllOnes, Register
<1> HIDE DEF step, IsCrc
<1>7. \E q : IsRun(q, n, Register, AllOnes, step)
  BY <1>1, <1>4, <1>6, LoopRuns
<1>8. PICK q : /\ q \in [0 .. n -> Register] /\ q[0] = AllOnes
               /\ \A i \in 1 .. n : q[i] = step[<<i, q[i - 1]>>]
  BY <1>7 DEF IsRun
<1>9. ASSUME NEW i \in 1 .. n PROVE q[i] = AddByte(q[i - 1], b(i))
  <2>1. q[i] = step[<<i, q[i - 1]>>] /\ q[i - 1] \in Register
    BY <1>1, <1>8
  <2> QED  BY <2>1, <1>5
<1>10. \E g : IsCrc(g)
  <2>1. \A i \in 0 .. n : q[i] = IF i = 0 THEN AllOnes ELSE AddByte(q[i - 1], b(i))
    BY <1>1, <1>8, <1>9
  <2>2. q = [i \in 0 .. n |-> q[i]]
    BY <1>8
  <2>3. IsCrc(q)
    BY <2>1, <2>2 DEF IsCrc
  <2> QED  BY <2>3
<1> DEFINE f == CHOOSE f : IsCrc(f)
<1>11. IsCrc(f)
  BY <1>10
<1>12. Crc32(data) = SymDiff(f[n], AllOnes)
  BY <1>2
<1> HIDE DEF f
<1>13. f = [i \in 0 .. n |-> f[i]]
  BY <1>11 DEF IsCrc
<1>14. f[0] = AllOnes /\ \A i \in 1 .. n : f[i] = AddByte(f[i - 1], b(i))
  <2>1. \A i \in 0 .. n : f[i] = IF i = 0 THEN AllOnes ELSE AddByte(f[i - 1], b(i))
    BY <1>11 DEF IsCrc
  <2> QED  BY ONLY <2>1, <1>1
<1>15. f \in [0 .. n -> Register]
  <2> DEFINE T == {i \in 0 .. n : f[i] \in Register}
  <2>1. 0 \in T
    BY <1>1, <1>6, <1>14
  <2>2. ASSUME NEW i \in 1 .. n, i - 1 \in T PROVE i \in T
    BY <1>1, <1>3, <1>14, <2>2
  <2> HIDE DEF T
  <2>3. \A i \in 0 .. n : i \in T
    BY <1>1, <2>1, <2>2, Rounds
  <2>4. \A i \in 0 .. n : f[i] \in Register
    BY <2>3 DEF T
  <2> QED  BY <1>13, <2>4
<1> QED  BY <1>12, <1>14, <1>15 DEF n, b

(* The bits in which two bodies differ beyond the first i bytes, counted   *)
(* from there, in the order crc32 takes them.                              *)
DiffAt(body, other, k) == SymDiff(body[k], other[k])

Pending(body, other, i) ==
    {x \in Nat : \E k \in i + 1 .. Len(body) :
                    \E b \in DiffAt(body, other, k) : x = 8 * (k - 1 - i) + b}

(* After eight more turns the difference that is still to come is eight    *)
(* bits nearer.                                                            *)
LEMMA PendingTurns ==
    ASSUME NEW body \in Seq(Octet), NEW other \in Seq(Octet), Len(other) = Len(body),
           NEW i \in 1 .. Len(body)
    PROVE  \E Q \in Wide :
              /\ Pending(body, other, i - 1) = SymDiff(DiffAt(body, other, i), Q)
              /\ Turns(Q) = Pending(body, other, i)
<1> DEFINE n == Len(body)
<1> DEFINE D(k) == DiffAt(body, other, k)
<1>1. n \in Nat /\ i \in Nat /\ \A k \in 1 .. n : D(k) \subseteq 0 .. 7
  <2>1. \A k \in 1 .. n : body[k] \in Octet /\ other[k] \in Octet
    OBVIOUS
  <2>2. n \in Nat /\ i \in Nat
    OBVIOUS
  <2> QED  BY <2>1, <2>2 DEF DiffAt, SymDiff, Octet
<1> DEFINE Q == {x \in Nat : \E k \in i + 1 .. n : \E b \in D(k) : x = 8 * (k - i) + b}
<1> DEFINE P == Pending(body, other, i)
<1> DEFINE O == Pending(body, other, i - 1)
<1>2. \A x : x \in O <=> x \in Nat /\ \E k \in i .. n : \E b \in D(k) : x = 8 * (k - i) + b
  <2>1. \A k \in i .. n : k - 1 - (i - 1) = k - i
    BY <1>1
  <2>2. (i - 1) + 1 = i
    BY <1>1
  <2> QED  BY <2>1, <2>2 DEF Pending
<1>3. \A x : x \in P <=> x \in Nat /\ \E k \in i + 1 .. n : \E b \in D(k) : x = 8 * (k - 1 - i) + b
  BY DEF Pending
<1>4. \A x : x \in Q <=> x \in Nat /\ \E k \in i + 1 .. n : \E b \in D(k) : x = 8 * (k - i) + b
  OBVIOUS
<1>5. i .. n = {i} \cup (i + 1 .. n) /\ i \in 1 .. n
  BY <1>1
<1>6. Q \in Wide /\ P \in Wide /\ O \in Wide
  BY <1>2, <1>3 DEF Wide
<1> HIDE DEF O, P, Q, D, n
<1>7. \A k \in i + 1 .. n : \A b \in D(k) : 8 * (k - i) + b >= 8 /\ b \in 0 .. 7 /\ k \in Nat
  <2> SUFFICES ASSUME NEW k \in i + 1 .. n, NEW b \in D(k)
               PROVE  8 * (k - i) + b >= 8 /\ b \in 0 .. 7 /\ k \in Nat
    OBVIOUS
  <2>1. k \in 1 .. n /\ k \in Nat /\ k - i >= 1
    BY <1>1
  <2>2. b \in 0 .. 7
    BY <1>1, <2>1
  <2> QED  BY <1>1, <2>1, <2>2
<1>8. \A b \in Q : b >= 8
  BY <1>4, <1>7
<1>9. O = SymDiff(D(i), Q)
  <2>1. \A b \in D(i) : b \in 0 .. 7 /\ 8 * (i - i) + b = b
    BY <1>1, <1>5
  <2>2. D(i) \cap Q = {}
    BY <1>8, <2>1
  <2>3. \A x : x \in O <=> x \in D(i) \/ x \in Q
    <3>1. ASSUME NEW x \in O PROVE x \in D(i) \/ x \in Q
      <4>1. PICK k \in i .. n : \E b \in D(k) : x \in Nat /\ x = 8 * (k - i) + b
        BY <1>2
      <4>2. CASE k = i
        BY <2>1, <4>1, <4>2
      <4>3. CASE k # i
        BY <1>4, <1>5, <4>1, <4>3
      <4> QED  BY <4>2, <4>3
    <3>2. ASSUME NEW x \in D(i) PROVE x \in O
      <4>1. x \in Nat /\ x = 8 * (i - i) + x /\ i \in i .. n
        BY <1>1, <1>5, <2>1
      <4> QED  BY <1>2, <4>1
    <3>3. ASSUME NEW x \in Q PROVE x \in O
      BY <1>2, <1>4, <1>5
    <3> QED  BY <3>1, <3>2, <3>3
  <2>4. O = D(i) \cup Q
    BY <2>3
  <2> QED  BY <2>2, <2>4 DEF SymDiff
<1>10. Turns(Q) \in Wide /\ \A b \in Nat : b \in Turns(Q) <=> b + 8 \in Q
  <2>1. Facts(Q, Q, Turns(Q), Turns(Q), Turns(SymDiff(Q, Q)), 8)
    BY <1>6, TurnsFacts
  <2> QED  BY <1>8, <2>1 DEF Facts
<1>11. \A x \in Nat : x \in P <=> x + 8 \in Q
  <2> SUFFICES ASSUME NEW x \in Nat PROVE x \in P <=> x + 8 \in Q
    OBVIOUS
  <2>1. \A k \in i + 1 .. n : \A b \in D(k) : x = 8 * (k - 1 - i) + b <=> x + 8 = 8 * (k - i) + b
    <3> SUFFICES ASSUME NEW k \in i + 1 .. n, NEW b \in D(k)
                 PROVE  x = 8 * (k - 1 - i) + b <=> x + 8 = 8 * (k - i) + b
      OBVIOUS
    <3>1. b \in Int /\ k \in Int /\ i \in Int
      BY <1>1, <1>7
    <3> QED  BY <3>1
  <2>2. x + 8 \in Nat
    OBVIOUS
  <2> QED  BY <1>3, <1>4, <2>1, <2>2
<1>12. Turns(Q) = P
  <2> DEFINE t == Turns(Q)
  <2>1. t \in Wide /\ \A x \in Nat : x \in t <=> x \in P
    BY <1>10, <1>11
  <2> HIDE DEF t
  <2>2. t = P
    BY <1>6, <2>1 DEF Wide
  <2> QED  BY <2>2 DEF t
<1> QED  BY <1>6, <1>9, <1>12 DEF O, P, D

(* A body changed by a burst of at most 32 bits has another checksum       *)
(* (checksum.rs: "It catches ... all burst errors up to 32 bits").         *)
LEMMA BurstChangesCrc ==
    ASSUME NEW body \in Seq(Octet), NEW other \in Seq(Octet), Len(other) = Len(body),
           Burst(Pending(body, other, 0))
    PROVE  Crc32(other) # Crc32(body)
<1> DEFINE n == Len(body)
<1> DEFINE P(i) == Pending(body, other, i)
<1>1. PICK c \in [0 .. n -> Register] :
          /\ \A i \in 1 .. n : c[i] = AddByte(c[i - 1], body[i])
          /\ c[0] = AllOnes /\ Crc32(body) = SymDiff(c[n], AllOnes)
  BY CrcLoop
<1>2. PICK d \in [0 .. n -> Register] :
          /\ \A i \in 1 .. n : d[i] = AddByte(d[i - 1], other[i])
          /\ d[0] = AllOnes /\ Crc32(other) = SymDiff(d[n], AllOnes)
  <2>1. \E e \in [0 .. Len(other) -> Register] :
          /\ \A i \in 1 .. Len(other) : e[i] = AddByte(e[i - 1], other[i])
          /\ e[0] = AllOnes /\ Crc32(other) = SymDiff(e[Len(other)], AllOnes)
    BY CrcLoop
  <2> QED  BY <2>1
<1>3. n \in Nat /\ \A i \in 1 .. n : body[i] \in Octet /\ other[i] \in Octet
  OBVIOUS
<1>4. \A i : P(i) \in Wide
  BY DEF Pending, Wide
<1>5. Burst(P(0))
  OBVIOUS
<1> DEFINE U(i) == SymDiff(SymDiff(c[i], d[i]), P(i))
<1> DEFINE T == {i \in 0 .. n : Burst(U(i))}
<1>6. ASSUME NEW i \in 1 .. n
      PROVE  \E Q \in Wide : P(i - 1) = SymDiff(DiffAt(body, other, i), Q) /\ Turns(Q) = P(i)
  BY PendingTurns
<1> HIDE DEF n, P
<1>7. 0 \in T
  <2>1. SymDiff(c[0], d[0]) = {}
    BY <1>1, <1>2 DEF SymDiff
  <2>2. U(0) = P(0)
    BY <2>1 DEF SymDiff
  <2> HIDE DEF U
  <2> QED  BY <1>3, <1>5, <2>2
<1>8. ASSUME NEW i \in 1 .. n, i - 1 \in T PROVE i \in T
  <2>1. PICK Q \in Wide : P(i - 1) = SymDiff(DiffAt(body, other, i), Q) /\ Turns(Q) = P(i)
    BY <1>6
  <2>2. i - 1 \in 0 .. n /\ i \in 0 .. n /\ c[i - 1] \in Register /\ d[i - 1] \in Register
    BY <1>1, <1>2, <1>3
  <2> DEFINE x == SymDiff(c[i - 1], body[i])
  <2> DEFINE y == SymDiff(d[i - 1], other[i])
  <2>3. x \in Wide /\ y \in Wide
    BY <1>3, <2>2, OctetsAreWide, WideDiff
  <2>4. Turns(x) = c[i] /\ Turns(y) = d[i]
    BY <1>1, <1>2, AddByteIs
  <2>5. U(i - 1) = SymDiff(SymDiff(x, y), Q)
    BY <2>1 DEF SymDiff, DiffAt
  <2> HIDE DEF x, y
  <2> DEFINE A == SymDiff(x, y)
  <2>6. A \in Wide /\ Turns(A) = SymDiff(c[i], d[i])
    BY <2>3, <2>4, TurnsFacts, WideDiff DEF Facts
  <2> HIDE DEF A
  <2>7. Turns(SymDiff(A, Q)) = SymDiff(Turns(A), Turns(Q))
    BY <2>6, TurnsFacts DEF Facts
  <2>8. U(i) = Turns(U(i - 1))
    BY <2>1, <2>5, <2>6, <2>7 DEF A
  <2>9. U(i - 1) \in Wide
    BY <2>1, <2>5, <2>6, WideDiff DEF A
  <2>10. Burst(U(i - 1))
    BY <1>8
  <2> HIDE DEF U
  <2>11. Burst(U(i))
    <3> DEFINE u == U(i - 1)
    <3>1. Facts(u, u, Turns(u), Turns(u), Turns(SymDiff(u, u)), 8)
      BY <2>9, TurnsFacts
    <3> QED  BY <2>8, <2>10, <3>1 DEF Facts
  <2> QED  BY <2>2, <2>11
<1>9. \A i \in 1 .. n : i - 1 \in T => i \in T
  BY <1>8
<1>10. Burst(U(n))
  <2> HIDE DEF U
  <2>1. \A i \in 0 .. n : i \in T
    <3> HIDE DEF T
    <3> QED  BY <1>3, <1>7, <1>9, Rounds
  <2> QED  BY <1>3, <2>1
<1>11. P(n) = {}
  <2>1. n + 1 .. n = {}
    BY <1>3
  <2> QED  BY <2>1 DEF P, n, Pending
<1>12. SymDiff(c[n], d[n]) # {}
  BY <1>10, <1>11 DEF Burst, SymDiff
<1>13. c[n] # d[n]
  BY <1>12 DEF SymDiff
<1> QED  BY <1>1, <1>2, <1>13 DEF SymDiff

(* Different registers are written with different digits.                  *)
LEMMA DigitsTell ==
    ASSUME NEW x \in Register, NEW y \in Register, Digits8(x) = Digits8(y)
    PROVE  x = y
<1>1. ASSUME NEW z \in Register, NEW k \in 0 .. 31
      PROVE  k \in z <=> k % 4 \in Digits8(z)[8 - k \div 4]
  <2> DEFINE d == 8 - k \div 4
  <2>1. d \in 1 .. 8 /\ 4 * (8 - d) + (k % 4) = k /\ k % 4 \in 0 .. 3
    OBVIOUS
  <2> HIDE DEF d
  <2>2. Digits8(z)[d] = {bit \in 0 .. 3 : 4 * (8 - d) + bit \in z}
    BY <2>1 DEF Digits8
  <2>3. k \in z <=> k % 4 \in Digits8(z)[d]
    BY <2>1, <2>2
  <2> QED  BY <2>3 DEF d
<1>2. \A k \in 0 .. 31 : k \in x <=> k \in y
  BY <1>1
<1> QED  BY <1>2 DEF Register

(* A crc32 is a register.                                                  *)
LEMMA CrcIsRegister ==
    ASSUME NEW data \in Seq(Octet)
    PROVE  Crc32(data) \in Register
<1>1. PICK c \in [0 .. Len(data) -> Register] : Crc32(data) = SymDiff(c[Len(data)], AllOnes)
  BY CrcLoop
<1>2. c[Len(data)] \in Register
  OBVIOUS
<1> QED  BY <1>1, <1>2 DEF SymDiff, Register, AllOnes

(* "It catches ... all burst errors up to 32 bits" (checksum.rs): a TOML   *)
(* file of any length whose body was changed in any way within 32          *)
(* consecutive bits, taken byte by byte from the least significant bit,    *)
(* is refused.                                                             *)
BurstErrorsCaught ==
    kind = "Toml" =>
        \A other \in Seq(Octet) :
            Len(other) = Len(image.body) /\ Burst(Pending(image.body, other, 0))
                => Verify([image EXCEPT !.body = other]) = {}

(* The claim holds of every file the program saves.                        *)
THEOREM BurstsAreCaught == Spec => []BurstErrorsCaught
<1>1. FileInv => BurstErrorsCaught
  <2> SUFFICES ASSUME FileInv, kind = "Toml", NEW other \in Seq(Octet),
                      Len(other) = Len(image.body), Burst(Pending(image.body, other, 0))
               PROVE  Verify([image EXCEPT !.body = other]) = {}
    BY DEF BurstErrorsCaught
  <2>1. values \in Seq(Octet) /\ image = Wrap(values)
    BY FileAssumption DEF FileInv, Octet
  <2>2. image.body = values /\ image.digits = Digits8(Crc32(values))
    BY <2>1 DEF Wrap
  <2>3. Crc32(other) # Crc32(values)
    BY <2>1, <2>2, BurstChangesCrc
  <2>4. Digits8(Crc32(other)) # Digits8(Crc32(values))
    BY <2>1, <2>3, CrcIsRegister, DigitsTell
  <2> DEFINE damaged == [image EXCEPT !.body = other]
  <2>5. damaged.body = other /\ damaged.digits = Digits8(Crc32(values))
    BY <2>1, <2>2 DEF Wrap
  <2> HIDE DEF damaged
  <2>6. Verify(damaged) = {}
    BY <2>4, <2>5 DEF Verify
  <2> QED  BY <2>6 DEF damaged
<1> QED  BY <1>1, FileInvariance, PTL

(* One bit of a body of any length changed, or any character of the first  *)
(* line: the file is refused, or what it says was not changed.             *)
OneErrorCaught == kind = "Toml" => \A once \in Damaged(image) : Verify(once) \subseteq {values}

(* So does this one: a changed bit is a burst of one.                      *)
THEOREM OneErrorIsCaught == Spec => []OneErrorCaught
<1>1. FileInv /\ BurstErrorsCaught => OneErrorCaught
  <2> SUFFICES ASSUME FileInv, BurstErrorsCaught, kind = "Toml", NEW once \in Damaged(image)
               PROVE  Verify(once) \subseteq {values}
    BY DEF OneErrorCaught
  <2>1. values \in Seq(Octet) /\ image = Wrap(values)
    BY FileAssumption DEF FileInv, Octet
  <2>2. image.body = values
    BY <2>1 DEF Wrap
  <2>3. Verify(once) \subseteq {once.body}
    BY DEF Verify
  <2>4. CASE once.body = values
    BY <2>3, <2>4
  <2>5. CASE \E i \in DOMAIN image.body, bit \in 0 .. 7 :
                once = [image EXCEPT !.body[i] = SymDiff(@, {bit})]
    <3>1. PICK i \in DOMAIN image.body, bit \in 0 .. 7 :
                  once = [image EXCEPT !.body[i] = SymDiff(@, {bit})]
      BY <2>5
    <3> DEFINE other == [values EXCEPT ![i] = SymDiff(@, {bit})]
    <3>2. /\ i \in 1 .. Len(values) /\ bit \in 0 .. 7 /\ Len(values) \in Nat
          /\ values[i] \in Octet
      BY <2>1, <2>2
    <3>3. SymDiff(values[i], {bit}) \in Octet
      BY <3>2 DEF SymDiff, Octet
    <3>4. other \in Seq(Octet) /\ Len(other) = Len(values)
      BY <2>1, <3>2, <3>3
    <3>5. once = [image EXCEPT !.body = other]
      BY <2>1, <2>2, <3>1 DEF Wrap
    <3>6. other[i] = SymDiff(values[i], {bit}) /\ \A k \in 1 .. Len(values) \ {i} : other[k] = values[k]
      BY <2>1, <3>2
    <3> HIDE DEF other
    <3>7. DiffAt(values, other, i) = {bit}
      BY <3>6 DEF DiffAt, SymDiff
    <3>8. \A k \in 1 .. Len(values) \ {i} : DiffAt(values, other, k) = {}
      BY <3>6 DEF DiffAt, SymDiff
    <3> DEFINE place == 8 * (i - 1) + bit
    <3>9. place \in Nat
      BY <3>2
    <3>10. \A x : x \in Pending(values, other, 0) <=>
               x \in Nat /\ \E k \in 1 .. Len(values) : \E b \in DiffAt(values, other, k) :
                                x = 8 * (k - 1) + b
      <4>1. 0 + 1 = 1 /\ \A k \in 1 .. Len(values) : k - 1 - 0 = k - 1
        BY <3>2
      <4> QED  BY <4>1 DEF Pending
    <3>11. Pending(values, other, 0) = {place}
      <4>1. place \in Pending(values, other, 0)
        BY <3>2, <3>7, <3>9, <3>10
      <4>2. ASSUME NEW x \in Pending(values, other, 0) PROVE x = place
        <5>1. PICK k \in 1 .. Len(values) :
                  \E b \in DiffAt(values, other, k) : x = 8 * (k - 1) + b
          BY <3>10
        <5>2. k = i
          BY <3>8, <5>1
        <5> QED  BY <3>7, <5>1, <5>2
      <4> HIDE DEF place
      <4> QED  BY <4>1, <4>2
    <3> HIDE DEF place
    <3>12. Burst({place})
      <4>1. {place} # {} /\ {place} \subseteq place .. place + 31
        BY <3>9
      <4> QED  BY <3>9, <4>1 DEF Burst
    <3>13. Verify(once) = {}
      BY <2>2, <3>4, <3>5, <3>11, <3>12 DEF BurstErrorsCaught
    <3> QED  BY <3>13
  <2>6. once.body = values \/ \E i \in DOMAIN image.body, bit \in 0 .. 7 :
                once = [image EXCEPT !.body[i] = SymDiff(@, {bit})]
    <3> DEFINE digit == (SUBSET (0 .. 3)) \cup {{4}}
    <3> DEFINE flip(i, bit) == [image EXCEPT !.body[i] = SymDiff(@, {bit})]
    <3> DEFINE mark(d, c) == [image EXCEPT !.digits[d] = c]
    <3> DEFINE others == {[image EXCEPT !.newline = FALSE], [image EXCEPT !.prefix = "other"]}
    <3>1. \/ once \in {flip(i, bit) : i \in DOMAIN image.body, bit \in 0 .. 7}
          \/ once \in {mark(d, c) : d \in 1 .. 8, c \in digit}
          \/ once \in others
      BY DEF Damaged
    <3>2. \A d, c : mark(d, c).body = values
      BY <2>1 DEF Wrap
    <3>3. once \in others => once.body = values
      BY <2>1 DEF Wrap
    <3> HIDE DEF digit, mark, others
    <3>4. CASE once \in {mark(d, c) : d \in 1 .. 8, c \in digit}
      BY <3>2, <3>4
    <3>5. CASE once \in {flip(i, bit) : i \in DOMAIN image.body, bit \in 0 .. 7}
      BY <3>5
    <3> QED  BY <3>1, <3>3, <3>4, <3>5
  <2> QED  BY <2>4, <2>5, <2>6
<1> QED  BY <1>1, FileInvariance, BurstsAreCaught, PTL
============================================================================
