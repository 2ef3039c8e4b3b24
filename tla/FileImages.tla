----------------------------- MODULE FileImages -----------------------------
(***************************************************************************)
(* One file of a database as bytes: a `.col` of type INT or TEXT with the  *)
(* `deletes.bm` beside it, or a TOML file.  The actions are the rewrites   *)
(* the storage calls make of it, each through fs_atomic, so that the file  *)
(* is always one of the images encoded here; what happens to the order of  *)
(* several files is the subject of ColumnStore and Database, which take    *)
(* for granted that these bytes hold what was put into them.               *)
(*                                                                         *)
(* Damage is not an action: the properties quantify over what is left of   *)
(* the file when a disk loses its end or changes some of it.               *)
(***************************************************************************)
EXTENDS ColumnCodec, Checksum

CONSTANTS
    Ints,       \* the i64 values used
    Strings,    \* the byte sequences used as texts
    Bodies,     \* the TOML bodies used: sequences of bytes as sets of bits
    GroupSize   \* row_group_size

(* A text is UTF-8, as every Rust string is, and row_group_size a u32.     *)
ASSUME FileAssumption ==
    /\ Ints \subseteq I64
    /\ Strings \subseteq Seq(Byte) /\ \A text \in Strings : Utf8(text)
    /\ Null \notin Seq(Byte)
    /\ Bodies \subseteq Seq(SUBSET (0 .. 7))
    /\ GroupSize \in 0 .. U32Max

VARIABLES
    kind,     \* "Int", "Text" or "Toml"
    image,    \* the bytes of the file
    deletes,  \* the bytes of deletes.bm
    values,   \* what was stored: the rows, or the TOML body
    marked    \* and the offsets of the rows deleted

vars == <<kind, image, deletes, values, marked>>

IsColumn == kind \in {"Int", "Text"}
Storable == (IF kind = "Int" THEN Ints ELSE Strings) \cup {Null}

(* The offsets is_deleted holds of.                                        *)
DeletedIn(bytes) ==
    {o \in 0 .. GroupSize - 1 : \E f \in Load(bytes) : IsDeleted(f.bitmap, o)}

(* write_empty of both files; a TOML file is written when it is made.      *)
Init ==
    /\ kind \in {"Int", "Text", "Toml"}
    /\ \/ kind # "Toml" /\ image = EmptyHeader(kind) /\ values = <<>>
       \/ kind = "Toml" /\ \E body \in Bodies : image = Wrap(body) /\ values = body
    /\ deletes = EmptyDeletes(GroupSize)
    /\ marked = {}

(* insert, for one column: read, push, write.  When the column cannot be   *)
(* encoded the insert fails and the file stays.                            *)
Append1(v) ==
    /\ IsColumn
    /\ \E r \in ReadColumn(image) :
          /\ Len(r.rows) < GroupSize
          /\ image' \in EncodeColumn(kind, Append(r.rows, v), DeletedIn(deletes))
    /\ values' = Append(values, v)
    /\ UNCHANGED <<kind, deletes, marked>>

(* delete: the bit, and then an INT column again for its range.            *)
Delete(o) ==
    /\ IsColumn
    /\ o < Len(values) /\ o \notin DeletedIn(deletes)
    /\ deletes' \in MarkDeleted(deletes, o)
    /\ \/ kind = "Text" /\ UNCHANGED image
       \/ /\ kind = "Int"
          /\ \E r \in ReadColumn(image) :
                image' \in EncodeColumn(kind, r.rows, DeletedIn(deletes'))
    /\ marked' = marked \cup {o}
    /\ UNCHANGED <<kind, values>>

(* truncate_column, which recovery calls for rows that were not committed; *)
(* none of those is deleted.                                               *)
TruncateColumn(n) ==
    /\ IsColumn
    /\ n < Len(values) /\ \A o \in marked : o < n
    /\ \E r \in ReadColumn(image) :
          /\ Len(r.rows) >= n
          /\ image' \in EncodeColumn(kind, SubSeq(r.rows, 1, n), DeletedIn(deletes))
    /\ values' = SubSeq(values, 1, n)
    /\ UNCHANGED <<kind, deletes, marked>>

(* write_atomic of a TOML file.                                            *)
Save(body) ==
    /\ kind = "Toml"
    /\ image' = Wrap(body) /\ values' = body
    /\ UNCHANGED <<kind, deletes, marked>>

Next ==
    \/ \E v \in Storable : Append1(v)
    \/ \E o \in 0 .. GroupSize - 1 : Delete(o) \/ TruncateColumn(o)
    \/ \E body \in Bodies : Save(body)

Spec == Init /\ [][Next]_vars

---------------------------------------------------------------------------
(* Properties *)

(* What is read is what was stored: every row, with NULL, the empty text   *)
(* and zero apart, the range of the live ones, exactly the deleted         *)
(* offsets and their number.  This is what ColumnFiles takes the files to  *)
(* be.                                                                     *)
ColumnHolds ==
    IsColumn =>
        \E r \in ReadColumn(image) :
            /\ r.rows = values
            /\ r.header.ty = kind /\ r.header.rows = Len(values)
            /\ kind = "Int" => r.header.range = IntRange(values, marked)

DeletesHold ==
    /\ DeletedIn(deletes) = marked
    /\ \A f \in Load(deletes) : f.count = Cardinality(marked)

FilesHoldWhatWasStored ==
    /\ ColumnHolds
    /\ DeletesHold
    /\ kind = "Toml" => Verify(image) = {values}

(* "Corrupt or truncated files return Err" (column_file.rs): a `.col` that *)
(* has lost any number of bytes at its end is never read, in any layout.   *)
CutDetected ==
    IsColumn => \A n \in 0 .. Len(image) - 1 : ReadColumn(SubSeq(image, 1, n)) = {}

(* A sequence of whole characters.                                         *)
IsText(s) ==
    \A i \in DOMAIN s :
        \/ s[i] < Base - 2
        \/ s[i] = Base - 2 /\ i < Len(s) /\ s[i + 1] = Base - 1
        \/ s[i] = Base - 1 /\ i > 1 /\ s[i - 1] = Base - 2

(* A `.col` with any one byte changed is an Err or is read to its end: as  *)
(* many rows as its header says, of its type, and never a position outside *)
(* the file.  (Which values it gives is not protected by anything.)        *)
ReadIsTyped ==
    IsColumn => \A i \in DOMAIN image : \A b \in Byte \ {image[i]} :
        \A r \in ReadColumn([image EXCEPT ![i] = b]) :
            /\ Len(r.rows) = r.header.rows
            /\ \A j \in DOMAIN r.rows :
                  r.rows[j] # Null =>
                      IF r.header.ty = "Int" THEN r.rows[j] \in I64 ELSE IsText(r.rows[j])

(* A TEXT file is as small as the smaller of its two layouts, every byte   *)
(* of a text counted, and it is the dictionary only if that saves          *)
(* something.                                                              *)
BytesOf(f) == Cardinality(UNION {{x} \X DOMAIN f[x] : x \in DOMAIN f})

SmallestLayout ==
    kind = "Text" /\ values # <<>> =>
        LET texts == ToSet(values) \ {Null}
            raw == U32Bytes * Len(values) + BytesOf([o \in Present(values) |-> values[o + 1]])
            dict == U32Bytes * (1 + Cardinality(texts) + Len(values))
                        + BytesOf([t \in texts |-> t])
            bitmap == IF Nulls(values) = {} THEN 0 ELSE CeilDiv(Len(values))
        IN  /\ Len(image) = HeaderSize + bitmap + (IF dict < raw THEN dict ELSE raw)
            /\ \A h \in ParseHeader(image) : h.encoding = Dict <=> dict < raw

(* One bit of a file changed, or a character of its first line (a superset *)
(* of its one-bit changes).                                                *)
Damaged(file) ==
    {[file EXCEPT !.body[i] = SymDiff(@, {bit})] : i \in DOMAIN file.body, bit \in 0 .. 7}
        \cup {[file EXCEPT !.digits[d] = c] : d \in 1 .. 8, c \in (SUBSET (0 .. 3)) \cup {{4}}}
        \cup {[file EXCEPT !.newline = FALSE], [file EXCEPT !.prefix = "other"]}

(* "It catches all 1- and 2-bit errors" (checksum.rs): a TOML file with    *)
(* two of them is refused, or was not changed in what it says.             *)
BitErrorsCaught ==
    kind = "Toml" =>
        \A once \in Damaged(image) : \A twice \in Damaged(once) :
            Verify(twice) \subseteq {values}
=============================================================================
