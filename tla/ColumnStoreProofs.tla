------------------------- MODULE ColumnStoreProofs -------------------------
(***************************************************************************)
(* What ColumnStore guarantees for every schema, row-group size, set of    *)
(* records and bound, in three parts.                                      *)
(*                                                                         *)
(* First, IInv is inductive, and the safety properties follow.             *)
(*                                                                         *)
(* Second, the files of a table implement the abstract table of TableSpec: *)
(* each call takes effect in one or two steps, and nothing else does,      *)
(* crashes and recoveries included.                                        *)
(*                                                                         *)
(* Third, what reads rely on.  Zone maps never hide a row: the statistics  *)
(* may be loose after a crash, but they always enclose every value that is *)
(* not tombstoned.  And Storage::get answers for every rid, as long as no  *)
(* bulk_load is given more records than a row group holds (bench gen, its  *)
(* only caller, gives it one group at a time).  get has no next_rid to     *)
(* compare a rid with, so all rests on what lies in the directories past   *)
(* the last committed row: nothing, or nothing readable.                   *)
(***************************************************************************)
EXTENDS ColumnStoreInv, SequenceTheorems, WellFoundedInduction, TLAPS

-----------------------------------------------------------------------------
(* Arithmetic of rids: a rid is group * R + offset.                        *)

(* Division by R gives the group and the offset of any rid.                *)
LEMMA DivMod ==
    ASSUME NEW n \in Nat
    PROVE  /\ n \div R \in Nat
           /\ n % R \in 0 .. R - 1
           /\ n = (n \div R) * R + (n % R)
  BY SchemaAssumption, SMT

(* Group and offset are determined by the rid.                             *)
LEMMA DivUnique ==
    ASSUME NEW n \in Nat, NEW q \in Nat, NEW r \in 0 .. R - 1, n = q * R + r
    PROVE  n \div R = q /\ n % R = r
  BY SchemaAssumption, SMT

(* A whole group of rids lies between two groups.                          *)
LEMMA MulMono ==
    ASSUME NEW p \in Nat, NEW q \in Nat, p < q
    PROVE  p * R + R <= q * R
<1>1. p + 1 <= q
  OBVIOUS
<1>2. (p + 1) * R <= q * R
  BY <1>1, SchemaAssumption, SMT
<1> QED  BY <1>2, SchemaAssumption, SMT

(* A smaller rid is in the same group at a smaller offset, or in an        *)
(* earlier group.                                                          *)
LEMMA RidOrder ==
    ASSUME NEW n \in Nat, NEW m \in Nat, m < n
    PROVE  \/ m \div R < n \div R
           \/ m \div R = n \div R /\ m % R < n % R
<1>1. /\ m \div R \in Nat /\ m % R \in 0 .. R - 1 /\ m = (m \div R) * R + (m % R)
      /\ n \div R \in Nat /\ n % R \in 0 .. R - 1 /\ n = (n \div R) * R + (n % R)
  BY DivMod
<1>2. CASE n \div R < m \div R
  <2>1. (n \div R) * R + R <= (m \div R) * R
    BY <1>1, <1>2, MulMono
  <2> QED  BY <1>1, <2>1, SchemaAssumption
<1>3. CASE n \div R = m \div R
  BY <1>1, <1>3, SchemaAssumption
<1> QED  BY <1>1, <1>2, <1>3

(* Division is monotone: every rid up to the bound lies in a group.        *)
LEMMA DivLe ==
    ASSUME NEW n \in Nat, NEW m \in Nat, m <= n
    PROVE  m \div R <= n \div R
<1>1. m \div R \in Nat /\ n \div R \in Nat
  BY DivMod
<1>2. CASE m = n
  BY <1>1, <1>2
<1>3. CASE m < n
  BY <1>1, <1>3, RidOrder
<1> QED  BY <1>2, <1>3

(* The next rid: one offset further, or the first of the next group.       *)
LEMMA NextRidDiv ==
    ASSUME NEW n \in Nat
    PROVE  \/ (n % R) + 1 < R /\ (n + 1) \div R = n \div R /\ (n + 1) % R = (n % R) + 1
           \/ (n % R) + 1 = R /\ (n + 1) \div R = (n \div R) + 1 /\ (n + 1) % R = 0
<1> DEFINE q == n \div R
           r == n % R
<1>1. q \in Nat /\ r \in 0 .. R - 1 /\ n = q * R + r
  BY DivMod
<1>2. CASE r + 1 < R
  <2>1. n + 1 = q * R + (r + 1) /\ r + 1 \in 0 .. R - 1
    BY <1>1, <1>2, SchemaAssumption
  <2> HIDE DEF q, r
  <2>2. (n + 1) \div R = q /\ (n + 1) % R = r + 1
    BY <2>1, <1>1, DivUnique
  <2> QED  BY <2>2, <1>2 DEF q, r
<1>3. CASE r + 1 = R
  <2>1. n + 1 = (q + 1) * R + 0 /\ 0 \in 0 .. R - 1 /\ q + 1 \in Nat
    BY <1>1, <1>3, SchemaAssumption
  <2> HIDE DEF q, r
  <2>2. (n + 1) \div R = q + 1 /\ (n + 1) % R = 0
    BY <2>1, <1>1, DivUnique
  <2> QED  BY <2>2, <1>3 DEF q, r
<1> QED  BY <1>1, <1>2, <1>3, SchemaAssumption

-----------------------------------------------------------------------------
(* Files.                                                                  *)

(* A set of i64 values has a least and a greatest element.                 *)
LEMMA LeastExists ==
    ASSUME NEW S \in SUBSET I64, S # {}
    PROVE  \E x \in S : \A y \in S : x <= y
<1> DEFINE T == {n \in Nat : I64Min + n \in S}
<1>1. T # {}
  <2>1. PICK z \in S : TRUE
    OBVIOUS
  <2>2. z - I64Min \in T
    BY <2>1, I64Assumption DEF I64
  <2> QED  BY <2>2
<1> DEFINE Below == {ss \in Nat \X Nat : ss[1] < ss[2]}
<1>2. PICK n \in T : \A m \in T : ~ (<<m, n>> \in Below)
  <2>1. T \subseteq Nat
    OBVIOUS
  <2>2. Below = OpToRel(<, Nat)
    BY DEF OpToRel
  <2>3. IsWellFoundedOn(Below, Nat)
    BY <2>2, NatLessThanWellFounded, Zenon
  <2> HIDE DEF T, Below
  <2> QED  BY <1>1, <2>1, <2>3, WFMin
<1>3. ASSUME NEW m \in T, ~ (n <= m) PROVE FALSE
  <2>1. m \in Nat /\ n \in Nat
    OBVIOUS
  <2>2. m < n
    BY <1>3, <2>1, SMT
  <2>3. <<m, n>> \in Below
    <3> DEFINE q == <<m, n>>
    <3>1. q \in Nat \X Nat
      BY <2>1
    <3>2. q[1] < q[2]
      BY <2>2
    <3> HIDE DEF q
    <3>3. q \in Below
      BY <3>1, <3>2
    <3> QED  BY <3>3 DEF q
  <2> QED  BY <2>3, <1>2
<1>4. I64Min + n \in S
  OBVIOUS
<1>5. ASSUME NEW y \in S PROVE I64Min + n <= y
  <2>1. y - I64Min \in T
    BY I64Assumption DEF I64
  <2> QED  BY <2>1, <1>3, I64Assumption DEF I64
<1> QED  BY <1>4, <1>5

(* The same at the other end.                                              *)
LEMMA GreatestExists ==
    ASSUME NEW S \in SUBSET I64, S # {}
    PROVE  \E x \in S : \A y \in S : y <= x
<1> DEFINE M == {I64Min + I64Max - x : x \in S}
<1>1. M \in SUBSET I64 /\ M # {}
  <2>1. \A x \in S : I64Min + I64Max - x \in I64
    BY I64Assumption DEF I64
  <2> QED  BY <2>1
<1>2. PICK m \in M : \A y \in M : m <= y
  <2> HIDE DEF M
  <2> QED  BY <1>1, LeastExists
<1>3. PICK x \in S : m = I64Min + I64Max - x
  BY <1>2
<1>4. ASSUME NEW y \in S PROVE y <= x
  <2>1. m <= I64Min + I64Max - y
    BY <1>2
  <2> QED  BY <2>1, <1>3, I64Assumption DEF I64
<1> QED  BY <1>4

(* compute_int_range of an INT column is a pair of i64 that encloses every *)
(* live value, and the empty pair only when there is none.                 *)
LEMMA IntRangeCovers ==
    ASSUME NEW c \in IntCols, NEW values \in Seq(Domain(c)), NEW d
    PROVE  /\ IntRange(values, d) \in I64 \X I64
           /\ \A i \in 1 .. Len(values) : values[i] # Null /\ (i - 1) \notin d =>
                 /\ values[i] \in I64
                 /\ IntRange(values, d)[1] <= values[i]
                 /\ values[i] <= IntRange(values, d)[2]
<1> DEFINE L == LiveInts(values, d)
<1>1. L \in SUBSET I64
  BY SchemaAssumption DEF LiveInts, Domain
<1>2. /\ L \cup {I64Max} \in SUBSET I64 /\ L \cup {I64Max} # {}
      /\ L \cup {I64Min} \in SUBSET I64 /\ L \cup {I64Min} # {}
  BY <1>1, I64Assumption DEF I64
<1>3. /\ Least(L \cup {I64Max}) \in I64
      /\ \A y \in L : Least(L \cup {I64Max}) <= y
  <2> HIDE DEF L
  <2> QED  BY <1>2, LeastExists DEF Least
<1>4. /\ Greatest(L \cup {I64Min}) \in I64
      /\ \A y \in L : y <= Greatest(L \cup {I64Min})
  <2> HIDE DEF L
  <2> QED  BY <1>2, GreatestExists DEF Greatest
<1>5. \A i \in 1 .. Len(values) : values[i] # Null /\ (i - 1) \notin d => values[i] \in L
  BY DEF LiveInts
<1> QED  BY <1>1, <1>3, <1>4, <1>5 DEF IntRange

(* What encode_column writes is a well-formed file with these rows.        *)
LEMMA ImageTyped ==
    ASSUME NEW c \in Cols, NEW values \in Seq(Domain(c)), NEW d
    PROVE  /\ ColImage(c, values, d) \in ColFile
           /\ Readable(ColImage(c, values, d))
           /\ ColImage(c, values, d).rows = values
<1>1. values \in Seq(Value)
  <2>1. Domain(c) \subseteq Value
    BY DEF Domain, Value
  <2> QED  BY <2>1
<1>2. NoRange \in I64 \X I64
  BY I64Assumption DEF NoRange, I64
<1>3. CASE c \in IntCols
  <2>1. IntRange(values, d) \in I64 \X I64
    BY <1>3, IntRangeCovers
  <2> QED  BY <1>1, <1>3, <2>1 DEF ColImage, ColFile, FileStates, Readable
<1>4. CASE c \notin IntCols
  BY <1>1, <1>2, <1>4 DEF ColImage, ColFile, FileStates, Readable
<1> QED  BY <1>3, <1>4

-----------------------------------------------------------------------------
(* How a step changes the files.                                           *)

(* Replacing one `.col` leaves every other one as it was.                  *)
LEMMA ColUpdate ==
    ASSUME TypeOK, NEW F \in ColFile, F.rows \in Seq(Domain(cur)),
           col' = [col EXCEPT ![grp][cur] = F]
    PROVE  /\ \A g \in Groups, c \in Cols :
                 col'[g][c] = IF g = grp /\ c = cur THEN F ELSE col[g][c]
           /\ col' \in [Groups -> [Cols -> ColFile]]
           /\ \A g \in Groups, c \in Cols : col'[g][c].rows \in Seq(Domain(c))
<1>1. \A g \in Groups, c \in Cols :
         col'[g][c] = IF g = grp /\ c = cur THEN F ELSE col[g][c]
  BY DEF TypeOK
<1>2. col' \in [Groups -> [Cols -> ColFile]]
  BY DEF TypeOK
<1>3. \A g \in Groups, c \in Cols : col'[g][c].rows \in Seq(Domain(c))
  BY <1>1 DEF TypeOK
<1> QED  BY <1>1, <1>2, <1>3

(* Groups and offsets of the current next_rid.                             *)
LEMMA OpenFacts ==
    ASSUME TypeOK
    PROVE  /\ OpenGroup \in Groups /\ OpenGroup \in Nat
           /\ OpenLen \in 0 .. R - 1 /\ OpenLen \in Nat
           /\ nextRid = OpenGroup * R + OpenLen
           /\ 0 \in Groups /\ 1 \in Cols /\ Columns \in Nat
<1>1. nextRid \in Nat /\ MaxRid \in Nat /\ nextRid <= MaxRid
  BY InputAssumption DEF TypeOK, Rids
<1>2. /\ nextRid \div R \in Nat /\ nextRid % R \in 0 .. R - 1
      /\ nextRid = (nextRid \div R) * R + (nextRid % R)
      /\ MaxRid \div R \in Nat
  BY <1>1, DivMod
<1>3. nextRid \div R <= MaxRid \div R
  BY <1>1, DivLe
<1> QED
  BY <1>2, <1>3, SchemaAssumption DEF OpenGroup, OpenLen, OffsetOf, Groups, Cols

(* The rows of a rid below next_rid are in a group that must be there.     *)
LEMMA CommittedRid ==
    ASSUME TypeOK, NEW rid \in 0 .. nextRid - 1
    PROVE  /\ rid \in Rids /\ rid \in Nat
           /\ GroupOf(rid) \in Groups /\ GroupOf(rid) \in Nat
           /\ OffsetOf(rid) \in 0 .. R - 1
           /\ rid = GroupOf(rid) * R + OffsetOf(rid)
           /\ \/ GroupOf(rid) < OpenGroup
              \/ GroupOf(rid) = OpenGroup /\ OffsetOf(rid) < OpenLen
           /\ Held(GroupOf(rid))
<1>1. nextRid \in Nat /\ MaxRid \in Nat /\ nextRid <= MaxRid
  BY InputAssumption DEF TypeOK, Rids
<1>2. rid \in Nat /\ rid < nextRid /\ rid \in Rids
  BY <1>1 DEF Rids
<1>3. /\ rid \div R \in Nat /\ rid % R \in 0 .. R - 1
      /\ rid = (rid \div R) * R + (rid % R)
  BY <1>2, DivMod
<1>4. rid \div R < nextRid \div R \/ (rid \div R = nextRid \div R /\ rid % R < nextRid % R)
  BY <1>1, <1>2, RidOrder
<1>5. rid \div R <= MaxRid \div R /\ MaxRid \div R \in Nat
  BY <1>1, <1>2, DivLe, DivMod
<1> QED
  BY <1>2, <1>3, <1>4, <1>5, OpenFacts
  DEF GroupOf, OffsetOf, OpenGroup, OpenLen, Held, Groups

(* Every column of its group has a value for a committed row.              *)
LEMMA CommittedRow ==
    ASSUME TypeOK, CommittedHeld, NEW rid \in 0 .. nextRid - 1, NEW c \in Cols
    PROVE  OffsetOf(rid) + 1 \in 1 .. Len(col[GroupOf(rid)][c].rows)
<1> DEFINE g == GroupOf(rid)
<1>1. /\ g \in Groups /\ OffsetOf(rid) \in 0 .. R - 1 /\ Held(g)
      /\ g < OpenGroup \/ (g = OpenGroup /\ OffsetOf(rid) < OpenLen)
  BY CommittedRid
<1>2. OpenLen \in Nat
  BY OpenFacts
<1>3. Len(col[g][c].rows) \in Nat
  <2>1. col[g][c].rows \in Seq(Domain(c))
    BY <1>1 DEF TypeOK
  <2> QED  BY <2>1
<1> HIDE DEF g
<1>4. /\ g < OpenGroup => Len(col[g][c].rows) = R
      /\ g = OpenGroup => Len(col[g][c].rows) >= OpenLen
  BY <1>1 DEF CommittedHeld, ColLen
<1> QED  BY <1>1, <1>2, <1>3, <1>4, SchemaAssumption DEF g

(* Nothing on disk changes: what the files guarantee stays.                *)
LEMMA DiskSame ==
    ASSUME CommittedHeld, TombstonesCommitted, UNCHANGED disk
    PROVE  CommittedHeld' /\ TombstonesCommitted' /\ (Held(OpenGroup)' <=> Held(OpenGroup))
  BY DEF CommittedHeld, TombstonesCommitted, disk, Held, GroupWhole, ColLen,
         OpenGroup, OpenLen, OffsetOf

(* The process goes: no call is under way, the files are as they are.      *)
LEMMA LeaveInv ==
    ASSUME IInv, NEW place \in {"idle", "closed"}, LeaveFor(place),
           place = "idle" => (Held(OpenGroup) => \A c \in Cols : ColLen(OpenGroup, c) = OpenLen)
    PROVE  IInv'
<1>1. CommittedHeld' /\ TombstonesCommitted'
  BY DiskSame DEF IInv, LeaveFor
<1>2. TypeOK'
  BY OpenFacts, EmptySeq, InputAssumption
  DEF IInv, TypeOK, LeaveFor, disk, Forget, PCs, Ops, Rids
<1>3. Aligned'
  BY DEF Aligned, LeaveFor, Forget, disk, Held, ColLen, OpenGroup, OpenLen, OffsetOf
<1>4. RecoverPart' /\ CallPart' /\ CurPart' /\ GroupPart' /\ MaterializePart' /\ InsertPart' /\ LoadPart'
  BY DEF RecoverPart, CallPart, CurPart, GroupPart, MaterializePart, InsertPart, LoadPart,
         LeaveFor, AppendPCs, MaterializePCs
<1> QED  BY <1>1, <1>2, <1>3, <1>4 DEF IInv

(* The invariant holds of a table just created.                            *)
LEMMA InitInv == Init => IInv
<1> SUFFICES ASSUME Init PROVE IInv
  OBVIOUS
<1>1. /\ nextRid = 0 /\ OpenGroup = 0 /\ OpenLen = 0
  <2>1. 0 = 0 * R + 0 /\ 0 \in 0 .. R - 1
    BY SchemaAssumption
  <2>2. 0 \div R = 0 /\ 0 % R = 0
    BY <2>1, DivUnique
  <2> QED  BY <2>2 DEF Init, OpenGroup, OpenLen, OffsetOf
<1>2. MaxRid \div R \in Nat /\ 0 \in Groups /\ 0 \in Rids /\ 1 \in Cols
  BY InputAssumption, SchemaAssumption, DivMod DEF Groups, Rids, Cols
<1>3. \A c \in Cols : /\ ColImage(c, <<>>, {}) \in ColFile
                      /\ Readable(ColImage(c, <<>>, {}))
                      /\ ColImage(c, <<>>, {}).rows = <<>>
                      /\ <<>> \in Seq(Domain(c))
                      /\ Len(<<>>) = 0
  BY ImageTyped, EmptySeq
<1>4. NoCol("missing") \in ColFile /\ NoCol("missing").rows = <<>>
  BY EmptySeq, I64Assumption DEF NoCol, ColFile, FileStates, NoRange, I64
<1>5. TypeOK
  <2>1. col \in [Groups -> [Cols -> ColFile]]
    BY <1>3, <1>4 DEF Init
  <2>2. \A g \in Groups, c \in Cols : col[g][c].rows \in Seq(Domain(c))
    BY <1>3, <1>4 DEF Init
  <2>3. bm \in [Groups -> BmFile]
    BY DEF Init, NoBm, BmFile, FileStates
  <2> QED
    BY <1>2, <2>1, <2>2, <2>3, EmptySeq DEF Init, TypeOK, PCs, Ops
<1>6. CommittedHeld
  <2>1. \A g \in Groups : Held(g) => g = 0
    BY <1>1, <1>2 DEF Held, Groups
  <2>2. GroupWhole(0)
    BY <1>2, <1>3 DEF GroupWhole, Init, NoBm, Readable
  <2>3. \A c \in Cols : ColLen(0, c) = 0
    BY <1>2, <1>3 DEF ColLen, Init
  <2> QED  BY <1>1, <2>1, <2>2, <2>3 DEF CommittedHeld
<1>7. TombstonesCommitted
  BY DEF TombstonesCommitted, Init, NoBm
<1>8. Aligned /\ RecoverPart /\ CallPart /\ CurPart /\ GroupPart /\ MaterializePart /\ InsertPart /\ LoadPart
  BY DEF Init, Aligned, RecoverPart, CallPart, CurPart, GroupPart, MaterializePart, InsertPart,
         LoadPart, AppendPCs, MaterializePCs
<1> QED  BY <1>5, <1>6, <1>7, <1>8 DEF IInv

-----------------------------------------------------------------------------
(* Steps that write nothing.                                               *)

(* A rid a delete may name, and the group it is in.                        *)
LEMMA VictimFacts ==
    ASSUME TypeOK, NEW rid \in Rids, rid < nextRid
    PROVE  rid \in 0 .. nextRid - 1 /\ GroupOf(rid) \in Groups
<1>1. rid \in 0 .. nextRid - 1
  BY InputAssumption DEF TypeOK, Rids
<1> QED  BY <1>1, CommittedRid

(* Taking the lock.                                                        *)
LEMMA OpenInv == IInv /\ Open => IInv'
<1> SUFFICES ASSUME IInv, Open PROVE IInv'
  OBVIOUS
<1>1. CommittedHeld' /\ TombstonesCommitted'
  BY DiskSame DEF IInv, Open
<1>2. TypeOK'
  BY DEF IInv, TypeOK, Open, disk, call, work, PCs
<1>3. /\ Aligned' /\ RecoverPart' /\ CallPart' /\ CurPart' /\ GroupPart' /\ MaterializePart'
      /\ InsertPart' /\ LoadPart'
  BY DEF Open, Aligned, RecoverPart, CallPart, CurPart, GroupPart, MaterializePart,
         InsertPart, LoadPart, AppendPCs, MaterializePCs
<1> QED  BY <1>1, <1>2, <1>3 DEF IInv

(* Without a directory the open group holds no committed row.              *)
LEMMA RecoverNothingInv == IInv /\ RecoverNothing => IInv'
<1> SUFFICES ASSUME IInv, RecoverNothing PROVE IInv'
  OBVIOUS
<1>1. ~ Held(OpenGroup)
  BY OpenFacts DEF IInv, CommittedHeld, GroupWhole, RecoverNothing
<1> QED  BY <1>1, LeaveInv DEF RecoverNothing

(* The bitmap of the open group is loaded.                                 *)
LEMMA RecoverLoadInv == IInv /\ RecoverLoad => IInv'
<1> SUFFICES ASSUME IInv, RecoverLoad PROVE IInv'
  OBVIOUS
<1>1. CommittedHeld' /\ TombstonesCommitted'
  BY DiskSame DEF IInv, RecoverLoad
<1>2. TypeOK'
  <2>1. OpenGroup \in Groups /\ 1 \in Cols
    BY OpenFacts DEF IInv
  <2>2. bm[OpenGroup].bits \subseteq Offsets
    BY <2>1 DEF IInv, TypeOK, BmFile
  <2> QED  BY <2>1, <2>2 DEF IInv, TypeOK, RecoverLoad, disk, call, PCs
<1>3. RecoverPart'
  <2>1. \A c \in Cols : ~ (c < 1)
    BY SchemaAssumption DEF Cols
  <2> QED  BY <2>1 DEF RecoverPart, RecoverLoad, disk, OpenGroup
<1>4. /\ Aligned' /\ CallPart' /\ CurPart' /\ GroupPart' /\ MaterializePart'
      /\ InsertPart' /\ LoadPart'
  BY DEF RecoverLoad, Aligned, CallPart, CurPart, GroupPart, MaterializePart,
         InsertPart, LoadPart, AppendPCs, MaterializePCs
<1> QED  BY <1>1, <1>2, <1>3, <1>4 DEF IInv

(* Recovery gives up, the command ends, the process dies.                  *)
LEMMA StopInv == IInv /\ (RecoverFails \/ Close \/ Crash) => IInv'
<1> SUFFICES ASSUME IInv, RecoverFails \/ Close \/ Crash PROVE IInv'
  OBVIOUS
<1>1. LeaveFor("closed")
  BY DEF RecoverFails, Close, Crash
<1> QED  BY <1>1, LeaveInv

(* A call returns: what it appended is committed.                          *)
LEMMA ReturnInv == IInv /\ Return => IInv'
<1> SUFFICES ASSUME IInv, Return PROVE IInv'
  OBVIOUS
<1>1. Held(OpenGroup) => \A c \in Cols : ColLen(OpenGroup, c) = OpenLen
  BY DEF IInv, Aligned, Return
<1> QED  BY <1>1, LeaveInv DEF Return

(* Where an append begins: a fresh group is created first, a group with    *)
(* room has its files.                                                     *)
LEMMA StartAppendInv ==
    ASSUME IInv, TypeOK', CommittedHeld', TombstonesCommitted', UNCHANGED nextRid,
           Held(OpenGroup)' => \A c \in Cols : (ColLen(OpenGroup, c) = OpenLen)',
           StartAppend(OpenGroup),
           op' \in {"insert", "update", "load"}, op' # "load" => Count' = 1,
           op' = "load" => OpenLen = 0,
           Count' # 0, nextRid + Count' <= MaxRid
    PROVE  IInv'
<1>1. /\ OpenGroup \in Groups /\ OpenGroup \in Nat /\ OpenLen \in Nat
      /\ OpenGroup' = OpenGroup /\ OpenLen' = OpenLen /\ 1 \in Cols
      /\ \A c \in Cols : ~ (c < 1)
      /\ Count' \in Nat
  <2>1. OpenGroup' = OpenGroup /\ OpenLen' = OpenLen
    BY DEF OpenGroup, OpenLen, OffsetOf
  <2>2. Count' \in Nat
    BY DEF TypeOK, Count
  <2>3. \A c \in Cols : ~ (c < 1)
    BY SchemaAssumption DEF Cols
  <2> QED  BY <2>1, <2>2, <2>3, OpenFacts DEF IInv
<1>2. /\ grp' = OpenGroup /\ cur' = 1
      /\ \/ pc' = "mkdir" /\ OpenLen = 0 /\ OpenGroup > 0
         \/ pc' = "load_bm" /\ (OpenLen # 0 \/ OpenGroup = 0)
  BY <1>1 DEF StartAppend, OpenLen
<1>3. pc' = "load_bm" => /\ GroupWhole(grp)'
                         /\ \A c \in Cols : (ColLen(grp, c) = OpenLen)'
  <2> SUFFICES ASSUME pc' = "load_bm"
               PROVE  GroupWhole(grp)' /\ \A c \in Cols : (ColLen(grp, c) = OpenLen)'
    OBVIOUS
  <2>1. Held(OpenGroup)'
    BY <1>1, <1>2 DEF Held
  <2>2. grp' = OpenGroup'
    BY <1>1, <1>2
  <2> QED  BY <1>1, <2>1, <2>2 DEF CommittedHeld
<1>4. Aligned' /\ RecoverPart' /\ CurPart'
  BY <1>2 DEF Aligned, RecoverPart, CurPart
<1>5. CallPart'
  BY <1>1, <1>2 DEF CallPart
<1>6. GroupPart'
  <2>1. ChunkFirst' = 0
    BY <1>1, <1>2, SchemaAssumption DEF ChunkFirst
  <2>2. \A g \in Groups : ~ (OpenGroup <= g /\ g < OpenGroup)
    BY <1>1 DEF Groups
  <2> QED  BY <1>1, <1>2, <2>1, <2>2 DEF GroupPart
<1>7. MaterializePart'
  BY <1>1, <1>2 DEF MaterializePart, MaterializePCs
<1>8. InsertPart' /\ LoadPart'
  BY <1>2, <1>3 DEF InsertPart, LoadPart
<1> QED
  BY <1>4, <1>5, <1>6, <1>7, <1>8 DEF IInv

(* The types after StartAppend.                                            *)
LEMMA StartAppendTypes ==
    ASSUME NEW g \in Groups, StartAppend(g), 1 \in Cols
    PROVE  pc' \in PCs /\ grp' \in Groups /\ cur' \in Cols
  BY DEF StartAppend, PCs

(* A valid record is a one-element call.                                   *)
LEMMA OneRecord ==
    ASSUME NEW p \in Payloads, ValidRecord(p)
    PROVE  <<p>> \in Seq(Record) /\ Len(<<p>>) = 1 /\ <<p>> # <<>>
  BY DEF Record

(* A call of insert.                                                       *)
LEMMA BeginInsertInv == ASSUME NEW p \in Payloads PROVE IInv /\ BeginInsert(p) => IInv'
<1> SUFFICES ASSUME IInv, BeginInsert(p) PROVE IInv'
  OBVIOUS
<1>1. CommittedHeld' /\ TombstonesCommitted' /\ UNCHANGED nextRid
  BY DiskSame DEF IInv, BeginInsert, disk
<1>2. TypeOK'
  <2>1. OpenGroup \in Groups /\ 1 \in Cols
    BY OpenFacts DEF IInv
  <2>2. pc' \in PCs /\ grp' \in Groups /\ cur' \in Cols
    BY <2>1, StartAppendTypes DEF BeginInsert
  <2> QED  BY <2>2, OneRecord DEF IInv, TypeOK, BeginInsert, disk, Ops
<1>3. Held(OpenGroup)' => \A c \in Cols : (ColLen(OpenGroup, c) = OpenLen)'
  BY DEF IInv, Aligned, BeginInsert, disk, Held, ColLen, OpenGroup, OpenLen, OffsetOf
<1>4. Count' = 1 /\ nextRid + Count' <= MaxRid
  BY InputAssumption DEF BeginInsert, Count, IInv, TypeOK, Rids
<1> QED  BY <1>1, <1>2, <1>3, <1>4, StartAppendInv DEF BeginInsert

(* What a delete, or an update, has established when it starts.            *)
LEMMA StartDeleteInv ==
    ASSUME IInv, NEW rid \in Rids, StartDelete(rid),
           op' \in {"delete", "update"}, recs' \in Seq(Record),
           op' = "update" => Count' = 1 /\ nextRid + 1 <= MaxRid
    PROVE  IInv'
<1>1. CommittedHeld' /\ TombstonesCommitted' /\ UNCHANGED nextRid
  BY DiskSame DEF IInv, StartDelete, disk
<1>2. rid < nextRid /\ GroupOf(rid) \in Groups
  BY VictimFacts DEF IInv, StartDelete, CanDelete
<1>3. TypeOK'
  BY <1>2 DEF IInv, TypeOK, StartDelete, disk, PCs, Ops
<1>4. Aligned'
  BY DEF IInv, Aligned, StartDelete, disk, Held, ColLen, OpenGroup, OpenLen, OffsetOf
<1>5. CallPart'
  BY <1>1, <1>2 DEF CallPart, StartDelete, AppendPCs, MaterializePCs
<1>6. /\ RecoverPart' /\ CurPart' /\ GroupPart' /\ MaterializePart' /\ InsertPart'
      /\ LoadPart'
  BY DEF StartDelete, RecoverPart, CurPart, GroupPart, MaterializePart, InsertPart,
         LoadPart, AppendPCs, MaterializePCs
<1> QED  BY <1>1, <1>3, <1>4, <1>5, <1>6 DEF IInv

(* A call of delete.                                                       *)
LEMMA BeginDeleteInv == ASSUME NEW rid \in Rids PROVE IInv /\ BeginDelete(rid) => IInv'
  BY StartDeleteInv DEF BeginDelete, IInv, TypeOK

(* A call of update.                                                       *)
LEMMA BeginUpdateInv ==
    ASSUME NEW rid \in Rids, NEW p \in Payloads
    PROVE  IInv /\ BeginUpdate(rid, p) => IInv'
<1> SUFFICES ASSUME IInv, BeginUpdate(rid, p) PROVE IInv'
  OBVIOUS
<1>1. recs' \in Seq(Record) /\ Count' = 1
  BY OneRecord DEF BeginUpdate, Count
<1>2. nextRid + 1 <= MaxRid
  BY InputAssumption DEF BeginUpdate, IInv, TypeOK, Rids
<1> QED  BY <1>1, <1>2, StartDeleteInv DEF BeginUpdate

(* A call of bulk_load.                                                    *)
LEMMA BeginLoadInv == ASSUME NEW rs \in Loads PROVE IInv /\ BeginLoad(rs) => IInv'
<1> SUFFICES ASSUME IInv, BeginLoad(rs) PROVE IInv'
  OBVIOUS
<1>1. CommittedHeld' /\ TombstonesCommitted' /\ UNCHANGED nextRid
  BY DiskSame DEF IInv, BeginLoad, disk
<1>2. rs \in Seq(Record) /\ Len(rs) \in Nat
  <2>1. rs \in Seq(Payloads)
    BY InputAssumption
  <2>2. Len(rs) \in Nat /\ rs \in [1 .. Len(rs) -> Payloads]
    BY <2>1
  <2>3. rs \in [1 .. Len(rs) -> Record]
    BY <2>2 DEF BeginLoad, Record
  <2>4. rs \in Seq(Record)
    BY <2>2, <2>3
  <2> QED  BY <2>2, <2>4
<1>3. Held(OpenGroup)' => \A c \in Cols : (ColLen(OpenGroup, c) = OpenLen)'
  BY DEF IInv, Aligned, BeginLoad, disk, Held, ColLen, OpenGroup, OpenLen, OffsetOf
<1>4. OpenLen = 0 /\ Count' = Len(rs) /\ nextRid + Count' <= MaxRid /\ op' = "load"
  BY DEF BeginLoad, LoadAligned, OpenLen, Count
<1>5. OpenGroup \in Groups /\ 1 \in Cols
  BY OpenFacts DEF IInv
<1>6. CASE rs = <<>>
  <2>1. pc' = "commit" /\ grp' = grp /\ cur' = cur /\ Count' = 0
    BY <1>4, <1>6 DEF BeginLoad
  <2>2. TypeOK'
    BY <1>2, <2>1 DEF IInv, TypeOK, BeginLoad, disk, PCs, Ops
  <2>3. Aligned'
    BY <1>3 DEF Aligned
  <2>4. CallPart'
    BY <1>1, <1>4, <2>1 DEF CallPart, OpenLen, OffsetOf
  <2>5. /\ RecoverPart' /\ CurPart' /\ GroupPart' /\ MaterializePart' /\ InsertPart'
        /\ LoadPart'
    BY <1>4, <2>1 DEF RecoverPart, CurPart, GroupPart, MaterializePart, MaterializePCs,
                      InsertPart, LoadPart
  <2> QED  BY <1>1, <2>2, <2>3, <2>4, <2>5 DEF IInv
<1>7. CASE rs # <<>>
  <2>1. StartAppend(OpenGroup)
    BY <1>7 DEF BeginLoad
  <2>2. Count' # 0
    BY <1>2, <1>4, <1>7
  <2>3. pc' \in PCs /\ grp' \in Groups /\ cur' \in Cols
    BY <1>5, <2>1, StartAppendTypes
  <2>4. TypeOK'
    BY <1>2, <2>3 DEF IInv, TypeOK, BeginLoad, disk, Ops
  <2> QED  BY <1>1, <1>3, <1>4, <2>1, <2>2, <2>4, StartAppendInv
<1> QED  BY <1>6, <1>7

(* The bitmap of the group an append works on is loaded.                   *)
LEMMA LoadBmInv == IInv /\ LoadBm => IInv'
<1> SUFFICES ASSUME IInv, LoadBm PROVE IInv'
  OBVIOUS
<1>1. CommittedHeld' /\ TombstonesCommitted'
  BY DiskSame DEF IInv, LoadBm
<1>2. TypeOK'
  <2>1. bm[grp].bits \subseteq Offsets
    BY DEF IInv, TypeOK, BmFile
  <2> QED  BY <2>1 DEF IInv, TypeOK, LoadBm, disk, call, PCs
<1>3. cur' = 1 /\ \A c \in Cols : ~ (c < 1)
  BY SchemaAssumption DEF IInv, CurPart, LoadBm, Cols
<1>4. Aligned' /\ RecoverPart' /\ CurPart' /\ MaterializePart'
  BY DEF LoadBm, Aligned, RecoverPart, CurPart, MaterializePart, MaterializePCs
<1>5. CallPart'
  BY DEF IInv, CallPart, LoadBm, disk, call, AppendPCs, Count, OpenLen, OffsetOf
<1>6. GroupPart'
  BY DEF IInv, GroupPart, LoadBm, disk, call, AppendPCs, Count, OpenGroup, ChunkFirst,
         GroupWhole, ColLen
<1>7. InsertPart'
  BY <1>3 DEF IInv, InsertPart, LoadBm, disk, call, GroupWhole, ColLen, OpenGroup,
         OpenLen, OffsetOf
<1>8. LoadPart'
  BY <1>3 DEF IInv, LoadPart, LoadBm, disk, call, GroupWhole, ColLen, Count
<1> QED  BY <1>1, <1>2, <1>4, <1>5, <1>6, <1>7, <1>8 DEF IInv

-----------------------------------------------------------------------------
(* Steps that write one `.col`.                                            *)

(* A file no committed row is in may be replaced by any other.             *)
LEMMA FreeGroup ==
    ASSUME IInv, pc \in MaterializePCs
    PROVE  /\ ~ Held(grp) /\ OpenGroup <= grp /\ OpenLen = 0 /\ grp \in Groups
           /\ \A g \in Groups : OpenGroup <= g /\ g < grp => g # grp
<1>1. OpenLen = 0 /\ grp > 0 /\ grp >= OpenGroup /\ grp \in Groups
  BY DEF IInv, MaterializePart, TypeOK
<1>2. OpenGroup \in Nat /\ grp \in Nat
  BY <1>1, OpenFacts DEF IInv, Groups
<1>3. ~ Held(grp)
  BY <1>1, <1>2 DEF Held
<1>4. \A g \in Groups : g < grp => g # grp
  BY <1>2 DEF Groups
<1> QED  BY <1>1, <1>2, <1>3, <1>4

(* What the files guarantee is kept when only a file of the current group  *)
(* changes and, if committed rows are in it, it stays long enough.         *)
LEMMA ColWriteHeld ==
    ASSUME IInv, NEW F \in ColFile, F.rows \in Seq(Domain(cur)),
           col' = [col EXCEPT ![grp][cur] = F], UNCHANGED <<nextRid, dirs, bm>>,
           Held(grp) => /\ Readable(F)
                        /\ grp < OpenGroup => Len(F.rows) = R
                        /\ grp = OpenGroup => Len(F.rows) >= OpenLen
    PROVE  CommittedHeld' /\ TombstonesCommitted'
<1>1. \A g \in Groups, c \in Cols : col'[g][c] = IF g = grp /\ c = cur THEN F ELSE col[g][c]
  BY ColUpdate DEF IInv
<1>2. OpenGroup' = OpenGroup /\ OpenLen' = OpenLen
  BY DEF OpenGroup, OpenLen, OffsetOf
<1>3. TombstonesCommitted'
  BY DEF IInv, TombstonesCommitted
<1>4. ASSUME NEW g \in Groups, Held(g)'
      PROVE  /\ GroupWhole(g)'
             /\ g < OpenGroup' => \A c \in Cols : ColLen(g, c)' = R
             /\ g = OpenGroup' => \A c \in Cols : ColLen(g, c)' >= OpenLen'
  <2>1. Held(g)
    BY <1>2, <1>4 DEF Held
  <2>2. /\ GroupWhole(g)
        /\ g < OpenGroup => \A c \in Cols : ColLen(g, c) = R
        /\ g = OpenGroup => \A c \in Cols : ColLen(g, c) >= OpenLen
    BY <2>1 DEF IInv, CommittedHeld
  <2>3. GroupWhole(g)'
    BY <1>1, <2>1, <2>2 DEF GroupWhole
  <2>4. g < OpenGroup' => \A c \in Cols : ColLen(g, c)' = R
    BY <1>1, <1>2, <2>1, <2>2 DEF ColLen
  <2>5. g = OpenGroup' => \A c \in Cols : ColLen(g, c)' >= OpenLen'
    BY <1>1, <1>2, <2>1, <2>2 DEF ColLen
  <2> QED  BY <2>3, <2>4, <2>5
<1> QED  BY <1>3, <1>4 DEF CommittedHeld

(* Recovery rewrites a column that is too long and keeps what is committed.*)
LEMMA RecoveredTyped ==
    ASSUME NEW c \in Cols, NEW f \in ColFile, f.rows \in Seq(Domain(c)), TypeOK,
           RecoverableCol(f)
    PROVE  /\ Recovered(c, f) \in ColFile /\ Recovered(c, f).rows \in Seq(Domain(c))
           /\ Readable(Recovered(c, f)) /\ Len(Recovered(c, f).rows) = OpenLen
           /\ \A i \in 1 .. OpenLen : Recovered(c, f).rows[i] = f.rows[i]
<1>1. OpenLen \in Nat /\ Expected = OpenLen
  BY OpenFacts DEF Expected, OpenLen, OffsetOf
<1>2. CASE Len(f.rows) = Expected
  BY <1>1, <1>2 DEF Recovered, RecoverableCol
<1>3. CASE Len(f.rows) # Expected
  <2> DEFINE s == SubSeq(f.rows, 1, Expected)
  <2>1. Len(f.rows) \in Nat /\ Len(f.rows) >= Expected
    BY DEF RecoverableCol
  <2>2. s \in Seq(Domain(c)) /\ Len(s) = OpenLen /\ \A i \in 1 .. OpenLen : s[i] = f.rows[i]
    BY <1>1, <2>1
  <2>3. Recovered(c, f) = ColImage(c, s, deletes)
    BY <1>3 DEF Recovered
  <2> HIDE DEF s
  <2> QED  BY <2>2, <2>3, ImageTyped
<1> QED  BY <1>2, <1>3

(* One column of the open group is recovered.                              *)
LEMMA RecoverColInv == IInv /\ RecoverCol => IInv'
<1> SUFFICES ASSUME IInv, RecoverCol PROVE IInv'
  OBVIOUS
<1> DEFINE F == Recovered(cur, col[grp][cur])
<1>1. /\ grp = OpenGroup /\ grp \in Groups /\ cur \in Cols /\ TypeOK
      /\ col[grp][cur] \in ColFile /\ col[grp][cur].rows \in Seq(Domain(cur))
  BY DEF IInv, RecoverPart, RecoverCol, TypeOK
<1>2. /\ F \in ColFile /\ F.rows \in Seq(Domain(cur)) /\ Readable(F)
      /\ Len(F.rows) = OpenLen
  BY <1>1, RecoveredTyped DEF RecoverCol
<1>3. col' = [col EXCEPT ![grp][cur] = F] /\ UNCHANGED <<nextRid, dirs, bm>>
  BY DEF RecoverCol
<1> HIDE DEF F
<1>4. /\ \A g \in Groups, c \in Cols :
            col'[g][c] = IF g = grp /\ c = cur THEN F ELSE col[g][c]
      /\ col' \in [Groups -> [Cols -> ColFile]]
      /\ \A g \in Groups, c \in Cols : col'[g][c].rows \in Seq(Domain(c))
  BY <1>1, <1>2, <1>3, ColUpdate
<1>5. /\ OpenGroup' = OpenGroup /\ OpenLen' = OpenLen
      /\ OpenGroup \in Nat /\ OpenLen \in Nat /\ 0 \in Groups /\ 1 \in Cols
  BY <1>3, OpenFacts DEF OpenGroup, OpenLen, OffsetOf, IInv
<1>6. CommittedHeld' /\ TombstonesCommitted'
  <2>1. /\ Readable(F)
        /\ grp < OpenGroup => Len(F.rows) = R
        /\ grp = OpenGroup => Len(F.rows) >= OpenLen
    BY <1>1, <1>2, <1>5
  <2> QED  BY <1>2, <1>3, <2>1, ColWriteHeld
<1>7. CASE cur < Columns
  <2>1. cur' = cur + 1 /\ UNCHANGED <<pc, grp, deletes, call>> /\ pc = "recover_col"
    BY <1>7 DEF RecoverCol
  <2>2. TypeOK'
    BY <1>3, <1>4, <1>7, <2>1, SchemaAssumption DEF IInv, TypeOK, call, Cols
  <2>3. RecoverPart'
    <3>1. OpenGroup \in dirs /\ Readable(bm[OpenGroup])
      BY <2>1 DEF IInv, RecoverPart
    <3>2. ASSUME NEW c \in Cols, c < cur'
          PROVE  Readable(col'[OpenGroup][c]) /\ ColLen(OpenGroup, c)' = OpenLen'
      <4>1. c < cur \/ c = cur
        BY <1>1, <2>1, <3>2, SchemaAssumption DEF Cols
      <4>2. c < cur => Readable(col[OpenGroup][c]) /\ ColLen(OpenGroup, c) = OpenLen
        BY <2>1 DEF IInv, RecoverPart
      <4> QED  BY <1>1, <1>2, <1>4, <1>5, <4>1, <4>2 DEF ColLen
    <3> QED  BY <1>1, <1>3, <1>5, <2>1, <3>1, <3>2 DEF RecoverPart
  <2>4. /\ Aligned' /\ CallPart' /\ CurPart' /\ GroupPart' /\ MaterializePart'
        /\ InsertPart' /\ LoadPart'
    BY <2>1 DEF Aligned, CallPart, CurPart, GroupPart, MaterializePart,
                InsertPart, LoadPart, AppendPCs, MaterializePCs
  <2> QED  BY <1>6, <2>2, <2>3, <2>4 DEF IInv
<1>8. CASE ~ (cur < Columns)
  <2>1. pc' = "idle" /\ Forget /\ pc = "recover_col"
    BY <1>8 DEF RecoverCol
  <2>2. TypeOK'
    BY <1>3, <1>4, <1>5, <2>1, EmptySeq, InputAssumption
    DEF IInv, TypeOK, Forget, PCs, Ops, Rids
  <2>3. Aligned'
    <3>1. ASSUME NEW c \in Cols PROVE ColLen(OpenGroup, c)' = OpenLen'
      <4>1. c < cur \/ c = cur
        BY <1>1, <1>8, SchemaAssumption DEF Cols
      <4>2. c < cur => ColLen(OpenGroup, c) = OpenLen
        BY <2>1 DEF IInv, RecoverPart
      <4> QED  BY <1>1, <1>2, <1>4, <1>5, <4>1, <4>2 DEF ColLen
    <3> QED  BY <3>1 DEF Aligned
  <2>4. /\ RecoverPart' /\ CallPart' /\ CurPart' /\ GroupPart' /\ MaterializePart'
        /\ InsertPart' /\ LoadPart'
    BY <2>1 DEF RecoverPart, CallPart, CurPart, GroupPart, MaterializePart,
                InsertPart, LoadPart, AppendPCs, MaterializePCs
  <2> QED  BY <1>6, <2>2, <2>3, <2>4 DEF IInv
<1> QED  BY <1>7, <1>8

(* The loop variable of the loops over the columns.                        *)
LEMMA NextCol ==
    ASSUME cur \in Cols
    PROVE  /\ cur < Columns => /\ cur + 1 \in Cols
                               /\ \A c \in Cols : c < cur + 1 => c < cur \/ c = cur
           /\ ~ (cur < Columns) => \A c \in Cols : c < cur \/ c = cur
  BY SchemaAssumption DEF Cols

(* A step inside an append keeps what the call is about and the groups     *)
(* before the current one.                                                 *)
LEMMA AppendStep ==
    ASSUME IInv, pc \in AppendPCs, pc' \in AppendPCs, UNCHANGED <<nextRid, call, grp>>,
           pc' = "commit" => Count # 0,
           pc' \in {"mkdir", "trunc_bm", "fill_bm", "load_bm"} => cur' = 1,
           dirs \subseteq dirs',
           \A g \in Groups : g # grp =>
               bm'[g] = bm[g] /\ \A c \in Cols : col'[g][c] = col[g][c]
    PROVE  Aligned' /\ RecoverPart' /\ CallPart' /\ CurPart' /\ GroupPart'
<1>1. Count' = Count /\ OpenGroup' = OpenGroup /\ OpenLen' = OpenLen /\ ChunkFirst' = ChunkFirst
  BY DEF Count, OpenGroup, OpenLen, OffsetOf, ChunkFirst, call
<1>2. Aligned' /\ RecoverPart' /\ CurPart'
  BY <1>1 DEF Aligned, RecoverPart, CurPart, AppendPCs, MaterializePCs
<1>3. CallPart'
  BY <1>1 DEF IInv, CallPart, AppendPCs, MaterializePCs, call
<1>4. ASSUME Count # 0 PROVE op' # "load" => grp' = OpenGroup'
  BY <1>1, <1>4 DEF IInv, GroupPart, call
<1>5. ASSUME Count # 0, op' = "load"
      PROVE  /\ grp' >= OpenGroup' /\ ChunkFirst' < Count'
             /\ \A g \in Groups : OpenGroup' <= g /\ g < grp' =>
                   GroupWhole(g)' /\ \A c \in Cols : ColLen(g, c)' = R
  <2>1. /\ grp >= OpenGroup /\ ChunkFirst < Count
        /\ \A g \in Groups : OpenGroup <= g /\ g < grp =>
              GroupWhole(g) /\ \A c \in Cols : ColLen(g, c) = R
    BY <1>5 DEF IInv, GroupPart, call
  <2>2. \A g \in Groups : g < grp => g # grp
    BY InputAssumption, DivMod DEF IInv, TypeOK, Groups
  <2> QED  BY <1>1, <2>1, <2>2 DEF GroupWhole, ColLen
<1>6. GroupPart'
  BY <1>1, <1>4, <1>5 DEF GroupPart
<1> QED  BY <1>2, <1>3, <1>6

(* Creating a row group touches no committed row.                          *)
LEMMA MaterializeStep ==
    ASSUME IInv, pc \in MaterializePCs, UNCHANGED nextRid, dirs \subseteq dirs',
           \A g \in Groups : g # grp =>
               bm'[g] = bm[g] /\ \A c \in Cols : col'[g][c] = col[g][c],
           bm'[grp].bits \subseteq bm[grp].bits
    PROVE  CommittedHeld' /\ TombstonesCommitted'
<1>1. ~ Held(grp)
  BY FreeGroup
<1>2. OpenGroup' = OpenGroup /\ OpenLen' = OpenLen
  BY DEF OpenGroup, OpenLen, OffsetOf
<1>3. \A g \in Groups : Held(g)' => Held(g) /\ g # grp
  BY <1>1, <1>2 DEF Held
<1>4. CommittedHeld'
  BY <1>2, <1>3 DEF IInv, CommittedHeld, GroupWhole, ColLen
<1>5. TombstonesCommitted'
  BY DEF IInv, TombstonesCommitted
<1> QED  BY <1>4, <1>5

(* The directory of a new row group.                                       *)
LEMMA MkDirInv == IInv /\ MkDir => IInv'
<1> SUFFICES ASSUME IInv, MkDir PROVE IInv'
  OBVIOUS
<1>1. pc \in MaterializePCs /\ pc \in AppendPCs /\ pc' = "trunc_col" /\ pc' \in AppendPCs
  BY DEF MkDir, MaterializePCs, AppendPCs
<1>2. UNCHANGED <<nextRid, col, bm, call, work>> /\ dirs' = dirs \cup {grp} /\ UNCHANGED grp
  BY DEF MkDir, work
<1>3. CommittedHeld' /\ TombstonesCommitted'
  BY <1>1, <1>2, MaterializeStep
<1>4. Aligned' /\ RecoverPart' /\ CallPart' /\ CurPart' /\ GroupPart'
  BY <1>1, <1>2, AppendStep
<1>5. TypeOK'
  BY <1>1, <1>2 DEF IInv, TypeOK, call, work, PCs
<1>6. cur = 1 /\ \A c \in Cols : ~ (c < 1)
  BY SchemaAssumption DEF IInv, CurPart, MkDir, Cols
<1>7. MaterializePart'
  BY <1>1, <1>2, <1>6
  DEF IInv, MaterializePart, work, call, Count, OpenGroup, OpenLen, OffsetOf
<1>8. InsertPart' /\ LoadPart'
  BY <1>1 DEF InsertPart, LoadPart
<1> QED  BY <1>3, <1>4, <1>5, <1>7, <1>8 DEF IInv

(* fs::write empties a `.col` of the new row group.                        *)
LEMMA TruncColInv == IInv /\ TruncCol => IInv'
<1> SUFFICES ASSUME IInv, TruncCol PROVE IInv'
  OBVIOUS
<1>1. pc \in MaterializePCs /\ pc \in AppendPCs /\ pc' = "fill_col" /\ pc' \in AppendPCs
  BY DEF TruncCol, MaterializePCs, AppendPCs
<1>2. /\ UNCHANGED <<nextRid, dirs, bm, call, grp, cur, deletes>>
      /\ col' = [col EXCEPT ![grp][cur] = NoCol("short")]
  BY DEF TruncCol, work
<1>3. NoCol("short") \in ColFile /\ NoCol("short").rows \in Seq(Domain(cur))
  BY EmptySeq, I64Assumption DEF NoCol, ColFile, FileStates, NoRange, I64
<1>4. /\ \A g \in Groups, c \in Cols :
            col'[g][c] = IF g = grp /\ c = cur THEN NoCol("short") ELSE col[g][c]
      /\ col' \in [Groups -> [Cols -> ColFile]]
      /\ \A g \in Groups, c \in Cols : col'[g][c].rows \in Seq(Domain(c))
  BY <1>2, <1>3, ColUpdate DEF IInv
<1>5. CommittedHeld' /\ TombstonesCommitted'
  BY <1>1, <1>2, <1>4, MaterializeStep
<1>6. Aligned' /\ RecoverPart' /\ CallPart' /\ CurPart' /\ GroupPart'
  BY <1>1, <1>2, <1>4, AppendStep
<1>7. TypeOK'
  BY <1>1, <1>2, <1>4 DEF IInv, TypeOK, call, PCs
<1>8. MaterializePart'
  <2>1. \A c \in Cols : c < cur => Readable(col[grp][c]) /\ ColLen(grp, c) = 0
    BY DEF IInv, MaterializePart, MaterializePCs, TruncCol
  <2>2. grp \in Groups /\ \A c \in Cols : c < cur => c # cur
    BY SchemaAssumption DEF IInv, TypeOK, Cols
  <2>3. \A c \in Cols : c < cur' => Readable(col[grp][c])' /\ ColLen(grp, c)' = 0
    BY <1>2, <1>4, <2>1, <2>2 DEF ColLen
  <2>4. OpenLen = 0 /\ grp > 0 /\ grp >= OpenGroup /\ Count # 0 /\ grp \in dirs
    BY DEF IInv, MaterializePart, MaterializePCs, TruncCol
  <2>5. OpenLen' = 0 /\ grp' > 0 /\ grp' >= OpenGroup' /\ Count' # 0 /\ grp' \in dirs'
    BY <1>2, <2>4 DEF OpenLen, OpenGroup, OffsetOf, Count, call
  <2> QED  BY <1>1, <2>3, <2>5 DEF MaterializePart
<1>9. InsertPart' /\ LoadPart'
  BY <1>1 DEF InsertPart, LoadPart
<1> QED  BY <1>5, <1>6, <1>7, <1>8, <1>9 DEF IInv

(* The header of a `.col` of the new row group is written.                 *)
LEMMA FillColInv == IInv /\ FillCol => IInv'
<1> SUFFICES ASSUME IInv, FillCol PROVE IInv'
  OBVIOUS
<1> DEFINE F == ColImage(cur, <<>>, {})
<1>1. /\ pc \in MaterializePCs /\ pc \in AppendPCs
      /\ pc' \in {"trunc_col", "trunc_bm"} /\ pc' \in AppendPCs
  BY DEF FillCol, MaterializePCs, AppendPCs
<1>2. /\ UNCHANGED <<nextRid, dirs, bm, call, grp, deletes>>
      /\ col' = [col EXCEPT ![grp][cur] = F]
      /\ cur \in Cols /\ grp \in Groups /\ 1 \in Cols
  BY OpenFacts DEF FillCol, IInv, TypeOK
<1>3. F \in ColFile /\ Readable(F) /\ F.rows = <<>> /\ F.rows \in Seq(Domain(cur))
  BY <1>2, EmptySeq, ImageTyped
<1> HIDE DEF F
<1>4. /\ \A g \in Groups, c \in Cols :
            col'[g][c] = IF g = grp /\ c = cur THEN F ELSE col[g][c]
      /\ col' \in [Groups -> [Cols -> ColFile]]
      /\ \A g \in Groups, c \in Cols : col'[g][c].rows \in Seq(Domain(c))
  BY <1>2, <1>3, ColUpdate DEF IInv
<1>5. /\ pc' = "trunc_col" => cur < Columns /\ cur' = cur + 1
      /\ pc' = "trunc_bm" => ~ (cur < Columns) /\ cur' = 1
  BY DEF FillCol
<1>6. CommittedHeld' /\ TombstonesCommitted'
  BY <1>1, <1>2, <1>4, MaterializeStep
<1>7. Aligned' /\ RecoverPart' /\ CallPart' /\ CurPart' /\ GroupPart'
  BY <1>1, <1>2, <1>4, <1>5, AppendStep
<1>8. TypeOK'
  BY <1>1, <1>2, <1>4, <1>5, NextCol DEF IInv, TypeOK, call, PCs
<1>9. MaterializePart'
  <2>1. /\ \A c \in Cols : c < cur => Readable(col[grp][c]) /\ ColLen(grp, c) = 0
        /\ OpenLen = 0 /\ grp > 0 /\ grp >= OpenGroup /\ Count # 0 /\ grp \in dirs
    BY DEF IInv, MaterializePart, MaterializePCs, FillCol
  <2>2. \A c \in Cols : c < cur \/ c = cur => Readable(col[grp][c])' /\ ColLen(grp, c)' = 0
    BY <1>2, <1>3, <1>4, <2>1 DEF ColLen
  <2>3. OpenLen' = 0 /\ grp' > 0 /\ grp' >= OpenGroup' /\ Count' # 0 /\ grp' \in dirs'
    BY <1>2, <2>1 DEF OpenLen, OpenGroup, OffsetOf, Count, call
  <2> QED  BY <1>1, <1>2, <1>5, <2>2, <2>3, NextCol DEF MaterializePart
<1>10. InsertPart' /\ LoadPart'
  BY <1>1 DEF InsertPart, LoadPart
<1> QED  BY <1>6, <1>7, <1>8, <1>9, <1>10 DEF IInv

(* fs::write empties the bitmap of the new row group.                      *)
LEMMA TruncBmInv == IInv /\ TruncBm => IInv'
<1> SUFFICES ASSUME IInv, TruncBm PROVE IInv'
  OBVIOUS
<1>1. pc \in MaterializePCs /\ pc \in AppendPCs /\ pc' = "fill_bm" /\ pc' \in AppendPCs
  BY DEF TruncBm, MaterializePCs, AppendPCs
<1>2. /\ UNCHANGED <<nextRid, dirs, col, call, grp, cur, deletes>>
      /\ bm' = [bm EXCEPT ![grp] = NoBm("short")]
  BY DEF TruncBm, work
<1>3. /\ \A g \in Groups : bm'[g] = IF g = grp THEN NoBm("short") ELSE bm[g]
      /\ bm' \in [Groups -> BmFile] /\ grp \in Groups /\ NoBm("short").bits = {}
  BY <1>2 DEF IInv, TypeOK, NoBm, BmFile, FileStates
<1>4. CommittedHeld' /\ TombstonesCommitted'
  BY <1>1, <1>2, <1>3, MaterializeStep
<1>5. cur = 1
  BY DEF IInv, CurPart, TruncBm
<1>6. Aligned' /\ RecoverPart' /\ CallPart' /\ CurPart' /\ GroupPart'
  BY <1>1, <1>2, <1>3, <1>5, AppendStep
<1>7. TypeOK'
  BY <1>1, <1>2, <1>3 DEF IInv, TypeOK, call, PCs
<1>8. MaterializePart'
  BY <1>1, <1>2 DEF IInv, MaterializePart, TruncBm, call, Count, OpenGroup, OpenLen,
                    OffsetOf, ColLen
<1>9. InsertPart' /\ LoadPart'
  BY <1>1 DEF InsertPart, LoadPart
<1> QED  BY <1>4, <1>6, <1>7, <1>8, <1>9 DEF IInv

(* The bitmap of the new row group is written: the group is whole, empty.  *)
LEMMA FillBmInv == IInv /\ FillBm => IInv'
<1> SUFFICES ASSUME IInv, FillBm PROVE IInv'
  OBVIOUS
<1>1. pc \in MaterializePCs /\ pc \in AppendPCs /\ pc' = "load_bm" /\ pc' \in AppendPCs
  BY DEF FillBm, MaterializePCs, AppendPCs
<1>2. /\ UNCHANGED <<nextRid, dirs, col, call, grp, cur, deletes>>
      /\ bm' = [bm EXCEPT ![grp] = NoBm("whole")]
  BY DEF FillBm, work
<1>3. /\ \A g \in Groups : bm'[g] = IF g = grp THEN NoBm("whole") ELSE bm[g]
      /\ bm' \in [Groups -> BmFile] /\ grp \in Groups
      /\ NoBm("whole").bits = {} /\ Readable(NoBm("whole"))
  BY <1>2 DEF IInv, TypeOK, NoBm, BmFile, FileStates, Readable
<1>4. CommittedHeld' /\ TombstonesCommitted'
  BY <1>1, <1>2, <1>3, MaterializeStep
<1>5. cur = 1
  BY DEF IInv, CurPart, FillBm
<1>6. Aligned' /\ RecoverPart' /\ CallPart' /\ CurPart' /\ GroupPart'
  BY <1>1, <1>2, <1>3, <1>5, AppendStep
<1>7. TypeOK'
  BY <1>1, <1>2, <1>3 DEF IInv, TypeOK, call, PCs
<1>8. /\ OpenLen' = 0 /\ Count' # 0 /\ GroupWhole(grp)'
      /\ \A c \in Cols : ColLen(grp, c)' = 0
  <2>1. /\ OpenLen = 0 /\ Count # 0 /\ grp \in dirs
        /\ \A c \in Cols : Readable(col[grp][c]) /\ ColLen(grp, c) = 0
    BY DEF IInv, MaterializePart, MaterializePCs, FillBm
  <2> QED  BY <1>2, <1>3, <2>1 DEF GroupWhole, ColLen, Count, call, OpenLen, OffsetOf
<1>9. MaterializePart'
  BY <1>1 DEF MaterializePart, MaterializePCs
<1>10. InsertPart' /\ LoadPart'
  BY <1>1, <1>8 DEF InsertPart, LoadPart
<1> QED  BY <1>4, <1>6, <1>7, <1>9, <1>10 DEF IInv

(* What insert finds and writes: one value more, of the column's type.     *)
LEMMA InsertFacts ==
    ASSUME IInv, InsertCol
    PROVE  /\ Count = 1 /\ grp = OpenGroup /\ GroupWhole(grp) /\ OpenLen \in Nat
           /\ \A c \in Cols : ColLen(grp, c) = IF c < cur THEN OpenLen + 1 ELSE OpenLen
           /\ Append(col[grp][cur].rows, recs[1][cur]) \in Seq(Domain(cur))
           /\ Len(Append(col[grp][cur].rows, recs[1][cur])) = OpenLen + 1
<1>1. pc = "write_col" /\ op # "load" /\ pc \in AppendPCs /\ cur \in Cols /\ grp \in Groups
  BY DEF InsertCol, AppendPCs, IInv, TypeOK
<1>2. Count = 1
  BY <1>1 DEF IInv, CallPart
<1>3. grp = OpenGroup
  BY <1>1, <1>2 DEF IInv, GroupPart
<1>4. GroupWhole(grp) /\ \A c \in Cols : ColLen(grp, c) = IF c < cur THEN OpenLen + 1 ELSE OpenLen
  BY <1>1 DEF IInv, InsertPart
<1>5. OpenLen \in Nat
  BY OpenFacts DEF IInv
<1>6. col[grp][cur].rows \in Seq(Domain(cur))
  BY <1>1 DEF IInv, TypeOK
<1>7. recs[1][cur] \in Domain(cur)
  <2>1. recs \in Seq(Record) /\ Len(recs) = 1
    BY <1>2 DEF IInv, TypeOK, Count
  <2>2. recs[1] \in Record
    BY <2>1
  <2> QED  BY <1>1, <2>2 DEF Record, ValidRecord
<1>8. Len(col[grp][cur].rows) = OpenLen
  BY <1>1, <1>4, SchemaAssumption DEF ColLen, Cols
<1> QED  BY <1>2, <1>3, <1>4, <1>5, <1>6, <1>7, <1>8

(* insert appends the value to one column.                                 *)
LEMMA InsertColInv == IInv /\ InsertCol => IInv'
<1> SUFFICES ASSUME IInv, InsertCol PROVE IInv'
  OBVIOUS
<1> DEFINE s == Append(col[grp][cur].rows, recs[1][cur])
           F == ColImage(cur, s, deletes)
<1>1. /\ pc = "write_col" /\ op # "load" /\ pc \in AppendPCs
      /\ pc' \in {"write_col", "commit"} /\ pc' \in AppendPCs
      /\ pc' = "write_col" => cur < Columns /\ cur' = cur + 1
      /\ pc' = "commit" => ~ (cur < Columns) /\ cur' = 1
  BY DEF InsertCol, AppendPCs
<1>2. /\ UNCHANGED <<nextRid, dirs, bm, call, grp, deletes>>
      /\ col' = [col EXCEPT ![grp][cur] = F]
      /\ cur \in Cols /\ grp \in Groups /\ 1 \in Cols
  BY OpenFacts DEF InsertCol, IInv, TypeOK
<1>3. /\ Count = 1 /\ grp = OpenGroup /\ GroupWhole(grp) /\ OpenLen \in Nat
      /\ OpenGroup' = OpenGroup /\ OpenLen' = OpenLen
      /\ \A c \in Cols : ColLen(grp, c) = IF c < cur THEN OpenLen + 1 ELSE OpenLen
  <2>1. OpenGroup' = OpenGroup /\ OpenLen' = OpenLen
    BY <1>2 DEF OpenGroup, OpenLen, OffsetOf
  <2> QED  BY <2>1, InsertFacts
<1>4. s \in Seq(Domain(cur)) /\ Len(s) = OpenLen + 1
  BY InsertFacts
<1> HIDE DEF s
<1>5. F \in ColFile /\ Readable(F) /\ F.rows = s /\ F.rows \in Seq(Domain(cur))
  BY <1>2, <1>4, ImageTyped
<1> HIDE DEF F
<1>6. /\ \A g \in Groups, c \in Cols :
            col'[g][c] = IF g = grp /\ c = cur THEN F ELSE col[g][c]
      /\ col' \in [Groups -> [Cols -> ColFile]]
      /\ \A g \in Groups, c \in Cols : col'[g][c].rows \in Seq(Domain(c))
  BY <1>2, <1>5, ColUpdate DEF IInv
<1>7. CommittedHeld' /\ TombstonesCommitted'
  <2>1. /\ Readable(F)
        /\ grp < OpenGroup => Len(F.rows) = R
        /\ grp = OpenGroup => Len(F.rows) >= OpenLen
    BY <1>2, <1>3, <1>4, <1>5, OpenFacts DEF IInv
  <2> QED  BY <1>2, <1>5, <2>1, ColWriteHeld
<1>8. Aligned' /\ RecoverPart' /\ CallPart' /\ CurPart' /\ GroupPart'
  BY <1>1, <1>2, <1>3, <1>6, AppendStep
<1>9. TypeOK'
  BY <1>1, <1>2, <1>6, NextCol DEF IInv, TypeOK, call, PCs
<1>10. MaterializePart'
  BY <1>1 DEF MaterializePart, MaterializePCs
<1>11. GroupWhole(grp)'
  BY <1>2, <1>3, <1>5, <1>6 DEF GroupWhole
<1>12. \A c \in Cols : ColLen(grp, c)' = IF c < cur \/ c = cur THEN OpenLen + 1 ELSE OpenLen
  BY <1>2, <1>3, <1>4, <1>5, <1>6 DEF ColLen
<1>13. InsertPart'
  <2>1. CASE pc' = "write_col"
    <3>1. \A c \in Cols : c < cur' <=> c < cur \/ c = cur
      BY <1>1, <1>2, <2>1, SchemaAssumption DEF Cols
    <3> QED  BY <1>2, <1>3, <1>11, <1>12, <2>1, <3>1 DEF InsertPart
  <2>2. CASE pc' = "commit"
    <3>1. \A c \in Cols : c < cur \/ c = cur
      BY <1>1, <1>2, <2>2, NextCol
    <3> QED  BY <1>2, <1>3, <1>11, <1>12, <2>2, <3>1 DEF InsertPart
  <2> QED  BY <1>1, <2>1, <2>2
<1>14. LoadPart'
  BY <1>1, <1>2 DEF LoadPart, call
<1> QED  BY <1>7, <1>8, <1>9, <1>10, <1>13, <1>14 DEF IInv

(* What bulk_load finds and writes: a chunk that fits its row group, after *)
(* groups that are full.                                                   *)
LEMMA LoadFacts ==
    ASSUME IInv, LoadCol
    PROVE  /\ Count # 0 /\ Count \in Nat /\ OpenLen = 0 /\ nextRid + Count <= MaxRid
           /\ GroupWhole(grp) /\ grp >= OpenGroup /\ ChunkFirst < Count
           /\ OpenGroup \in Nat /\ grp \in Nat /\ nextRid = OpenGroup * R
           /\ \A c \in Cols : c < cur => ColLen(grp, c) = ChunkLen
           /\ \A g \in Groups : OpenGroup <= g /\ g < grp =>
                 GroupWhole(g) /\ \A c \in Cols : ColLen(g, c) = R
           /\ ChunkFirst \in Nat
           /\ ChunkLen \in Nat /\ 0 < ChunkLen /\ ChunkLen <= R /\ ChunkFirst + ChunkLen <= Count
           /\ ChunkFirst + R < Count => ChunkLen = R
           /\ ~ (ChunkFirst + R < Count) => ChunkLen = Count - ChunkFirst
           /\ ChunkCol(cur) \in Seq(Domain(cur)) /\ Len(ChunkCol(cur)) = ChunkLen
<1>1. pc = "write_col" /\ op = "load" /\ pc \in AppendPCs /\ cur \in Cols /\ grp \in Groups
  BY DEF LoadCol, AppendPCs, IInv, TypeOK
<1>2. /\ Count # 0 /\ Count \in Nat /\ OpenLen = 0 /\ nextRid + Count <= MaxRid
      /\ GroupWhole(grp) /\ grp >= OpenGroup /\ ChunkFirst < Count
      /\ OpenGroup \in Nat /\ grp \in Nat /\ nextRid = OpenGroup * R
      /\ \A c \in Cols : c < cur => ColLen(grp, c) = ChunkLen
      /\ \A g \in Groups : OpenGroup <= g /\ g < grp =>
            GroupWhole(g) /\ \A c \in Cols : ColLen(g, c) = R
  <2>1. Count # 0 /\ GroupWhole(grp) /\ \A c \in Cols : c < cur => ColLen(grp, c) = ChunkLen
    BY <1>1 DEF IInv, LoadPart
  <2>2. OpenLen = 0 /\ nextRid + Count <= MaxRid
    BY <1>1 DEF IInv, CallPart
  <2>3. /\ grp >= OpenGroup /\ ChunkFirst < Count
        /\ \A g \in Groups : OpenGroup <= g /\ g < grp =>
              GroupWhole(g) /\ \A c \in Cols : ColLen(g, c) = R
    BY <1>1, <2>1 DEF IInv, GroupPart
  <2>4. OpenGroup \in Nat /\ nextRid = OpenGroup * R + OpenLen
    BY OpenFacts DEF IInv
  <2>5. Count \in Nat
    BY DEF IInv, TypeOK, Count
  <2>6. nextRid = OpenGroup * R /\ grp \in Nat
    BY <1>1, <2>2, <2>4, SchemaAssumption DEF Groups
  <2> QED  BY <2>1, <2>2, <2>3, <2>4, <2>5, <2>6
<1>3. /\ ChunkFirst \in Nat
      /\ ChunkLen \in Nat /\ 0 < ChunkLen /\ ChunkLen <= R /\ ChunkFirst + ChunkLen <= Count
      /\ ChunkFirst + R < Count => ChunkLen = R
      /\ ~ (ChunkFirst + R < Count) => ChunkLen = Count - ChunkFirst
  <2>1. grp - OpenGroup \in Nat
    BY <1>2
  <2>2. (grp - OpenGroup) * R \in Nat
    BY <2>1, SchemaAssumption
  <2>3. ChunkFirst \in Nat /\ ChunkFirst < Count /\ Count \in Nat /\ R \in Nat \ {0}
    BY <1>2, <2>2, SchemaAssumption DEF ChunkFirst
  <2>4. ChunkLen = IF ChunkFirst + R < Count THEN R ELSE Count - ChunkFirst
    BY DEF ChunkLen, Count
  <2> QED  BY <2>3, <2>4
<1>4. ChunkCol(cur) \in Seq(Domain(cur)) /\ Len(ChunkCol(cur)) = ChunkLen
  <2>1. recs \in Seq(Record) /\ Len(recs) = Count
    BY DEF IInv, TypeOK, Count
  <2>2. \A i \in 1 .. ChunkLen : recs[ChunkFirst + i][cur] \in Domain(cur)
    <3> TAKE i \in 1 .. ChunkLen
    <3>1. ChunkFirst + i \in 1 .. Count
      BY <1>2, <1>3
    <3>2. recs[ChunkFirst + i] \in Record
      BY <2>1, <3>1
    <3> QED  BY <1>1, <3>2 DEF Record, ValidRecord
  <2>3. ChunkCol(cur) \in [1 .. ChunkLen -> Domain(cur)]
    BY <2>2 DEF ChunkCol
  <2> QED  BY <1>3, <2>3
<1> QED  BY <1>2, <1>3, <1>4

(* bulk_load overwrites one column with its chunk.                         *)
LEMMA LoadColInv == IInv /\ LoadCol => IInv'
<1> SUFFICES ASSUME IInv, LoadCol PROVE IInv'
  OBVIOUS
<1> DEFINE s == ChunkCol(cur)
           F == ColImage(cur, s, deletes)
<1>1. /\ pc = "write_col" /\ op = "load" /\ pc \in AppendPCs
      /\ UNCHANGED <<nextRid, dirs, bm, call, deletes>>
      /\ col' = [col EXCEPT ![grp][cur] = F]
      /\ cur \in Cols /\ grp \in Groups /\ 1 \in Cols
      /\ OpenGroup' = OpenGroup /\ OpenLen' = OpenLen /\ Count' = Count /\ op' = op
  BY OpenFacts DEF LoadCol, IInv, TypeOK, AppendPCs, OpenGroup, OpenLen, OffsetOf, Count,
                   call
<1>2. /\ Count # 0 /\ Count \in Nat /\ OpenLen = 0 /\ nextRid + Count <= MaxRid
      /\ GroupWhole(grp) /\ grp >= OpenGroup /\ ChunkFirst < Count
      /\ OpenGroup \in Nat /\ grp \in Nat /\ nextRid = OpenGroup * R
      /\ \A c \in Cols : c < cur => ColLen(grp, c) = ChunkLen
      /\ \A g \in Groups : OpenGroup <= g /\ g < grp =>
            GroupWhole(g) /\ \A c \in Cols : ColLen(g, c) = R
  BY LoadFacts
<1>3. /\ ChunkFirst \in Nat
      /\ ChunkLen \in Nat /\ 0 < ChunkLen /\ ChunkLen <= R /\ ChunkFirst + ChunkLen <= Count
      /\ ChunkFirst + R < Count => ChunkLen = R
      /\ ~ (ChunkFirst + R < Count) => ChunkLen = Count - ChunkFirst
  BY LoadFacts
<1>4. s \in Seq(Domain(cur)) /\ Len(s) = ChunkLen
  BY LoadFacts
<1> HIDE DEF s
<1>5. F \in ColFile /\ Readable(F) /\ F.rows = s /\ F.rows \in Seq(Domain(cur))
  BY <1>1, <1>4, ImageTyped
<1> HIDE DEF F
<1>6. /\ \A g \in Groups, c \in Cols :
            col'[g][c] = IF g = grp /\ c = cur THEN F ELSE col[g][c]
      /\ col' \in [Groups -> [Cols -> ColFile]]
      /\ \A g \in Groups, c \in Cols : col'[g][c].rows \in Seq(Domain(c))
  BY <1>1, <1>5, ColUpdate DEF IInv
<1>7. CommittedHeld' /\ TombstonesCommitted'
  <2>1. /\ Readable(F)
        /\ grp < OpenGroup => Len(F.rows) = R
        /\ grp = OpenGroup => Len(F.rows) >= OpenLen
    BY <1>2, <1>3, <1>4, <1>5
  <2> QED  BY <1>1, <1>5, <2>1, ColWriteHeld
<1>8. /\ \A c \in Cols : c < cur \/ c = cur => col'[grp][c].state = "whole"
      /\ \A c \in Cols : c < cur \/ c = cur => Len(col'[grp][c].rows) = ChunkLen
      /\ grp \in dirs' /\ Readable(bm'[grp]) /\ \A c \in Cols : Readable(col'[grp][c])
  BY <1>1, <1>2, <1>4, <1>5, <1>6 DEF ColLen, GroupWhole, Readable
<1>9. CASE cur < Columns
  <2>1. pc' = "write_col" /\ cur' = cur + 1 /\ grp' = grp
    BY <1>1, <1>9 DEF LoadCol
  <2>2. Aligned' /\ RecoverPart' /\ CallPart' /\ CurPart' /\ GroupPart'
    BY <1>1, <1>6, <2>1, AppendStep
  <2>3. TypeOK'
    BY <1>1, <1>6, <1>9, <2>1, NextCol DEF IInv, TypeOK, call, PCs
  <2>4. MaterializePart' /\ InsertPart'
    BY <1>1, <2>1 DEF MaterializePart, MaterializePCs, InsertPart
  <2>5. LoadPart'
    <3>1. ChunkLen' = ChunkLen
      BY <1>1, <2>1 DEF ChunkLen, ChunkFirst, call
    <3>2. \A c \in Cols : c < cur' => c < cur \/ c = cur
      BY <1>1, <1>9, <2>1, NextCol
    <3> QED  BY <1>1, <1>2, <1>8, <2>1, <3>1, <3>2 DEF LoadPart, GroupWhole, ColLen
  <2> QED  BY <1>7, <2>2, <2>3, <2>4, <2>5 DEF IInv
<1>10. CASE ~ (cur < Columns) /\ ~ (ChunkFirst + R < Count)
  <2>1. pc' = "commit" /\ cur' = 1 /\ grp' = grp
    BY <1>1, <1>10 DEF LoadCol, Count
  <2>2. Aligned' /\ RecoverPart' /\ CallPart' /\ CurPart' /\ GroupPart'
    <3>1. pc' \in AppendPCs
      BY <2>1 DEF AppendPCs
    <3> QED  BY <1>1, <1>2, <1>6, <2>1, <3>1, AppendStep
  <2>3. TypeOK'
    BY <1>1, <1>6, <2>1 DEF IInv, TypeOK, call, PCs
  <2>4. MaterializePart' /\ InsertPart'
    BY <1>1, <2>1 DEF MaterializePart, MaterializePCs, InsertPart
  <2>5. LoadPart'
    <3>1. ChunkFirst' = ChunkFirst
      BY <1>1, <2>1 DEF ChunkFirst
    <3>2. \A c \in Cols : c < cur \/ c = cur
      BY <1>1, <1>10, NextCol
    <3>3. ChunkFirst + R >= Count
      BY <1>2, <1>3, <1>10, SchemaAssumption
    <3> QED  BY <1>1, <1>3, <1>8, <1>10, <2>1, <3>1, <3>2, <3>3 DEF LoadPart, GroupWhole, ColLen
  <2> QED  BY <1>7, <2>2, <2>3, <2>4, <2>5 DEF IInv
<1>11. CASE ~ (cur < Columns) /\ ChunkFirst + R < Count
  <2>1. StartAppend(grp + 1)
    BY <1>1, <1>11 DEF LoadCol, Count, NextGroup
  <2>2. pc' = "mkdir" /\ grp' = grp + 1 /\ cur' = 1
    BY <1>2, <2>1 DEF StartAppend, OpenLen
  <2>3. (grp + 1 - OpenGroup) * R < Count /\ (grp + 1) * R < nextRid + Count
    <3>1. (grp + 1 - OpenGroup) * R = (grp - OpenGroup) * R + R
      BY <1>2, SchemaAssumption
    <3>2. (grp + 1) * R = OpenGroup * R + (grp + 1 - OpenGroup) * R
      BY <1>2, SchemaAssumption
    <3>3. (grp + 1 - OpenGroup) * R < Count
      BY <1>11, <3>1 DEF ChunkFirst
    <3>4. (grp + 1 - OpenGroup) * R \in Nat /\ OpenGroup * R \in Nat
      BY <1>2, SchemaAssumption
    <3> QED  BY <1>2, <3>2, <3>3, <3>4
  <2>4. grp + 1 \in Groups
    <3>1. /\ MaxRid \in Nat /\ MaxRid \div R \in Nat
          /\ MaxRid % R \in 0 .. R - 1 /\ MaxRid = (MaxRid \div R) * R + (MaxRid % R)
      BY InputAssumption, DivMod
    <3>2. (grp + 1) * R <= MaxRid
      BY <1>2, <2>3, <3>1, SchemaAssumption
    <3>3. ~ (MaxRid \div R < grp + 1)
      <4> SUFFICES ASSUME MaxRid \div R < grp + 1 PROVE FALSE
        OBVIOUS
      <4>1. (MaxRid \div R) * R + R <= (grp + 1) * R
        BY <1>2, <3>1, MulMono
      <4> QED  BY <3>1, <3>2, <4>1, <1>2, SchemaAssumption
    <3> QED  BY <1>2, <3>1, <3>3 DEF Groups
  <2>5. TypeOK'
    BY <1>1, <1>6, <2>2, <2>4 DEF IInv, TypeOK, call, PCs
  <2>6. Aligned' /\ RecoverPart' /\ CurPart' /\ InsertPart' /\ LoadPart'
    BY <2>2 DEF Aligned, RecoverPart, CurPart, InsertPart, LoadPart
  <2>7. CallPart'
    BY <1>1, <1>2, <2>2 DEF CallPart
  <2>8. MaterializePart'
    BY <1>1, <1>2, <2>2 DEF MaterializePart
  <2>9. GroupPart'
    <3>1. ChunkFirst' < Count'
      <4> DEFINE d == grp + 1 - OpenGroup
      <4>1. OpenGroup' = OpenGroup
        BY <1>1
      <4>2. ChunkFirst' = d * R
        BY <1>2, <2>2, <4>1, SchemaAssumption DEF ChunkFirst
      <4>3. d * R < Count
        BY <2>3
      <4> HIDE DEF d
      <4> QED  BY <1>1, <4>2, <4>3
    <3>2. ASSUME NEW g \in Groups, OpenGroup <= g, g < grp + 1
          PROVE  GroupWhole(g)' /\ \A c \in Cols : ColLen(g, c)' = R
      <4>1. g < grp \/ g = grp
        BY <1>2, <3>2 DEF Groups
      <4>2. CASE g < grp
        <5>1. g # grp /\ GroupWhole(g) /\ \A c \in Cols : ColLen(g, c) = R
          BY <1>2, <3>2, <4>2
        <5> QED  BY <1>1, <1>6, <5>1 DEF GroupWhole, ColLen
      <4>3. CASE g = grp
        <5>1. ChunkLen = R /\ \A c \in Cols : c < cur \/ c = cur
          BY <1>1, <1>3, <1>11, NextCol
        <5> QED  BY <1>8, <4>3, <5>1 DEF GroupWhole, ColLen
      <4> QED  BY <4>1, <4>2, <4>3
    <3> QED  BY <1>1, <1>2, <2>2, <3>1, <3>2 DEF GroupPart
  <2> QED  BY <1>7, <2>5, <2>6, <2>7, <2>8, <2>9 DEF IInv
<1> QED  BY <1>9, <1>10, <1>11

-----------------------------------------------------------------------------
(* delete.                                                                 *)

(* The group of the row a delete works on is there and not shared with an  *)
(* append.                                                                 *)
LEMMA DeleteFacts ==
    ASSUME IInv, pc \in {"mark", "refresh_col"}
    PROVE  /\ op \in {"delete", "update"} /\ victim \in 0 .. nextRid - 1
           /\ grp = GroupOf(victim) /\ grp \in Groups /\ Held(grp) /\ GroupWhole(grp)
           /\ OffsetOf(victim) \in Offsets /\ victim = grp * R + OffsetOf(victim)
<1>1. op \in {"delete", "update"} /\ victim < nextRid /\ grp = GroupOf(victim)
  BY DEF IInv, CallPart
<1>2. TypeOK /\ victim \in Rids
  BY DEF IInv, TypeOK
<1>3. victim \in 0 .. nextRid - 1
  BY <1>1, <1>2, VictimFacts
<1>4. /\ GroupOf(victim) \in Groups /\ Held(GroupOf(victim))
      /\ OffsetOf(victim) \in 0 .. R - 1
      /\ victim = GroupOf(victim) * R + OffsetOf(victim)
  BY <1>2, <1>3, CommittedRid
<1>5. GroupWhole(GroupOf(victim))
  BY <1>4 DEF IInv, CommittedHeld
<1> QED  BY <1>1, <1>3, <1>4, <1>5 DEF Offsets

(* The tombstone is written; it is that of a committed row.                *)
LEMMA MarkDeletedInv == IInv /\ MarkDeleted => IInv'
<1> SUFFICES ASSUME IInv, MarkDeleted PROVE IInv'
  OBVIOUS
<1> DEFINE B == Marked(bm[grp], OffsetOf(victim))
<1>1. /\ pc = "mark" /\ pc' = "refresh_col" /\ cur' = 1
      /\ UNCHANGED <<nextRid, dirs, col, op, victim, recs, grp>>
      /\ bm' = [bm EXCEPT ![grp] = B] /\ deletes' = bm'[grp].bits
      /\ OpenGroup' = OpenGroup /\ OpenLen' = OpenLen /\ 1 \in Cols
  BY OpenFacts DEF MarkDeleted, call, OpenGroup, OpenLen, OffsetOf, IInv
<1>2. /\ victim < nextRid /\ grp = GroupOf(victim) /\ grp \in Groups /\ Held(grp)
      /\ GroupWhole(grp) /\ OffsetOf(victim) \in Offsets
      /\ victim = grp * R + OffsetOf(victim)
  <2>1. victim < nextRid
    BY <1>1 DEF IInv, CallPart
  <2> QED  BY <1>1, <2>1, DeleteFacts
<1>3. /\ bm[grp] \in BmFile /\ B \in BmFile
      /\ Readable(B) /\ B.bits = bm[grp].bits \cup {OffsetOf(victim)}
  <2>1. bm[grp] \in BmFile
    BY <1>2 DEF IInv, TypeOK
  <2> QED  BY <1>2, <2>1 DEF Marked, BmFile, GroupWhole, Readable
<1> HIDE DEF B
<1>4. /\ \A g \in Groups : bm'[g] = IF g = grp THEN B ELSE bm[g]
      /\ bm' \in [Groups -> BmFile]
  BY <1>1, <1>2, <1>3 DEF IInv, TypeOK
<1>5. CommittedHeld'
  <2>1. \A g \in Groups : GroupWhole(g) => GroupWhole(g)'
    BY <1>1, <1>3, <1>4 DEF GroupWhole
  <2> QED  BY <1>1, <2>1 DEF IInv, CommittedHeld, Held, ColLen
<1>6. TombstonesCommitted'
  <2> SUFFICES ASSUME NEW g \in Groups, NEW o \in bm'[g].bits PROVE g * R + o < nextRid
    BY <1>1 DEF TombstonesCommitted
  <2>1. CASE g = grp /\ o = OffsetOf(victim)
    BY <1>2, <2>1
  <2>2. CASE ~ (g = grp /\ o = OffsetOf(victim))
    <3>1. o \in bm[g].bits
      BY <1>3, <1>4, <2>2
    <3> QED  BY <3>1 DEF IInv, TombstonesCommitted
  <2> QED  BY <2>1, <2>2
<1>7. TypeOK'
  <2>1. bm'[grp].bits \subseteq Offsets
    BY <1>2, <1>4 DEF BmFile
  <2> QED  BY <1>1, <1>4, <2>1 DEF IInv, TypeOK, PCs
<1>8. Aligned'
  BY <1>1 DEF IInv, Aligned, Held, ColLen
<1>9. CallPart'
  BY <1>1 DEF IInv, CallPart, AppendPCs, MaterializePCs, Count, GroupOf
<1>10. /\ RecoverPart' /\ CurPart' /\ GroupPart' /\ MaterializePart' /\ InsertPart'
       /\ LoadPart'
  BY <1>1 DEF RecoverPart, CurPart, GroupPart, MaterializePart, InsertPart, LoadPart,
              AppendPCs, MaterializePCs
<1> QED  BY <1>5, <1>6, <1>7, <1>8, <1>9, <1>10 DEF IInv

(* The statistics of an INT column are refreshed, its values kept.         *)
LEMMA RefreshColInv == IInv /\ RefreshCol => IInv'
<1> SUFFICES ASSUME IInv, RefreshCol PROVE IInv'
  OBVIOUS
<1>1. /\ pc = "refresh_col" /\ cur \in Cols
      /\ UNCHANGED <<nextRid, dirs, bm, call, deletes>>
      /\ OpenGroup' = OpenGroup /\ OpenLen' = OpenLen
      /\ OpenGroup \in Groups /\ 1 \in Cols
  BY OpenFacts DEF RefreshCol, OpenGroup, OpenLen, OffsetOf, IInv, TypeOK
<1>2. grp \in Groups /\ GroupWhole(grp) /\ op \in {"delete", "update"}
  BY <1>1, DeleteFacts
<1>3. /\ col' \in [Groups -> [Cols -> ColFile]]
      /\ \A g \in Groups, c \in Cols : col'[g][c].rows \in Seq(Domain(c))
      /\ \A g \in Groups, c \in Cols : /\ col'[g][c].rows = col[g][c].rows
                                       /\ Readable(col[g][c]) => Readable(col'[g][c])
  <2>1. CASE cur \in IntCols
    <3> DEFINE F == ColImage(cur, col[grp][cur].rows, deletes)
    <3>1. col' = [col EXCEPT ![grp][cur] = F]
      BY <2>1 DEF RefreshCol
    <3>2. col[grp][cur].rows \in Seq(Domain(cur))
      BY <1>1, <1>2 DEF IInv, TypeOK
    <3>3. /\ F \in ColFile /\ Readable(F) /\ F.rows = col[grp][cur].rows
          /\ F.rows \in Seq(Domain(cur))
      BY <1>1, <3>2, ImageTyped
    <3> HIDE DEF F
    <3>4. /\ \A g \in Groups, c \in Cols :
                col'[g][c] = IF g = grp /\ c = cur THEN F ELSE col[g][c]
          /\ col' \in [Groups -> [Cols -> ColFile]]
          /\ \A g \in Groups, c \in Cols : col'[g][c].rows \in Seq(Domain(c))
      BY <3>1, <3>3, ColUpdate DEF IInv
    <3> QED  BY <3>3, <3>4
  <2>2. CASE cur \notin IntCols
    <3>1. col' = col
      BY <2>2 DEF RefreshCol
    <3> QED  BY <3>1 DEF IInv, TypeOK
  <2> QED  BY <2>1, <2>2
<1>4. CommittedHeld'
  <2>1. \A g \in Groups : GroupWhole(g) => GroupWhole(g)'
    BY <1>1, <1>3 DEF GroupWhole
  <2>2. \A g \in Groups, c \in Cols : ColLen(g, c)' = ColLen(g, c)
    BY <1>3 DEF ColLen
  <2>3. \A g \in Groups : Held(g)' <=> Held(g)
    BY <1>1 DEF Held
  <2> QED  BY <1>1, <2>1, <2>2, <2>3 DEF IInv, CommittedHeld
<1>5. TombstonesCommitted'
  BY <1>1 DEF IInv, TombstonesCommitted
<1>6. Held(OpenGroup)' => \A c \in Cols : (ColLen(OpenGroup, c) = OpenLen)'
  <2>1. Held(OpenGroup) => \A c \in Cols : ColLen(OpenGroup, c) = OpenLen
    BY <1>1 DEF IInv, Aligned
  <2>2. Held(OpenGroup)' <=> Held(OpenGroup)
    BY <1>1 DEF Held
  <2>3. \A c \in Cols : ColLen(OpenGroup, c)' = ColLen(OpenGroup, c)
    BY <1>1, <1>3 DEF ColLen
  <2> QED  BY <1>1, <2>1, <2>2, <2>3
<1>7. /\ victim < nextRid /\ grp = GroupOf(victim)
      /\ op = "update" => Count = 1 /\ nextRid + 1 <= MaxRid
  BY <1>1 DEF IInv, CallPart
<1>8. CASE cur < Columns
  <2>1. pc' = "refresh_col" /\ cur' = cur + 1 /\ grp' = grp
    BY <1>1, <1>8 DEF RefreshCol
  <2>2. TypeOK'
    BY <1>1, <1>2, <1>3, <1>8, <2>1, NextCol DEF IInv, TypeOK, call, PCs
  <2>3. Aligned'
    BY <1>6 DEF Aligned
  <2>4. CallPart'
    BY <1>1, <1>2, <1>7, <2>1 DEF CallPart, AppendPCs, MaterializePCs, Count, GroupOf, call
  <2>5. /\ RecoverPart' /\ CurPart' /\ GroupPart' /\ MaterializePart' /\ InsertPart'
        /\ LoadPart'
    BY <2>1 DEF RecoverPart, CurPart, GroupPart, MaterializePart, InsertPart, LoadPart,
                AppendPCs, MaterializePCs
  <2> QED  BY <1>4, <1>5, <2>2, <2>3, <2>4, <2>5 DEF IInv
<1>9. CASE ~ (cur < Columns) /\ op # "update"
  <2>1. pc' = "return" /\ cur' = 1 /\ grp' = grp
    BY <1>9 DEF RefreshCol
  <2>2. TypeOK'
    BY <1>1, <1>2, <1>3, <2>1 DEF IInv, TypeOK, call, PCs
  <2>3. Aligned'
    BY <1>6 DEF Aligned
  <2>4. /\ CallPart' /\ RecoverPart' /\ CurPart' /\ GroupPart' /\ MaterializePart'
        /\ InsertPart' /\ LoadPart'
    BY <2>1 DEF CallPart, RecoverPart, CurPart, GroupPart, MaterializePart, InsertPart,
                LoadPart, AppendPCs, MaterializePCs
  <2> QED  BY <1>4, <1>5, <2>2, <2>3, <2>4 DEF IInv
<1>10. CASE ~ (cur < Columns) /\ op = "update"
  <2>1. StartAppend(OpenGroup)
    BY <1>10 DEF RefreshCol
  <2>2. op' = "update" /\ Count' = 1 /\ nextRid + Count' <= MaxRid /\ UNCHANGED nextRid
    BY <1>1, <1>7, <1>10 DEF call, Count
  <2>3. pc' \in PCs /\ grp' \in Groups /\ cur' \in Cols
    BY <1>1, <2>1, StartAppendTypes
  <2>4. TypeOK'
    BY <1>1, <1>3, <2>3 DEF IInv, TypeOK, call
  <2> QED  BY <1>4, <1>5, <1>6, <2>1, <2>2, <2>4, StartAppendInv
<1> QED  BY <1>8, <1>9, <1>10

-----------------------------------------------------------------------------
(* The commit.                                                             *)

(* Where next_rid stands after bulk_load: the last group it wrote is the   *)
(* open group, or it is full and the next one is not there yet.            *)
LEMMA LoadedRid ==
    ASSUME IInv, pc = "commit", op = "load", Count # 0
    PROVE  /\ OpenLen = 0 /\ grp \in Groups /\ OpenGroup <= grp
           /\ OpenGroup \in Nat /\ grp \in Nat
           /\ \/ /\ (nextRid + Count) \div R = grp
                 /\ (nextRid + Count) % R = Count - ChunkFirst
                 /\ Count - ChunkFirst > 0
              \/ /\ (nextRid + Count) \div R = grp + 1
                 /\ (nextRid + Count) % R = 0
                 /\ Count - ChunkFirst = R
<1> DEFINE rest == Count - ChunkFirst
<1>1. /\ OpenLen = 0 /\ grp \in Groups /\ OpenGroup <= grp
      /\ ChunkFirst < Count /\ ChunkFirst + R >= Count
  BY DEF IInv, TypeOK, CallPart, GroupPart, LoadPart, AppendPCs
<1>2. OpenGroup \in Nat /\ grp \in Nat /\ nextRid = OpenGroup * R /\ R \in Nat \ {0}
  <2>1. OpenGroup \in Nat /\ nextRid = OpenGroup * R + OpenLen
    BY OpenFacts DEF IInv
  <2> QED  BY <1>1, <2>1, SchemaAssumption DEF Groups
<1>3. Count \in Nat
  BY DEF IInv, TypeOK, Count
<1>4. ChunkFirst = (grp - OpenGroup) * R /\ ChunkFirst \in Nat
  <2>1. grp - OpenGroup \in Nat
    BY <1>1, <1>2
  <2> QED  BY <1>2, <2>1 DEF ChunkFirst
<1>5. rest \in 1 .. R
  BY <1>1, <1>2, <1>3, <1>4
<1>6. nextRid + Count = grp * R + rest
  <2>1. grp * R = OpenGroup * R + (grp - OpenGroup) * R
    BY <1>2
  <2>2. OpenGroup * R \in Nat
    BY <1>2
  <2> QED  BY <1>2, <1>3, <1>4, <2>1, <2>2
<1> HIDE DEF rest
<1>7. CASE rest < R
  <2>1. rest \in 0 .. R - 1 /\ nextRid + Count \in Nat
    BY <1>2, <1>3, <1>5, <1>7, OpenFacts DEF IInv
  <2>2. (nextRid + Count) \div R = grp /\ (nextRid + Count) % R = rest
    BY <1>2, <1>6, <2>1, DivUnique
  <2> QED  BY <1>1, <1>2, <1>5, <2>2 DEF rest
<1>8. CASE rest = R
  <2>1. nextRid + Count = (grp + 1) * R + 0
    BY <1>2, <1>6, <1>8
  <2>2. nextRid + Count \in Nat /\ grp + 1 \in Nat /\ 0 \in 0 .. R - 1
    BY <1>2, <1>3
  <2>3. (nextRid + Count) \div R = grp + 1 /\ (nextRid + Count) % R = 0
    BY <2>1, <2>2, DivUnique
  <2> QED  BY <1>1, <1>2, <1>8, <2>3 DEF rest
<1> QED  BY <1>2, <1>5, <1>7, <1>8

(* set_next_rid: the rows the call wrote are committed rows from here on.  *)
LEMMA CommitInv == IInv /\ Commit => IInv'
<1> SUFFICES ASSUME IInv, Commit PROVE IInv'
  OBVIOUS
<1>1. /\ pc = "commit" /\ pc' = "return" /\ nextRid' = nextRid + Count
      /\ UNCHANGED <<dirs, col, bm, op, victim, recs, grp, cur, deletes>>
      /\ OpenGroup' = (nextRid + Count) \div R /\ OpenLen' = (nextRid + Count) % R
  BY DEF Commit, call, work, Count, OpenGroup, OpenLen, OffsetOf
<1>2. /\ nextRid \in Nat /\ Count \in Nat /\ nextRid + Count <= MaxRid
      /\ op \in {"insert", "update", "load"}
      /\ op # "load" => Count = 1
      /\ OpenGroup \in Nat /\ OpenLen \in Nat
      /\ \A g \in Groups : g \in Nat
  <2>1. nextRid \in Nat
    BY InputAssumption DEF IInv, TypeOK, Rids
  <2>2. Count \in Nat
    BY DEF IInv, TypeOK, Count
  <2> QED  BY <1>1, <2>1, <2>2, OpenFacts DEF IInv, CallPart, AppendPCs, Groups
<1>3. TypeOK'
  <2>1. nextRid' \in Rids
    BY <1>1, <1>2, InputAssumption DEF Rids
  <2> QED  BY <1>1, <2>1 DEF IInv, TypeOK, PCs
<1>4. TombstonesCommitted'
  <2> SUFFICES ASSUME NEW g \in Groups, NEW o \in bm[g].bits PROVE g * R + o < nextRid + Count
    BY <1>1 DEF TombstonesCommitted
  <2>1. g * R + o < nextRid
    BY DEF IInv, TombstonesCommitted
  <2>2. o \in 0 .. R - 1 /\ g \in Nat
    BY <1>2 DEF IInv, TypeOK, BmFile, Offsets
  <2>3. g * R \in Nat
    BY <2>2, SchemaAssumption
  <2> QED  BY <1>2, <2>1, <2>2, <2>3, SchemaAssumption
<1>5. CommittedHeld' /\ Aligned'
  <2>1. CASE Count = 0
    <3>1. nextRid' = nextRid
      BY <1>1, <1>2, <2>1
    <3>2. Held(OpenGroup) => \A c \in Cols : ColLen(OpenGroup, c) = OpenLen
      BY <1>1, <2>1 DEF IInv, Aligned
    <3> QED
      BY <1>1, <3>1, <3>2
      DEF IInv, CommittedHeld, Aligned, Held, GroupWhole, ColLen, OpenGroup, OpenLen, OffsetOf
  <2>2. CASE op # "load"
    <3>1. /\ GroupWhole(OpenGroup) /\ Count = 1
          /\ \A c \in Cols : ColLen(OpenGroup, c) = OpenLen + 1
      <4>1. Count = 1
        BY <1>2, <2>2
      <4>2. GroupWhole(OpenGroup) /\ \A c \in Cols : ColLen(OpenGroup, c) = OpenLen + 1
        BY <1>1, <2>2 DEF IInv, InsertPart
      <4> QED  BY <4>1, <4>2
    <3>2. \/ OpenLen + 1 < R /\ OpenGroup' = OpenGroup /\ OpenLen' = OpenLen + 1
          \/ OpenLen + 1 = R /\ OpenGroup' = OpenGroup + 1 /\ OpenLen' = 0
      BY <1>1, <1>2, <3>1, NextRidDiv DEF OpenGroup, OpenLen, OffsetOf
    <3>3. \A g \in Groups : Held(g)' => g < OpenGroup \/ g = OpenGroup
      BY <1>2, <3>2 DEF Held
    <3>4. \A g \in Groups : g < OpenGroup =>
              GroupWhole(g) /\ \A c \in Cols : ColLen(g, c) = R
      BY DEF IInv, CommittedHeld, Held
    <3>5. ASSUME NEW g \in Groups, Held(g)'
          PROVE  /\ GroupWhole(g)'
                 /\ g < OpenGroup' => \A c \in Cols : ColLen(g, c)' = R
                 /\ g = OpenGroup' => \A c \in Cols : ColLen(g, c)' >= OpenLen'
      <4>1. GroupWhole(g)' <=> GroupWhole(g)
        BY <1>1 DEF GroupWhole
      <4>2. \A c \in Cols : ColLen(g, c)' = ColLen(g, c)
        BY <1>1 DEF ColLen
      <4> QED  BY <1>2, <3>1, <3>2, <3>3, <3>4, <3>5, <4>1, <4>2
    <3>6. Held(OpenGroup)' => OpenGroup' = OpenGroup /\ OpenLen' = OpenLen + 1
      BY <1>2, <3>2 DEF Held
    <3>7. Aligned'
      <4>1. \A c \in Cols : Held(OpenGroup)' => ColLen(OpenGroup, c)' = ColLen(OpenGroup, c)
        BY <1>1, <3>6 DEF ColLen
      <4> QED  BY <3>1, <3>6, <4>1 DEF Aligned
    <3> QED  BY <3>5, <3>7 DEF CommittedHeld
  <2>3. CASE op = "load" /\ Count # 0
    <3> DEFINE rest == Count - ChunkFirst
    <3>1. /\ OpenLen = 0 /\ grp \in Groups /\ OpenGroup <= grp /\ grp \in Nat
          /\ \/ OpenGroup' = grp /\ OpenLen' = rest /\ rest > 0
             \/ OpenGroup' = grp + 1 /\ OpenLen' = 0 /\ rest = R
      BY <1>1, <2>3, LoadedRid
    <3>2. /\ GroupWhole(grp) /\ \A c \in Cols : ColLen(grp, c) = rest
          /\ \A g \in Groups : OpenGroup <= g /\ g < grp =>
                GroupWhole(g) /\ \A c \in Cols : ColLen(g, c) = R
      BY <1>1, <2>3 DEF IInv, LoadPart, GroupPart, AppendPCs
    <3>3. \A g \in Groups : g < OpenGroup =>
              GroupWhole(g) /\ \A c \in Cols : ColLen(g, c) = R
      BY DEF IInv, CommittedHeld, Held
    <3>4. rest \in Int
      <4>1. (grp - OpenGroup) * R \in Int
        BY <1>2, <3>1, SchemaAssumption
      <4> QED  BY <1>2, <4>1 DEF ChunkFirst
    <3> HIDE DEF rest
    <3>5. ASSUME NEW g \in Groups, Held(g)'
          PROVE  /\ GroupWhole(g)'
                 /\ g < OpenGroup' => \A c \in Cols : ColLen(g, c)' = R
                 /\ g = OpenGroup' => \A c \in Cols : ColLen(g, c)' >= OpenLen'
      <4>1. GroupWhole(g)' <=> GroupWhole(g)
        BY <1>1 DEF GroupWhole
      <4>2. \A c \in Cols : ColLen(g, c)' = ColLen(g, c)
        BY <1>1 DEF ColLen
      <4>3. g < grp \/ g = grp
        BY <1>2, <3>1, <3>5 DEF Held
      <4>4. g < grp => GroupWhole(g) /\ \A c \in Cols : ColLen(g, c) = R
        BY <1>2, <3>2, <3>3
      <4> QED  BY <1>2, <3>1, <3>2, <3>4, <4>1, <4>2, <4>3, <4>4
    <3>6. Held(OpenGroup)' => OpenGroup' = grp /\ OpenLen' = rest
      BY <1>2, <3>1 DEF Held
    <3>7. Aligned'
      <4>1. \A c \in Cols : Held(OpenGroup)' => ColLen(OpenGroup, c)' = ColLen(grp, c)
        BY <1>1, <3>6 DEF ColLen
      <4> QED  BY <3>2, <3>6, <4>1 DEF Aligned
    <3> QED  BY <3>5, <3>7 DEF CommittedHeld
  <2> QED  BY <2>1, <2>2, <2>3
<1>6. /\ RecoverPart' /\ CallPart' /\ CurPart' /\ GroupPart' /\ MaterializePart'
      /\ InsertPart' /\ LoadPart'
  BY <1>1 DEF RecoverPart, CallPart, CurPart, GroupPart, MaterializePart, InsertPart,
              LoadPart, AppendPCs, MaterializePCs
<1> QED  BY <1>3, <1>4, <1>5, <1>6 DEF IInv

-----------------------------------------------------------------------------
(* The theorems.                                                           *)

(* No step of any call, recovery or crash breaks the invariant.            *)
LEMMA NextInv == IInv /\ [Next]_vars => IInv'
<1> SUFFICES ASSUME IInv, [Next]_vars PROVE IInv'
  OBVIOUS
<1>1. CASE Open
  BY <1>1, OpenInv
<1>2. CASE Step
  <2>1. CASE RecoverNothing \/ RecoverLoad \/ RecoverCol \/ RecoverFails
    BY <2>1, RecoverNothingInv, RecoverLoadInv, RecoverColInv, StopInv
  <2>2. CASE MkDir \/ TruncCol \/ FillCol \/ TruncBm \/ FillBm
    BY <2>2, MkDirInv, TruncColInv, FillColInv, TruncBmInv, FillBmInv
  <2>3. CASE LoadBm \/ InsertCol \/ LoadCol \/ Commit
    BY <2>3, LoadBmInv, InsertColInv, LoadColInv, CommitInv
  <2>4. CASE MarkDeleted \/ RefreshCol \/ Return
    BY <2>4, MarkDeletedInv, RefreshColInv, ReturnInv
  <2> QED  BY <1>2, <2>1, <2>2, <2>3, <2>4 DEF Step
<1>3. CASE Begin
  <2>1. ASSUME NEW p \in Payloads, BeginInsert(p) PROVE IInv'
    BY <2>1, BeginInsertInv
  <2>2. ASSUME NEW rid \in Rids, BeginDelete(rid) PROVE IInv'
    BY <2>2, BeginDeleteInv
  <2>3. ASSUME NEW rid \in Rids, NEW p \in Payloads, BeginUpdate(rid, p) PROVE IInv'
    BY <2>3, BeginUpdateInv
  <2>4. ASSUME NEW rs \in Loads, BeginLoad(rs) PROVE IInv'
    BY <2>4, BeginLoadInv
  <2> QED  BY <1>3, <2>1, <2>2, <2>3, <2>4 DEF Begin
<1>4. CASE Close \/ Crash
  BY <1>4, StopInv
<1>5. CASE UNCHANGED vars
  BY <1>5
  DEF vars, IInv, TypeOK, CommittedHeld, Aligned, RecoverPart, CallPart, CurPart, GroupPart,
      MaterializePart, InsertPart, LoadPart, TombstonesCommitted, Held, GroupWhole, ColLen,
      Count, OpenGroup, OpenLen, OffsetOf, GroupOf, ChunkFirst, ChunkLen
<1> QED  BY <1>1, <1>2, <1>3, <1>4, <1>5 DEF Next

(* The invariant holds in every reachable state.                           *)
THEOREM Invariance == Spec => []IInv
<1>1. Init => IInv
  BY InitInv
<1>2. IInv /\ [Next]_vars => IInv'
  BY NextInv
<1> QED  BY <1>1, <1>2, PTL DEF Spec

(* Every file holds values of its column's type, every counter stays in    *)
(* range, whatever calls, crashes and recoveries happen.                   *)
THEOREM TypeCorrect == Spec => []TypeOK
<1>1. IInv => TypeOK
  BY DEF IInv
<1> QED  BY <1>1, Invariance, PTL

(* No bitmap ever has a bit set for a row that is not committed yet.       *)
THEOREM NoEarlyTombstone == Spec => []TombstonesCommitted
<1>1. IInv => TombstonesCommitted
  BY DEF IInv
<1> QED  BY <1>1, Invariance, PTL

(* Unless the crash hit the creation of the next row group, recovery finds *)
(* every file of the open group there, whole and long enough.              *)
THEOREM RecoversMidGroup == Spec => []ReopensMidGroup
<1>1. IInv => ReopensMidGroup
  <2> SUFFICES ASSUME IInv, OffsetOf(nextRid) # 0 \/ OpenGroup = 0
               PROVE  OpenGroupRecoverable
    BY DEF ReopensMidGroup
  <2>1. OpenGroup \in Groups /\ Held(OpenGroup) /\ OpenLen = Expected
    BY OpenFacts DEF IInv, Held, OpenLen, Expected, OffsetOf
  <2> QED
    BY <2>1 DEF IInv, CommittedHeld, GroupWhole, ColLen, OpenGroupRecoverable, RecoverableCol
<1> QED  BY <1>1, Invariance, PTL

(* Between calls, the groups a scan reads are whole and hold the committed *)
(* rows and no more.                                                       *)
LEMMA ScannedGroup ==
    ASSUME IInv, pc = "idle", NEW g \in ScanGroups
    PROVE  /\ g \in Groups /\ GroupWhole(g)
           /\ g < OpenGroup \/ g = OpenGroup
           /\ \A c \in Cols : ColLen(g, c) = IF g < OpenGroup THEN R ELSE OpenLen
<1>1. /\ OpenGroup \in Nat /\ OpenLen \in 0 .. R - 1
      /\ nextRid = OpenGroup * R + OpenLen /\ nextRid \in Nat
      /\ \A h \in Groups : h \in Nat
  BY OpenFacts, InputAssumption DEF IInv, TypeOK, Rids, Groups
<1>2. g \in Groups /\ g \in Nat /\ g * R < nextRid
  BY <1>1 DEF ScanGroups
<1>3. Held(g)
  <2>1. CASE g < OpenGroup
    BY <2>1 DEF Held
  <2>2. CASE g = OpenGroup
    <3>1. OpenLen # 0
      BY <1>1, <1>2, <2>2, SchemaAssumption
    <3> QED  BY <2>2, <3>1 DEF Held
  <2>3. CASE OpenGroup < g
    <3>1. OpenGroup * R + R <= g * R
      BY <1>1, <1>2, <2>3, MulMono
    <3>2. g * R \in Nat /\ OpenGroup * R \in Nat
      BY <1>1, <1>2, SchemaAssumption
    <3> QED  BY <1>1, <1>2, <3>1, <3>2, SchemaAssumption
  <2> QED  BY <1>1, <1>2, <2>1, <2>2, <2>3
<1>4. g < OpenGroup \/ g = OpenGroup
  BY <1>1, <1>3 DEF Held
<1>5. GroupWhole(g) /\ (g < OpenGroup => \A c \in Cols : ColLen(g, c) = R)
  BY <1>2, <1>3 DEF IInv, CommittedHeld
<1>6. g = OpenGroup => \A c \in Cols : ColLen(g, c) = OpenLen
  BY <1>3 DEF IInv, Aligned
<1> QED  BY <1>1, <1>2, <1>4, <1>5, <1>6

(* Between calls every committed row is in a group that loads, and the     *)
(* rids a scan yields are those of the live committed rows.                *)
THEOREM ScansAreCorrect == Spec => []ScanCorrect
<1>1. IInv => ScanCorrect
  <2> SUFFICES ASSUME IInv, pc = "idle"
               PROVE  (\A g \in ScanGroups : GroupLoads(g)) /\ ScanRids = LiveRids
    BY DEF ScanCorrect
  <2>1. /\ OpenGroup \in Nat /\ OpenLen \in 0 .. R - 1
        /\ nextRid = OpenGroup * R + OpenLen /\ nextRid \in Nat
        /\ \A g \in Groups : g \in Nat
        /\ 1 \in Cols
    BY OpenFacts, InputAssumption DEF IInv, TypeOK, Rids, Groups
  <2>2. ASSUME NEW g \in Groups, Held(g)
        PROVE  /\ GroupWhole(g)
               /\ \A c \in Cols : ColLen(g, c) = IF g < OpenGroup THEN R ELSE OpenLen
    <3>1. g < OpenGroup \/ g = OpenGroup
      BY <2>1, <2>2 DEF Held
    <3>2. GroupWhole(g) /\ (g < OpenGroup => \A c \in Cols : ColLen(g, c) = R)
      BY <2>2 DEF IInv, CommittedHeld
    <3>3. g = OpenGroup => \A c \in Cols : ColLen(g, c) = OpenLen
      BY <2>2 DEF IInv, Aligned
    <3> QED  BY <2>1, <3>1, <3>2, <3>3
  <2>3. ASSUME NEW g \in ScanGroups PROVE GroupLoads(g)
    BY <2>1, <2>3, ScannedGroup DEF GroupLoads, GroupWhole, ColLen
  <2>4. ASSUME NEW rid \in ScanRids PROVE rid \in LiveRids
    BY <2>1 DEF ScanRids, LiveRids, Rids
  <2>5. ASSUME NEW rid \in LiveRids PROVE rid \in ScanRids
    <3>1. rid \in 0 .. nextRid - 1 /\ ~ Deleted(rid)
      BY DEF LiveRids
    <3>2. TypeOK
      BY DEF IInv
    <3>3. /\ rid \in Rids /\ rid \in Nat /\ GroupOf(rid) \in Groups /\ GroupOf(rid) \in Nat
          /\ OffsetOf(rid) \in 0 .. R - 1 /\ rid = GroupOf(rid) * R + OffsetOf(rid)
          /\ \/ GroupOf(rid) < OpenGroup
             \/ GroupOf(rid) = OpenGroup /\ OffsetOf(rid) < OpenLen
          /\ Held(GroupOf(rid))
      BY <3>1, <3>2, CommittedRid
    <3>4. OffsetOf(rid) < Len(col[GroupOf(rid)][1].rows)
      <4>1. ColLen(GroupOf(rid), 1) = IF GroupOf(rid) < OpenGroup THEN R ELSE OpenLen
        BY <2>1, <2>2, <3>3
      <4> QED  BY <2>1, <3>3, <4>1, SchemaAssumption DEF ColLen
    <3>5. GroupOf(rid) \in ScanGroups
      <4>1. GroupOf(rid) * R <= rid
        <5>1. GroupOf(rid) * R \in Nat
          BY <3>3, SchemaAssumption
        <5> QED  BY <3>3, <5>1
      <4>2. GroupOf(rid) * R \in Nat
        BY <3>3, SchemaAssumption
      <4> QED  BY <2>1, <3>1, <3>3, <4>1, <4>2 DEF ScanGroups
    <3> QED  BY <2>1, <3>1, <3>3, <3>4, <3>5 DEF ScanRids
  <2> QED  BY <2>3, <2>4, <2>5
<1> QED  BY <1>1, Invariance, PTL

(* A step leaves the values of committed rows alone.                       *)
LEMMA NextKeepsCommitted == IInv /\ [Next]_vars => [KeepsCommitted]_vars
<1> SUFFICES ASSUME IInv, [Next]_vars PROVE KeepsCommitted \/ UNCHANGED vars
  OBVIOUS
<1>1. TypeOK /\ cur \in Cols /\ grp \in Groups
  BY DEF IInv, TypeOK
<1>2. \A rid \in 0 .. nextRid - 1 :
         /\ GroupOf(rid) \in Groups /\ GroupOf(rid) \in Nat /\ OffsetOf(rid) \in Nat
         /\ \/ GroupOf(rid) < OpenGroup
            \/ GroupOf(rid) = OpenGroup /\ OffsetOf(rid) < OpenLen
         /\ Held(GroupOf(rid))
  BY <1>1, CommittedRid
<1>3. OpenGroup \in Nat /\ OpenLen \in Nat
  BY <1>1, OpenFacts
<1>4. ASSUME UNCHANGED col PROVE KeepsCommitted
  BY <1>4 DEF KeepsCommitted
<1>5. ASSUME NEW F, col' = [col EXCEPT ![grp][cur] = F],
             \A rid \in 0 .. nextRid - 1 : GroupOf(rid) = grp =>
                 F.rows[OffsetOf(rid) + 1] = col[grp][cur].rows[OffsetOf(rid) + 1]
      PROVE  KeepsCommitted
  <2>1. \A g \in Groups, c \in Cols : col'[g][c] = IF g = grp /\ c = cur THEN F ELSE col[g][c]
    BY <1>1, <1>5 DEF TypeOK
  <2> QED  BY <1>2, <1>5, <2>1 DEF KeepsCommitted
<1>6. CASE RecoverCol
  <2> DEFINE F == Recovered(cur, col[grp][cur])
  <2>1. grp = OpenGroup /\ col' = [col EXCEPT ![grp][cur] = F]
    BY <1>6 DEF IInv, RecoverPart, RecoverCol
  <2>2. col[grp][cur] \in ColFile /\ col[grp][cur].rows \in Seq(Domain(cur))
    BY <1>1 DEF TypeOK
  <2>3. \A i \in 1 .. OpenLen : F.rows[i] = col[grp][cur].rows[i]
    BY <1>1, <1>6, <2>2, RecoveredTyped DEF RecoverCol
  <2> HIDE DEF F
  <2>4. \A rid \in 0 .. nextRid - 1 : GroupOf(rid) = grp => OffsetOf(rid) + 1 \in 1 .. OpenLen
    BY <1>2, <1>3, <2>1
  <2> QED  BY <1>5, <2>1, <2>3, <2>4
<1>7. CASE TruncCol \/ FillCol
  <2>1. \A rid \in 0 .. nextRid - 1 : GroupOf(rid) # grp
    BY <1>2, <1>7, FreeGroup DEF TruncCol, FillCol, MaterializePCs
  <2> QED  BY <1>5, <1>7, <2>1 DEF TruncCol, FillCol
<1>8. CASE InsertCol
  <2> DEFINE s == Append(col[grp][cur].rows, recs[1][cur])
             F == ColImage(cur, s, deletes)
  <2>1. col' = [col EXCEPT ![grp][cur] = F]
    BY <1>8 DEF InsertCol
  <2>2. F.rows = s
    BY DEF ColImage
  <2>3. col[grp][cur].rows \in Seq(Domain(cur)) /\ Len(col[grp][cur].rows) \in Nat
    BY <1>1 DEF TypeOK
  <2>4. Len(col[grp][cur].rows) >= OpenLen /\ grp = OpenGroup
    BY <1>1, <1>3, <1>8, InsertFacts DEF ColLen
  <2>5. \A i \in 1 .. OpenLen : s[i] = col[grp][cur].rows[i]
    BY <1>3, <2>3, <2>4
  <2> HIDE DEF s, F
  <2>6. \A rid \in 0 .. nextRid - 1 : GroupOf(rid) = grp => OffsetOf(rid) + 1 \in 1 .. OpenLen
    BY <1>2, <1>3, <2>4
  <2> QED  BY <1>5, <2>1, <2>2, <2>5, <2>6
<1>9. CASE LoadCol
  <2>1. OpenLen = 0 /\ grp >= OpenGroup
    BY <1>9, LoadFacts
  <2>3. \A rid \in 0 .. nextRid - 1 : GroupOf(rid) # grp
    BY <1>2, <1>3, <2>1
  <2> QED  BY <1>5, <1>9, <2>3 DEF LoadCol
<1>10. CASE RefreshCol
  <2> DEFINE F == ColImage(cur, col[grp][cur].rows, deletes)
  <2>1. UNCHANGED col \/ col' = [col EXCEPT ![grp][cur] = F]
    BY <1>10 DEF RefreshCol
  <2>2. F.rows = col[grp][cur].rows
    BY DEF ColImage
  <2> HIDE DEF F
  <2> QED  BY <1>4, <1>5, <2>1, <2>2
<1>11. CASE ~ (RecoverCol \/ TruncCol \/ FillCol \/ InsertCol \/ LoadCol \/ RefreshCol)
  <2>1. UNCHANGED col
    BY <1>11
    DEF Next, Step, Begin, Open, RecoverNothing, RecoverLoad, RecoverFails, MkDir, TruncBm,
        FillBm, LoadBm, Commit, MarkDeleted, Return, BeginInsert, BeginDelete, BeginUpdate,
        StartDelete, BeginLoad, Close, Crash, LeaveFor, disk, vars
  <2> QED  BY <1>4, <2>1
<1> QED  BY <1>6, <1>7, <1>8, <1>9, <1>10, <1>11

(* A committed row keeps its values through every step of every behaviour. *)
THEOREM RowsNeverChange == Spec => CommittedImmutable
  BY Invariance, NextKeepsCommitted, PTL DEF Spec, CommittedImmutable

-----------------------------------------------------------------------------
(* The table: the arguments of a call.                                     *)

(* Only the steps that begin a call give it arguments.                     *)
LEMMA NextArguments == IInv /\ ArgumentPart /\ [Next]_vars => ArgumentPart'
<1> SUFFICES ASSUME IInv, ArgumentPart, [Next]_vars PROVE ArgumentPart'
  OBVIOUS
<1> DEFINE Quiet == {"closed", "recover_load", "recover_col", "idle"}
<1>1. CASE Forget
  BY <1>1 DEF Forget, ArgumentPart
<1>2. CASE UNCHANGED call /\ (pc' \in Quiet => pc \in Quiet)
  BY <1>2 DEF call, ArgumentPart
<1>3. CASE Open \/ RecoverLoad \/ LoadBm \/ UNCHANGED vars
  BY <1>2, <1>3 DEF Open, RecoverLoad, LoadBm, vars, call
<1>4. CASE RecoverCol
  BY <1>1, <1>2, <1>4 DEF RecoverCol
<1>5. CASE RecoverNothing \/ RecoverFails \/ Return \/ Close \/ Crash
  BY <1>1, <1>5 DEF RecoverNothing, RecoverFails, Return, Close, Crash, LeaveFor
<1>6. CASE MkDir \/ TruncCol \/ FillCol \/ TruncBm \/ FillBm \/ Commit \/ MarkDeleted
  BY <1>2, <1>6 DEF MkDir, TruncCol, FillCol, TruncBm, FillBm, Commit, MarkDeleted
<1>7. CASE InsertCol \/ LoadCol \/ RefreshCol
  BY <1>2, <1>7 DEF InsertCol, LoadCol, RefreshCol, StartAppend
<1>8. ASSUME NEW p \in Payloads, BeginInsert(p) PROVE ArgumentPart'
  BY <1>8 DEF BeginInsert, StartAppend, ArgumentPart
<1>9. ASSUME NEW rid \in Rids, BeginDelete(rid) PROVE ArgumentPart'
  BY <1>9 DEF BeginDelete, StartDelete, ArgumentPart
<1>10. ASSUME NEW rid \in Rids, NEW p \in Payloads, BeginUpdate(rid, p) PROVE ArgumentPart'
  BY <1>10 DEF BeginUpdate, StartDelete, ArgumentPart
<1>11. ASSUME NEW rs \in Loads, BeginLoad(rs) PROVE ArgumentPart'
  BY <1>11 DEF BeginLoad, StartAppend, ArgumentPart
<1> QED
  BY <1>3, <1>4, <1>5, <1>6, <1>7, <1>8, <1>9, <1>10, <1>11 DEF Next, Step, Begin

-----------------------------------------------------------------------------
(* What a call has written.                                                *)

(* The rid of the i-th record of an append, and where its values go.       *)
LEMMA NewRid ==
    ASSUME IInv, pc \in AppendPCs, NEW i \in 1 .. Count
    PROVE  /\ nextRid + i - 1 \in Nat /\ nextRid + i - 1 >= nextRid
           /\ nextRid + i - 1 \in Rids
           /\ GroupOf(nextRid + i - 1) \in Groups /\ GroupOf(nextRid + i - 1) \in Nat
           /\ OffsetOf(nextRid + i - 1) \in 0 .. R - 1
           /\ nextRid + i - 1 = GroupOf(nextRid + i - 1) * R + OffsetOf(nextRid + i - 1)
           /\ GroupOf(nextRid + i - 1) >= OpenGroup
<1> DEFINE rid == nextRid + i - 1
<1>1. nextRid \in Nat /\ MaxRid \in Nat /\ Count \in Nat /\ nextRid + Count <= MaxRid
  BY InputAssumption DEF IInv, TypeOK, CallPart, Rids, Count
<1>2. rid \in Nat /\ nextRid <= rid /\ rid <= MaxRid
  BY <1>1
<1> HIDE DEF rid
<1>3. /\ rid \div R \in Nat /\ rid % R \in 0 .. R - 1
      /\ rid = (rid \div R) * R + (rid % R)
  BY <1>2, DivMod
<1>4. rid \div R <= MaxRid \div R /\ MaxRid \div R \in Nat /\ nextRid \div R <= rid \div R
  BY <1>1, <1>2, DivLe, DivMod
<1>5. rid \div R \in 0 .. MaxRid \div R
  BY <1>3, <1>4
<1>6. rid \in Rids /\ rid >= nextRid /\ rid \div R >= nextRid \div R
  BY <1>1, <1>2, <1>3, <1>4, DivMod DEF Rids
<1>7. /\ GroupOf(rid) = rid \div R /\ OffsetOf(rid) = rid % R /\ OpenGroup = nextRid \div R
      /\ Groups = 0 .. MaxRid \div R
  BY DEF GroupOf, OffsetOf, OpenGroup, Groups
<1> QED  BY <1>2, <1>3, <1>5, <1>6, <1>7 DEF rid

(* A step that writes no column but the current one keeps what is written, *)
(* if it counts nothing more as written than before.                       *)
LEMMA WrittenKept ==
    ASSUME IInv, WrittenPart, pc \in AppendPCs, UNCHANGED <<nextRid, recs>>,
           pc' \in AppendPCs,
           NEW F, UNCHANGED col \/ col' = [col EXCEPT ![grp][cur] = F],
           \A i \in 1 .. Count, c \in Cols :
               Written(nextRid + i - 1, c)' =>
                   \/ /\ Written(nextRid + i - 1, c)
                      /\ UNCHANGED col \/ GroupOf(nextRid + i - 1) # grp \/ c # cur
                   \/ /\ col' = [col EXCEPT ![grp][cur] = F]
                      /\ GroupOf(nextRid + i - 1) = grp /\ c = cur
                      /\ F.rows[OffsetOf(nextRid + i - 1) + 1] = recs[i][c]
    PROVE  WrittenPart'
<1>1. Count' = Count
  BY DEF Count
<1>2. SUFFICES ASSUME NEW i \in 1 .. Count, NEW c \in Cols, Written(nextRid + i - 1, c)'
               PROVE  col'[GroupOf(nextRid + i - 1)][c].rows[OffsetOf(nextRid + i - 1) + 1]
                          = recs[i][c]
  BY <1>1 DEF WrittenPart, GroupOf, OffsetOf
<1> DEFINE rid == nextRid + i - 1
<1>3. GroupOf(rid) \in Groups
  BY NewRid
<1>4. grp \in Groups /\ cur \in Cols /\ col \in [Groups -> [Cols -> ColFile]]
  BY DEF IInv, TypeOK
<1>5. Written(rid, c) => col[GroupOf(rid)][c].rows[OffsetOf(rid) + 1] = recs[i][c]
  BY DEF WrittenPart
<1>6. Written(rid, c)'
  BY <1>2
<1>7. \/ /\ Written(rid, c)
         /\ UNCHANGED col \/ GroupOf(rid) # grp \/ c # cur
      \/ /\ col' = [col EXCEPT ![grp][cur] = F]
         /\ GroupOf(rid) = grp /\ c = cur
         /\ F.rows[OffsetOf(rid) + 1] = recs[i][c]
  BY <1>2
<1> HIDE DEF rid
<1>8. col'[GroupOf(rid)][c].rows[OffsetOf(rid) + 1] = recs[i][c]
  <2>1. CASE UNCHANGED col
    BY <1>3, <1>4, <1>5, <1>7, <2>1
  <2>2. CASE col' = [col EXCEPT ![grp][cur] = F]
    <3>1. col'[GroupOf(rid)][c] = IF GroupOf(rid) = grp /\ c = cur THEN F
                                  ELSE col[GroupOf(rid)][c]
      BY <1>3, <1>4, <2>2
    <3> QED  BY <1>5, <1>7, <3>1
  <2> QED  BY <2>1, <2>2
<1> QED  BY <1>8 DEF rid

(* The rids from next_rid on are in the open group or after it.            *)
LEMMA FreshGroup ==
    ASSUME TypeOK, NEW i \in Nat, 1 <= i
    PROVE  GroupOf(nextRid + i - 1) \in Nat /\ GroupOf(nextRid + i - 1) >= OpenGroup
<1> DEFINE rid == nextRid + i - 1
<1>1. nextRid \in Nat /\ rid \in Nat /\ nextRid <= rid
  BY InputAssumption DEF TypeOK, Rids
<1> HIDE DEF rid
<1>2. rid \div R \in Nat /\ nextRid \div R \in Nat /\ nextRid \div R <= rid \div R
  BY <1>1, DivMod, DivLe
<1> QED  BY <1>2 DEF rid, GroupOf, OpenGroup

(* Nothing is written where an append begins.                              *)
LEMMA NothingWritten ==
    ASSUME TypeOK, TypeOK', StartAppend(OpenGroup), UNCHANGED nextRid
    PROVE  WrittenPart'
<1>1. pc' \in {"mkdir", "load_bm"} /\ grp' = OpenGroup
  BY DEF StartAppend
<1>2. Count' \in Nat /\ OpenGroup \in Nat
  BY OpenFacts DEF TypeOK, Count
<1>3. ASSUME NEW i \in 1 .. Count', NEW c \in Cols PROVE ~ Written(nextRid + i - 1, c)'
  <2>1. GroupOf(nextRid + i - 1) \in Nat /\ GroupOf(nextRid + i - 1) >= OpenGroup
    BY <1>2, FreshGroup
  <2>2. GroupOf(nextRid + i - 1)' = GroupOf(nextRid + i - 1)
    BY DEF GroupOf
  <2> QED  BY <1>1, <1>2, <2>1, <2>2 DEF Written
<1> QED  BY <1>1, <1>2, <1>3 DEF WrittenPart

(* insert puts its value where the new rid will look for it.               *)
LEMMA InsertWrites == IInv /\ WrittenPart /\ InsertCol => WrittenPart'
<1> SUFFICES ASSUME IInv, WrittenPart, InsertCol PROVE WrittenPart'
  OBVIOUS
<1> DEFINE s == Append(col[grp][cur].rows, recs[1][cur])
           F == ColImage(cur, s, deletes)
<1>1. /\ pc = "write_col" /\ pc \in AppendPCs /\ pc' \in {"write_col", "commit"}
      /\ UNCHANGED <<nextRid, recs, grp>> /\ col' = [col EXCEPT ![grp][cur] = F]
      /\ pc' = "write_col" => cur' = cur + 1 /\ cur < Columns
      /\ pc' = "commit" => ~ (cur < Columns)
      /\ pc' \in AppendPCs
  BY DEF InsertCol, call, AppendPCs
<1>2. /\ Count = 1 /\ grp = OpenGroup /\ OpenLen \in Nat /\ cur \in Cols
      /\ Len(col[grp][cur].rows) = OpenLen /\ col[grp][cur].rows \in Seq(Domain(cur))
  <2>1. cur \in Cols /\ grp \in Groups
    BY DEF IInv, TypeOK
  <2>2. Count = 1 /\ grp = OpenGroup /\ OpenLen \in Nat /\ ColLen(grp, cur) = OpenLen
    BY <2>1, InsertFacts, SchemaAssumption DEF Cols
  <2> QED  BY <2>1, <2>2 DEF ColLen, IInv, TypeOK
<1>3. F.rows[OpenLen + 1] = recs[1][cur]
  <2>1. F.rows = s
    BY DEF ColImage
  <2>2. s[OpenLen + 1] = recs[1][cur]
    BY <1>2
  <2> QED  BY <2>1, <2>2
<1> HIDE DEF F
<1>4. ASSUME NEW i \in 1 .. Count, NEW c \in Cols, Written(nextRid + i - 1, c)'
      PROVE  \/ Written(nextRid + i - 1, c) /\ c # cur
             \/ /\ GroupOf(nextRid + i - 1) = grp /\ c = cur
                /\ F.rows[OffsetOf(nextRid + i - 1) + 1] = recs[i][c]
  <2>1. i = 1 /\ nextRid + i - 1 = nextRid
    BY <1>2 DEF IInv, TypeOK, Rids
  <2>2. GroupOf(nextRid) = grp /\ OffsetOf(nextRid) = OpenLen
    BY <1>2 DEF GroupOf, OpenGroup, OpenLen
  <2>3. c < cur \/ c = cur
    <3>1. c \in 1 .. Columns /\ cur \in 1 .. Columns /\ Columns \in Nat
      BY <1>2, SchemaAssumption DEF Cols
    <3>2. ~ (cur < Columns) \/ c < cur + 1 => c < cur \/ c = cur
      BY <3>1
    <3>3. GroupOf(nextRid + i - 1)' = grp /\ grp \in Nat
      BY <1>1, <1>2, <2>1, <2>2, OpenFacts DEF GroupOf, IInv
    <3>4. pc' = "commit" \/ (pc' = "write_col" /\ c < cur')
      BY <1>1, <1>4, <3>3 DEF Written
    <3> QED  BY <1>1, <3>2, <3>4
  <2>4. c < cur => Written(nextRid, c) /\ c # cur
    BY <1>1, <1>2, <2>2, SchemaAssumption DEF Written, Cols
  <2> QED  BY <1>3, <2>1, <2>2, <2>3, <2>4
<1> QED  BY <1>1, <1>4, WrittenKept

(* bulk_load puts every value of its chunk where its rid will look for it. *)
LEMMA LoadWrites == IInv /\ WrittenPart /\ LoadCol => WrittenPart'
<1> SUFFICES ASSUME IInv, WrittenPart, LoadCol PROVE WrittenPart'
  OBVIOUS
<1> DEFINE F == ColImage(cur, ChunkCol(cur), deletes)
<1>1. /\ pc = "write_col" /\ pc \in AppendPCs /\ UNCHANGED <<nextRid, recs>>
      /\ col' = [col EXCEPT ![grp][cur] = F]
      /\ cur \in Cols /\ pc' \in AppendPCs
      /\ \/ pc' = "write_col" /\ cur' = cur + 1 /\ grp' = grp
         \/ pc' = "commit" /\ ~ (cur < Columns) /\ grp' = grp
         \/ pc' \in {"mkdir", "load_bm"} /\ ~ (cur < Columns) /\ grp' = grp + 1
  BY DEF LoadCol, StartAppend, NextGroup, call, AppendPCs, MaterializePCs, IInv, TypeOK
<1>2. /\ Count \in Nat /\ OpenGroup \in Nat /\ grp \in Nat /\ grp >= OpenGroup
      /\ nextRid = OpenGroup * R /\ ChunkFirst \in Nat /\ ChunkLen \in Nat
      /\ ChunkLen = R \/ ChunkLen = Count - ChunkFirst
  BY LoadFacts
<1>3. ASSUME NEW i \in 1 .. Count, GroupOf(nextRid + i - 1) = grp
      PROVE  F.rows[OffsetOf(nextRid + i - 1) + 1] = recs[i][cur]
  <2> DEFINE o == OffsetOf(nextRid + i - 1)
  <2>1. o \in 0 .. R - 1 /\ nextRid + i - 1 = grp * R + o
    BY <1>1, <1>3, NewRid
  <2> HIDE DEF o
  <2>2. grp * R = OpenGroup * R + ChunkFirst /\ OpenGroup * R \in Nat
    BY <1>2, SchemaAssumption DEF ChunkFirst
  <2>3. i = ChunkFirst + (o + 1)
    BY <1>2, <2>1, <2>2, SchemaAssumption
  <2>4. o + 1 \in 1 .. ChunkLen
    BY <1>2, <2>1, <2>3, SchemaAssumption
  <2>5. F.rows = ChunkCol(cur)
    BY DEF ColImage
  <2> HIDE DEF F
  <2>6. F.rows[o + 1] = recs[ChunkFirst + (o + 1)][cur]
    BY <2>4, <2>5 DEF ChunkCol
  <2> QED  BY <2>3, <2>6 DEF o
<1> HIDE DEF F
<1>4. ASSUME NEW i \in 1 .. Count, NEW c \in Cols, Written(nextRid + i - 1, c)'
      PROVE  \/ /\ Written(nextRid + i - 1, c)
                /\ GroupOf(nextRid + i - 1) # grp \/ c # cur
             \/ /\ GroupOf(nextRid + i - 1) = grp /\ c = cur
                /\ F.rows[OffsetOf(nextRid + i - 1) + 1] = recs[i][c]
  <2>1. GroupOf(nextRid + i - 1) \in Nat
    BY <1>1, NewRid
  <2>2. GroupOf(nextRid + i - 1)' = GroupOf(nextRid + i - 1)
    BY <1>1 DEF GroupOf
  <2>3. \/ GroupOf(nextRid + i - 1) < grp
        \/ GroupOf(nextRid + i - 1) = grp /\ (c < cur \/ c = cur)
    <3>1. c \in 1 .. Columns /\ cur \in 1 .. Columns /\ Columns \in Nat
      BY <1>1, SchemaAssumption DEF Cols
    <3>2. ~ (cur < Columns) \/ c < cur + 1 => c < cur \/ c = cur
      BY <3>1
    <3>3. \/ GroupOf(nextRid + i - 1) < grp'
          \/ /\ GroupOf(nextRid + i - 1) = grp'
             /\ pc' = "commit" \/ (pc' = "write_col" /\ c < cur')
      BY <1>4, <2>2 DEF Written
    <3>4. CASE grp' = grp
      BY <1>1, <1>2, <3>2, <3>3, <3>4
    <3>5. CASE grp' # grp
      <4>1. pc' \notin {"commit", "write_col"} /\ grp' = grp + 1 /\ ~ (cur < Columns)
        BY <1>1, <3>5
      <4>2. GroupOf(nextRid + i - 1) < grp + 1
        BY <3>3, <4>1
      <4> QED  BY <1>2, <2>1, <3>2, <4>1, <4>2
    <3> QED  BY <3>4, <3>5
  <2>4. CASE GroupOf(nextRid + i - 1) < grp
    BY <1>2, <2>1, <2>4 DEF Written
  <2>5. CASE GroupOf(nextRid + i - 1) = grp /\ c < cur
    BY <1>1, <2>5, SchemaAssumption DEF Written, Cols
  <2>6. CASE GroupOf(nextRid + i - 1) = grp /\ c = cur
    BY <1>3, <2>6
  <2> QED  BY <2>3, <2>4, <2>5, <2>6
<1> QED  BY <1>1, <1>4, WrittenKept, ZenonT(60)

(* No step undoes or misplaces what a call has written so far.             *)
LEMMA NextWritten == IInv /\ WrittenPart /\ [Next]_vars => WrittenPart'
<1> SUFFICES ASSUME IInv, WrittenPart, [Next]_vars PROVE WrittenPart'
  OBVIOUS
<1>1. TypeOK /\ TypeOK'
  BY NextInv DEF IInv
<1>2. CASE pc' \notin AppendPCs
  BY <1>2 DEF WrittenPart
<1>3. ASSUME pc \in AppendPCs, pc' \in AppendPCs, UNCHANGED <<nextRid, recs, grp>>,
             pc' \notin {"commit", "write_col"} \/ (pc' = "write_col" /\ cur' = 1),
             UNCHANGED col \/ \E F : col' = [col EXCEPT ![grp][cur] = F]
      PROVE  WrittenPart'
  <2>1. PICK F : UNCHANGED col \/ col' = [col EXCEPT ![grp][cur] = F]
    BY <1>3
  <2>2. ASSUME NEW i \in 1 .. Count, NEW c \in Cols, Written(nextRid + i - 1, c)'
        PROVE  Written(nextRid + i - 1, c) /\ GroupOf(nextRid + i - 1) # grp
    <3>1. GroupOf(nextRid + i - 1) \in Nat
      BY <1>3, NewRid
    <3>2. GroupOf(nextRid + i - 1)' = GroupOf(nextRid + i - 1)
      BY <1>3 DEF GroupOf
    <3>3. ~ (c < 1) /\ grp \in Nat
      BY <1>1, SchemaAssumption, OpenFacts DEF Cols, TypeOK, Groups
    <3>4. GroupOf(nextRid + i - 1) < grp
      BY <1>3, <2>2, <3>2, <3>3 DEF Written
    <3> QED  BY <3>1, <3>3, <3>4 DEF Written
  <2> QED  BY <1>3, <2>1, <2>2, WrittenKept
<1>4. CASE MkDir \/ TruncCol \/ FillCol \/ TruncBm \/ FillBm \/ LoadBm
  <2>1. /\ pc \in AppendPCs /\ pc' \in AppendPCs /\ UNCHANGED <<nextRid, recs, grp>>
        /\ pc' \notin {"commit", "write_col"} \/ LoadBm
        /\ LoadBm => pc' = "write_col" /\ cur' = cur
    BY <1>4 DEF MkDir, TruncCol, FillCol, TruncBm, FillBm, LoadBm, AppendPCs,
                MaterializePCs, call, work, disk
  <2>2. LoadBm => cur = 1
    BY DEF LoadBm, IInv, CurPart
  <2>3. UNCHANGED col \/ \E F : col' = [col EXCEPT ![grp][cur] = F]
    BY <1>4 DEF MkDir, TruncCol, FillCol, TruncBm, FillBm, LoadBm, disk
  <2> QED  BY <1>3, <2>1, <2>2, <2>3
<1>5. ASSUME NEW p \in Payloads, BeginInsert(p) PROVE WrittenPart'
  BY <1>1, <1>5, NothingWritten DEF BeginInsert, disk
<1>6. ASSUME NEW rs \in Loads, BeginLoad(rs) PROVE WrittenPart'
  <2>1. CASE rs = <<>>
    <3>1. Count' = 0
      BY <1>6, <2>1 DEF BeginLoad, Count
    <3> QED  BY <3>1 DEF WrittenPart
  <2>2. CASE rs # <<>>
    BY <1>1, <1>6, <2>2, NothingWritten DEF BeginLoad, disk
  <2> QED  BY <2>1, <2>2
<1>7. CASE RefreshCol
  <2>1. pc' \in AppendPCs => StartAppend(OpenGroup)
    BY <1>7 DEF RefreshCol, AppendPCs, MaterializePCs
  <2> QED  BY <1>1, <1>2, <1>7, <2>1, NothingWritten DEF RefreshCol
<1>8. CASE UNCHANGED vars
  BY <1>8 DEF vars, WrittenPart, Written, Count, GroupOf, OffsetOf
<1>9. CASE \/ Open \/ RecoverNothing \/ RecoverLoad \/ RecoverCol \/ RecoverFails
           \/ Commit \/ MarkDeleted \/ Return \/ Close \/ Crash
           \/ \E rid \in Rids : BeginDelete(rid)
           \/ \E rid \in Rids, p \in Payloads : BeginUpdate(rid, p)
  <2>1. pc' \notin AppendPCs
    BY <1>9 DEF Open, RecoverNothing, RecoverLoad, RecoverCol, RecoverFails, Commit,
                MarkDeleted, Return, Close, Crash, BeginDelete, BeginUpdate, StartDelete,
                LeaveFor, AppendPCs, MaterializePCs
  <2> QED  BY <1>2, <2>1
<1> QED
  BY <1>4, <1>5, <1>6, <1>7, <1>8, <1>9, InsertWrites, LoadWrites DEF Next, Step, Begin

(* What calls have written is where their rids will look for it, in every  *)
(* reachable state.                                                        *)
THEOREM TableInvariance == Spec => []TableInv
<1>1. Init => TableInv
  <2> SUFFICES ASSUME Init PROVE ArgumentPart /\ WrittenPart
    BY InitInv DEF TableInv
  <2>1. ArgumentPart
    BY DEF Init, ArgumentPart
  <2>2. pc \notin AppendPCs
    BY DEF Init, AppendPCs, MaterializePCs
  <2> QED  BY <2>1, <2>2 DEF WrittenPart
<1>2. TableInv /\ [Next]_vars => TableInv'
  BY NextInv, NextArguments, NextWritten DEF TableInv
<1> QED  BY <1>1, <1>2, PTL DEF Spec

-----------------------------------------------------------------------------
(* Steps that leave the abstract rows alone.                               *)

(* The same committed values and the same tombstones make the same table.  *)
LEMMA RowsSame ==
    ASSUME KeepsCommitted, UNCHANGED nextRid,
           \A rid \in 0 .. nextRid - 1 :
               OffsetOf(rid) \in bm'[GroupOf(rid)].bits <=> OffsetOf(rid) \in bm[GroupOf(rid)].bits,
           nextRid \in Nat
    PROVE  TableRows' = TableRows
<1>1. ASSUME NEW rid \in 0 .. nextRid - 1
      PROVE  Row(rid)' = Row(rid) /\ Deleted(rid)' = Deleted(rid)
  <2>1. Row(rid)' = Row(rid)
    BY DEF KeepsCommitted, Row, GroupOf, OffsetOf
  <2>2. Deleted(rid)' = Deleted(rid)
    BY DEF Deleted, GroupOf, OffsetOf
  <2> QED  BY <2>1, <2>2
<1>2. \A i \in 1 .. nextRid : i - 1 \in 0 .. nextRid - 1
  OBVIOUS
<1>3. \A i \in 1 .. nextRid : [rec |-> Row(i - 1)', live |-> ~ Deleted(i - 1)']
                                  = [rec |-> Row(i - 1), live |-> ~ Deleted(i - 1)]
  BY <1>1, <1>2
<1> QED  BY <1>3 DEF TableRows

(* Only a delete and a commit change what the table holds: other steps     *)
(* write no committed value, and a bitmap only of a group being created.   *)
LEMMA RowsKept ==
    IInv /\ [Next]_vars /\ ~ (MarkDeleted \/ Commit) => TableRows' = TableRows
<1> SUFFICES ASSUME IInv, [Next]_vars, ~ (MarkDeleted \/ Commit)
             PROVE  TableRows' = TableRows
  OBVIOUS
<1>1. KeepsCommitted
  <2>1. CASE UNCHANGED vars
    BY <2>1 DEF vars, KeepsCommitted
  <2> QED  BY <2>1, NextKeepsCommitted
<1>2. nextRid \in Nat /\ bm \in [Groups -> BmFile] /\ grp \in Groups
  BY DEF IInv, TypeOK, Rids
<1>3. CASE TruncBm \/ FillBm
  <2>1. ~ Held(grp)
    BY <1>3, FreeGroup DEF TruncBm, FillBm, MaterializePCs
  <2>2. \A rid \in 0 .. nextRid - 1 : GroupOf(rid) # grp /\ GroupOf(rid) \in Groups
    BY <2>1, CommittedRid DEF IInv
  <2>3. UNCHANGED nextRid /\ \E F : bm' = [bm EXCEPT ![grp] = F]
    BY <1>3 DEF TruncBm, FillBm
  <2>4. \A rid \in 0 .. nextRid - 1 : bm'[GroupOf(rid)] = bm[GroupOf(rid)]
    BY <1>2, <2>2, <2>3
  <2> QED  BY <1>1, <1>2, <2>3, <2>4, RowsSame
<1>4. CASE ~ (TruncBm \/ FillBm)
  <2>1. UNCHANGED <<nextRid, bm>>
    BY <1>4
    DEF Next, Step, Begin, Open, RecoverNothing, RecoverLoad, RecoverCol, RecoverFails,
        MkDir, TruncCol, FillCol, LoadBm, InsertCol, LoadCol, RefreshCol, Return,
        BeginInsert, BeginDelete, BeginUpdate, StartDelete, BeginLoad, Close, Crash,
        LeaveFor, disk, vars
  <2> QED  BY <1>1, <1>2, <2>1, RowsSame
<1> QED  BY <1>3, <1>4

-----------------------------------------------------------------------------
(* The two steps a call takes effect with.                                 *)

(* The tombstone of mark_deleted is the abstract kill of that row only.    *)
LEMMA MarkKills == IInv /\ ArgumentPart /\ [Next]_vars /\ MarkDeleted => Table!Kill
<1> SUFFICES ASSUME IInv, ArgumentPart, [Next]_vars, MarkDeleted PROVE Table!Kill
  OBVIOUS
<1>1. /\ op \in {"delete", "update"} /\ victim \in 0 .. nextRid - 1
      /\ grp = GroupOf(victim) /\ grp \in Groups
      /\ OffsetOf(victim) \in Offsets /\ victim = grp * R + OffsetOf(victim)
  BY DeleteFacts DEF MarkDeleted
<1>2. /\ pc = "mark" /\ pc' = "refresh_col" /\ UNCHANGED <<nextRid, op, victim, recs>>
      /\ bm' = [bm EXCEPT ![grp] = Marked(bm[grp], OffsetOf(victim))]
      /\ UNCHANGED col
  BY DEF MarkDeleted, call
<1>3. /\ nextRid \in Nat /\ bm \in [Groups -> BmFile] /\ TypeOK
      /\ bm'[grp].bits = bm[grp].bits \cup {OffsetOf(victim)}
      /\ \A g \in Groups \ {grp} : bm'[g] = bm[g]
  BY <1>1, <1>2 DEF IInv, TypeOK, Rids, Marked, BmFile
<1>4. ASSUME NEW rid \in 0 .. nextRid - 1
      PROVE  /\ Row(rid)' = Row(rid)
             /\ rid = victim => Deleted(rid)'
             /\ rid # victim => Deleted(rid)' = Deleted(rid)
  <2>1. GroupOf(rid) \in Groups /\ rid = GroupOf(rid) * R + OffsetOf(rid)
    BY <1>3, CommittedRid
  <2>2. Row(rid)' = Row(rid)
    BY <1>2 DEF Row, GroupOf, OffsetOf
  <2>3. rid # victim => GroupOf(rid) # grp \/ OffsetOf(rid) # OffsetOf(victim)
    BY <1>1, <2>1
  <2>4. Deleted(rid)' <=> OffsetOf(rid) \in bm'[GroupOf(rid)].bits
    BY DEF Deleted, GroupOf, OffsetOf
  <2>5. rid = victim => Deleted(rid)'
    BY <1>1, <1>3, <2>4
  <2>6. rid # victim => Deleted(rid)' = Deleted(rid)
    BY <1>3, <2>1, <2>3, <2>4 DEF Deleted
  <2> QED  BY <2>2, <2>5, <2>6
<1>5. TableRows' = [TableRows EXCEPT ![victim + 1].live = FALSE]
  <2> DEFINE new == [TableRows EXCEPT ![victim + 1].live = FALSE]
  <2>1. \A i \in 1 .. nextRid : i - 1 \in 0 .. nextRid - 1 /\ (i = victim + 1 <=> i - 1 = victim)
    BY <1>1, <1>3
  <2>2. TableRows' = [i \in 1 .. nextRid |-> [rec |-> Row(i - 1)', live |-> ~ Deleted(i - 1)']]
    BY <1>2 DEF TableRows
  <2>3. ASSUME NEW i \in 1 .. nextRid
        PROVE  TableRows'[i] = new[i]
    <3>1. TableRows[i] = [rec |-> Row(i - 1), live |-> ~ Deleted(i - 1)]
      BY DEF TableRows
    <3>2. CASE i = victim + 1
      <4>1. new[i] = [rec |-> Row(i - 1), live |-> FALSE]
        BY <3>1, <3>2 DEF TableRows
      <4>2. Row(i - 1)' = Row(i - 1) /\ Deleted(i - 1)'
        BY <1>4, <2>1, <3>2
      <4>3. TableRows'[i] = [rec |-> Row(i - 1)', live |-> ~ Deleted(i - 1)']
        BY <2>2
      <4> QED  BY <4>1, <4>2, <4>3
    <3>3. CASE i # victim + 1
      <4>1. new[i] = TableRows[i]
        BY <3>3 DEF TableRows
      <4>2. Row(i - 1)' = Row(i - 1) /\ Deleted(i - 1)' = Deleted(i - 1)
        BY <1>4, <2>1, <3>3
      <4> QED  BY <2>2, <3>1, <4>1, <4>2
    <3> QED  BY <3>2, <3>3
  <2>4. new = [i \in 1 .. nextRid |-> new[i]]
    BY DEF TableRows
  <2>5. TableRows' = [i \in 1 .. nextRid |-> TableRows'[i]]
    BY <2>2
  <2> HIDE DEF new
  <2>6. [i \in 1 .. nextRid |-> TableRows'[i]] = [i \in 1 .. nextRid |-> new[i]]
    BY <2>3
  <2>7. TableRows' = new
    BY <2>4, <2>5, <2>6
  <2> QED  BY <2>7 DEF new
<1>6. TablePhase = "kill"
  BY <1>2 DEF TablePhase
<1>7. TablePhase' = IF recs = <<>> THEN "done" ELSE "append"
  <2>1. op = "delete" => recs = <<>>
    BY DEF ArgumentPart
  <2>2. op = "update" => recs # <<>>
    BY <1>2 DEF IInv, CallPart, Count
  <2>3. TablePhase' = IF op = "delete" THEN "done" ELSE "append"
    BY <1>1, <1>2 DEF TablePhase
  <2> QED  BY <1>1, <2>1, <2>2, <2>3
<1> QED  BY <1>2, <1>5, <1>6, <1>7 DEF Table!Kill

(* Appending one sequence to another, index by index.                      *)
LEMMA ConcatIs ==
    ASSUME NEW S, NEW s \in Seq(S), NEW t \in Seq(S), NEW m, NEW n,
           Len(s) = m, Len(t) = n
    PROVE  s \o t = [i \in 1 .. m + n |-> IF i <= m THEN s[i] ELSE t[i - m]]
<1>1. /\ s \o t \in Seq(S) /\ Len(s \o t) = m + n
      /\ \A i \in 1 .. m + n : (s \o t)[i] = IF i <= m THEN s[i] ELSE t[i - m]
  BY ConcatProperties
<1> DEFINE u == s \o t
<1>2. u \in Seq(S) /\ Len(u) = m + n
  BY <1>1
<1>3. \A i \in 1 .. m + n : u[i] = IF i <= m THEN s[i] ELSE t[i - m]
  BY <1>1
<1> HIDE DEF u
<1>4. u = [i \in 1 .. m + n |-> u[i]]
  BY <1>2
<1>5. u = [i \in 1 .. m + n |-> IF i <= m THEN s[i] ELSE t[i - m]]
  BY <1>3, <1>4
<1> QED  BY <1>5 DEF u

(* When a call commits, all of its records are written.                    *)
LEMMA AllWritten ==
    ASSUME IInv, Commit, NEW k \in 1 .. Count, NEW c \in Cols
    PROVE  Written(nextRid + k - 1, c)
<1>1. pc = "commit" /\ pc \in AppendPCs /\ Count # 0 /\ Count \in Nat /\ nextRid \in Nat
  BY DEF Commit, AppendPCs, IInv, TypeOK, Count, Rids
<1> DEFINE g == GroupOf(nextRid + k - 1)
<1>2. /\ g \in Nat /\ OffsetOf(nextRid + k - 1) \in 0 .. R - 1
      /\ nextRid + k - 1 = g * R + OffsetOf(nextRid + k - 1)
  BY <1>1, NewRid
<1>3. g <= grp
  <2>1. CASE op # "load"
    <3>1. grp = OpenGroup /\ Count = 1
      BY <1>1, <2>1 DEF IInv, GroupPart, CallPart
    <3>2. g = OpenGroup
      BY <1>1, <3>1 DEF GroupOf, OpenGroup
    <3> QED  BY <1>2, <3>1, <3>2
  <2>2. CASE op = "load"
    <3>1. /\ OpenLen = 0 /\ grp >= OpenGroup /\ ChunkFirst + R >= Count
          /\ OpenGroup \in Nat /\ grp \in Nat /\ nextRid = OpenGroup * R + OpenLen
      BY <1>1, <2>2, OpenFacts DEF IInv, GroupPart, CallPart, LoadPart, TypeOK, Groups
    <3>2. /\ grp * R = OpenGroup * R + ChunkFirst
          /\ OpenGroup * R \in Nat /\ ChunkFirst \in Nat /\ grp * R \in Nat
      BY <3>1, SchemaAssumption DEF ChunkFirst
    <3>3. nextRid + k - 1 < grp * R + R
      BY <1>1, <3>1, <3>2, SchemaAssumption
    <3>4. ~ (grp < g)
      <4> SUFFICES ASSUME grp < g PROVE FALSE
        OBVIOUS
      <4> HIDE DEF g
      <4>1. grp * R + R <= g * R /\ g * R \in Nat
        BY <1>2, <3>1, MulMono, SchemaAssumption
      <4> QED  BY <1>2, <3>2, <3>3, <4>1, SchemaAssumption
    <3> QED  BY <1>2, <3>1, <3>4
  <2> QED  BY <2>1, <2>2
<1>4. grp \in Nat
  BY OpenFacts DEF IInv, TypeOK, Groups
<1> QED  BY <1>1, <1>2, <1>3, <1>4 DEF Written

(* set_next_rid is the abstract append of the call's records, all alive.   *)
LEMMA CommitAppends == IInv /\ WrittenPart /\ Commit => Table!AppendAll
<1> SUFFICES ASSUME IInv, WrittenPart, Commit PROVE Table!AppendAll
  OBVIOUS
<1>1. /\ pc = "commit" /\ pc' = "return" /\ pc \in AppendPCs
      /\ nextRid' = nextRid + Count /\ UNCHANGED <<col, bm, victim, recs>>
      /\ nextRid \in Nat /\ Count \in Nat /\ recs \in Seq(Record) /\ DOMAIN recs = 1 .. Count
  BY DEF Commit, call, AppendPCs, IInv, TypeOK, Rids, Count
<1> DEFINE rids == 0 .. nextRid + Count - 1
           entry(rid) == [rec |-> Row(rid), live |-> ~ Deleted(rid)]
<1>2. \A rid \in rids : Row(rid)' = Row(rid) /\ Deleted(rid)' = Deleted(rid)
  BY <1>1 DEF Row, Deleted, GroupOf, OffsetOf
<1>3. ASSUME NEW k \in 1 .. Count
      PROVE  Row(nextRid + k - 1) = recs[k] /\ ~ Deleted(nextRid + k - 1)
  <2> DEFINE rid == nextRid + k - 1
  <2>1. /\ rid \in Nat /\ rid >= nextRid /\ GroupOf(rid) \in Groups
        /\ rid = GroupOf(rid) * R + OffsetOf(rid)
    BY <1>1, NewRid
  <2>2. \A c \in Cols : col[GroupOf(rid)][c].rows[OffsetOf(rid) + 1] = recs[k][c]
    BY <1>1, AllWritten DEF WrittenPart
  <2> HIDE DEF rid
  <2>3. recs[k] = [c \in Cols |-> recs[k][c]]
    <3>1. recs[k] \in Payloads /\ Len(recs[k]) = Columns
      BY <1>1 DEF Record, ValidRecord
    <3>2. recs[k] \in Seq(IntValues \cup TextValues \cup {Null})
      BY <3>1, InputAssumption
    <3> QED  BY <3>1, <3>2 DEF Cols
  <2>4. Row(rid) = recs[k]
    BY <2>2, <2>3 DEF Row
  <2>5. ~ Deleted(rid)
    <3> SUFFICES ASSUME Deleted(rid) PROVE FALSE
      OBVIOUS
    <3>1. GroupOf(rid) * R + OffsetOf(rid) < nextRid
      BY <2>1 DEF Deleted, IInv, TombstonesCommitted
    <3> QED  BY <1>1, <2>1, <3>1
  <2> QED  BY <2>4, <2>5 DEF rid
<1> DEFINE old == TableRows
           new == Table!NewRows(recs)
           S == {old[i] : i \in 1 .. nextRid} \cup {new[k] : k \in 1 .. Count}
<1>4. old = [i \in 1 .. nextRid |-> entry(i - 1)] /\ old \in Seq(S) /\ Len(old) = nextRid
  <2>1. old = [i \in 1 .. nextRid |-> entry(i - 1)]
    BY DEF TableRows
  <2>2. old \in [1 .. nextRid -> S]
    BY <2>1
  <2> HIDE DEF old, S
  <2>3. old \in Seq(S) /\ Len(old) = nextRid
    BY <1>1, <2>2
  <2> QED  BY <2>1, <2>3
<1>5. /\ new = [k \in 1 .. Count |-> [rec |-> recs[k], live |-> TRUE]]
      /\ new \in Seq(S) /\ Len(new) = Count
  <2>1. new = [k \in 1 .. Count |-> [rec |-> recs[k], live |-> TRUE]]
    BY <1>1 DEF Table!NewRows
  <2>2. new \in [1 .. Count -> S]
    BY <2>1
  <2> HIDE DEF new, S
  <2>3. new \in Seq(S) /\ Len(new) = Count
    BY <1>1, <2>2
  <2> QED  BY <2>1, <2>3
<1>6. TableRows' = [i \in 1 .. nextRid + Count |-> entry(i - 1)]
  <2>1. TableRows' = [i \in 1 .. nextRid + Count |-> [rec |-> Row(i - 1)', live |-> ~ Deleted(i - 1)']]
    BY <1>1 DEF TableRows
  <2>2. \A i \in 1 .. nextRid + Count : i - 1 \in rids
    BY <1>1
  <2>3. \A i \in 1 .. nextRid + Count :
           [rec |-> Row(i - 1)', live |-> ~ Deleted(i - 1)'] = entry(i - 1)
    BY <1>2, <2>2
  <2> QED  BY <2>1, <2>3
<1>7. old \o new = [i \in 1 .. nextRid + Count |-> entry(i - 1)]
  <2> HIDE DEF S
  <2>1. old \o new = [i \in 1 .. nextRid + Count |->
                          IF i <= nextRid THEN old[i] ELSE new[i - nextRid]]
    <3> HIDE DEF old, new
    <3> QED  BY <1>1, <1>4, <1>5, ConcatIs
  <2>2. ASSUME NEW i \in 1 .. nextRid + Count PROVE (old \o new)[i] = entry(i - 1)
    <3>1. CASE i <= nextRid
      <4>1. old[i] = entry(i - 1)
        BY <1>1, <1>4, <3>1
      <4> QED  BY <2>1, <3>1, <4>1
    <3>2. CASE ~ (i <= nextRid)
      <4>1. PICK k \in 1 .. Count : k = i - nextRid
        BY <1>1, <3>2
      <4>2. i - 1 = nextRid + k - 1
        BY <1>1, <4>1
      <4>3. new[k] = entry(i - 1)
        BY <1>3, <1>5, <4>2
      <4> QED  BY <2>1, <3>2, <4>1, <4>3
    <3> QED  BY <3>1, <3>2
  <2> HIDE DEF old, new, entry
  <2> QED  BY <2>1, <2>2
<1>8. TablePhase = "append" /\ TablePhase' = "done"
  BY <1>1 DEF TablePhase
<1> QED  BY <1>1, <1>6, <1>7, <1>8 DEF Table!AppendAll

-----------------------------------------------------------------------------
(* Every step of the files is a step of the table, or none.                *)

(* A call of insert or bulk_load hands over records to append.             *)
LEMMA BeginAppends ==
    ASSUME IInv, TypeOK', TableRows' = TableRows,
           \/ \E p \in Payloads : BeginInsert(p)
           \/ \E rs \in Loads : BeginLoad(rs)
    PROVE  Table!CallAppend
<1>1. pc = "idle" /\ pc' \in {"mkdir", "load_bm", "commit"} /\ UNCHANGED victim
  BY DEF BeginInsert, BeginLoad, StartAppend
<1>2. TablePhase = "idle" /\ TablePhase' = "append" /\ recs' \in Seq(Record)
  BY <1>1 DEF TablePhase, TypeOK
<1> QED  BY <1>1, <1>2 DEF Table!CallAppend

(* A call of delete or update names a live row, and at most one record.    *)
LEMMA BeginKills ==
    ASSUME IInv, ArgumentPart, TypeOK', ArgumentPart', TableRows' = TableRows,
           \/ \E rid \in Rids : BeginDelete(rid)
           \/ \E rid \in Rids, p \in Payloads : BeginUpdate(rid, p)
    PROVE  Table!CallKill
<1>1. PICK rid \in Rids : /\ StartDelete(rid)
                          /\ \/ op' = "delete"
                             \/ \E p \in Payloads : recs' = <<p>>
  BY DEF BeginDelete, BeginUpdate
<1>2. pc = "idle" /\ pc' = "mark" /\ victim' = rid /\ CanDelete(rid)
  BY <1>1 DEF StartDelete
<1>3. TablePhase = "idle" /\ TablePhase' = "kill" /\ recs' \in Seq(Record)
  BY <1>2 DEF TablePhase, TypeOK
<1>4. Len(recs') <= 1
  <2>1. CASE op' = "delete"
    <3>1. recs' = <<>>
      BY <2>1 DEF ArgumentPart
    <3> QED  BY <3>1
  <2>2. ASSUME NEW p \in Payloads, recs' = <<p>> PROVE Len(recs') <= 1
    BY <2>2
  <2> QED  BY <1>1, <2>1, <2>2
<1>5. nextRid \in Nat /\ rid \in 0 .. nextRid - 1 /\ ~ Deleted(rid)
  BY <1>2, VictimFacts DEF CanDelete, Deleted, IInv, TypeOK, Rids
<1>6. victim' \in {r \in 0 .. Len(TableRows) - 1 : TableRows[r + 1].live}
  <2>1. Len(TableRows) = nextRid
    BY <1>5 DEF TableRows
  <2>2. TableRows[rid + 1] = [rec |-> Row(rid + 1 - 1), live |-> ~ Deleted(rid + 1 - 1)]
    BY <1>5 DEF TableRows
  <2>3. rid + 1 - 1 = rid
    BY <1>5
  <2>4. TableRows[rid + 1] = [rec |-> Row(rid), live |-> ~ Deleted(rid)]
    BY <2>2, <2>3
  <2>5. TableRows[rid + 1].live = ~ Deleted(rid)
    BY <2>4
  <2> QED  BY <1>2, <1>5, <2>1, <2>5
<1> QED  BY <1>3, <1>4, <1>6 DEF Table!CallKill

(* A process that leaves a call, having finished it or not, leaves nothing *)
(* of its arguments; one that was in no call had none.                     *)
LEMMA LeavingEnds ==
    ASSUME ArgumentPart, TableRows' = TableRows, Forget, pc' \in {"idle", "closed"}
    PROVE  Table!Abandon \/ UNCHANGED Table!avars
<1>1. TablePhase' = "idle" /\ victim' = 0 /\ recs' = <<>>
  BY DEF Forget, TablePhase
<1>2. CASE TablePhase = "idle"
  <2>1. pc \in {"closed", "recover_load", "recover_col", "idle"}
    BY <1>2 DEF TablePhase
  <2> QED  BY <1>1, <1>2, <2>1 DEF ArgumentPart, Table!avars
<1>3. CASE TablePhase # "idle"
  BY <1>1, <1>3 DEF Table!Abandon, Table!CallEnds
<1> QED  BY <1>2, <1>3

(* The steps between a call's beginning, its effects and its end show      *)
(* nothing to the caller.                                                  *)
LEMMA InnerSteps ==
    ASSUME TypeOK, ArgumentPart, IInv, TableRows' = TableRows,
           \/ Open \/ RecoverLoad \/ (RecoverCol /\ cur < Columns)
           \/ MkDir \/ TruncCol \/ FillCol \/ TruncBm \/ FillBm
           \/ LoadBm \/ InsertCol \/ LoadCol \/ RefreshCol \/ UNCHANGED vars
    PROVE  UNCHANGED Table!avars
<1> DEFINE Quiet == {"closed", "recover_load", "recover_col", "idle"}
<1>1. UNCHANGED <<op, victim, recs>>
  BY DEF Open, RecoverLoad, RecoverCol, MkDir, TruncCol, FillCol, TruncBm, FillBm,
         LoadBm, InsertCol, LoadCol, RefreshCol, call, vars
<1>2. TablePhase' = TablePhase
  <2>1. CASE Open \/ RecoverLoad \/ (RecoverCol /\ cur < Columns)
    <3>1. pc \in Quiet /\ pc' \in Quiet
      BY <2>1 DEF Open, RecoverLoad, RecoverCol
    <3> QED  BY <3>1 DEF TablePhase
  <2>2. CASE MkDir \/ TruncCol \/ FillCol \/ TruncBm \/ FillBm \/ LoadBm \/ InsertCol \/ LoadCol
    <3>1. pc \in AppendPCs /\ pc' \in AppendPCs
      BY <2>2 DEF MkDir, TruncCol, FillCol, TruncBm, FillBm, LoadBm, InsertCol, LoadCol,
                  StartAppend, AppendPCs, MaterializePCs
    <3> QED  BY <3>1 DEF TablePhase, AppendPCs, MaterializePCs
  <2>3. CASE RefreshCol
    <3>1. pc = "refresh_col" /\ op \in {"delete", "update"}
      BY <2>3, DeleteFacts DEF RefreshCol
    <3>2. /\ op = "delete" => pc' \in {"refresh_col", "return"}
          /\ op = "update" => pc' \in {"refresh_col", "mkdir", "load_bm"}
      BY <2>3, <3>1 DEF RefreshCol, StartAppend
    <3> QED  BY <1>1, <3>1, <3>2 DEF TablePhase
  <2>4. CASE UNCHANGED vars
    BY <2>4 DEF vars, TablePhase
  <2> QED  BY <2>1, <2>2, <2>3, <2>4
<1> QED  BY <1>1, <1>2 DEF Table!avars

(* Every step of the files is a step of the abstract table, or a stutter.  *)
LEMMA NextIsANext ==
    TableInv /\ TableInv' /\ [Next]_vars => [Table!ANext]_Table!avars
<1> SUFFICES ASSUME TableInv, TableInv', [Next]_vars PROVE [Table!ANext]_Table!avars
  OBVIOUS
<1>1. /\ IInv /\ TypeOK /\ ArgumentPart /\ WrittenPart /\ TypeOK' /\ ArgumentPart'
  BY DEF TableInv, IInv
<1>2. CASE MarkDeleted
  BY <1>1, <1>2, MarkKills DEF Table!ANext
<1>3. CASE Commit
  BY <1>1, <1>3, CommitAppends DEF Table!ANext
<1>4. CASE ~ (MarkDeleted \/ Commit)
  <2>1. TableRows' = TableRows
    BY <1>1, <1>4, RowsKept
  <2>2. CASE \/ RecoverNothing \/ RecoverFails \/ (RecoverCol /\ ~ (cur < Columns))
             \/ Return \/ Close \/ Crash
    <3>1. Forget /\ pc' \in {"idle", "closed"}
      BY <2>2 DEF RecoverNothing, RecoverFails, RecoverCol, Return, Close, Crash, LeaveFor
    <3> QED  BY <1>1, <2>1, <3>1, LeavingEnds DEF Table!ANext
  <2>3. CASE \/ Open \/ RecoverLoad \/ (RecoverCol /\ cur < Columns)
             \/ MkDir \/ TruncCol \/ FillCol \/ TruncBm \/ FillBm
             \/ LoadBm \/ InsertCol \/ LoadCol \/ RefreshCol \/ UNCHANGED vars
    BY <1>1, <2>1, <2>3, InnerSteps
  <2>4. CASE \/ \E p \in Payloads : BeginInsert(p)
             \/ \E rs \in Loads : BeginLoad(rs)
    BY <1>1, <2>1, <2>4, BeginAppends DEF Table!ANext
  <2>5. CASE \/ \E rid \in Rids : BeginDelete(rid)
             \/ \E rid \in Rids, p \in Payloads : BeginUpdate(rid, p)
    BY <1>1, <2>1, <2>5, BeginKills DEF Table!ANext
  <2> QED  BY <1>4, <2>2, <2>3, <2>4, <2>5 DEF Next, Step, Begin
<1> QED  BY <1>2, <1>3, <1>4

(* A table just created is the empty abstract table.                       *)
LEMMA InitIsAInit == Init => Table!AInit
<1> SUFFICES ASSUME Init PROVE Table!AInit
  OBVIOUS
<1>1. TableRows = <<>>
  BY DEF Init, TableRows
<1>2. TablePhase = "idle"
  BY DEF Init, TablePhase
<1> QED  BY <1>1, <1>2 DEF Init, Table!AInit

(* The files implement the table: a call takes effect at its tombstone and *)
(* at its commit and nowhere else, a crash at any point leaves a prefix of *)
(* that, and recovery shows nothing to a caller.                           *)
THEOREM TableRefinement == Spec => ImplementsTable
<1>1. Init => Table!AInit
  BY InitIsAInit
<1>2. TableInv /\ TableInv' /\ [Next]_vars => [Table!ANext]_Table!avars
  BY NextIsANext
<1> QED  BY <1>1, <1>2, TableInvariance, PTL DEF Spec, ImplementsTable, Table!ASpec

-----------------------------------------------------------------------------
(* What reads rely on: zone maps.                                          *)

(* A column just encoded with the bitmap on disk is covered.               *)
LEMMA ImageCovers ==
    ASSUME NEW c \in IntCols, NEW values \in Seq(Domain(c)), NEW d
    PROVE  /\ ColImage(c, values, d).rows = values
           /\ \A i \in 1 .. Len(values) : values[i] # Null /\ (i - 1) \notin d =>
                 /\ ColImage(c, values, d).zone[1] <= values[i]
                 /\ values[i] <= ColImage(c, values, d).zone[2]
<1>1. ColImage(c, values, d).zone = IntRange(values, d)
  BY DEF ColImage
<1> QED  BY <1>1, IntRangeCovers DEF ColImage

(* A column file that stays, with a bitmap that has at least the same      *)
(* bits, stays covered.                                                    *)
LEMMA CoverKept ==
    ASSUME NEW g \in Groups, NEW c \in IntCols, ZoneCovers(g, c),
           col'[g][c] = col[g][c], bm[g].bits \subseteq bm'[g].bits
    PROVE  ZoneCovers(g, c)'
  BY DEF ZoneCovers

(* A step that writes one column keeps every zone map sound when the       *)
(* column it writes is.                                                    *)
LEMMA CoverWrite ==
    ASSUME TypeOK, \A g \in Groups, c \in IntCols : ZoneCovers(g, c), UNCHANGED bm,
           NEW F, col' = [col EXCEPT ![grp][cur] = F],
           cur \in IntCols =>
               \A i \in 1 .. Len(F.rows) : F.rows[i] # Null /\ (i - 1) \notin bm[grp].bits =>
                   F.zone[1] <= F.rows[i] /\ F.rows[i] <= F.zone[2]
    PROVE  \A g \in Groups, c \in IntCols : ZoneCovers(g, c)'
<1> SUFFICES ASSUME NEW g \in Groups, NEW c \in IntCols PROVE ZoneCovers(g, c)'
  OBVIOUS
<1>1. c \in Cols
  BY SchemaAssumption
<1>2. col'[g][c] = IF g = grp /\ c = cur THEN F ELSE col[g][c]
  BY <1>1 DEF TypeOK
<1>3. CASE g = grp /\ c = cur
  BY <1>2, <1>3 DEF ZoneCovers
<1>4. CASE ~ (g = grp /\ c = cur)
  BY <1>2, <1>4, CoverKept
<1> QED  BY <1>3, <1>4

(* Before the first call every column is empty.                            *)
LEMMA InitZone == Init => ZoneInv
<1> SUFFICES ASSUME Init PROVE ZoneInv
  OBVIOUS
<1>1. ASSUME NEW g \in Groups, NEW c \in IntCols PROVE ZoneCovers(g, c)
  <2>1. c \in Cols
    BY SchemaAssumption
  <2>2. col[g][c].rows = <<>>
    BY <2>1 DEF Init, ColImage, NoCol
  <2> QED  BY <2>2 DEF ZoneCovers
<1> QED  BY <1>1 DEF ZoneInv, Init

(* Steps that write no file.                                               *)
LEMMA QuietZone ==
    ASSUME ZoneInv, UNCHANGED <<col, bm>>,
           \/ pc' \notin {"recover_col", "write_col", "refresh_col"}
           \/ deletes' = bm'[grp'].bits
    PROVE  ZoneInv'
<1>1. ASSUME NEW g \in Groups, NEW c \in IntCols PROVE ZoneCovers(g, c)'
  BY CoverKept DEF ZoneInv
<1> QED  BY <1>1 DEF ZoneInv

(* No step makes a zone map too tight.                                     *)
LEMMA NextZone == IInv /\ ZoneInv /\ [Next]_vars => ZoneInv'
<1> SUFFICES ASSUME IInv, ZoneInv, [Next]_vars PROVE ZoneInv'
  OBVIOUS
<1>1. /\ TypeOK /\ cur \in Cols /\ grp \in Groups
      /\ col[grp][cur].rows \in Seq(Domain(cur)) /\ col[grp][cur] \in ColFile
      /\ \A g \in Groups, c \in IntCols : ZoneCovers(g, c)
  BY DEF IInv, TypeOK, ZoneInv
<1>2. CASE RecoverCol
  <2> DEFINE f == col[grp][cur]
             s == SubSeq(f.rows, 1, Expected)
  <2>1. deletes = bm[grp].bits /\ UNCHANGED bm
    BY <1>2 DEF ZoneInv, RecoverCol
  <2>2. col' = [col EXCEPT ![grp][cur] = Recovered(cur, f)]
    BY <1>2 DEF RecoverCol
  <2>3. ASSUME cur \in IntCols
        PROVE  \A i \in 1 .. Len(Recovered(cur, f).rows) :
                  Recovered(cur, f).rows[i] # Null /\ (i - 1) \notin bm[grp].bits =>
                     /\ Recovered(cur, f).zone[1] <= Recovered(cur, f).rows[i]
                     /\ Recovered(cur, f).rows[i] <= Recovered(cur, f).zone[2]
    <3>1. CASE Len(f.rows) = Expected
      BY <1>1, <2>3, <3>1 DEF Recovered, ZoneCovers
    <3>2. CASE Len(f.rows) # Expected
      <4>1. Recovered(cur, f) = ColImage(cur, s, deletes)
        BY <3>2 DEF Recovered
      <4>2. s \in Seq(Domain(cur))
        <5>1. Expected \in Nat /\ Len(f.rows) >= Expected
          BY <1>1, <1>2, OpenFacts DEF RecoverCol, RecoverableCol, Expected, OpenLen, OffsetOf
        <5> QED  BY <1>1, <5>1
      <4> HIDE DEF s
      <4> QED  BY <2>1, <2>3, <4>1, <4>2, ImageCovers
    <3> QED  BY <3>1, <3>2
  <2>4. \A g \in Groups, c \in IntCols : ZoneCovers(g, c)'
    <3> HIDE DEF f
    <3> QED  BY <1>1, <2>1, <2>2, <2>3, CoverWrite
  <2>5. pc' = "idle" \/ (deletes' = deletes /\ grp' = grp)
    BY <1>2 DEF RecoverCol
  <2> QED  BY <2>1, <2>4, <2>5 DEF ZoneInv
<1>3. CASE TruncCol \/ FillCol
  <2> DEFINE F == IF TruncCol THEN NoCol("short") ELSE ColImage(cur, <<>>, {})
  <2>1. /\ col' = [col EXCEPT ![grp][cur] = F] /\ UNCHANGED bm
        /\ pc' \in {"fill_col", "trunc_col", "trunc_bm"}
    BY <1>3 DEF TruncCol, FillCol
  <2>2. F.rows = <<>>
    BY DEF NoCol, ColImage
  <2> HIDE DEF F
  <2>3. \A i \in 1 .. Len(F.rows) : FALSE
    BY <2>2
  <2>4. \A g \in Groups, c \in IntCols : ZoneCovers(g, c)'
    BY <1>1, <2>1, <2>3, CoverWrite
  <2> QED  BY <2>1, <2>4 DEF ZoneInv
<1>4. CASE InsertCol \/ LoadCol \/ (RefreshCol /\ cur \in IntCols)
  <2>1. deletes = bm[grp].bits /\ UNCHANGED <<bm, deletes>>
    BY <1>4 DEF ZoneInv, InsertCol, LoadCol, RefreshCol
  <2>2. PICK s \in Seq(Domain(cur)) : col' = [col EXCEPT ![grp][cur] = ColImage(cur, s, deletes)]
    <3>1. CASE InsertCol
      <4>1. Append(col[grp][cur].rows, recs[1][cur]) \in Seq(Domain(cur))
        BY <1>1, <3>1, InsertFacts
      <4> QED  BY <3>1, <4>1 DEF InsertCol
    <3>2. CASE LoadCol
      BY <3>2, LoadFacts DEF LoadCol
    <3>3. CASE RefreshCol /\ cur \in IntCols
      BY <1>1, <3>3 DEF RefreshCol
    <3> QED  BY <1>4, <3>1, <3>2, <3>3
  <2> DEFINE F == ColImage(cur, s, deletes)
  <2>3. cur \in IntCols =>
            \A i \in 1 .. Len(F.rows) : F.rows[i] # Null /\ (i - 1) \notin bm[grp].bits =>
                F.zone[1] <= F.rows[i] /\ F.rows[i] <= F.zone[2]
    BY <2>1, ImageCovers
  <2> HIDE DEF F
  <2>4. \A g \in Groups, c \in IntCols : ZoneCovers(g, c)'
    <3>1. col' = [col EXCEPT ![grp][cur] = F]
      BY <2>2 DEF F
    <3> QED  BY <1>1, <2>1, <2>3, <3>1, CoverWrite
  <2>5. \/ pc' \notin {"recover_col", "write_col", "refresh_col"}
        \/ grp' = grp
    BY <1>4 DEF InsertCol, LoadCol, RefreshCol, StartAppend
  <2> QED  BY <2>1, <2>4, <2>5 DEF ZoneInv
<1>5. CASE RefreshCol /\ cur \notin IntCols
  <2>1. deletes = bm[grp].bits /\ UNCHANGED <<bm, deletes, col>>
    BY <1>5 DEF ZoneInv, RefreshCol
  <2>2. \/ pc' \notin {"recover_col", "write_col", "refresh_col"}
        \/ grp' = grp
    BY <1>5 DEF RefreshCol, StartAppend
  <2> QED  BY <2>1, <2>2, QuietZone
<1>6. CASE TruncBm \/ FillBm
  <2>1. /\ UNCHANGED <<col, grp>> /\ pc' \in {"fill_bm", "load_bm"}
        /\ \A g \in Groups : g # grp => bm'[g] = bm[g]
    BY <1>6 DEF TruncBm, FillBm, work, IInv, TypeOK
  <2>2. ASSUME NEW g \in Groups, NEW c \in IntCols PROVE ZoneCovers(g, c)'
    <3>1. CASE g = grp
      <4>1. c \in Cols
        BY SchemaAssumption
      <4>2. Len(col[g][c].rows) = 0
        BY <1>6, <3>1, <4>1 DEF IInv, MaterializePart, MaterializePCs, ColLen, TruncBm, FillBm
      <4> QED  BY <2>1, <4>2 DEF ZoneCovers
    <3>2. CASE g # grp
      BY <1>1, <2>1, <3>2, CoverKept
    <3> QED  BY <3>1, <3>2
  <2> QED  BY <2>1, <2>2 DEF ZoneInv
<1>7. CASE MarkDeleted
  <2>1. UNCHANGED <<col, grp>> /\ deletes' = bm'[grp].bits
    BY <1>7 DEF MarkDeleted
  <2>2. \A g \in Groups : bm[g].bits \subseteq bm'[g].bits
    BY <1>1, <1>7 DEF MarkDeleted, Marked, TypeOK, BmFile
  <2>3. ASSUME NEW g \in Groups, NEW c \in IntCols PROVE ZoneCovers(g, c)'
    BY <1>1, <2>1, <2>2, CoverKept
  <2> QED  BY <2>1, <2>3 DEF ZoneInv
<1>8. CASE RecoverLoad
  BY <1>8, QuietZone DEF RecoverLoad, disk
<1>9. CASE LoadBm
  BY <1>9, QuietZone DEF LoadBm, disk
<1>10. CASE \/ Open \/ RecoverNothing \/ RecoverFails \/ MkDir \/ Commit \/ Return \/ Begin
            \/ Close \/ Crash
  <2>1. UNCHANGED <<col, bm>> /\ pc' \notin {"recover_col", "write_col", "refresh_col"}
    BY <1>10
    DEF Open, RecoverNothing, RecoverFails, MkDir, Commit, Return, Begin, BeginInsert,
        BeginDelete, BeginUpdate, StartDelete, BeginLoad, StartAppend, Close, Crash,
        LeaveFor, disk
  <2> QED  BY <2>1, QuietZone
<1>11. CASE UNCHANGED vars
  <2>1. UNCHANGED <<col, bm, pc, deletes, grp>>
    BY <1>11 DEF vars
  <2> QED  BY <2>1, QuietZone DEF ZoneInv
<1> QED
  BY <1>2, <1>3, <1>4, <1>5, <1>6, <1>7, <1>8, <1>9, <1>10, <1>11 DEF Next, Step

(* Zone maps enclose the live values in every reachable state.             *)
THEOREM ZonesEnclose == Spec => [](IInv /\ ZoneInv)
  BY InitInv, InitZone, NextInv, NextZone, PTL DEF Spec

(* Pruning never hides a row: when the zone map of a group rejects a       *)
(* predicate, no live committed row of the group matches it.               *)
THEOREM PruningIsInvisible == Spec => []PruningInvisible
<1>1. IInv /\ ZoneInv => PruningInvisible
  <2> SUFFICES ASSUME IInv, ZoneInv, pc = "idle", NEW g \in ScanGroups, NEW c \in IntCols,
                      NEW o \in ScanOps, NEW v \in IntValues, NEW rid \in LiveRids,
                      GroupOf(rid) = g, RowMatches(o, Row(rid)[c], v)
               PROVE  ~ ZonePrunes(o, v, col[g][c].zone)
    BY DEF PruningInvisible
  <2> DEFINE i == OffsetOf(rid) + 1
             x == col[g][c].rows[i]
             z == col[g][c].zone
  <2>1. c \in Cols /\ TypeOK /\ CommittedHeld /\ g \in Groups
    BY SchemaAssumption DEF IInv, ScanGroups
  <2>2. rid \in 0 .. nextRid - 1 /\ (i - 1) \notin bm[g].bits
    <3>1. rid \in 0 .. nextRid - 1 /\ OffsetOf(rid) \notin bm[g].bits
      BY DEF LiveRids, Deleted
    <3>2. OffsetOf(rid) \in Int
      BY <2>1, <3>1, CommittedRid
    <3> QED  BY <3>1, <3>2
  <2>3. i \in 1 .. Len(col[g][c].rows)
    BY <2>1, <2>2, CommittedRow
  <2>4. x \in Domain(c) /\ z \in I64 \X I64
    <3>1. col[g][c].rows \in Seq(Domain(c)) /\ col[g][c] \in ColFile
      BY <2>1 DEF TypeOK
    <3> HIDE DEF i
    <3> QED  BY <2>3, <3>1 DEF ColFile
  <2>5. RowMatches(o, x, v)
    BY <2>1 DEF Row
  <2>6. x # Null /\ z[1] <= x /\ x <= z[2]
    <3>1. ZoneCovers(g, c)
      BY <2>1 DEF ZoneInv
    <3> HIDE DEF i
    <3> QED  BY <2>2, <2>3, <2>5, <3>1 DEF ZoneCovers, RowMatches
  <2>7. x \in Int /\ z[1] \in Int /\ z[2] \in Int /\ v \in Int
    BY <2>4, <2>6, SchemaAssumption, I64Assumption DEF Domain, I64
  <2> HIDE DEF x, z, i
  <2>8. HasRange(z)
    BY <2>6, <2>7 DEF HasRange
  <2>9. GroupCanMatch(o, v, z)
    BY <2>5, <2>6, <2>7 DEF GroupCanMatch, RowMatches
  <2> QED  BY <2>8, <2>9 DEF ZonePrunes, z
<1> QED  BY <1>1, ZonesEnclose, PTL

(* A SELECT finds what SelectExec assumes of its tables, however the texts *)
(* of the table are ranked: rows that fit the columns, tombstones that are *)
(* theirs, and zone maps that enclose the live values.                     *)
THEOREM TablesAreReadable == Spec => []TableReadable
<1>1. IInv /\ ZoneInv => TableReadable
  <2> SUFFICES ASSUME IInv, ZoneInv, pc = "idle", NEW g \in ScanGroups,
                      NEW rank \in [TextValues -> I64]
               PROVE  /\ ReadableGroup(StoredGroup(rank, g), Cols, IntCols)
                      /\ Len(StoredGroup(rank, g).rows) = IF g < OpenGroup THEN R ELSE OpenLen
    BY DEF TableReadable
  <2> DEFINE n == IF g < OpenGroup THEN R ELSE OpenLen
             stored == StoredGroup(rank, g)
             row(i) == [c \in Cols |-> Ranked(rank, c, col[g][c].rows[i])]
  <2>1. /\ g \in Groups /\ g \in Nat /\ n \in Nat /\ 1 \in Cols /\ IntCols \subseteq Cols
        /\ \A c \in Cols : ColLen(g, c) = n
        /\ OpenGroup \in Nat /\ nextRid = OpenGroup * R + OpenLen /\ OpenLen \in Nat
    BY ScannedGroup, OpenFacts, SchemaAssumption DEF IInv, Groups
  <2>2. \A c \in Cols : col[g][c].rows \in Seq(Domain(c)) /\ Len(col[g][c].rows) = n
    BY <2>1 DEF IInv, TypeOK, ColLen
  <2>3. /\ stored.rows = [i \in 1 .. n |-> row(i)]
        /\ stored.deletes = bm[g].bits
        /\ stored.zone = [c \in IntCols |-> col[g][c].zone]
    BY <2>1 DEF StoredGroup
  <2> HIDE DEF stored, n
  <2>4. \A i \in 1 .. n, c \in Cols : Ranked(rank, c, col[g][c].rows[i]) \in I64 \cup {Null}
    <3> SUFFICES ASSUME NEW i \in 1 .. n, NEW c \in Cols
                 PROVE  Ranked(rank, c, col[g][c].rows[i]) \in I64 \cup {Null}
      OBVIOUS
    <3>1. col[g][c].rows[i] \in Domain(c)
      BY <2>2
    <3> QED  BY <3>1, SchemaAssumption DEF Domain, Ranked
  <2>5. stored.rows \in Seq([Cols -> I64 \cup {Null}]) /\ Len(stored.rows) = n
    BY <2>1, <2>3, <2>4
  <2>6. stored.deletes \subseteq 0 .. Len(stored.rows) - 1
    <3> SUFFICES ASSUME NEW o \in bm[g].bits PROVE o \in 0 .. n - 1
      BY <2>3, <2>5
    <3>1. o \in 0 .. R - 1 /\ g * R + o < nextRid
      BY <2>1 DEF IInv, TypeOK, BmFile, Offsets, TombstonesCommitted
    <3>2. g < OpenGroup \/ g = OpenGroup
      BY ScannedGroup
    <3>3. CASE g < OpenGroup
      BY <3>1, <3>3 DEF n
    <3>4. CASE g = OpenGroup
      <4>1. n = OpenLen /\ g * R + o < g * R + OpenLen
        BY <2>1, <3>1, <3>4 DEF n
      <4>2. g * R \in Nat
        BY <2>1, SchemaAssumption
      <4> QED  BY <2>1, <3>1, <4>1, <4>2
    <3> QED  BY <3>2, <3>3, <3>4
  <2>7. ASSUME NEW c \in IntCols
        PROVE  /\ stored.zone[c][1] \in I64 /\ stored.zone[c][2] \in I64
               /\ ZoneEncloses(stored.zone[c], [i \in DOMAIN stored.rows |-> stored.rows[i][c]],
                               stored.deletes)
    <3> DEFINE z == col[g][c].zone
               values == [i \in DOMAIN stored.rows |-> stored.rows[i][c]]
    <3>1. stored.zone[c] = z /\ z \in I64 \X I64
      BY <2>1, <2>3 DEF IInv, TypeOK, ColFile
    <3>2. DOMAIN values = 1 .. n /\ \A i \in 1 .. n : values[i] = col[g][c].rows[i]
      <4>1. DOMAIN stored.rows = 1 .. n
        BY <2>3
      <4>2. ASSUME NEW i \in 1 .. n PROVE stored.rows[i][c] = col[g][c].rows[i]
        <5>1. stored.rows[i] = row(i)
          BY <2>3
        <5>2. row(i)[c] = Ranked(rank, c, col[g][c].rows[i])
          BY <2>1
        <5>3. Ranked(rank, c, col[g][c].rows[i]) = col[g][c].rows[i]
          BY <2>7 DEF Ranked
        <5> HIDE DEF row, stored
        <5> QED  BY ONLY <5>1, <5>2, <5>3
      <4> HIDE DEF stored
      <4> QED  BY <4>1, <4>2
    <3>3. \A i \in 1 .. n : (col[g][c].rows[i] # Null /\ (i - 1) \notin bm[g].bits) =>
              z[1] <= col[g][c].rows[i] /\ col[g][c].rows[i] <= z[2]
      BY <2>1, <2>2 DEF ZoneInv, ZoneCovers
    <3> HIDE DEF values, z
    <3>4. ZoneEncloses(z, values, bm[g].bits)
      BY <3>2, <3>3 DEF ZoneEncloses, LiveInts
    <3>5. z[1] \in I64 /\ z[2] \in I64
      BY <3>1
    <3> QED  BY <2>3, <3>1, <3>4, <3>5 DEF values
  <2> QED  BY <2>5, <2>6, <2>7 DEF ReadableGroup, stored, n
<1> QED  BY <1>1, ZonesEnclose, PTL

-----------------------------------------------------------------------------
(* get.                                                                    *)

(* A load that fits its row group never gets to a second one.              *)
LEMMA OneGroup ==
    ASSUME IInv, LoadFits, pc \in AppendPCs, Count # 0
    PROVE  grp = OpenGroup
<1>1. CASE op # "load"
  BY <1>1 DEF IInv, GroupPart
<1>2. CASE op = "load"
  <2>1. grp >= OpenGroup /\ ChunkFirst < Count /\ Count <= R
    BY <1>2 DEF IInv, GroupPart, LoadFits
  <2>2. grp \in Nat /\ OpenGroup \in Nat /\ Count \in Nat
    BY OpenFacts DEF IInv, TypeOK, Groups, Count
  <2>3. ~ (OpenGroup < grp)
    <3> SUFFICES ASSUME OpenGroup < grp PROVE FALSE
      OBVIOUS
    <3>1. OpenGroup * R + R <= grp * R
      BY <2>2, MulMono
    <3>2. ChunkFirst = grp * R - OpenGroup * R /\ grp * R \in Nat /\ OpenGroup * R \in Nat
      BY <2>2, SchemaAssumption DEF ChunkFirst
    <3> QED  BY <2>1, <2>2, <3>1, <3>2, SchemaAssumption
  <2> QED  BY <2>1, <2>2, <2>3
<1> QED  BY <1>1, <1>2

(* A call that loads was given one of the admitted loads.                  *)
LEMMA NextLoadFits == LoadsFitGroup /\ LoadFits /\ [Next]_vars => LoadFits'
<1> SUFFICES ASSUME LoadsFitGroup, LoadFits, [Next]_vars PROVE LoadFits'
  OBVIOUS
<1>1. ASSUME NEW rs \in Loads, BeginLoad(rs) PROVE LoadFits'
  BY <1>1 DEF BeginLoad, LoadFits, Count, LoadsFitGroup
<1>2. CASE ~ \E rs \in Loads : BeginLoad(rs)
  <2>1. op' = "load" => UNCHANGED <<op, recs>>
    BY <1>2
    DEF Next, Step, Begin, Open, RecoverNothing, RecoverLoad, RecoverCol, RecoverFails,
        MkDir, TruncCol, FillCol, TruncBm, FillBm, LoadBm, InsertCol, LoadCol, Commit,
        MarkDeleted, RefreshCol, Return, BeginInsert, BeginDelete, BeginUpdate, Close,
        Crash, LeaveFor, Forget, call, vars
  <2> QED  BY <2>1 DEF LoadFits, Count
<1> QED  BY <1>1, <1>2

(* next_rid only grows, and where it enters a row group it has left the    *)
(* one before.                                                             *)
LEMMA CommitAdvances ==
    ASSUME IInv, Commit
    PROVE  /\ OpenGroup' \in Nat /\ OpenGroup \in Nat /\ OpenGroup' >= OpenGroup
           /\ Count # 0 /\ OpenLen' = 0 => OpenGroup' > OpenGroup
<1>1. /\ nextRid \in Nat /\ Count \in Nat /\ nextRid' = nextRid + Count
      /\ nextRid' \in Nat /\ nextRid <= nextRid' /\ (Count # 0 => nextRid < nextRid')
  <2>1. nextRid \in Nat /\ Count \in Nat /\ nextRid' = nextRid + Count
    BY DEF IInv, TypeOK, Rids, Count, Commit
  <2> QED  BY <2>1
<1>2. /\ nextRid \div R \in Nat /\ nextRid' \div R \in Nat /\ nextRid % R \in 0 .. R - 1
      /\ nextRid \div R <= nextRid' \div R
  BY <1>1, DivMod, DivLe
<1>3. Count # 0 => \/ nextRid \div R < nextRid' \div R
                   \/ nextRid % R < nextRid' % R
  BY <1>1, RidOrder
<1>4. OpenGroup = nextRid \div R /\ OpenGroup' = nextRid' \div R /\ OpenLen' = nextRid' % R
  BY DEF OpenGroup, OpenLen, OffsetOf
<1>5. R \in Nat \ {0}
  BY SchemaAssumption
<1> QED  BY <1>2, <1>3, <1>4, <1>5

(* No row group is ever begun ahead of the open one.                       *)
LEMMA NextNothingAhead ==
    IInv /\ LoadFits /\ NothingAhead /\ [Next]_vars => NothingAhead'
<1> SUFFICES ASSUME IInv, LoadFits, NothingAhead, [Next]_vars PROVE NothingAhead'
  OBVIOUS
<1>1. CASE MkDir
  <2>1. grp = OpenGroup
    BY <1>1, OneGroup DEF MkDir, IInv, MaterializePart, MaterializePCs, AppendPCs
  <2>2. OpenGroup' = OpenGroup /\ dirs' = dirs \cup {OpenGroup} /\ OpenGroup \in Nat
    BY <1>1, <2>1, OpenFacts DEF MkDir, OpenGroup, IInv
  <2> QED  BY <2>2 DEF NothingAhead, Groups
<1>2. CASE Commit
  <2>1. OpenGroup' >= OpenGroup /\ OpenGroup \in Nat /\ OpenGroup' \in Nat /\ dirs' = dirs
    BY <1>2, CommitAdvances DEF Commit
  <2> QED  BY <2>1 DEF NothingAhead, Groups
<1>3. CASE ~ (MkDir \/ Commit)
  <2>1. UNCHANGED <<nextRid, dirs>>
    BY <1>3
    DEF Next, Step, Begin, Open, RecoverNothing, RecoverLoad, RecoverCol, RecoverFails,
        TruncCol, FillCol, TruncBm, FillBm, LoadBm, InsertCol, LoadCol, MarkDeleted,
        RefreshCol, Return, BeginInsert, BeginDelete, BeginUpdate, StartDelete, BeginLoad,
        Close, Crash, LeaveFor, disk, vars
  <2> QED  BY <2>1 DEF NothingAhead, OpenGroup
<1> QED  BY <1>1, <1>2, <1>3

(* Where the open group is looked at between appends.                      *)
Between == pc \in {"idle", "mark", "refresh_col", "return"} \/ (pc = "commit" /\ Count = 0)

(* Files that do not change stay tidy.                                     *)
LEMMA TidySame ==
    ASSUME OpenGroupTidy, UNCHANGED disk, Between' => Between
    PROVE  OpenGroupTidy'
  BY DEF OpenGroupTidy, Between, disk, OpenGroup, OpenLen, OffsetOf, GroupWhole, ColLen

(* Recovery, the commit and the rewrites of a delete leave the open group  *)
(* whole, with the committed rows and no others, if they leave it at all.  *)
LEMMA NextTidy ==
    IInv /\ IInv' /\ NothingAhead /\ OpenGroupTidy /\ [Next]_vars => OpenGroupTidy'
<1> SUFFICES ASSUME IInv, IInv', NothingAhead, OpenGroupTidy, [Next]_vars
             PROVE  OpenGroupTidy'
  OBVIOUS
<1>1. TypeOK /\ cur \in Cols /\ grp \in Groups /\ OpenGroup \in Groups
  BY OpenFacts DEF IInv, TypeOK
<1>2. CASE ~ Between'
  BY <1>2 DEF OpenGroupTidy, Between
<1>3. CASE UNCHANGED disk /\ (Between' => Between)
  BY <1>3, TidySame
<1>4. CASE RecoverNothing
  BY <1>4 DEF RecoverNothing, LeaveFor, disk, OpenGroupTidy, OpenGroup
<1>5. CASE Open \/ RecoverLoad \/ RecoverFails \/ Close \/ Crash \/ MkDir \/ TruncCol
           \/ FillCol \/ TruncBm \/ FillBm \/ LoadBm
  <2>1. ~ Between'
    BY <1>5 DEF Open, RecoverLoad, RecoverFails, Close, Crash, LeaveFor, MkDir, TruncCol,
                FillCol, TruncBm, FillBm, LoadBm, Between
  <2> QED  BY <1>2, <2>1
<1>6. CASE InsertCol
  <2>1. pc' = "write_col" \/ (pc' = "commit" /\ Count' = Count /\ Count = 1)
    BY <1>6, InsertFacts DEF InsertCol, call, Count
  <2> QED  BY <1>2, <2>1 DEF Between
<1>7. CASE LoadCol
  <2>1. pc' \in {"write_col", "mkdir", "load_bm"} \/ (pc' = "commit" /\ Count' = Count /\ Count # 0)
    BY <1>7, LoadFacts DEF LoadCol, StartAppend, call, Count
  <2> QED  BY <1>2, <2>1 DEF Between
<1>8. CASE Return
  BY <1>3, <1>8 DEF Return, LeaveFor, Between
<1>9. CASE Begin
  <2>1. pc = "idle" /\ UNCHANGED disk
    BY <1>9 DEF Begin, BeginInsert, BeginDelete, BeginUpdate, StartDelete, BeginLoad
  <2> QED  BY <1>3, <2>1 DEF Between
<1>10. CASE UNCHANGED vars
  BY <1>3, <1>10 DEF vars, disk, Between, Count
<1>11. CASE RecoverCol
  <2> DEFINE F == Recovered(cur, col[grp][cur])
  <2>1. CASE cur < Columns
    BY <1>2, <1>11, <2>1 DEF RecoverCol, Between
  <2>2. CASE ~ (cur < Columns)
    <3>1. /\ grp = OpenGroup /\ OpenGroup \in dirs /\ Readable(bm[OpenGroup])
          /\ \A c \in Cols : c < cur => Readable(col[grp][c]) /\ ColLen(grp, c) = OpenLen
          /\ col' = [col EXCEPT ![grp][cur] = F] /\ UNCHANGED <<nextRid, dirs, bm>>
          /\ RecoverableCol(col[grp][cur])
      BY <1>11 DEF RecoverCol, IInv, RecoverPart
    <3>2. /\ F \in ColFile /\ F.rows \in Seq(Domain(cur))
          /\ Readable(F) /\ Len(F.rows) = OpenLen
      BY <1>1, <3>1, RecoveredTyped DEF TypeOK
    <3> HIDE DEF F
    <3>3. \A c \in Cols : col'[grp][c] = IF c = cur THEN F ELSE col[grp][c]
      BY <1>1, <3>1, <3>2, ColUpdate
    <3>4. \A c \in Cols : c < cur \/ c = cur
      BY <1>1, <2>2, NextCol
    <3>5. OpenGroup' = OpenGroup /\ OpenLen' = OpenLen
      BY <3>1 DEF OpenGroup, OpenLen, OffsetOf
    <3>6. \A c \in Cols : Readable(col'[grp][c]) /\ Len(col'[grp][c].rows) = OpenLen
      BY <3>1, <3>2, <3>3, <3>4 DEF ColLen
    <3> QED  BY <3>1, <3>5, <3>6 DEF OpenGroupTidy, GroupWhole, ColLen
  <2> QED  BY <2>1, <2>2
<1>12. CASE Commit
  <2>1. pc = "commit" /\ UNCHANGED <<dirs, col, bm>> /\ pc' = "return"
    BY <1>12 DEF Commit
  <2>2. CASE Count = 0
    <3>1. nextRid' = nextRid
      BY <1>12, <2>2 DEF Commit, Count, IInv, TypeOK, Rids
    <3> QED  BY <2>1, <2>2, <3>1, TidySame DEF disk, Between
  <2>3. CASE Count # 0 /\ Held(OpenGroup)'
    <3>1. OpenGroup' \in Groups
      <4>1. TypeOK'
        BY DEF IInv
      <4>2. nextRid' \in Rids
        BY <4>1 DEF TypeOK
      <4>3. /\ nextRid' \in Nat /\ MaxRid \in Nat /\ nextRid' <= MaxRid
        BY <4>2, InputAssumption DEF Rids
      <4>4. nextRid' \div R \in Nat /\ MaxRid \div R \in Nat /\ nextRid' \div R <= MaxRid \div R
        BY <4>3, DivMod, DivLe
      <4> QED  BY <4>4 DEF OpenGroup, Groups
    <3>2. GroupWhole(OpenGroup)'
      BY <2>3, <3>1 DEF IInv, CommittedHeld
    <3>3. \A c \in Cols : (ColLen(OpenGroup, c) = OpenLen)'
      BY <2>1, <2>3 DEF IInv, Aligned
    <3> QED  BY <3>2, <3>3 DEF OpenGroupTidy
  <2>4. CASE Count # 0 /\ ~ Held(OpenGroup)'
    <3>1. OpenLen' = 0
      BY <2>4 DEF Held
    <3>2. OpenGroup' > OpenGroup
      BY <1>12, <2>4, <3>1, CommitAdvances
    <3>3. OpenGroup' \notin dirs'
      BY <2>1, <3>2 DEF NothingAhead, IInv, TypeOK
    <3> QED  BY <3>3 DEF OpenGroupTidy
  <2> QED  BY <2>2, <2>3, <2>4
<1>13. CASE MarkDeleted
  <2>1. /\ pc = "mark" /\ UNCHANGED <<nextRid, dirs, col>>
        /\ bm' = [bm EXCEPT ![grp] = Marked(bm[grp], OffsetOf(victim))]
    BY <1>13 DEF MarkDeleted
  <2>2. \A g \in Groups : bm'[g].state = bm[g].state
    BY <1>1, <2>1 DEF TypeOK, BmFile, Marked
  <2>3. Between /\ OpenGroup' = OpenGroup /\ OpenLen' = OpenLen
    BY <2>1 DEF Between, OpenGroup, OpenLen, OffsetOf
  <2> QED  BY <1>1, <2>1, <2>2, <2>3 DEF OpenGroupTidy, Between, GroupWhole, ColLen, Readable
<1>14. CASE RefreshCol
  <2> DEFINE F == ColImage(cur, col[grp][cur].rows, deletes)
  <2>1. /\ pc = "refresh_col" /\ UNCHANGED <<nextRid, dirs, bm>>
        /\ UNCHANGED col \/ col' = [col EXCEPT ![grp][cur] = F]
    BY <1>14 DEF RefreshCol
  <2>2. Between /\ OpenGroup' = OpenGroup /\ OpenLen' = OpenLen
    BY <2>1 DEF Between, OpenGroup, OpenLen, OffsetOf
  <2>3. F.state = "whole" /\ F.rows = col[grp][cur].rows
    BY DEF ColImage
  <2> HIDE DEF F
  <2>4. \A c \in Cols : /\ Readable(col[OpenGroup][c]) => Readable(col'[OpenGroup][c])
                        /\ col'[OpenGroup][c].rows = col[OpenGroup][c].rows
    BY <1>1, <2>1, <2>3, ZenonT(60) DEF TypeOK, Readable
  <2> QED  BY <1>1, <2>1, <2>2, <2>4 DEF OpenGroupTidy, Between, GroupWhole, ColLen
<1> QED
  BY <1>4, <1>5, <1>6, <1>7, <1>8, <1>9, <1>10, <1>11, <1>12, <1>13, <1>14 DEF Next, Step

(* The tidy invariant holds in every reachable state.                      *)
THEOREM TidyInvariance == LoadsFitGroup => (Spec => []TidyInv)
<1> SUFFICES ASSUME LoadsFitGroup PROVE Spec => []TidyInv
  OBVIOUS
<1>1. Init => TidyInv
  <2> SUFFICES ASSUME Init PROVE LoadFits /\ NothingAhead /\ OpenGroupTidy
    BY InitInv DEF TidyInv
  <2>1. LoadFits
    BY DEF Init, LoadFits
  <2>2. OpenGroup \in Nat
    BY InitInv, OpenFacts DEF IInv
  <2>3. NothingAhead
    BY <2>2 DEF Init, NothingAhead, Groups
  <2>4. OpenGroupTidy
    BY DEF Init, OpenGroupTidy
  <2> QED  BY <2>1, <2>3, <2>4
<1>2. TidyInv /\ [Next]_vars => TidyInv'
  BY NextInv, NextLoadFits, NextNothingAhead, NextTidy DEF TidyInv
<1> QED  BY <1>1, <1>2, PTL DEF Spec

(* A rid is in a group the directories past next_rid do not reach, or it   *)
(* is committed, or past the rows of the open group.                       *)
LEMMA GetExact ==
    ASSUME TidyInv, pc = "idle", NEW rid \in Rids
    PROVE  GetSucceeds(rid) /\ (GetFinds(rid) <=> rid \in LiveRids)
<1> DEFINE g == GroupOf(rid)
           o == OffsetOf(rid)
<1>1. IInv /\ TypeOK /\ NothingAhead /\ OpenGroupTidy
  BY DEF TidyInv, IInv
<1>2. /\ rid \in Nat /\ g \in Nat /\ o \in 0 .. R - 1 /\ rid = g * R + o /\ g \in Groups
  <2>1. MaxRid \in Nat /\ rid \in Nat /\ rid <= MaxRid
    BY InputAssumption DEF Rids
  <2>2. /\ rid \div R \in Nat /\ rid % R \in 0 .. R - 1 /\ rid = (rid \div R) * R + (rid % R)
        /\ MaxRid \div R \in Nat /\ rid \div R <= MaxRid \div R
    BY <2>1, DivMod, DivLe
  <2> QED  BY <2>1, <2>2 DEF GroupOf, OffsetOf, Groups
<1>3. /\ OpenGroup \in Nat /\ OpenLen \in Nat /\ nextRid = OpenGroup * R + OpenLen
      /\ OpenLen \in 0 .. R - 1 /\ nextRid \in Nat /\ 1 \in Cols
  BY <1>1, OpenFacts DEF TypeOK, Rids
<1>4. rid \in LiveRids <=> rid < nextRid /\ ~ Deleted(rid)
  BY <1>2, <1>3 DEF LiveRids
<1> HIDE DEF g, o
<1>5. g * R \in Nat /\ OpenGroup * R \in Nat /\ R \in Nat
  BY <1>2, <1>3, SchemaAssumption
<1>6. CASE g < OpenGroup
  <2>1. GroupWhole(g) /\ \A c \in Cols : ColLen(g, c) = R
    BY <1>1, <1>2, <1>6 DEF IInv, CommittedHeld, Held
  <2>2. rid < nextRid
    <3>1. g * R + R <= OpenGroup * R
      BY <1>2, <1>3, <1>6, MulMono
    <3> QED  BY <1>2, <1>3, <1>5, <3>1
  <2>3. \A c \in Cols : o < Len(col[g][c].rows)
    BY <1>2, <1>5, <2>1 DEF ColLen
  <2> QED  BY <1>4, <2>1, <2>2, <2>3 DEF GetSucceeds, GetFinds, GroupWhole, g, o
<1>7. CASE g = OpenGroup
  <2>1. rid < nextRid <=> o < OpenLen
    BY <1>2, <1>3, <1>5, <1>7
  <2>2. CASE g \in dirs
    <3>1. GroupWhole(g) /\ \A c \in Cols : ColLen(g, c) = OpenLen
      BY <1>1, <1>7, <2>2 DEF OpenGroupTidy
    <3>2. (\A c \in Cols : o < Len(col[g][c].rows)) <=> o < OpenLen
      BY <1>3, <3>1 DEF ColLen
    <3> QED  BY <1>4, <2>1, <2>2, <3>1, <3>2 DEF GetSucceeds, GetFinds, GroupWhole, g, o
  <2>3. CASE g \notin dirs
    <3>1. ~ Held(g)
      BY <1>1, <1>2, <2>3 DEF IInv, CommittedHeld, GroupWhole
    <3>2. ~ (o < OpenLen)
      BY <1>2, <1>3, <1>7, <3>1 DEF Held
    <3> QED  BY <1>4, <2>1, <2>3, <3>2 DEF GetSucceeds, GetFinds, g
  <2> QED  BY <2>2, <2>3
<1>8. CASE OpenGroup < g
  <2>1. g \notin dirs
    BY <1>1, <1>2, <1>8 DEF NothingAhead
  <2>2. ~ (rid < nextRid)
    <3>1. OpenGroup * R + R <= g * R
      BY <1>2, <1>3, <1>8, MulMono
    <3> QED  BY <1>2, <1>3, <1>5, <3>1
  <2> QED  BY <1>4, <2>1, <2>2 DEF GetSucceeds, GetFinds, g
<1> QED  BY <1>2, <1>3, <1>6, <1>7, <1>8

(* get answers for every rid, and finds exactly the committed rows that    *)
(* are not deleted, whatever crashes and recoveries came before.           *)
THEOREM GetsAreCorrect == LoadsFitGroup => (Spec => []GetCorrect)
<1> SUFFICES ASSUME LoadsFitGroup PROVE Spec => []GetCorrect
  OBVIOUS
<1>1. Spec => []TidyInv
  BY TidyInvariance
<1>2. TidyInv => GetCorrect
  BY GetExact DEF GetCorrect
<1> QED  BY <1>1, <1>2, PTL
=============================================================================
