----------------------------- MODULE DmlProofs -----------------------------
(***************************************************************************)
(* INSERT, DELETE and UPDATE, for every schema, every WHERE clause, every  *)
(* list of SETs and every table: a statement that stops has had its effect *)
(* on a prefix of the rows it selected, one that reports success on all of *)
(* them, and storage never refuses what the binder has let through.        *)
(***************************************************************************)
EXTENDS DmlExec, RidOrderProofs

---------------------------------------------------------------------------
(* The loop over the SETs of an UPDATE *)

(* One round of the loop of Assigned.                                      *)
Round(sets, rec, f, n) ==
    IF n = 0 THEN rec ELSE [f[n - 1] EXCEPT ![sets[n].column] = sets[n].value.val]

(* The loop has a result for every number of rounds.                       *)
LEMMA RoundsExist ==
    ASSUME NEW sets, NEW rec
    PROVE  \A n \in Nat : \E f : f = [i \in 0 .. n |-> Round(sets, rec, f, i)]
<1> DEFINE T == {n \in Nat : \E f : f = [i \in 0 .. n |-> Round(sets, rec, f, i)]}
<1>1. 0 \in T
  <2> DEFINE g == [i \in 0 .. 0 |-> rec]
  <2>1. g = [i \in 0 .. 0 |-> Round(sets, rec, g, i)]
    BY DEF Round
  <2> QED  BY <2>1
<1>2. ASSUME NEW n \in Nat, n \in T PROVE n + 1 \in T
  <2>1. PICK f : f = [i \in 0 .. n |-> Round(sets, rec, f, i)]
    BY <1>2
  <2> DEFINE g == [i \in 0 .. n + 1 |->
                      IF i = n + 1 THEN Round(sets, rec, f, n + 1) ELSE f[i]]
  <2>2. ASSUME NEW i \in 0 .. n + 1 PROVE g[i] = Round(sets, rec, g, i)
    <3>1. CASE i = 0
      BY <3>1, <2>1 DEF Round
    <3>2. CASE i # 0 /\ i # n + 1
      <4>1. i \in 0 .. n /\ i - 1 \in 0 .. n + 1 /\ i - 1 # n + 1
        BY <3>2
      <4>2. f[i] = Round(sets, rec, f, i)
        BY <4>1, <2>1
      <4>3. g[i] = f[i] /\ g[i - 1] = f[i - 1]
        BY <4>1, <3>2
      <4> HIDE DEF g
      <4> QED  BY <4>2, <4>3 DEF Round
    <3>3. CASE i = n + 1
      <4>1. i - 1 = n /\ n \in 0 .. n + 1 /\ n # n + 1
        BY <3>3
      <4>2. g[i] = Round(sets, rec, f, i) /\ g[i - 1] = f[i - 1]
        BY <4>1, <3>3
      <4> HIDE DEF g
      <4> QED  BY <4>2 DEF Round
    <3> QED  BY <3>1, <3>2, <3>3
  <2>3. g = [i \in 0 .. n + 1 |-> Round(sets, rec, g, i)]
    <3>1. g = [i \in 0 .. n + 1 |-> g[i]]
      OBVIOUS
    <3> HIDE DEF g
    <3> QED  BY <2>2, <3>1
  <2> HIDE DEF g
  <2> QED  BY <2>3
<1> HIDE DEF T
<1>3. Nat \subseteq T
  BY <1>1, <1>2, NatSetInduction
<1> QED  BY <1>3 DEF T

(* What the first m SETs make of a record: of those that name a column the *)
(* last one counts.                                                        *)
Naming(sets, m, c) == {i \in 1 .. m : sets[i].column = c}
WrittenBy(sets, rec, m) ==
    [c \in Cols |-> IF Naming(sets, m, c) = {} THEN rec[c]
                    ELSE sets[Greatest(Naming(sets, m, c))].value.val]

(* One more SET, and the records agree again.                              *)
LEMMA OneMoreSet ==
    ASSUME NEW sets, NEW rec, NEW m \in Nat, sets[m + 1].column \in Cols
    PROVE  [WrittenBy(sets, rec, m) EXCEPT ![sets[m + 1].column] = sets[m + 1].value.val]
             = WrittenBy(sets, rec, m + 1)
<1> DEFINE k == sets[m + 1].column
<1>1. ASSUME NEW c \in Cols, c # k PROVE Naming(sets, m + 1, c) = Naming(sets, m, c)
  BY <1>1 DEF Naming
<1>2. Naming(sets, m + 1, k) # {} /\ Greatest(Naming(sets, m + 1, k)) = m + 1
  <2> DEFINE S == Naming(sets, m + 1, k)
  <2>1. m + 1 \in S /\ S \subseteq 1 .. m + 1
    BY DEF Naming
  <2> HIDE DEF S
  <2>2. \A y \in S : y <= m + 1
    BY <2>1
  <2>3. /\ Greatest(S) \in S
        /\ \A y \in S : y <= Greatest(S)
    BY <2>1, <2>2 DEF Greatest
  <2>4. Greatest(S) \in 1 .. m + 1 /\ m + 1 <= Greatest(S)
    BY <2>1, <2>3
  <2> QED  BY <2>1, <2>4 DEF S
<1> QED  BY <1>1, <1>2 DEF WrittenBy

(* The loop of Assigned computes that.                                     *)
LEMMA AssignedIs ==
    ASSUME NEW s, NEW rec, Len(s.sets) \in Nat, rec = [c \in Cols |-> rec[c]],
           \A i \in 1 .. Len(s.sets) : s.sets[i].column \in Cols
    PROVE  Assigned(s, rec) = WrittenBy(s.sets, rec, Len(s.sets))
<1> DEFINE sets == s.sets
           n == Len(s.sets)
           f == CHOOSE g : g = [i \in 0 .. n |-> Round(sets, rec, g, i)]
<1>1. f = [i \in 0 .. n |-> Round(sets, rec, f, i)]
  BY RoundsExist
<1>2. Assigned(s, rec) = f[n]
  BY DEF Assigned, Round
<1> HIDE DEF f
<1> DEFINE T == {k \in Nat : k <= n => f[k] = WrittenBy(sets, rec, k)}
<1>3. 0 \in T
  <2>1. f[0] = rec
    BY <1>1 DEF Round
  <2>2. \A c \in Cols : Naming(sets, 0, c) = {}
    BY DEF Naming
  <2>3. WrittenBy(sets, rec, 0) = rec
    BY <2>2 DEF WrittenBy
  <2> QED  BY <2>1, <2>3
<1>4. ASSUME NEW k \in Nat, k \in T PROVE k + 1 \in T
  <2> SUFFICES ASSUME k + 1 <= n PROVE f[k + 1] = WrittenBy(sets, rec, k + 1)
    OBVIOUS
  <2>1. f[k] = WrittenBy(sets, rec, k)
    BY <1>4
  <2>2. k + 1 \in 0 .. n /\ k + 1 \in 1 .. n /\ k + 1 # 0 /\ (k + 1) - 1 = k
    OBVIOUS
  <2>3. f[k + 1] = [f[k] EXCEPT ![sets[k + 1].column] = sets[k + 1].value.val]
    BY <1>1, <2>2 DEF Round
  <2>4. sets[k + 1].column \in Cols
    BY <2>2
  <2>5. [WrittenBy(sets, rec, k) EXCEPT ![sets[k + 1].column] = sets[k + 1].value.val]
          = WrittenBy(sets, rec, k + 1)
    <3> HIDE DEF sets
    <3> QED  BY <2>4, OneMoreSet
  <2> HIDE DEF sets
  <2> QED  BY <2>1, <2>3, <2>5
<1>5. Nat \subseteq T
  <2> HIDE DEF T
  <2> QED  BY <1>3, <1>4, NatSetInduction
<1>6. f[n] = WrittenBy(sets, rec, n)
  <2> HIDE DEF sets
  <2> QED  BY <1>5
<1> QED  BY <1>2, <1>6

---------------------------------------------------------------------------
(* What the binder lets through, storage takes *)

(* check_value and validate_record agree on a value.                       *)
LEMMA LiteralFits ==
    ASSUME NEW lit \in Literals, NEW c \in Cols, CheckValue(lit, c)
    PROVE  lit.val \in Fitting(c)
<1>1. Type[c] \in {"Int", "Text"}
  BY ColumnTypes
<1>2. CASE lit.ty = "Null"
  BY <1>1, <1>2 DEF Literals, CheckValue, Fitting
<1>3. CASE lit.ty = "Int"
  BY <1>1, <1>3 DEF Literals, CheckValue, Fitting
<1>4. CASE lit.ty = "Text"
  BY <1>1, <1>4 DEF Literals, CheckValue, Fitting
<1> QED  BY <1>2, <1>3, <1>4 DEF Literals

(* A record of fitting values is a record, and the other way round.        *)
LEMMA RecordIs ==
    ASSUME NEW rec
    PROVE  rec \in Record <=> rec = [c \in Cols |-> rec[c]] /\ \A c \in Cols : rec[c] \in Fitting(c)
<1>1. \A c \in Cols : Fitting(c) \subseteq IntValues \cup TextValues \cup {Null}
  BY DEF Fitting
<1> QED  BY <1>1, RecordAssumption

(* An INSERT that binds has a record storage takes.                        *)
LEMMA InsertFits ==
    ASSUME NEW s \in Statements, s.kind = "insert", Bind(s)
    PROVE  InsertRecord(s) \in Record
<1>1. s.values \in Seq(Literals) /\ BindInsert(s)
  BY StatementAssumption DEF Bind
<1>2. Schema \in Seq(Cols) /\ Len(s.values) = Len(Schema)
  BY <1>1, SchemaAssumption DEF BindInsert
<1> DEFINE Place(c) == CHOOSE i \in DOMAIN Schema : Schema[i] = c
<1>3. ASSUME NEW c \in Cols PROVE s.values[Place(c)].val \in Fitting(c)
  <2>1. Place(c) \in DOMAIN Schema /\ Schema[Place(c)] = c
    BY SchemaAssumption
  <2> HIDE DEF Place
  <2>2. Place(c) \in DOMAIN s.values /\ s.values[Place(c)] \in Literals
    BY <2>1, <1>1, <1>2
  <2>3. CheckValue(s.values[Place(c)], c)
    BY <2>1, <2>2, <1>1 DEF BindInsert
  <2> QED  BY <2>2, <2>3, LiteralFits
<1>4. InsertRecord(s) = [c \in Cols |-> s.values[Place(c)].val]
  BY DEF InsertRecord
<1> HIDE DEF Place
<1> QED  BY <1>3, <1>4, RecordIs

(* What an UPDATE that binds makes of a record, storage takes.             *)
LEMMA UpdateFits ==
    ASSUME NEW s \in Statements, s.kind = "update", Bind(s), NEW rec \in Record
    PROVE  /\ WrittenBy(s.sets, rec, Len(s.sets)) \in Record
           /\ Assigned(s, rec) = WrittenBy(s.sets, rec, Len(s.sets))
           /\ DOMAIN s.sets = 1 .. Len(s.sets)
<1> DEFINE sets == s.sets
           n == Len(s.sets)
           names == {s.sets[i].column : i \in DOMAIN s.sets}
<1>1. sets \in Seq([column : names, value : Literals]) /\ BindUpdate(s)
  BY StatementAssumption DEF Bind
<1>2. n \in Nat /\ DOMAIN sets = 1 .. n
  <2> HIDE DEF names
  <2> QED  BY <1>1
<1>3. ASSUME NEW i \in 1 .. n PROVE sets[i].value \in Literals
  <2> DEFINE Set == [column : names, value : Literals]
  <2> HIDE DEF names
  <2>1. sets \in Seq(Set)
    BY <1>1
  <2>2. sets[i] \in Set
    <3> HIDE DEF Set
    <3> QED  BY <2>1, <1>2
  <2> QED  BY <2>2
<1>4. ASSUME NEW i \in 1 .. n
      PROVE  sets[i].column \in Cols /\ sets[i].value.val \in Fitting(sets[i].column)
  <2>1. sets[i].column \in Cols /\ CheckValue(sets[i].value, sets[i].column)
    BY <1>1, <1>2 DEF BindUpdate
  <2>2. sets[i].value \in Literals
    BY <1>3
  <2> HIDE DEF sets
  <2> QED  BY <2>1, <2>2, LiteralFits
<1> HIDE DEF sets, n
<1> DEFINE T == {k \in Nat : k <= n => WrittenBy(sets, rec, k) \in Record}
<1>5. 0 \in T
  <2>1. \A c \in Cols : Naming(sets, 0, c) = {}
    BY DEF Naming
  <2>2. WrittenBy(sets, rec, 0) = rec
    BY <2>1, RecordIs DEF WrittenBy
  <2> QED  BY <2>2
<1>6. ASSUME NEW k \in Nat, k \in T PROVE k + 1 \in T
  <2> SUFFICES ASSUME k + 1 <= n PROVE WrittenBy(sets, rec, k + 1) \in Record
    OBVIOUS
  <2> DEFINE w == WrittenBy(sets, rec, k)
             v == [w EXCEPT ![sets[k + 1].column] = sets[k + 1].value.val]
  <2>1. w \in Record
    <3>1. k <= n
      BY <1>2
    <3> QED  BY <1>6, <3>1
  <2>2. k + 1 \in 1 .. n
    BY <1>2
  <2>3. v = WrittenBy(sets, rec, k + 1)
    BY <1>4, <2>2, OneMoreSet
  <2>4. w = [c \in Cols |-> w[c]] /\ \A c \in Cols : w[c] \in Fitting(c)
    <3> HIDE DEF w
    <3> QED  BY <2>1, RecordIs
  <2> HIDE DEF w
  <2>5. v = [c \in Cols |-> v[c]] /\ \A c \in Cols : v[c] \in Fitting(c)
    BY <2>4, <2>2, <1>4
  <2> HIDE DEF v
  <2> QED  BY <2>3, <2>5, RecordIs
<1>7. Nat \subseteq T
  <2> HIDE DEF T
  <2> QED  BY <1>5, <1>6, NatSetInduction
<1>8. WrittenBy(sets, rec, n) \in Record
  BY <1>2, <1>7
<1>9. rec = [c \in Cols |-> rec[c]]
  BY RecordIs
<1>10. Assigned(s, rec) = WrittenBy(sets, rec, n)
  BY <1>2, <1>4, <1>9, AssignedIs DEF sets, n
<1> QED  BY <1>2, <1>8, <1>10 DEF sets, n

---------------------------------------------------------------------------
(* What the storage calls make of the table *)

Row == [rec : Record, live : BOOLEAN]

(* A table b with the first k of the rows r dead.                          *)
Kills(b, r, k) ==
    [i \in DOMAIN b |->
        [rec  |-> b[i].rec,
         live |-> b[i].live /\ \A m \in 1 .. k : r[m] # i - 1]]

First(w, a) == [m \in 1 .. a |-> w[m]]

(* What the selected rows become.                                          *)
Replacements == [m \in 1 .. Len(MeantRids) |-> Becomes(MeantRids[m])]

(* The table a statement has got to, put together from those.              *)
LEMMA AppliedIs ==
    ASSUME Len(MeantRids) \in Nat, NEW k \in Nat, NEW a \in 0 .. Len(MeantRids)
    PROVE  Applied(k, a) = Kills(before, MeantRids, k) \o NewRows(First(Replacements, a))
<1>1. [m \in 1 .. a |-> Becomes(MeantRids[m])] = First(Replacements, a)
  BY DEF First, Replacements
<1> QED  BY <1>1 DEF Applied, Kills

(* Killing rows leaves a table as long as it was.                          *)
LEMMA KillsTyped ==
    ASSUME NEW b \in Seq(Row), NEW r, NEW k
    PROVE  /\ Kills(b, r, k) \in Seq(Row)
           /\ Len(Kills(b, r, k)) = Len(b)
<1>1. Len(b) \in Nat /\ DOMAIN b = 1 .. Len(b)
  OBVIOUS
<1>2. ASSUME NEW i \in 1 .. Len(b) PROVE b[i] \in Row
  BY <1>1
<1>3. ASSUME NEW i \in 1 .. Len(b)
      PROVE  [rec  |-> b[i].rec, live |-> b[i].live /\ \A m \in 1 .. k : r[m] # i - 1] \in Row
  <2>1. b[i].rec \in Record
    BY <1>2 DEF Row
  <2>2. (b[i].live /\ \A m \in 1 .. k : r[m] # i - 1) \in BOOLEAN
    OBVIOUS
  <2> QED  BY <2>1, <2>2 DEF Row
<1>4. Kills(b, r, k) \in [1 .. Len(b) -> Row]
  BY <1>1, <1>3 DEF Kills
<1> QED  BY <1>1, <1>4

(* Appended records are rows.                                              *)
LEMMA NewRowsTyped ==
    ASSUME NEW w \in Seq(Record)
    PROVE  NewRows(w) \in Seq(Row) /\ Len(NewRows(w)) = Len(w)
<1>1. Len(w) \in Nat /\ DOMAIN w = 1 .. Len(w)
  OBVIOUS
<1>2. \A i \in 1 .. Len(w) : w[i] \in Record
  BY <1>1
<1>3. NewRows(w) \in [1 .. Len(w) -> Row]
  BY <1>1, <1>2 DEF NewRows, Row
<1> QED  BY <1>1, <1>3

(* A row with its bit set.                                                 *)
LEMMA Buried ==
    ASSUME NEW row \in Row, NEW live
    PROVE  [row EXCEPT !.live = live] = [rec |-> row.rec, live |-> live]
  BY DEF Row

Bury(table, rid) == [table EXCEPT ![rid + 1].live = FALSE]

(* Killing the k-th of the rows after the first k - 1 of them.             *)
LEMMA KillOneMore ==
    ASSUME NEW b \in Seq(Row), NEW n \in Seq(Row), NEW r \in Seq(Nat), NEW k \in 1 .. Len(r),
           r[k] + 1 \in 1 .. Len(b)
    PROVE  Bury(Kills(b, r, k - 1) \o n, r[k]) = Kills(b, r, k) \o n
<1> DEFINE old == Kills(b, r, k - 1) \o n
           new == Kills(b, r, k) \o n
           cut == [old EXCEPT ![r[k] + 1].live = FALSE]
           v == r[k] + 1
<1>1. Len(b) \in Nat /\ DOMAIN b = 1 .. Len(b) /\ Len(n) \in Nat /\ k \in Nat /\ k - 1 \in Nat
  OBVIOUS
<1>2. /\ old \in Seq(Row) /\ Len(old) = Len(b) + Len(n)
      /\ \A i \in 1 .. Len(b) + Len(n) :
            old[i] = IF i <= Len(b) THEN Kills(b, r, k - 1)[i] ELSE n[i - Len(b)]
  <2> DEFINE s == Kills(b, r, k - 1)
  <2>1. s \in Seq(Row) /\ Len(s) = Len(b)
    BY KillsTyped
  <2>2. /\ s \o n \in Seq(Row) /\ Len(s \o n) = Len(b) + Len(n)
        /\ \A i \in 1 .. Len(b) + Len(n) :
              (s \o n)[i] = IF i <= Len(b) THEN s[i] ELSE n[i - Len(b)]
    <3> HIDE DEF s
    <3>1. /\ s \o n \in Seq(Row) /\ Len(s \o n) = Len(s) + Len(n)
          /\ \A i \in 1 .. Len(s) + Len(n) :
                (s \o n)[i] = IF i <= Len(s) THEN s[i] ELSE n[i - Len(s)]
      BY ONLY <2>1, n \in Seq(Row), ConcatProperties
    <3> QED  BY <3>1, <2>1
  <2> QED  BY <2>2
<1>3. /\ new \in Seq(Row) /\ Len(new) = Len(b) + Len(n)
      /\ \A i \in 1 .. Len(b) + Len(n) :
            new[i] = IF i <= Len(b) THEN Kills(b, r, k)[i] ELSE n[i - Len(b)]
  <2> DEFINE s == Kills(b, r, k)
  <2>1. s \in Seq(Row) /\ Len(s) = Len(b)
    BY KillsTyped
  <2>2. /\ s \o n \in Seq(Row) /\ Len(s \o n) = Len(b) + Len(n)
        /\ \A i \in 1 .. Len(b) + Len(n) :
              (s \o n)[i] = IF i <= Len(b) THEN s[i] ELSE n[i - Len(b)]
    <3> HIDE DEF s
    <3>1. /\ s \o n \in Seq(Row) /\ Len(s \o n) = Len(s) + Len(n)
          /\ \A i \in 1 .. Len(s) + Len(n) :
                (s \o n)[i] = IF i <= Len(s) THEN s[i] ELSE n[i - Len(s)]
      BY ONLY <2>1, n \in Seq(Row), ConcatProperties
    <3> QED  BY <3>1, <2>1
  <2> QED  BY <2>2
<1>4. DOMAIN old = 1 .. Len(b) + Len(n) /\ DOMAIN new = 1 .. Len(b) + Len(n)
  BY <1>1, <1>2, <1>3
<1>5. ASSUME NEW i \in 1 .. Len(b), i # v PROVE Kills(b, r, k)[i] = Kills(b, r, k - 1)[i]
  <2>1. r[k] # i - 1
    BY <1>5
  <2>2. 1 .. k = (1 .. k - 1) \cup {k}
    BY <1>1
  <2>3. (\A m \in 1 .. k : r[m] # i - 1) <=> (\A m \in 1 .. k - 1 : r[m] # i - 1)
    BY <2>1, <2>2
  <2> QED  BY <2>3, <1>1 DEF Kills
<1>6. Kills(b, r, k)[v] = [Kills(b, r, k - 1)[v] EXCEPT !.live = FALSE]
  <2>1. v \in DOMAIN b /\ ~ (\A m \in 1 .. k : r[m] # v - 1)
    <3>1. r[k] = v - 1 /\ k \in 1 .. k
      BY <1>1
    <3> QED  BY <1>1, <3>1
  <2>2. Kills(b, r, k)[v] = [rec |-> b[v].rec, live |-> FALSE]
    BY <2>1 DEF Kills
  <2> DEFINE x == Kills(b, r, k - 1)[v]
  <2>3. x.rec = b[v].rec
    BY <2>1 DEF Kills
  <2>4. x \in Row
    BY <2>1, <1>1, KillsTyped
  <2> HIDE DEF x, v
  <2>5. [x EXCEPT !.live = FALSE] = [rec |-> x.rec, live |-> FALSE]
    BY <2>4, Buried
  <2> QED  BY <2>2, <2>3, <2>5 DEF x
<1> HIDE DEF v
<1>7. cut = [i \in 1 .. Len(b) + Len(n) |->
                IF i = v THEN [old[i] EXCEPT !.live = FALSE] ELSE old[i]]
  <2>1. v \in 1 .. Len(b) + Len(n)
    BY <1>1 DEF v
  <2> HIDE DEF old
  <2> QED  BY <2>1, <1>4 DEF v
<1>8. ASSUME NEW i \in 1 .. Len(b) + Len(n) PROVE cut[i] = new[i]
  <2>1. CASE i = v
    <3>1. i \in 1 .. Len(b)
      BY <2>1 DEF v
    <3>2. cut[i] = [old[i] EXCEPT !.live = FALSE]
      <4> HIDE DEF cut, old
      <4> QED  BY <1>7, <2>1
    <3>3. old[i] = Kills(b, r, k - 1)[i] /\ new[i] = Kills(b, r, k)[i]
      <4> HIDE DEF old, new
      <4> QED  BY <1>2, <1>3, <3>1
    <3> HIDE DEF cut, old, new
    <3> QED  BY <3>2, <3>3, <1>6, <2>1
  <2>2. CASE i # v
    <3>1. cut[i] = old[i]
      <4> HIDE DEF cut, old
      <4> QED  BY <1>7, <2>2
    <3> HIDE DEF old, new
    <3>2. CASE i <= Len(b)
      <4>1. i \in 1 .. Len(b)
        BY <3>2, <1>1
      <4>2. old[i] = Kills(b, r, k - 1)[i] /\ new[i] = Kills(b, r, k)[i]
        BY <1>2, <1>3, <3>2
      <4> QED  BY <4>1, <4>2, <3>1, <1>5, <2>2
    <3>3. CASE ~ (i <= Len(b))
      BY <1>2, <1>3, <3>1, <3>3
    <3> QED  BY <3>2, <3>3
  <2> QED  BY <2>1, <2>2
<1> HIDE DEF cut, old, new
<1>9. DOMAIN cut = 1 .. Len(b) + Len(n)
  BY <1>7
<1>10. new = [i \in 1 .. Len(b) + Len(n) |-> new[i]]
  BY <1>3, <1>4
<1>11. cut = [i \in 1 .. Len(b) + Len(n) |-> cut[i]]
  BY <1>7
<1>12. cut = new
  BY <1>8, <1>10, <1>11
<1> QED  BY <1>12 DEF cut, new, old, v, Bury

(* Appending the replacement after the first a of them.                    *)
LEMMA AppendOneMore ==
    ASSUME NEW t \in Seq(Row), NEW w \in Seq(Record), NEW a \in Nat, a + 1 <= Len(w)
    PROVE  (t \o NewRows(First(w, a))) \o NewRows(<<w[a + 1]>>) = t \o NewRows(First(w, a + 1))
<1>1. \A m \in 1 .. a + 1 : w[m] \in Record
  OBVIOUS
<1>2. First(w, a) \in Seq(Record) /\ Len(First(w, a)) = a
  <2>1. First(w, a) \in [1 .. a -> Record]
    BY <1>1 DEF First
  <2> QED  BY <2>1
<1>3. <<w[a + 1]>> \in Seq(Record)
  BY <1>1
<1> DEFINE x == NewRows(First(w, a))
           y == NewRows(<<w[a + 1]>>)
           z == NewRows(First(w, a + 1))
<1>4. x \in Seq(Row) /\ Len(x) = a
  BY <1>2, NewRowsTyped
<1>5. y \in Seq(Row) /\ Len(y) = 1 /\ y[1] = [rec |-> w[a + 1], live |-> TRUE]
  <2>1. Len(<<w[a + 1]>>) = 1 /\ 1 \in DOMAIN <<w[a + 1]>> /\ <<w[a + 1]>>[1] = w[a + 1]
    OBVIOUS
  <2>2. y[1] = [rec |-> w[a + 1], live |-> TRUE]
    BY <2>1 DEF NewRows
  <2> QED  BY <2>1, <2>2, <1>3, NewRowsTyped
<1>6. x \o y = z
  <2>1. /\ x \o y \in Seq(Row) /\ Len(x \o y) = a + 1
        /\ \A i \in 1 .. a + 1 : (x \o y)[i] = IF i <= a THEN x[i] ELSE y[i - a]
    <3> HIDE DEF x, y
    <3>1. x \in Seq(Row)
      BY <1>4
    <3>2. y \in Seq(Row)
      BY <1>5
    <3>3. Len(x) = a
      BY <1>4
    <3>4. Len(y) = 1
      BY <1>5
    <3>5. /\ x \o y \in Seq(Row) /\ Len(x \o y) = Len(x) + Len(y)
          /\ \A i \in 1 .. Len(x) + Len(y) :
                (x \o y)[i] = IF i <= Len(x) THEN x[i] ELSE y[i - Len(x)]
      BY <3>1, <3>2
    <3> QED  BY <3>3, <3>4, <3>5
  <2>2. z \in Seq(Row) /\ Len(z) = a + 1
    <3>1. First(w, a + 1) \in [1 .. a + 1 -> Record]
      BY <1>1 DEF First
    <3>2. First(w, a + 1) \in Seq(Record) /\ Len(First(w, a + 1)) = a + 1
      BY <3>1
    <3> QED  BY <3>2, NewRowsTyped
  <2>3. ASSUME NEW i \in 1 .. a + 1 PROVE (x \o y)[i] = z[i]
    <3>1. z[i] = [rec |-> w[i], live |-> TRUE]
      BY DEF NewRows, First
    <3>2. CASE i = a + 1
      <4>1. (x \o y)[i] = y[1]
        <5> HIDE DEF x, y
        <5> QED  BY <2>1, <3>2
      <4> HIDE DEF x, y, z
      <4> QED  BY <4>1, <1>5, <3>1, <3>2
    <3>3. CASE i # a + 1
      <4>1. (x \o y)[i] = x[i]
        <5> HIDE DEF x, y
        <5> QED  BY <2>1, <3>3
      <4>2. x[i] = [rec |-> w[i], live |-> TRUE]
        BY <3>3 DEF NewRows, First
      <4> QED  BY <4>1, <4>2, <3>1
    <3> QED  BY <3>2, <3>3
  <2> HIDE DEF x, y, z
  <2> QED  BY <2>1, <2>2, <2>3, SeqEqual
<1> HIDE DEF x, y, z
<1>7. (t \o x) \o y = t \o (x \o y)
  <2>1. x \in Seq(Row) /\ y \in Seq(Row)
    BY <1>4, <1>5
  <2> QED  BY ONLY <2>1, ConcatAssociative, t \in Seq(Row), SMTT(30)
<1> QED  BY <1>6, <1>7 DEF x, y, z

---------------------------------------------------------------------------
(* The statement that is running *)

(* Every statement is one of the three.                                    *)
LEMMA Kinds ==
    ASSUME NEW s \in Statements
    PROVE  s.kind \in {"insert", "delete", "update"}
  BY StatementAssumption

(* The rows it selects: distinct live rows of the table it found.          *)
LEMMA MeantFacts ==
    ASSUME TypeOK
    PROVE  /\ MeantRids \in Seq(Nat) /\ Len(MeantRids) \in Nat
           /\ \A m \in 1 .. Len(MeantRids) : /\ MeantRids[m] \in 0 .. Len(before) - 1
                                             /\ MeantRids[m] + 1 \in 1 .. Len(before)
                                             /\ Meant(MeantRids[m])
           /\ \A k, m \in 1 .. Len(MeantRids) : k < m => MeantRids[k] # MeantRids[m]
<1> DEFINE S == {rid \in 0 .. Len(before) - 1 : Meant(rid)}
           r == MeantRids
<1>1. Len(before) \in Nat
  BY DEF TypeOK, Table
<1>2. Lists(r, S, Len(before))
  BY <1>1, CollectsInOrder DEF MeantRids
<1> HIDE DEF r
<1>3. r \in Seq(Nat) /\ Len(r) \in Nat
  BY <1>2 DEF Lists
<1>4. ASSUME NEW m \in 1 .. Len(r)
      PROVE  r[m] \in 0 .. Len(before) - 1 /\ r[m] + 1 \in 1 .. Len(before) /\ Meant(r[m])
  <2>1. r[m] \in S
    BY <1>2 DEF Lists
  <2> QED  BY <2>1, <1>1
<1>5. ASSUME NEW k \in 1 .. Len(r), NEW m \in 1 .. Len(r), k < m PROVE r[k] # r[m]
  <2>1. r[k] < r[m] /\ r[k] \in Nat
    BY <1>2, <1>3, <1>5 DEF Lists, Ascends
  <2> QED  BY <2>1
<1> QED  BY <1>3, <1>4, <1>5 DEF r

(* The rows of the table it found.                                         *)
LEMMA BeforeTyped ==
    ASSUME TypeOK, NEW i \in 1 .. Len(before)
    PROVE  before[i] \in Row /\ before[i].rec \in Record
<1>1. before \in Seq(Row)
  BY DEF TypeOK, Table, Row
<1>2. before[i] \in Row
  BY <1>1
<1> QED  BY <1>2 DEF Row

(* An UPDATE that binds: what a row becomes, by the loop and as meant.     *)
LEMMA BecomesIs ==
    ASSUME TypeOK, stmt \in Statements, Bind(stmt), Updating,
           NEW rid, rid + 1 \in 1 .. Len(before)
    PROVE  /\ Becomes(rid) \in Record
           /\ Becomes(rid) = Assigned(stmt, before[rid + 1].rec)
<1> DEFINE rec == before[rid + 1].rec
           n == Len(stmt.sets)
<1>1. rec \in Record
  BY BeforeTyped
<1> HIDE DEF rec
<1>2. /\ WrittenBy(stmt.sets, rec, n) \in Record
      /\ Assigned(stmt, rec) = WrittenBy(stmt.sets, rec, n)
      /\ DOMAIN stmt.sets = 1 .. n
  BY <1>1, UpdateFits DEF Updating
<1>3. Becomes(rid) = WrittenBy(stmt.sets, rec, n)
  BY <1>2 DEF Becomes, WrittenBy, Naming, rec
<1> QED  BY <1>2, <1>3 DEF rec

(* A DELETE or UPDATE past binding.                                        *)
Loops ==
    /\ TypeOK /\ stmt \in Statements /\ Bind(stmt)
    /\ stmt.kind \in {"delete", "update"}

(* What it appends is a list of records.                                   *)
LEMMA ReplacementsTyped ==
    ASSUME Loops, NEW a \in 0 .. Len(MeantRids), a # 0 => Updating
    PROVE  First(Replacements, a) \in Seq(Record) /\ Len(First(Replacements, a)) = a
<1>1. Len(MeantRids) \in Nat
  BY MeantFacts DEF Loops
<1>2. ASSUME NEW m \in 1 .. a PROVE Replacements[m] \in Record
  <2>1. m \in 1 .. Len(MeantRids) /\ Updating
    BY <1>1
  <2>2. MeantRids[m] + 1 \in 1 .. Len(before)
    BY <2>1, MeantFacts DEF Loops
  <2>3. Becomes(MeantRids[m]) \in Record
    BY <2>1, <2>2, BecomesIs DEF Loops
  <2> QED  BY <2>1, <2>3 DEF Replacements
<1>3. First(Replacements, a) \in [1 .. a -> Record]
  BY <1>2 DEF First
<1> QED  BY <1>1, <1>3

(* The table with k of the rows dead and a replaced.                       *)
LEMMA AppliedFacts ==
    ASSUME Loops, NEW k \in Nat, NEW a \in 0 .. Len(MeantRids), a # 0 => Updating
    PROVE  /\ Applied(k, a) = Kills(before, MeantRids, k) \o NewRows(First(Replacements, a))
           /\ NewRows(First(Replacements, a)) \in Seq(Row)
           /\ Applied(k, a) \in Seq(Row)
           /\ Len(before) \in Nat /\ Len(Applied(k, a)) \in Nat
           /\ Len(before) <= Len(Applied(k, a))
           /\ \A i \in 1 .. Len(before) : Applied(k, a)[i] = Kills(before, MeantRids, k)[i]
<1> DEFINE d == Kills(before, MeantRids, k)
           w == NewRows(First(Replacements, a))
<1>1. Applied(k, a) = d \o w
  BY MeantFacts, AppliedIs DEF Loops
<1>2. before \in Seq(Row)
  BY DEF Loops, TypeOK, Table, Row
<1>3. d \in Seq(Row) /\ Len(d) = Len(before) /\ Len(before) \in Nat
  BY <1>2, KillsTyped
<1>4. w \in Seq(Row)
  BY ReplacementsTyped, NewRowsTyped
<1> HIDE DEF d, w
<1>5. /\ d \o w \in Seq(Row) /\ Len(d \o w) = Len(d) + Len(w)
      /\ \A i \in 1 .. Len(d) + Len(w) : (d \o w)[i] = IF i <= Len(d) THEN d[i] ELSE w[i - Len(d)]
  <2>1. d \in Seq(Row) /\ w \in Seq(Row)
    BY <1>3, <1>4
  <2> QED  BY <2>1
<1>6. Len(w) \in Nat
  BY <1>4
<1>7. \A i \in 1 .. Len(before) : (d \o w)[i] = d[i]
  BY <1>3, <1>5, <1>6
<1> QED  BY <1>1, <1>3, <1>4, <1>5, <1>6, <1>7 DEF d, w

(* Before the first call it is the table the statement found.              *)
LEMMA NothingApplied ==
    ASSUME Loops
    PROVE  Applied(0, 0) = before
<1> DEFINE d == Kills(before, MeantRids, 0)
<1>1. before \in Seq(Row)
  BY DEF Loops, TypeOK, Table, Row
<1>2. Len(MeantRids) \in Nat
  BY MeantFacts DEF Loops
<1>3. Applied(0, 0) = d \o NewRows(First(Replacements, 0))
  BY <1>2, AppliedIs
<1>4. NewRows(First(Replacements, 0)) = <<>>
  <2>1. First(Replacements, 0) = <<>>
    BY DEF First
  <2> QED  BY <2>1 DEF NewRows
<1>5. d \in Seq(Row) /\ Len(d) = Len(before) /\ Len(before) \in Nat
  BY <1>1, KillsTyped
<1>6. ASSUME NEW i \in 1 .. Len(before) PROVE d[i] = before[i]
  <2>1. i \in DOMAIN before /\ before[i] \in Row
    BY <1>1
  <2>2. d[i] = [rec  |-> before[i].rec,
               live |-> before[i].live /\ \A m \in 1 .. 0 : MeantRids[m] # i - 1]
    BY <2>1 DEF Kills
  <2>3. before[i].live \in BOOLEAN
    BY <2>1 DEF Row
  <2>4. (before[i].live /\ \A m \in 1 .. 0 : MeantRids[m] # i - 1) = before[i].live
    BY <2>3
  <2>5. before[i] = [rec |-> before[i].rec, live |-> before[i].live]
    BY <2>1 DEF Row
  <2> QED  BY <2>2, <2>4, <2>5
<1> HIDE DEF d
<1>7. d = before
  BY <1>1, <1>5, <1>6, SeqEqual
<1>8. d \o <<>> = d
  BY <1>5
<1> QED  BY <1>3, <1>4, <1>7, <1>8

(* A row it selects is alive until its own call.                           *)
LEMMA NextIsLive ==
    ASSUME Loops, NEW k \in 1 .. Len(MeantRids), NEW a \in 0 .. Len(MeantRids),
           a # 0 => Updating
    PROVE  /\ MeantRids[k] + 1 \in DOMAIN Applied(k - 1, a)
           /\ Applied(k - 1, a)[MeantRids[k] + 1].live
<1>1. Len(MeantRids) \in Nat /\ k - 1 \in Nat /\ k \in Nat
  BY MeantFacts DEF Loops
<1> DEFINE v == MeantRids[k] + 1
           t == Applied(k - 1, a)
<1>2. v \in 1 .. Len(before) /\ Meant(MeantRids[k]) /\ v - 1 = MeantRids[k]
  BY MeantFacts DEF Loops
<1>3. /\ t \in Seq(Row) /\ Len(before) \in Nat /\ Len(t) \in Nat /\ Len(before) <= Len(t)
      /\ t[v] = Kills(before, MeantRids, k - 1)[v]
  BY <1>1, <1>2, AppliedFacts
<1>4. before[v].live
  BY <1>2 DEF Meant
<1>5. \A m \in 1 .. k - 1 : MeantRids[m] # MeantRids[k]
  <2>1. \A m \in 1 .. k - 1 : m \in 1 .. Len(MeantRids) /\ m < k
    BY <1>1
  <2> QED  BY <2>1, MeantFacts DEF Loops
<1>6. v \in DOMAIN before
  BY <1>2, <1>3 DEF Loops, TypeOK, Table
<1>7. Kills(before, MeantRids, k - 1)[v].live
        = (before[v].live /\ \A m \in 1 .. k - 1 : MeantRids[m] # v - 1)
  <2> HIDE DEF v
  <2> QED  BY <1>6 DEF Kills
<1>8. t[v].live
  <2> HIDE DEF t
  <2> QED  BY <1>2, <1>3, <1>4, <1>5, <1>7
<1>9. v \in DOMAIN t
  <2> HIDE DEF t, v
  <2> QED  BY <1>2, <1>3
<1> QED  BY <1>8, <1>9

(* Storage kills it.                                                       *)
LEMMA KillApplied ==
    ASSUME Loops, NEW k \in 1 .. Len(MeantRids), NEW a \in 0 .. Len(MeantRids),
           a # 0 => Updating
    PROVE  Bury(Applied(k - 1, a), MeantRids[k]) = Applied(k, a)
<1> DEFINE n == NewRows(First(Replacements, a))
<1>1. k \in Nat /\ k - 1 \in Nat
  BY MeantFacts DEF Loops
<1>2. /\ Applied(k - 1, a) = Kills(before, MeantRids, k - 1) \o n
      /\ Applied(k, a) = Kills(before, MeantRids, k) \o n
      /\ n \in Seq(Row)
  BY <1>1, AppliedFacts
<1> HIDE DEF n
<1>3. before \in Seq(Row)
  BY DEF Loops, TypeOK, Table, Row
<1>4. MeantRids \in Seq(Nat) /\ MeantRids[k] + 1 \in 1 .. Len(before)
  BY MeantFacts DEF Loops
<1>5. Bury(Kills(before, MeantRids, k - 1) \o n, MeantRids[k])
        = Kills(before, MeantRids, k) \o n
  BY <1>2, <1>3, <1>4, KillOneMore
<1> QED  BY <1>2, <1>5

(* And appends what it becomes.                                            *)
LEMMA AppendApplied ==
    ASSUME Loops, Updating, NEW k \in 1 .. Len(MeantRids)
    PROVE  Applied(k, k - 1) \o NewRows(<<Becomes(MeantRids[k])>>) = Applied(k, k)
<1> DEFINE len == Len(MeantRids)
           w == First(Replacements, len)
           t == Kills(before, MeantRids, k)
           a == k - 1
<1>1. len \in Nat /\ k \in Nat /\ a \in Nat /\ a \in 0 .. len /\ k \in 0 .. len
  BY MeantFacts DEF Loops
<1>2. w \in Seq(Record) /\ Len(w) = len
  BY <1>1, ReplacementsTyped
<1>3. t \in Seq(Row)
  <2>1. before \in Seq(Row)
    BY DEF Loops, TypeOK, Table, Row
  <2> QED  BY <2>1, KillsTyped
<1>4. /\ Applied(k, a) = t \o NewRows(First(Replacements, a))
      /\ Applied(k, k) = t \o NewRows(First(Replacements, k))
  BY <1>1, AppliedFacts
<1>5. /\ First(Replacements, a) = First(w, a) /\ First(Replacements, k) = First(w, k)
      /\ w[k] = Becomes(MeantRids[k])
  BY <1>1 DEF First, Replacements
<1>6. a + 1 <= Len(w) /\ a + 1 = k
  BY <1>1, <1>2
<1> HIDE DEF w, t, a
<1>7. (t \o NewRows(First(w, a))) \o NewRows(<<w[a + 1]>>) = t \o NewRows(First(w, a + 1))
  BY <1>1, <1>2, <1>3, <1>6, AppendOneMore
<1> QED  BY <1>4, <1>5, <1>6, <1>7 DEF a

(* The scan of a DELETE or UPDATE makes one call per selected row, the     *)
(* call that row wants.                                                    *)
LEMMA CallsAre ==
    ASSUME Loops
    PROVE  Calls(stmt, before) = [i \in 1 .. Len(MeantRids) |-> CallFor(i)]
<1> DEFINE rids == Selected(stmt, before)
<1>1. rids = MeantRids
  BY DEF Selected, MeantRids, Meant
<1>2. MeantRids \in Seq(Nat) /\ DOMAIN MeantRids = 1 .. Len(MeantRids)
  BY MeantFacts DEF Loops
<1>3. ASSUME NEW i \in 1 .. Len(MeantRids)
      PROVE  (IF stmt.kind = "update" THEN <<Assigned(stmt, before[MeantRids[i] + 1].rec)>>
              ELSE <<>>) = CallFor(i).recs
  <2>1. MeantRids[i] + 1 \in 1 .. Len(before)
    BY MeantFacts DEF Loops
  <2>2. CASE Updating
    <3>1. Becomes(MeantRids[i]) = Assigned(stmt, before[MeantRids[i] + 1].rec)
      BY <2>1, <2>2, BecomesIs DEF Loops
    <3> QED  BY <2>2, <3>1 DEF Updating, CallFor
  <2>3. CASE ~ Updating
    BY <2>3 DEF Updating, CallFor
  <2> QED  BY <2>2, <2>3
<1>4. ASSUME NEW i \in 1 .. Len(MeantRids)
      PROVE  CallFor(i) = [rid |-> MeantRids[i], recs |-> CallFor(i).recs]
  BY DEF CallFor
<1>5. \A i \in 1 .. Len(MeantRids) :
        [rid |-> MeantRids[i],
         recs |-> IF stmt.kind = "update" THEN <<Assigned(stmt, before[MeantRids[i] + 1].rec)>>
                  ELSE <<>>] = CallFor(i)
  BY <1>3, <1>4
<1>6. Calls(stmt, before) = [i \in 1 .. Len(MeantRids) |->
        [rid |-> MeantRids[i],
         recs |-> IF stmt.kind = "update" THEN <<Assigned(stmt, before[MeantRids[i] + 1].rec)>>
                  ELSE <<>>]]
  <2>1. Selected(stmt, before) = MeantRids
    BY <1>1
  <2> QED  BY <2>1, <1>2 DEF Calls
<1> QED  BY <1>5, <1>6

(* A call names a row, and a record storage takes.                         *)
LEMMA CallTyped ==
    ASSUME Loops, NEW k \in 1 .. Len(MeantRids)
    PROVE  /\ CallFor(k) \in [rid : 0 .. Len(before) - 1, recs : Seq(Record)]
           /\ CallFor(k).rid = MeantRids[k] /\ CallFor(k).rid \in Nat
           /\ CallFor(k).recs \in Seq(Record) /\ Len(CallFor(k).recs) <= 1
           /\ Updating => CallFor(k).recs = <<Becomes(MeantRids[k])>> /\ CallFor(k).recs # <<>>
           /\ ~ Updating => CallFor(k).recs = <<>>
<1>1. /\ MeantRids[k] \in 0 .. Len(before) - 1 /\ MeantRids[k] + 1 \in 1 .. Len(before)
      /\ MeantRids[k] \in Nat
  BY MeantFacts DEF Loops
<1> DEFINE recs == CallFor(k).recs
<1>2. /\ Updating => recs = <<Becomes(MeantRids[k])>> /\ Becomes(MeantRids[k]) \in Record
      /\ ~ Updating => recs = <<>>
  <2>1. Updating => Becomes(MeantRids[k]) \in Record
    BY <1>1, BecomesIs DEF Loops
  <2> QED  BY <2>1 DEF CallFor
<1>3. CallFor(k) = [rid |-> MeantRids[k], recs |-> recs]
  BY DEF CallFor
<1> HIDE DEF recs
<1>4. recs \in Seq(Record) /\ Len(recs) <= 1 /\ (Updating => recs # <<>>)
  <2>1. CASE Updating
    <3> DEFINE new == Becomes(MeantRids[k])
    <3>1. recs = <<new>> /\ new \in Record
      BY <1>2, <2>1
    <3> HIDE DEF new
    <3> QED  BY <3>1
  <2>2. CASE ~ Updating
    BY <1>2, <2>2
  <2> QED  BY <2>1, <2>2
<1> QED  BY <1>1, <1>2, <1>3, <1>4 DEF recs

---------------------------------------------------------------------------
(* The invariant, action by action *)

(* While the statement and the table it found stay, so does its meaning.   *)
LEMMA SameMeaning ==
    ASSUME stmt' = stmt, before' = before
    PROVE  /\ MeantRids' = MeantRids /\ Updating' = Updating /\ Bind(stmt)' = Bind(stmt)
           /\ BadPredicate' = BadPredicate /\ InsertRecord(stmt)' = InsertRecord(stmt)
           /\ \A k : CallFor(k)' = CallFor(k)
           /\ \A k, a : Applied(k, a)' = Applied(k, a)
           /\ \A k : Through(k)' = Through(k)
<1>1. \A rid : Meant(rid)' = Meant(rid) /\ Becomes(rid)' = Becomes(rid)
  BY DEF Meant, Becomes
<1>2. MeantRids' = MeantRids
  BY <1>1 DEF MeantRids
<1>3. Updating' = Updating /\ BadPredicate' = BadPredicate
  BY DEF Updating, BadPredicate
<1>4. \A k : CallFor(k)' = CallFor(k)
  BY <1>1, <1>2, <1>3 DEF CallFor
<1>5. \A k, a : Applied(k, a)' = Applied(k, a)
  BY <1>1, <1>2 DEF Applied
<1>6. \A k : Through(k)' = Through(k)
  BY <1>3, <1>5 DEF Through
<1> QED  BY <1>2, <1>3, <1>4, <1>5, <1>6

(* A statement arrives.                                                    *)
LEMMA SubmitStep ==
    ASSUME DmlInv, NEW s \in Statements, Submit(s)
    PROVE  DmlInv'
<1> USE DEF DmlInv
<1>1. phase' = "idle" /\ pending' = <<>> /\ pc' \in {"bound", "refused"}
  BY DEF Submit, QuietPart
<1>2. TypeOK'
  <2>1. ATypeOK' /\ before' \in Table
    BY DEF Submit, TypeOK, ATypeOK, Table
  <2>2. pending' \in Seq([rid : 0 .. Len(before') - 1, recs : Seq(Record)])
    BY <1>1
  <2> QED  BY <1>1, <2>1, <2>2 DEF Submit, TypeOK
<1>3. BoundPart'
  BY <1>1 DEF Submit, BoundPart
<1> QED  BY <1>1, <1>2, <1>3 DEF QuietPart, InsertPart, LoopPart

(* An INSERT becomes one call.                                             *)
LEMMA ExecInsertStep ==
    ASSUME DmlInv, ExecInsert
    PROVE  DmlInv'
<1> USE DEF DmlInv
<1>1. stmt \in Statements /\ Bind(stmt) /\ rows = before /\ stmt.kind = "insert"
  BY DEF ExecInsert, BoundPart
<1>2. InsertRecord(stmt) \in Record
  BY <1>1, InsertFits
<1>3. /\ pend' = <<InsertRecord(stmt)>> /\ pc' = "apply" /\ phase' = "append"
      /\ UNCHANGED <<rows, victim, stmt, pending, before>> /\ pending = <<>>
  BY <1>2 DEF ExecInsert, CallAppend, QuietPart
<1>4. TypeOK'
  <2>1. pend' \in Seq(Record)
    BY <1>2, <1>3
  <2> QED  BY <1>3, <2>1 DEF TypeOK, ATypeOK
<1>5. /\ InsertRecord(stmt)' = InsertRecord(stmt) /\ Bind(stmt)' = Bind(stmt)
      /\ stmt'.kind = "insert"
  BY <1>1, <1>3, SameMeaning
<1> QED  BY <1>1, <1>3, <1>4, <1>5 DEF QuietPart, BoundPart, InsertPart, LoopPart

(* A DELETE or UPDATE collects its calls, or finds it has no condition.    *)
LEMMA CollectStep ==
    ASSUME DmlInv, Collect
    PROVE  DmlInv'
<1> USE DEF DmlInv
<1>1. Loops /\ rows = before /\ phase = "idle" /\ pending = <<>> /\ TypeOK
  BY DEF Collect, BoundPart, QuietPart, Loops
<1>2. /\ UNCHANGED <<rows, phase, victim, pend, stmt, before>>
      /\ pc' \in {"apply", "failed"}
      /\ stmt'.kind \in {"delete", "update"}
  BY DEF Collect
<1> DEFINE n == Len(MeantRids)
<1>3. /\ MeantRids' = MeantRids /\ Bind(stmt)' = Bind(stmt) /\ BadPredicate' = BadPredicate
      /\ \A k : CallFor(k)' = CallFor(k) /\ Through(k)' = Through(k)
  BY <1>2, SameMeaning
<1>4. n \in Nat
  BY MeantFacts, <1>1
<1>5. Bind(stmt)' /\ stmt' \in Statements
  BY <1>1, <1>2, <1>3 DEF Loops
<1>6. CASE pc' = "apply"
  <2>1. pending' = [i \in 1 .. n |-> CallFor(i)]
    BY <1>1, <1>6, CallsAre DEF Collect
  <2>2. pending' \in Seq([rid : 0 .. Len(before) - 1, recs : Seq(Record)]) /\ Len(pending') = n
        /\ DOMAIN pending' = 1 .. n
    <3> DEFINE Set == [rid : 0 .. Len(before) - 1, recs : Seq(Record)]
    <3>1. \A i \in 1 .. n : CallFor(i) \in Set
      BY <1>1, CallTyped
    <3>2. pending' \in [1 .. n -> Set]
      BY <3>1, <2>1
    <3>3. pending' \in Seq(Set) /\ Len(pending') = n /\ DOMAIN pending' = 1 .. n
      <4> DEFINE p == pending'
      <4>1. p \in [1 .. n -> Set]
        BY <3>2
      <4> HIDE DEF Set, n, p
      <4>2. p \in Seq(Set) /\ Len(p) = n /\ DOMAIN p = 1 .. n
        BY <4>1, <1>4
      <4> QED  BY <4>2 DEF p
    <3> QED  BY <3>3
  <2>3. TypeOK'
    BY <1>1, <1>2, <1>6, <2>2 DEF TypeOK, ATypeOK
  <2>4. HandedOver' = 0
    BY <1>3, <1>4, <2>2 DEF HandedOver
  <2>5. Through(0) = before
    BY <1>1, NothingApplied DEF Through
  <2>6. \A i \in DOMAIN pending' : pending'[i] = CallFor(0 + i)
    <3>1. \A i \in 1 .. n : 0 + i = i
      BY <1>4
    <3>2. \A i \in DOMAIN pending' : pending'[i] = CallFor(i)
      BY <2>1, <2>2
    <3> QED  BY <2>2, <3>1, <3>2
  <2>7. rows' = Through(0) /\ phase' = "idle"
    BY <1>1, <1>2, <2>5
  <2>8. LoopPart'
    BY <1>3, <2>4, <2>6, <2>7 DEF LoopPart
  <2> QED  BY <1>2, <1>5, <1>6, <2>3, <2>8 DEF QuietPart, BoundPart, InsertPart
<1>7. CASE pc' = "failed"
  <2>1. BadPredicate /\ pending' = <<>>
    BY <1>1, <1>7 DEF Collect, BadPredicate
  <2>2. TypeOK'
    BY <1>1, <1>2, <1>7, <2>1 DEF TypeOK, ATypeOK
  <2> QED  BY <1>1, <1>2, <1>3, <1>5, <1>7, <2>1, <2>2
           DEF QuietPart, BoundPart, InsertPart, LoopPart
<1> QED  BY <1>2, <1>6, <1>7

(* In the loop: how far it is, and that the statement is a loop.           *)
Looping ==
    /\ DmlInv /\ Loops
    /\ pc \in {"apply", "done"}

(* A running loop is somewhere in its list.                                *)
LEMMA InTheLoop ==
    ASSUME Looping
    PROVE  /\ Len(MeantRids) \in Nat /\ Len(pending) \in Nat
           /\ DOMAIN pending = 1 .. Len(pending)
           /\ HandedOver \in 0 .. Len(MeantRids)
           /\ HandedOver + Len(pending) = Len(MeantRids)
           /\ LoopPart
<1>1. Len(MeantRids) \in Nat
  BY MeantFacts DEF Looping, Loops
<1>2. Len(pending) \in Nat /\ DOMAIN pending = 1 .. Len(pending)
  <2> DEFINE Set == [rid : 0 .. Len(before) - 1, recs : Seq(Record)]
  <2>1. pending \in Seq(Set)
    BY DEF Looping, DmlInv, TypeOK
  <2> HIDE DEF Set
  <2> QED  BY <2>1
<1>3. HandedOver >= 0 /\ LoopPart
  BY DEF Looping, Loops, DmlInv, LoopPart
<1> QED  BY <1>1, <1>2, <1>3 DEF HandedOver

(* The loop makes the next call, and storage takes it.                     *)
LEMMA NextCallStep ==
    ASSUME DmlInv, NextCall
    PROVE  DmlInv'
<1>1. pc = "apply" /\ phase = "idle" /\ pending # <<>> /\ UNCHANGED <<stmt, before>>
  BY DEF NextCall
<1>2. Looping /\ stmt.kind \in {"delete", "update"}
  <2>1. stmt \in Statements /\ Bind(stmt) /\ stmt.kind # "insert"
    BY <1>1 DEF DmlInv, BoundPart, InsertPart
  <2> QED  BY <1>1, <2>1, Kinds DEF Looping, Loops, DmlInv
<1> DEFINE n == Len(MeantRids)
           k == HandedOver + 1
           Set == [rid : 0 .. Len(before) - 1, recs : Seq(Record)]
<1>3. /\ n \in Nat /\ HandedOver \in 0 .. n /\ LoopPart /\ Len(pending) \in Nat
      /\ HandedOver + Len(pending) = n
  BY <1>2, InTheLoop
<1>4. /\ Head(pending) = pending[1] /\ 1 \in DOMAIN pending /\ Len(pending) > 0
      /\ Tail(pending) \in Seq(Set) /\ Len(Tail(pending)) = Len(pending) - 1
      /\ DOMAIN Tail(pending) = 1 .. Len(pending) - 1
      /\ \A i \in 1 .. Len(pending) - 1 : Tail(pending)[i] = pending[i + 1]
      /\ DOMAIN pending = 1 .. Len(pending)
  <2>1. pending \in Seq(Set)
    BY DEF DmlInv, TypeOK
  <2> HIDE DEF Set
  <2> QED  BY <2>1, <1>1
<1>5. k \in 1 .. n /\ k - 1 = HandedOver
  BY <1>3, <1>4
<1>6. Head(pending) = CallFor(k)
  BY <1>2, <1>3, <1>4, <1>1 DEF LoopPart
<1>7. rows = Through(k - 1)
  BY <1>1, <1>2, <1>3, <1>5 DEF LoopPart
<1>8. CallFor(k).rid = MeantRids[k] /\ CallFor(k).recs \in Seq(Record) /\ CallFor(k).rid \in Nat
  BY <1>2, <1>5, CallTyped DEF Looping
<1>9. LiveRow(MeantRids[k])
  <2> DEFINE a == IF Updating THEN k - 1 ELSE 0
  <2>1. a \in 0 .. n /\ (a # 0 => Updating)
    BY <1>3, <1>5
  <2> HIDE DEF a, k
  <2>2. MeantRids[k] + 1 \in DOMAIN Applied(k - 1, a) /\ Applied(k - 1, a)[MeantRids[k] + 1].live
    BY <2>1, <1>2, <1>5, NextIsLive DEF Looping
  <2> QED  BY <2>2, <1>7 DEF Through, LiveRow, a
<1>10. /\ victim' = MeantRids[k] /\ pend' = CallFor(k).recs /\ phase' = "kill"
       /\ UNCHANGED <<rows, pc>> /\ pending' = Tail(pending)
  BY <1>6, <1>8, <1>9 DEF NextCall, CallKill
<1>11. /\ MeantRids' = MeantRids /\ Bind(stmt)' = Bind(stmt)
       /\ \A j : CallFor(j)' = CallFor(j) /\ Through(j)' = Through(j)
  BY <1>1, SameMeaning
<1>12. HandedOver' = k
  BY <1>3, <1>4, <1>10, <1>11 DEF HandedOver
<1>13. TypeOK'
  BY <1>1, <1>4, <1>8, <1>10 DEF DmlInv, TypeOK, ATypeOK
<1>14. LoopPart'
  <2>1. \A i \in DOMAIN pending' : pending'[i] = CallFor(k + i)
    <3>1. ASSUME NEW i \in 1 .. Len(pending) - 1 PROVE Tail(pending)[i] = CallFor(k + i)
      <4>1. i + 1 \in DOMAIN pending /\ Tail(pending)[i] = pending[i + 1]
        BY <1>3, <1>4
      <4>2. pending[i + 1] = CallFor(HandedOver + (i + 1))
        BY <4>1, <1>1, <1>2, <1>3 DEF LoopPart
      <4>3. HandedOver + (i + 1) = k + i
        BY <1>3
      <4> QED  BY <4>1, <4>2, <4>3
    <3> QED  BY <3>1, <1>4, <1>10
  <2>2. k > 0 /\ k >= 0 /\ k \in Nat
    BY <1>3, <1>5
  <2>3. rows' = Through(k - 1) /\ victim' = MeantRids[k] /\ pend' = CallFor(k).recs
    BY <1>7, <1>10
  <2> HIDE DEF k
  <2> QED  BY <1>10, <1>11, <1>12, <2>1, <2>2, <2>3 DEF LoopPart
<1>15. stmt' \in Statements /\ Bind(stmt)' /\ stmt'.kind # "insert" /\ pc' = "apply"
  BY <1>1, <1>2, <1>10, <1>11 DEF Looping, Loops
<1> QED  BY <1>13, <1>14, <1>15 DEF DmlInv, QuietPart, BoundPart, InsertPart

(* Storage kills the row of the call.                                      *)
LEMMA KillStep ==
    ASSUME DmlInv, Kill, UNCHANGED <<stmt, pc, pending, before>>
    PROVE  DmlInv'
<1>1. /\ phase = "kill" /\ pc = "apply"
      /\ UNCHANGED <<victim, pend>>
  BY DEF Kill, DmlInv, QuietPart
<1>2. Looping /\ stmt.kind \in {"delete", "update"}
  <2>1. stmt \in Statements /\ Bind(stmt) /\ stmt.kind # "insert"
    BY <1>1 DEF DmlInv, BoundPart, InsertPart
  <2> QED  BY <1>1, <2>1, Kinds DEF Looping, Loops, DmlInv
<1> DEFINE n == Len(MeantRids)
           k == HandedOver
           a == IF Updating THEN k - 1 ELSE 0
<1>3. n \in Nat /\ k \in 0 .. n /\ LoopPart
  BY <1>2, InTheLoop
<1>4. /\ k \in 1 .. n /\ pend = CallFor(k).recs /\ victim = MeantRids[k]
      /\ rows = Through(k - 1)
      /\ \A i \in DOMAIN pending : pending[i] = CallFor(k + i)
  BY <1>1, <1>2, <1>3 DEF LoopPart
<1>5. a \in 0 .. n /\ (a # 0 => Updating) /\ k \in Nat
  BY <1>3, <1>4
<1> HIDE DEF k
<1>6. rows = Applied(k - 1, a)
  BY <1>4 DEF Through, a
<1> HIDE DEF a
<1>7. rows' = Applied(k, a)
  <2>1. rows' = Bury(Applied(k - 1, a), MeantRids[k])
    BY <1>4, <1>6 DEF Kill, Bury
  <2> QED  BY <2>1, <1>2, <1>4, <1>5, KillApplied DEF Looping
<1>8. /\ Updating => phase' = "append"
      /\ ~ Updating => phase' = "done"
  BY <1>2, <1>4, CallTyped DEF Kill, Looping
<1>9. /\ MeantRids' = MeantRids /\ Bind(stmt)' = Bind(stmt) /\ Updating' = Updating
      /\ \A j : CallFor(j)' = CallFor(j) /\ Through(j)' = Through(j)
      /\ \A i, j : Applied(i, j)' = Applied(i, j)
  BY SameMeaning
<1>10. HandedOver' = k
  BY <1>9 DEF HandedOver, k
<1>11. TypeOK'
  <2>1. rows' \in Table
    BY <1>2, <1>5, <1>7, AppliedFacts DEF Looping, Table, Row
  <2> QED  BY <1>1, <1>8, <2>1 DEF DmlInv, TypeOK, ATypeOK, Table
<1>12. LoopPart'
  <2>1. CASE Updating
    <3>1. rows' = Applied(k, k - 1) /\ phase' = "append" /\ Updating'
      BY <1>7, <1>8, <1>9, <2>1 DEF a
    <3>2. k > 0 /\ k >= 0
      BY <1>4
    <3> QED  BY <1>1, <1>4, <1>9, <1>10, <3>1, <3>2 DEF LoopPart
  <2>2. CASE ~ Updating
    <3>1. rows' = Through(k) /\ phase' = "done"
      BY <1>7, <1>8, <2>2 DEF a, Through
    <3>2. k >= 0
      BY <1>4
    <3> QED  BY <1>4, <1>9, <1>10, <3>1, <3>2 DEF LoopPart
  <2> QED  BY <2>1, <2>2
<1>13. stmt' \in Statements /\ Bind(stmt)' /\ stmt'.kind # "insert" /\ pc' = "apply"
  BY <1>1, <1>2, <1>9 DEF Looping, Loops
<1> QED  BY <1>11, <1>12, <1>13 DEF DmlInv, QuietPart, BoundPart, InsertPart

(* Storage appends the records of the call.                                *)
LEMMA AppendStep ==
    ASSUME DmlInv, AppendAll, UNCHANGED <<stmt, pc, pending, before>>
    PROVE  DmlInv'
<1>1. /\ phase = "append" /\ phase' = "done" /\ pc = "apply" /\ rows' = rows \o NewRows(pend)
      /\ UNCHANGED <<victim, pend>>
  BY DEF AppendAll, DmlInv, QuietPart
<1>2. stmt \in Statements /\ Bind(stmt)
  BY <1>1 DEF DmlInv, BoundPart
<1>3. /\ MeantRids' = MeantRids /\ Bind(stmt)' = Bind(stmt)
      /\ InsertRecord(stmt)' = InsertRecord(stmt)
      /\ \A j : CallFor(j)' = CallFor(j) /\ Through(j)' = Through(j)
  BY SameMeaning
<1>4. rows' \in Table
  <2>1. rows \in Seq(Row) /\ pend \in Seq(Record)
    BY DEF DmlInv, TypeOK, ATypeOK, Row
  <2>2. NewRows(pend) \in Seq(Row)
    BY <2>1, NewRowsTyped
  <2>3. rows \o NewRows(pend) \in Seq(Row)
    BY <2>1, <2>2
  <2> QED  BY <2>3, <1>1 DEF Table, Row
<1>5. TypeOK'
  BY <1>1, <1>4 DEF DmlInv, TypeOK, ATypeOK, Table
<1>6. CASE stmt.kind = "insert"
  BY <1>1, <1>2, <1>3, <1>5, <1>6 DEF DmlInv, QuietPart, BoundPart, InsertPart, LoopPart
<1>7. CASE stmt.kind # "insert"
  <2>1. Looping
    BY <1>1, <1>2, <1>7, Kinds DEF Looping, Loops, DmlInv
  <2> DEFINE n == Len(MeantRids)
             k == HandedOver
  <2>2. n \in Nat /\ k \in 0 .. n /\ LoopPart
    BY <2>1, InTheLoop
  <2>3. /\ k \in 1 .. n /\ Updating /\ pend = CallFor(k).recs /\ rows = Applied(k, k - 1)
        /\ \A i \in DOMAIN pending : pending[i] = CallFor(k + i)
    BY <1>1, <2>1, <2>2 DEF LoopPart, Looping, Loops
  <2> HIDE DEF k
  <2>4. pend = <<Becomes(MeantRids[k])>>
    BY <2>1, <2>3, CallTyped DEF Looping
  <2>5. rows' = Applied(k, k)
    BY <1>1, <2>1, <2>3, <2>4, AppendApplied DEF Looping
  <2>6. rows' = Through(k)
    BY <2>3, <2>5 DEF Through
  <2>7. HandedOver' = k /\ k >= 0
    BY <1>3, <2>2 DEF HandedOver, k
  <2>8. LoopPart'
    BY <1>1, <1>3, <2>3, <2>6, <2>7 DEF LoopPart
  <2> QED  BY <1>1, <1>2, <1>3, <1>5, <1>7, <2>8 DEF DmlInv, QuietPart, BoundPart, InsertPart
<1> QED  BY <1>6, <1>7

(* Storage answers, or the loop is through: the table stays.               *)
LEMMA QuietStep ==
    ASSUME DmlInv, UNCHANGED <<rows, stmt, pending, before>>,
           \/ Respond /\ UNCHANGED pc
           \/ Report
           \/ UNCHANGED vars
    PROVE  DmlInv'
<1>1. /\ MeantRids' = MeantRids /\ Bind(stmt)' = Bind(stmt) /\ Updating' = Updating
      /\ InsertRecord(stmt)' = InsertRecord(stmt) /\ BadPredicate' = BadPredicate
      /\ \A j : CallFor(j)' = CallFor(j) /\ Through(j)' = Through(j)
      /\ \A i, j : Applied(i, j)' = Applied(i, j)
  BY SameMeaning
<1>2. HandedOver' = HandedOver
  BY <1>1 DEF HandedOver
<1>3. CASE Respond /\ UNCHANGED pc
  <2>1. phase = "done" /\ pc = "apply" /\ phase' = "idle" /\ victim' = 0 /\ pend' = <<>>
    BY <1>3 DEF Respond, CallEnds, DmlInv, QuietPart
  <2>2. TypeOK'
    BY <1>3, <2>1 DEF DmlInv, TypeOK, ATypeOK
  <2> QED  BY <1>1, <1>2, <1>3, <2>1, <2>2 DEF DmlInv, QuietPart, BoundPart, InsertPart, LoopPart
<1>4. CASE Report
  <2>1. /\ phase = "idle" /\ pc = "apply" /\ pc' = "done" /\ pending = <<>>
        /\ UNCHANGED <<phase, victim, pend>>
    BY <1>4 DEF Report
  <2>2. TypeOK'
    BY <2>1 DEF DmlInv, TypeOK, ATypeOK
  <2> QED  BY <1>1, <1>2, <2>1, <2>2 DEF DmlInv, QuietPart, BoundPart, InsertPart, LoopPart
<1>5. CASE UNCHANGED vars
  <2>1. UNCHANGED <<pc, phase, victim, pend>>
    BY <1>5 DEF vars
  <2>2. TypeOK'
    BY <2>1 DEF DmlInv, TypeOK, ATypeOK
  <2> QED  BY <1>1, <1>2, <2>1, <2>2 DEF DmlInv, QuietPart, BoundPart, InsertPart, LoopPart
<1> QED  BY <1>3, <1>4, <1>5

(* The statement ends, and leaves nothing behind but the table.            *)
LEMMA EndStep ==
    ASSUME DmlInv, Ends, UNCHANGED rows,
           phase' = "idle", victim' \in Nat, pend' \in Seq(Record)
    PROVE  DmlInv'
<1>1. pc' = "idle" /\ stmt' = NoStatement /\ pending' = <<>> /\ before' = <<>>
  BY DEF Ends
<1>2. TypeOK'
  <2>1. before' \in Table /\ pending' \in Seq([rid : 0 .. Len(before') - 1, recs : Seq(Record)])
    BY <1>1 DEF Table
  <2> QED  BY <1>1, <2>1 DEF DmlInv, TypeOK, ATypeOK
<1> QED  BY <1>1, <1>2 DEF DmlInv, QuietPart, BoundPart, InsertPart, LoopPart

(* Every step keeps the invariant.                                         *)
LEMMA DmlStep ==
    ASSUME DmlInv, [Next]_vars
    PROVE  DmlInv'
<1>1. CASE \E s \in Statements : Submit(s)
  BY <1>1, SubmitStep
<1>2. CASE ExecInsert
  BY <1>2, ExecInsertStep
<1>3. CASE Collect
  BY <1>3, CollectStep
<1>4. CASE NextCall
  BY <1>4, NextCallStep
<1>5. CASE InStorage
  <2>1. CASE Kill
    BY <1>5, <2>1, KillStep DEF InStorage
  <2>2. CASE AppendAll
    BY <1>5, <2>2, AppendStep DEF InStorage
  <2>3. CASE Respond
    BY <1>5, <2>3, QuietStep DEF InStorage, Respond, CallEnds
  <2> QED  BY <1>5, <2>1, <2>2, <2>3 DEF InStorage
<1>6. CASE Report
  BY <1>6, QuietStep DEF Report
<1>7. CASE Finish
  <2>1. phase = "idle" /\ victim \in Nat /\ pend \in Seq(Record)
    BY <1>7 DEF Finish, DmlInv, QuietPart, TypeOK, ATypeOK
  <2> QED  BY <1>7, <2>1, EndStep DEF Finish, avars
<1>8. CASE Crash
  <2>1. victim \in Nat /\ pend \in Seq(Record)
    BY DEF DmlInv, TypeOK, ATypeOK
  <2>2. Ends
    BY <1>8 DEF Crash
  <2>3. CASE Abandon
    <3>1. UNCHANGED rows /\ phase' = "idle" /\ victim' \in Nat /\ pend' \in Seq(Record)
      BY <2>3 DEF Abandon, CallEnds
    <3> QED  BY <2>2, <3>1, EndStep
  <2>4. CASE phase = "idle" /\ UNCHANGED avars
    BY <2>1, <2>2, <2>4, EndStep DEF avars
  <2> QED  BY <1>8, <2>3, <2>4 DEF Crash
<1>9. CASE UNCHANGED vars
  BY <1>9, QuietStep DEF vars
<1> QED  BY <1>1, <1>2, <1>3, <1>4, <1>5, <1>6, <1>7, <1>8, <1>9 DEF Next, Exec

(* The inductive invariant of INSERT, DELETE and UPDATE.                   *)
THEOREM DmlInvariance == Spec => []DmlInv
<1>1. Init => DmlInv
  <2> SUFFICES ASSUME Init PROVE DmlInv
    OBVIOUS
  <2>1. /\ pc = "idle" /\ stmt = NoStatement /\ pending = <<>> /\ before = <<>>
        /\ rows = <<>> /\ phase = "idle" /\ victim = 0 /\ pend = <<>>
    BY DEF Init, AInit
  <2>2. TypeOK
    <3>1. before \in Table /\ pending \in Seq([rid : 0 .. Len(before) - 1, recs : Seq(Record)])
      BY <2>1 DEF Table
    <3> QED  BY <2>1, <3>1 DEF TypeOK, ATypeOK
  <2> QED  BY <2>1, <2>2 DEF DmlInv, QuietPart, BoundPart, InsertPart, LoopPart
<1>2. DmlInv /\ [Next]_vars => DmlInv'
  BY DmlStep
<1> QED  BY <1>1, <1>2, PTL DEF Spec

(* A statement that reports success has had its whole effect on the table  *)
(* it found, and no other.                                                 *)
THEOREM SuccessIsWhole == Spec => []StatementEffect
<1>1. DmlInv => StatementEffect
  <2> SUFFICES ASSUME DmlInv, pc = "done"
               PROVE  rows = IF stmt.kind = "insert"
                             THEN before \o NewRows(<<InsertRecord(stmt)>>)
                             ELSE Through(Len(MeantRids))
    BY DEF StatementEffect
  <2>1. phase = "idle" /\ pending = <<>> /\ stmt \in Statements /\ Bind(stmt)
    BY DEF DmlInv, QuietPart, BoundPart
  <2>2. CASE stmt.kind = "insert"
    BY <2>1, <2>2 DEF DmlInv, InsertPart
  <2>3. CASE stmt.kind # "insert"
    <3>1. Looping
      BY <2>1, <2>3, Kinds DEF Looping, Loops, DmlInv
    <3>2. HandedOver = Len(MeantRids) /\ LoopPart
      BY <3>1, <2>1, InTheLoop
    <3> QED  BY <2>1, <2>3, <3>1, <3>2 DEF LoopPart, Looping, Loops
  <2> QED  BY <2>2, <2>3
<1> QED  BY <1>1, DmlInvariance, PTL

(* A DELETE or UPDATE stopped anywhere has had its effect on a prefix of   *)
(* the rows it selects, the last of them perhaps killed and not replaced.  *)
THEOREM StoppedIsPrefix == Spec => []HalfDoneIsPrefix
<1>1. DmlInv => HalfDoneIsPrefix
  <2> SUFFICES ASSUME DmlInv, pc \notin {"idle", "refused"}, stmt.kind \in {"delete", "update"}
               PROVE  \E m \in 0 .. Len(MeantRids) :
                         \/ rows = Through(m)
                         \/ m > 0 /\ Updating /\ rows = Applied(m, m - 1)
    BY DEF HalfDoneIsPrefix
  <2>1. Loops
    BY DEF Loops, DmlInv, BoundPart, TypeOK
  <2>2. Len(MeantRids) \in Nat
    BY <2>1, MeantFacts DEF Loops
  <2>3. CASE pc \in {"bound", "failed"}
    <3>1. rows = Through(0)
      BY <2>1, <2>3, NothingApplied DEF DmlInv, BoundPart, Through
    <3> QED  BY <2>2, <3>1
  <2>4. CASE pc \in {"apply", "done"}
    <3>1. Looping
      BY <2>1, <2>4 DEF Looping
    <3>2. HandedOver \in 0 .. Len(MeantRids) /\ LoopPart
      BY <3>1, InTheLoop
    <3>3. CASE phase \in {"idle", "done"}
      BY <2>4, <3>2, <3>3 DEF LoopPart
    <3>4. CASE phase = "kill"
      <4>1. HandedOver - 1 \in 0 .. Len(MeantRids) /\ rows = Through(HandedOver - 1)
        BY <2>2, <2>4, <3>2, <3>4 DEF LoopPart
      <4> QED  BY <4>1
    <3>5. CASE phase = "append"
      BY <2>4, <3>2, <3>5 DEF LoopPart
    <3> QED  BY <3>3, <3>4, <3>5 DEF DmlInv, TypeOK, ATypeOK
  <2> QED  BY <2>3, <2>4 DEF DmlInv, TypeOK
<1> QED  BY <1>1, DmlInvariance, PTL

(* Storage never refuses what the binder has let through, and a statement  *)
(* that fails has changed nothing.                                         *)
THEOREM FailureIsClean == Spec => []FailsClean
<1>1. DmlInv => FailsClean
  BY DEF DmlInv, BoundPart, FailsClean
<1> QED  BY <1>1, DmlInvariance, PTL
=============================================================================
