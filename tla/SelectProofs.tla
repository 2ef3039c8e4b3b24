---------------------------- MODULE SelectProofs ----------------------------
(***************************************************************************)
(* SELECT, for every schema, every table, every WHERE clause whose hints   *)
(* are sound, every ORDER BY and every LIMIT, optimized or not: the rows   *)
(* returned are the ones meant, no group is decoded that the LIMIT does    *)
(* not need, and nothing fails but a WHERE clause that is no condition.    *)
(***************************************************************************)
EXTENDS SelectExec, RidOrderProofs, FiniteSetTheorems

---------------------------------------------------------------------------
(* Sorting *)

(* A strict total order on the positions.                                  *)
Total(R, n) ==
    /\ \A i, j \in 1 .. n : i # j => (<<i, j>> \in R \/ <<j, i>> \in R)
    /\ \A i \in 1 .. n : <<i, i>> \notin R
    /\ \A i, j, k \in 1 .. n : (<<i, j>> \in R /\ <<j, k>> \in R) => <<i, k>> \in R

(* A permutation of the positions that lists them in the order.            *)
ListsBy(p, R, n) ==
    /\ p \in [1 .. n -> 1 .. n]
    /\ \A i \in 1 .. n : \E k \in 1 .. n : p[k] = i
    /\ \A k, l \in 1 .. n : k < l => <<p[k], p[l]>> \in R

(* The rows in the order of the positions p lists.                         *)
Permuted(rows, p, n) == [k \in 1 .. n |-> rows[p[k]]]

(* Rows arranged by a total order are a permutation in that order.         *)
LEMMA ArrangedIs ==
    ASSUME NEW n \in Nat, NEW rows, DOMAIN rows = 1 .. n, NEW R, Total(R, n)
    PROVE  \E p : ListsBy(p, R, n) /\ Arranged(rows, R) = Permuted(rows, p, n)
<1> DEFINE Below(i) == {j \in 1 .. n : <<j, i>> \in R}
           Place(i) == Cardinality(Below(i)) + 1
           g == [i \in 1 .. n |-> Place(i)]
           p == [k \in 1 .. n |-> CHOOSE i \in 1 .. n : Place(i) = k]
<1>0. /\ \A i, j \in 1 .. n : i # j => (<<i, j>> \in R \/ <<j, i>> \in R)
      /\ \A i \in 1 .. n : <<i, i>> \notin R
      /\ \A i, j, k \in 1 .. n : (<<i, j>> \in R /\ <<j, k>> \in R) => <<i, k>> \in R
  BY DEF Total
<1>1. IsFiniteSet(1 .. n) /\ Cardinality(1 .. n) = n
  BY FS_Interval
<1>2. ASSUME NEW i \in 1 .. n
      PROVE  IsFiniteSet(Below(i)) /\ Cardinality(Below(i)) \in Nat /\ Cardinality(Below(i)) <= n - 1
  <2>1. IsFiniteSet((1 .. n) \ {i}) /\ Cardinality((1 .. n) \ {i}) = n - 1
    BY <1>1, FS_RemoveElement
  <2>2. Below(i) \in SUBSET ((1 .. n) \ {i})
    BY <1>0
  <2> HIDE DEF Below
  <2>3. IsFiniteSet(Below(i)) /\ Cardinality(Below(i)) <= Cardinality((1 .. n) \ {i})
    BY <2>1, <2>2, FS_Subset
  <2> QED  BY <2>1, <2>3, FS_CardinalityType
<1>3. ASSUME NEW i \in 1 .. n, NEW j \in 1 .. n, <<i, j>> \in R
      PROVE  Place(i) < Place(j)
  <2>1. Below(i) \cup {i} \in SUBSET Below(j) /\ i \notin Below(i)
    BY <1>0, <1>3
  <2> HIDE DEF Below
  <2>2. Cardinality(Below(i) \cup {i}) = Cardinality(Below(i)) + 1
    BY <2>1, <1>2, FS_AddElement
  <2>3. Cardinality(Below(i) \cup {i}) <= Cardinality(Below(j))
    BY <2>1, <1>2, FS_Subset
  <2> QED  BY <2>2, <2>3, <1>2
<1> HIDE DEF Below
<1>4. \A i \in 1 .. n : Place(i) \in 1 .. n
  BY <1>2
<1> HIDE DEF Place
<1>4a. ASSUME NEW i \in 1 .. n, NEW j \in 1 .. n, Place(i) = Place(j) PROVE i = j
  <2>1. Place(i) \in 1 .. n /\ Place(j) \in 1 .. n
    BY <1>4
  <2>2. ~ (Place(i) < Place(j)) /\ ~ (Place(j) < Place(i))
    BY <2>1, <1>4a
  <2> QED  BY <2>2, <1>0, <1>3
<1>5. g \in Injection(1 .. n, 1 .. n)
  <2>1. ASSUME NEW i \in 1 .. n, NEW j \in 1 .. n, g[i] = g[j] PROVE i = j
    <3>1. Place(i) = Place(j)
      BY <2>1
    <3> QED  BY <3>1, <1>4a
  <2>2. g \in [1 .. n -> 1 .. n]
    BY <1>4
  <2> HIDE DEF g
  <2> QED  BY <2>1, <2>2 DEF Injection, IsInjective
<1>6. g \in Surjection(1 .. n, 1 .. n)
  <2> HIDE DEF g
  <2> QED  BY <1>1, <1>5, FS_Injection
<1>7. \A k \in 1 .. n : \E i \in 1 .. n : Place(i) = k
  <2>1. \A k \in 1 .. n : \E i \in 1 .. n : g[i] = k
    <3> HIDE DEF g
    <3> QED  BY <1>6 DEF Surjection
  <2> QED  BY <2>1
<1>8. \A k \in 1 .. n : p[k] \in 1 .. n /\ Place(p[k]) = k
  BY <1>7
<1>9. \A i \in 1 .. n : \E k \in 1 .. n : p[k] = i
  <2> SUFFICES ASSUME NEW i \in 1 .. n PROVE p[Place(i)] = i /\ Place(i) \in 1 .. n
    OBVIOUS
  <2>1. Place(i) \in 1 .. n
    BY <1>4
  <2>2. p[Place(i)] \in 1 .. n /\ Place(p[Place(i)]) = Place(i)
    BY <2>1, <1>8
  <2> HIDE DEF p
  <2>3. p[Place(i)] = i
    BY <2>2, <1>4a
  <2> QED  BY <2>1, <2>3
<1>10. ASSUME NEW k \in 1 .. n, NEW l \in 1 .. n, k < l PROVE <<p[k], p[l]>> \in R
  <2>1. p[k] \in 1 .. n /\ Place(p[k]) = k /\ p[l] \in 1 .. n /\ Place(p[l]) = l
    BY <1>8
  <2> HIDE DEF p
  <2>2. p[k] # p[l]
    BY <2>1, <1>10
  <2>3. <<p[l], p[k]>> \notin R
    BY <2>1, <1>10, <1>3
  <2> QED  BY <1>0, <2>1, <2>2, <2>3
<1>11. Arranged(rows, R) = [k \in 1 .. n |-> rows[p[k]]]
  BY DEF Arranged, Place, Below
<1>12. p \in [1 .. n -> 1 .. n]
  BY <1>8
<1> HIDE DEF p
<1>13. ListsBy(p, R, n)
  BY <1>9, <1>10, <1>12 DEF ListsBy
<1> QED  BY <1>11, <1>13 DEF Permuted

(* The order on values is the order on their ranks.                        *)
LEMMA RankIs ==
    ASSUME stmt.order.descending \in BOOLEAN,
           NEW x, NEW y, x.vals[stmt.order.column] \in Values, y.vals[stmt.order.column] \in Values
    PROVE  /\ KeyRank(x) \in Int /\ KeyRank(y) \in Int
           /\ Before(stmt.order, x, y) <=> KeyRank(x) < KeyRank(y)
<1> DEFINE a == x.vals[stmt.order.column]
           b == y.vals[stmt.order.column]
           N(v) == IF v = Null THEN I64Min - 1 ELSE v
<1>1. /\ I64Min \in Int /\ I64Max \in Int /\ Null \notin Int
      /\ a = Null \/ (a \in Int /\ I64Min <= a)
      /\ b = Null \/ (b \in Int /\ I64Min <= b)
  BY I64Assumption DEF Values, I64
<1>2. KeyRank(x) = (IF stmt.order.descending THEN - N(a) ELSE N(a))
      /\ KeyRank(y) = (IF stmt.order.descending THEN - N(b) ELSE N(b))
  BY DEF KeyRank
<1>3. Before(stmt.order, x, y)
        <=> IF stmt.order.descending THEN ValueBefore(b, a) ELSE ValueBefore(a, b)
  BY DEF Before
<1> HIDE DEF a, b
<1>4. /\ N(a) \in Int /\ N(b) \in Int
      /\ ValueBefore(a, b) <=> N(a) < N(b)
      /\ ValueBefore(b, a) <=> N(b) < N(a)
  <2>1. /\ N(a) = IF a = Null THEN I64Min - 1 ELSE a
        /\ N(b) = IF b = Null THEN I64Min - 1 ELSE b
        /\ ValueBefore(a, b) <=> b # Null /\ (a # Null => a < b)
        /\ ValueBefore(b, a) <=> a # Null /\ (b # Null => b < a)
    BY DEF ValueBefore
  <2> HIDE DEF N
  <2>2. CASE a = Null /\ b = Null
    BY <1>1, <2>1, <2>2
  <2>3. CASE a = Null /\ b # Null
    BY <1>1, <2>1, <2>3
  <2>4. CASE a # Null /\ b = Null
    BY <1>1, <2>1, <2>4
  <2>5. CASE a # Null /\ b # Null
    BY <1>1, <2>1, <2>5
  <2> QED  BY <2>2, <2>3, <2>4, <2>5
<1> HIDE DEF N
<1> QED  BY <1>2, <1>3, <1>4

(* A permutation that puts rows in the order of their ranks, stably.       *)
Sorting(p, s, n) ==
    /\ p \in [1 .. n -> 1 .. n]
    /\ \A i \in 1 .. n : \E k \in 1 .. n : p[k] = i
    /\ \A k, l \in 1 .. n : k < l => \/ KeyRank(s[p[k]]) < KeyRank(s[p[l]])
                                     \/ KeyRank(s[p[k]]) = KeyRank(s[p[l]]) /\ p[k] < p[l]

(* sort_by: a permutation in the order of keys, of equal keys in the order *)
(* of positions.                                                           *)
LEMMA StableSortIs ==
    ASSUME stmt.order.descending \in BOOLEAN, NEW n \in Nat, NEW s, DOMAIN s = 1 .. n,
           \A i \in 1 .. n : s[i].vals[stmt.order.column] \in Values
    PROVE  \E p : Sorting(p, s, n) /\ StableSort(stmt.order, s) = Permuted(s, p, n)
<1> DEFINE R == {p \in (DOMAIN s) \X (DOMAIN s) :
                        \/ Before(stmt.order, s[p[1]], s[p[2]])
                        \/ p[1] < p[2] /\ ~ Before(stmt.order, s[p[2]], s[p[1]])}
           K(i) == KeyRank(s[i])
<1>1. \A i \in 1 .. n : K(i) \in Int
  BY RankIs
<1>2. ASSUME NEW i \in 1 .. n, NEW j \in 1 .. n
      PROVE  <<i, j>> \in R <=> K(i) < K(j) \/ (K(i) = K(j) /\ i < j)
  <2>1. /\ Before(stmt.order, s[i], s[j]) <=> K(i) < K(j)
        /\ Before(stmt.order, s[j], s[i]) <=> K(j) < K(i)
    BY RankIs
  <2>2. <<i, j>> \in R <=> \/ Before(stmt.order, s[i], s[j])
                           \/ i < j /\ ~ Before(stmt.order, s[j], s[i])
    OBVIOUS
  <2> HIDE DEF R, K
  <2> QED  BY <2>1, <2>2, <1>1
<1>3. StableSort(stmt.order, s) = Arranged(s, R)
  BY DEF StableSort
<1> HIDE DEF R, K
<1>4. \A i, j \in 1 .. n : i # j => (<<i, j>> \in R \/ <<j, i>> \in R)
  BY <1>1, <1>2
<1>5. \A i \in 1 .. n : <<i, i>> \notin R
  BY <1>1, <1>2
<1>6. \A i, j, k \in 1 .. n : (<<i, j>> \in R /\ <<j, k>> \in R) => <<i, k>> \in R
  BY <1>1, <1>2
<1>6a. Total(R, n)
  BY <1>4, <1>5, <1>6 DEF Total
<1>7a. PICK p : ListsBy(p, R, n) /\ Arranged(s, R) = Permuted(s, p, n)
  BY <1>6a, ArrangedIs
<1>7. /\ p \in [1 .. n -> 1 .. n]
      /\ \A i \in 1 .. n : \E k \in 1 .. n : p[k] = i
      /\ \A k, l \in 1 .. n : k < l => <<p[k], p[l]>> \in R
  BY <1>7a DEF ListsBy
<1>8. \A k, l \in 1 .. n : k < l => K(p[k]) < K(p[l]) \/ (K(p[k]) = K(p[l]) /\ p[k] < p[l])
  BY <1>2, <1>7
<1> QED  BY <1>3, <1>7, <1>7a, <1>8 DEF K, Sorting
---------------------------------------------------------------------------
(* Batches *)

(* No two rows of the sequence are one row of the table.                   *)
Apart(s) == \A i, j \in 1 .. Len(s) : i # j => s[i].rid # s[j].rid

(* Rows of the columns named, from row group g.                            *)
RowsFrom(s, names, g) ==
    /\ s \in Seq(RowOf(names))
    /\ Apart(s)
    /\ \A i \in 1 .. Len(s) : s[i].rid[1] = g

(* A function on 1 .. n is a sequence of its values.                       *)
LEMMA FunctionIsSeq ==
    ASSUME NEW n \in Nat, NEW T, NEW f, f = [i \in 1 .. n |-> f[i]], \A i \in 1 .. n : f[i] \in T
    PROVE  f \in Seq(T) /\ Len(f) = n /\ DOMAIN f = 1 .. n
OBVIOUS

(* The parts of a row.                                                     *)
LEMMA RowParts ==
    ASSUME NEW names, NEW s \in Seq(RowOf(names)), NEW i \in 1 .. Len(s)
    PROVE  s[i] \in RowOf(names) /\ s[i].rid \in Nat \X Nat /\ s[i].vals \in [names -> Values]
<1>1. s[i] \in RowOf(names)
  OBVIOUS
<1> QED  BY <1>1 DEF RowOf

(* Projecting keeps the rows' number and places.                           *)
LEMMA ProjectAllIs ==
    ASSUME NEW cols \in SUBSET Cols, NEW names \in SUBSET cols, NEW s \in Seq(RowOf(cols))
    PROVE  /\ ProjectAll(s, names) \in Seq(RowOf(names))
           /\ Len(ProjectAll(s, names)) = Len(s)
           /\ \A i \in 1 .. Len(s) : /\ ProjectAll(s, names)[i] = Project(s[i], names)
                                     /\ Project(s[i], names) \in RowOf(names)
                                     /\ Project(s[i], names).rid = s[i].rid
<1>1. DOMAIN s = 1 .. Len(s) /\ Len(s) \in Nat
  OBVIOUS
<1>2. ASSUME NEW i \in 1 .. Len(s)
      PROVE  Project(s[i], names) \in RowOf(names) /\ Project(s[i], names).rid = s[i].rid
  <2>1. s[i] \in RowOf(cols)
    BY <1>1
  <2> QED  BY <2>1 DEF RowOf, Project
<1>3. ProjectAll(s, names) = [i \in 1 .. Len(s) |-> Project(s[i], names)]
  BY <1>1 DEF ProjectAll
<1> QED  BY <1>1, <1>2, <1>3

(* Projecting twice is projecting once.                                    *)
LEMMA ProjectTwice ==
    ASSUME NEW cols \in SUBSET Cols, NEW names \in SUBSET cols, NEW row
    PROVE  Project(Project(row, cols), names) = Project(row, names)
BY DEF Project

(* A row of all columns projected to all of them is itself.                *)
LEMMA ProjectSame ==
    ASSUME NEW names, NEW row \in RowOf(names)
    PROVE  Project(row, names) = row
<1>1. row = [rid |-> row.rid, vals |-> row.vals] /\ row.vals = [c \in names |-> row.vals[c]]
  BY DEF RowOf
<1> QED  BY <1>1 DEF Project

(* load_group: live rows, each once, and the columns do not decide which.  *)
LEMMA LoadRowsAre ==
    ASSUME TableOK(table), NEW g \in 1 .. Len(table), NEW names \in SUBSET Cols
    PROVE  /\ RowsFrom(LoadRows(g, names), names, g)
           /\ LoadRows(g, names) = ProjectAll(LoadRows(g, Cols), names)
           /\ \A i \in 1 .. Len(LoadRows(g, names)) :
                 \E o \in LiveOffsets(g) : LoadRows(g, names)[i] = Item(g, o, names)
<1> DEFINE size == Len(table[g].rows)
           offsets == InRidOrder(LiveOffsets(g), size)
<1>1. /\ table[g].rows \in Seq([Cols -> Values]) /\ Len(table) \in Nat /\ size \in Nat
      /\ \A o \in LiveOffsets(g) : o \in Nat /\ table[g].rows[o + 1] \in [Cols -> Values]
  BY DEF TableOK, GroupOK, ReadableGroup, Values, LiveOffsets
<1>2. Lists(offsets, LiveOffsets(g), size)
  BY <1>1, CollectsInOrder
<1>3. \A cols : LoadRows(g, cols) = [i \in DOMAIN offsets |-> Item(g, offsets[i], cols)]
  BY DEF LoadRows
<1> HIDE DEF offsets
<1>4. /\ offsets \in Seq(Nat) /\ DOMAIN offsets = 1 .. Len(offsets) /\ Len(offsets) \in Nat
      /\ \A i \in 1 .. Len(offsets) : offsets[i] \in LiveOffsets(g)
      /\ \A i, j \in 1 .. Len(offsets) : i # j => offsets[i] # offsets[j]
  BY <1>2 DEF Lists, Ascends
<1>5. ASSUME NEW cols \in SUBSET Cols, NEW o \in LiveOffsets(g)
      PROVE  Item(g, o, cols) \in RowOf(cols) /\ Item(g, o, cols).rid = <<g, o>>
  BY <1>1 DEF Item, RowOf
<1>6. ASSUME NEW cols \in SUBSET Cols
      PROVE  /\ LoadRows(g, cols) \in Seq(RowOf(cols))
             /\ Len(LoadRows(g, cols)) = Len(offsets)
             /\ \A i \in 1 .. Len(offsets) : LoadRows(g, cols)[i] = Item(g, offsets[i], cols)
  <2>1. LoadRows(g, cols) = [i \in 1 .. Len(offsets) |-> Item(g, offsets[i], cols)]
    BY <1>3, <1>4
  <2>2. \A i \in 1 .. Len(offsets) : LoadRows(g, cols)[i] = Item(g, offsets[i], cols)
    BY <2>1
  <2>3. \A i \in 1 .. Len(offsets) : LoadRows(g, cols)[i] \in RowOf(cols)
    BY <2>2, <1>4, <1>5
  <2>4. LoadRows(g, cols) = [i \in 1 .. Len(offsets) |-> LoadRows(g, cols)[i]]
    BY <2>1
  <2> QED  BY <2>2, <2>3, <2>4, <1>4, FunctionIsSeq
<1>7. RowsFrom(LoadRows(g, names), names, g)
  <2>1. \A i \in 1 .. Len(offsets) : LoadRows(g, names)[i].rid = <<g, offsets[i]>>
    BY <1>4, <1>5, <1>6
  <2>2. Apart(LoadRows(g, names))
    BY <2>1, <1>4, <1>6 DEF Apart
  <2> QED  BY <1>6, <2>1, <2>2 DEF RowsFrom
<1>8. LoadRows(g, names) = ProjectAll(LoadRows(g, Cols), names)
  <2>1. \A o \in LiveOffsets(g) : Project(Item(g, o, Cols), names) = Item(g, o, names)
    BY DEF Project, Item
  <2>2. DOMAIN LoadRows(g, Cols) = DOMAIN offsets
    BY <1>3
  <2>3. ProjectAll(LoadRows(g, Cols), names) = [i \in DOMAIN offsets |-> Project(LoadRows(g, Cols)[i], names)]
    BY <2>2 DEF ProjectAll
  <2>4. \A i \in DOMAIN offsets : Project(LoadRows(g, Cols)[i], names) = Item(g, offsets[i], names)
    BY <2>1, <1>4, <1>6
  <2> QED  BY <2>3, <2>4, <1>3
<1> QED  BY <1>4, <1>6, <1>7, <1>8

(* filter_batch: a choice of the rows, each once.                          *)
LEMMA PassingIs ==
    ASSUME NEW pred, NEW names, NEW rows \in Seq(RowOf(names))
    PROVE  /\ Passing(pred, rows) \in Seq(RowOf(names))
           /\ \A i \in 1 .. Len(Passing(pred, rows)) : \E k \in 1 .. Len(rows) :
                 Passing(pred, rows)[i] = rows[k] /\ Keeps(pred, rows[k].vals)
           /\ Apart(rows) => Apart(Passing(pred, rows))
<1> DEFINE S == {i \in 0 .. Len(rows) - 1 : Keeps(pred, rows[i + 1].vals)}
           kept == InRidOrder(S, Len(rows))
<1>1. Len(rows) \in Nat /\ DOMAIN rows = 1 .. Len(rows)
  OBVIOUS
<1>2. Lists(kept, S, Len(rows))
  <2> HIDE DEF S
  <2> QED  BY <1>1, CollectsInOrder
<1>3. Passing(pred, rows) = [i \in DOMAIN kept |-> rows[kept[i] + 1]]
  BY DEF Passing
<1> HIDE DEF kept
<1>4. /\ kept \in Seq(Nat) /\ DOMAIN kept = 1 .. Len(kept) /\ Len(kept) \in Nat
      /\ \A i \in 1 .. Len(kept) : kept[i] \in S
      /\ \A i, j \in 1 .. Len(kept) : i # j => kept[i] # kept[j]
  <2> HIDE DEF S
  <2>1. /\ kept \in Seq(Nat)
        /\ \A i \in 1 .. Len(kept) : kept[i] \in S
        /\ \A i, j \in 1 .. Len(kept) : i < j => kept[i] < kept[j]
    BY <1>2 DEF Lists, Ascends
  <2>2. ASSUME NEW i \in 1 .. Len(kept), NEW j \in 1 .. Len(kept), i # j
        PROVE  kept[i] # kept[j]
    <3>1. kept[i] \in Nat /\ kept[j] \in Nat /\ (i < j \/ j < i)
      BY <2>1, <2>2
    <3> QED  BY <3>1, <2>1
  <2> QED  BY <2>1, <2>2
<1>5. \A i \in 1 .. Len(kept) : kept[i] + 1 \in 1 .. Len(rows) /\ Keeps(pred, rows[kept[i] + 1].vals)
  BY <1>4
<1> HIDE DEF S
<1>6. /\ Passing(pred, rows) \in Seq(RowOf(names))
      /\ Len(Passing(pred, rows)) = Len(kept)
      /\ \A i \in 1 .. Len(kept) : Passing(pred, rows)[i] = rows[kept[i] + 1]
  BY <1>3, <1>4, <1>5
<1>7. ASSUME Apart(rows) PROVE Apart(Passing(pred, rows))
  <2> SUFFICES ASSUME NEW i \in 1 .. Len(kept), NEW j \in 1 .. Len(kept), i # j
               PROVE  Passing(pred, rows)[i].rid # Passing(pred, rows)[j].rid
    BY <1>6 DEF Apart
  <2>1. /\ kept[i] + 1 \in 1 .. Len(rows) /\ kept[j] + 1 \in 1 .. Len(rows)
        /\ kept[i] + 1 # kept[j] + 1
    BY <1>4, <1>5
  <2> QED  BY <2>1, <1>6, <1>7 DEF Apart
<1> QED  BY <1>5, <1>6, <1>7

(* Filtering does not mind what else is projected away.                    *)
LEMMA PassingProjected ==
    ASSUME NEW pred, NEW rows \in Seq(RowOf(Cols)), NEW names \in SUBSET Cols,
           Reads(pred) \subseteq names,
           \A row \in [Cols -> Values] : SameOn(pred, row, names)
    PROVE  Passing(pred, ProjectAll(rows, names)) = ProjectAll(Passing(pred, rows), names)
<1> DEFINE cut == ProjectAll(rows, names)
           S == {i \in 0 .. Len(rows) - 1 : Keeps(pred, rows[i + 1].vals)}
           T == {i \in 0 .. Len(cut) - 1 : Keeps(pred, cut[i + 1].vals)}
           kept == InRidOrder(S, Len(rows))
<1>1. /\ Len(cut) = Len(rows) /\ Len(rows) \in Nat
      /\ \A i \in 1 .. Len(rows) : cut[i] = Project(rows[i], names)
  <2>1. Cols \in SUBSET Cols
    OBVIOUS
  <2>2. /\ cut \in Seq(RowOf(names)) /\ Len(cut) = Len(rows)
        /\ \A i \in 1 .. Len(rows) : /\ cut[i] = Project(rows[i], names)
                                       /\ Project(rows[i], names) \in RowOf(names)
                                       /\ Project(rows[i], names).rid = rows[i].rid
    BY <2>1, ProjectAllIs
  <2> QED  BY <2>2
<1>2. ASSUME NEW i \in 0 .. Len(rows) - 1
      PROVE  Keeps(pred, cut[i + 1].vals) <=> Keeps(pred, rows[i + 1].vals)
  <2>1. i + 1 \in 1 .. Len(rows)
    BY <1>1
  <2>2. rows[i + 1].vals \in [Cols -> Values]
    BY <2>1, RowParts
  <2>3. cut[i + 1].vals = [c \in names |-> rows[i + 1].vals[c]]
    <3>1. cut[i + 1] = Project(rows[i + 1], names)
      BY <2>1, <1>1
    <3> HIDE DEF cut
    <3> QED  BY <3>1 DEF Project
  <2> HIDE DEF cut
  <2> QED  BY <2>2, <2>3 DEF SameOn
<1> HIDE DEF cut
<1>3. S = T
  BY <1>1, <1>2
<1>4. Passing(pred, cut) = [i \in DOMAIN kept |-> cut[kept[i] + 1]]
  <2>1. Passing(pred, cut) = [i \in DOMAIN InRidOrder(T, Len(cut)) |-> cut[InRidOrder(T, Len(cut))[i] + 1]]
    BY DEF Passing
  <2> HIDE DEF S, T
  <2> QED  BY <2>1, <1>1, <1>3
<1>5. Passing(pred, rows) = [i \in DOMAIN kept |-> rows[kept[i] + 1]]
  BY DEF Passing
<1>6. \A i \in DOMAIN kept : kept[i] + 1 \in 1 .. Len(rows)
  <2>1. Lists(kept, S, Len(rows))
    <3> HIDE DEF S
    <3> QED  BY <1>1, CollectsInOrder
  <2> HIDE DEF kept
  <2>2. DOMAIN kept = 1 .. Len(kept) /\ \A i \in 1 .. Len(kept) : kept[i] \in S
    <3> HIDE DEF S
    <3> QED  BY <2>1 DEF Lists
  <2> QED  BY <1>1, <2>2
<1> HIDE DEF kept, S, T
<1>7. ProjectAll(Passing(pred, rows), names) = [i \in DOMAIN kept |-> Project(rows[kept[i] + 1], names)]
  BY <1>5 DEF ProjectAll
<1> QED  BY <1>1, <1>4, <1>6, <1>7 DEF cut
---------------------------------------------------------------------------
(* The rows that match *)

(* Concatenation: the lengths add up, and each part keeps its elements.    *)
LEMMA JoinIs ==
    ASSUME NEW T, NEW s \in Seq(T), NEW t \in Seq(T)
    PROVE  /\ s \o t \in Seq(T) /\ Len(s \o t) = Len(s) + Len(t)
           /\ \A i \in 1 .. Len(s) : (s \o t)[i] = s[i]
           /\ \A i \in 1 .. Len(t) : (s \o t)[Len(s) + i] = t[i]
           /\ \A k \in 1 .. Len(s) + Len(t) :
                 k \in 1 .. Len(s) \/ \E i \in 1 .. Len(t) : k = Len(s) + i
<1>1. Len(s) \in Nat /\ Len(t) \in Nat
  OBVIOUS
<1>2. ASSUME NEW k \in 1 .. Len(s) + Len(t), k \notin 1 .. Len(s)
      PROVE  \E i \in 1 .. Len(t) : k = Len(s) + i
  <2>1. k - Len(s) \in 1 .. Len(t) /\ k = Len(s) + (k - Len(s))
    BY <1>1, <1>2
  <2> QED  BY <2>1
<1>3. s \o t \in Seq(T) /\ Len(s \o t) = Len(s) + Len(t)
  OBVIOUS
<1>4. \A i \in 1 .. Len(s) : (s \o t)[i] = s[i]
  OBVIOUS
<1>5. \A i \in 1 .. Len(t) : (s \o t)[Len(s) + i] = t[i]
  BY <1>1
<1> QED  BY <1>2, <1>3, <1>4, <1>5

(* Two sequences of the same elements are the same.                        *)
LEMMA SameSeq ==
    ASSUME NEW T, NEW s \in Seq(T), NEW t \in Seq(T), Len(s) = Len(t),
           \A i \in 1 .. Len(s) : s[i] = t[i]
    PROVE  s = t
OBVIOUS

(* One step of Matching.                                                   *)
Growing(F, f, n) == IF n = 0 THEN <<>> ELSE f[n - 1] \o F[n]

(* The recursion has a solution.                                           *)
LEMMA GrowingExists ==
    ASSUME NEW F
    PROVE  \A n \in Nat : \E f : f = [k \in 0 .. n |-> Growing(F, f, k)]
<1> DEFINE T == {n \in Nat : \E f : f = [k \in 0 .. n |-> Growing(F, f, k)]}
<1>1. 0 \in T
  <2> DEFINE g == [k \in 0 .. 0 |-> <<>>]
  <2>1. g = [k \in 0 .. 0 |-> Growing(F, g, k)]
    BY DEF Growing
  <2> QED  BY <2>1
<1>2. ASSUME NEW n \in Nat, n \in T PROVE n + 1 \in T
  <2>1. PICK f : f = [k \in 0 .. n |-> Growing(F, f, k)]
    BY <1>2
  <2> DEFINE g == [k \in 0 .. n + 1 |-> IF k = n + 1 THEN Growing(F, f, n + 1) ELSE f[k]]
  <2>2. ASSUME NEW k \in 0 .. n + 1 PROVE g[k] = Growing(F, g, k)
    <3>1. CASE k = 0
      BY <3>1, <2>1 DEF Growing
    <3>2. CASE k # 0 /\ k # n + 1
      <4>1. k \in 0 .. n /\ k - 1 \in 0 .. n + 1 /\ k - 1 # n + 1
        BY <3>2
      <4>2. f[k] = Growing(F, f, k)
        BY <4>1, <2>1
      <4>3. g[k] = f[k] /\ g[k - 1] = f[k - 1]
        BY <4>1, <3>2
      <4> HIDE DEF g
      <4> QED  BY <4>2, <4>3 DEF Growing
    <3>3. CASE k = n + 1
      <4>1. k - 1 = n /\ n \in 0 .. n + 1 /\ n # n + 1
        BY <3>3
      <4>2. g[k] = Growing(F, f, k) /\ g[k - 1] = f[k - 1]
        BY <4>1, <3>3
      <4> HIDE DEF g
      <4> QED  BY <4>2 DEF Growing
    <3> QED  BY <3>1, <3>2, <3>3
  <2>3. g = [k \in 0 .. n + 1 |-> Growing(F, g, k)]
    <3>1. g = [k \in 0 .. n + 1 |-> g[k]]
      OBVIOUS
    <3> HIDE DEF g
    <3> QED  BY <2>2, <3>1
  <2> HIDE DEF g
  <2> QED  BY <2>3
<1> HIDE DEF T
<1>3. Nat \subseteq T
  BY <1>1, <1>2, NatSetInduction
<1> QED  BY <1>3 DEF T

(* Matching adds the matching rows of one group at a time.                 *)
LEMMA MatchingIs ==
    TableOK(table) =>
        /\ Matching[0] = <<>>
        /\ \A n \in 1 .. Len(table) : Matching[n] = Matching[n - 1] \o Matches(n)
<1> SUFFICES ASSUME TableOK(table)
             PROVE  /\ Matching[0] = <<>>
                    /\ \A n \in 1 .. Len(table) : Matching[n] = Matching[n - 1] \o Matches(n)
  OBVIOUS
<1> DEFINE N == Len(table)
           F == [n \in 1 .. N |-> Matches(n)]
           Step(f, n) == IF n = 0 THEN <<>> ELSE f[n - 1] \o Matches(n)
           m == CHOOSE f : f = [n \in 0 .. N |-> Step(f, n)]
<1>1. N \in Nat
  BY DEF TableOK
<1>2. \E f : f = [n \in 0 .. N |-> Step(f, n)]
  <2>1. PICK f : f = [n \in 0 .. N |-> Growing(F, f, n)]
    <3> HIDE DEF N, F
    <3> QED  BY <1>1, GrowingExists
  <2>2. \A n \in 0 .. N : Growing(F, f, n) = Step(f, n)
    BY <1>1 DEF Growing
  <2> HIDE DEF F, Step, N
  <2>3. f = [n \in 0 .. N |-> Step(f, n)]
    BY <2>1, <2>2
  <2> QED  BY <2>3
<1>3. m = [n \in 0 .. N |-> Step(m, n)]
  <2> HIDE DEF Step, N
  <2> QED  BY <1>2
<1>4. Matching = m
  BY DEF Matching
<1> HIDE DEF m
<1>5. Matching[0] = <<>>
  BY <1>1, <1>3, <1>4
<1>6. ASSUME NEW n \in 1 .. N PROVE Matching[n] = Matching[n - 1] \o Matches(n)
  <2>1. n \in 0 .. N /\ n # 0
    BY <1>1
  <2> QED  BY <2>1, <1>3, <1>4
<1> QED  BY <1>5, <1>6

(* The matching rows of a group.                                           *)
LEMMA MatchesAre ==
    ASSUME TableOK(table), NEW g \in 1 .. Len(table)
    PROVE  RowsFrom(Matches(g), Cols, g)
<1> DEFINE live == LoadRows(g, Cols)
<1>1. RowsFrom(live, Cols, g)
  <2>1. Cols \in SUBSET Cols
    OBVIOUS
  <2> QED  BY <2>1, LoadRowsAre
<1>2. Matches(g) = IF stmt.filter = None THEN live ELSE Passing(stmt.filter, live)
  BY DEF Matches
<1> HIDE DEF live
<1>3. RowsFrom(Passing(stmt.filter, live), Cols, g)
  <2>1. live \in Seq(RowOf(Cols)) /\ Apart(live) /\ \A i \in 1 .. Len(live) : live[i].rid[1] = g
    BY <1>1 DEF RowsFrom
  <2>2. /\ Passing(stmt.filter, live) \in Seq(RowOf(Cols)) /\ Apart(Passing(stmt.filter, live))
        /\ \A i \in 1 .. Len(Passing(stmt.filter, live)) : \E k \in 1 .. Len(live) :
              Passing(stmt.filter, live)[i] = live[k]
    BY <2>1, PassingIs
  <2> HIDE DEF live
  <2> QED  BY <2>1, <2>2 DEF RowsFrom
<1> QED  BY <1>1, <1>2, <1>3

(* The matching rows of the first n groups: rows of those groups, each     *)
(* once, and more groups only add to them.                                 *)
RowsUpTo(s, n) ==
    /\ s \in Seq(RowOf(Cols)) /\ Apart(s)
    /\ \A i \in 1 .. Len(s) : s[i].rid[1] <= n

StartOf(s, t) == Len(s) <= Len(t) /\ \A i \in 1 .. Len(s) : t[i] = s[i]

(* Another group's rows are none of those before it.                       *)
LEMMA RowsUpToNext ==
    ASSUME NEW n \in Nat, NEW s, NEW t, RowsUpTo(s, n), RowsFrom(t, Cols, n + 1)
    PROVE  RowsUpTo(s \o t, n + 1) /\ StartOf(s, s \o t)
<1>1. s \in Seq(RowOf(Cols)) /\ t \in Seq(RowOf(Cols)) /\ Len(s) \in Nat /\ Len(t) \in Nat
  BY DEF RowsUpTo, RowsFrom
<1> DEFINE j == s \o t
<1>2. /\ j \in Seq(RowOf(Cols)) /\ Len(j) = Len(s) + Len(t)
      /\ \A i \in 1 .. Len(s) : j[i] = s[i]
      /\ \A i \in 1 .. Len(t) : j[Len(s) + i] = t[i]
      /\ \A k \in 1 .. Len(s) + Len(t) :
            k \in 1 .. Len(s) \/ \E i \in 1 .. Len(t) : k = Len(s) + i
  BY <1>1, JoinIs
<1> HIDE DEF j
<1>3. ASSUME NEW i \in 1 .. Len(s) PROVE s[i].rid[1] \in Nat /\ s[i].rid[1] <= n
  BY <1>1, RowParts DEF RowsUpTo
<1>4. \A i \in 1 .. Len(t) : t[i].rid[1] = n + 1
  BY DEF RowsFrom
<1>5. ASSUME NEW k \in 1 .. Len(j)
      PROVE  IF k \in 1 .. Len(s) THEN j[k].rid[1] \in Nat /\ j[k].rid[1] <= n
                                  ELSE j[k].rid[1] = n + 1
  <2>1. CASE k \in 1 .. Len(s)
    <3>1. j[k] = s[k]
      BY <2>1, <1>2
    <3> QED  BY <2>1, <3>1, <1>3
  <2>2. CASE k \notin 1 .. Len(s)
    <3>1. PICK a \in 1 .. Len(t) : k = Len(s) + a
      BY <2>2, <1>2
    <3>2. j[k] = t[a]
      BY <3>1, <1>2
    <3> QED  BY <2>2, <3>2, <1>4
  <2> QED  BY <2>1, <2>2
<1>5a. \A k \in 1 .. Len(j) : j[k].rid[1] <= n + 1
  BY <1>5
<1>6. ASSUME NEW k \in 1 .. Len(j), NEW l \in 1 .. Len(j), k # l PROVE j[k].rid # j[l].rid
  <2>1. CASE k \in 1 .. Len(s) /\ l \in 1 .. Len(s)
    BY <2>1, <1>2, <1>6 DEF RowsUpTo, Apart
  <2>2. CASE k \in 1 .. Len(s) /\ l \notin 1 .. Len(s)
    BY <2>2, <1>5
  <2>3. CASE k \notin 1 .. Len(s) /\ l \in 1 .. Len(s)
    BY <2>3, <1>5
  <2>4. CASE k \notin 1 .. Len(s) /\ l \notin 1 .. Len(s)
    <3>1. PICK a \in 1 .. Len(t) : k = Len(s) + a
      BY <2>4, <1>2
    <3>2. PICK b \in 1 .. Len(t) : l = Len(s) + b
      BY <2>4, <1>2
    <3>3. a # b /\ j[k] = t[a] /\ j[l] = t[b]
      BY <3>1, <3>2, <1>2, <1>6
    <3> QED  BY <3>3 DEF RowsFrom, Apart
  <2> QED  BY <2>1, <2>2, <2>3, <2>4
<1>7. RowsUpTo(j, n + 1)
  BY <1>2, <1>5a, <1>6 DEF RowsUpTo, Apart
<1>8. StartOf(s, j)
  BY <1>1, <1>2 DEF StartOf
<1> QED  BY <1>7, <1>8 DEF j

(* All that is needed of Matching.                                         *)
MatchingOK ==
    /\ Matching[0] = <<>>
    /\ \A n \in 1 .. Len(table) : Matching[n] = Matching[n - 1] \o Matches(n)
    /\ \A n \in 0 .. Len(table) : RowsUpTo(Matching[n], n)
    /\ \A m, n \in 0 .. Len(table) : m <= n => StartOf(Matching[m], Matching[n])

(* And it holds.                                                           *)
LEMMA MatchingFacts ==
    ASSUME TableOK(table)
    PROVE  MatchingOK
<1>1. /\ Matching[0] = <<>>
      /\ \A n \in 1 .. Len(table) : Matching[n] = Matching[n - 1] \o Matches(n)
  BY MatchingIs
<1>2. Len(table) \in Nat
  BY DEF TableOK
<1> DEFINE T == {n \in Nat : n <= Len(table) =>
                    \A m \in 0 .. n : /\ RowsUpTo(Matching[m], m)
                                       /\ StartOf(Matching[m], Matching[n])}
<1>3. 0 \in T
  <2>1. RowsUpTo(Matching[0], 0) /\ StartOf(Matching[0], Matching[0])
    BY <1>1 DEF RowsUpTo, StartOf, Apart
  <2> QED  BY <2>1
<1>4. ASSUME NEW n \in Nat, n \in T PROVE n + 1 \in T
  <2> SUFFICES ASSUME n + 1 <= Len(table)
               PROVE  \A m \in 0 .. n + 1 : /\ RowsUpTo(Matching[m], m)
                                             /\ StartOf(Matching[m], Matching[n + 1])
    OBVIOUS
  <2>1. /\ n + 1 \in 1 .. Len(table) /\ (n + 1) - 1 = n
        /\ RowsUpTo(Matching[n], n)
        /\ \A m \in 0 .. n : RowsUpTo(Matching[m], m) /\ StartOf(Matching[m], Matching[n])
    BY <1>2, <1>4
  <2>2. Matching[n + 1] = Matching[n] \o Matches(n + 1)
    BY <2>1, <1>1
  <2>3. RowsFrom(Matches(n + 1), Cols, n + 1)
    BY <2>1, MatchesAre
  <2>4. RowsUpTo(Matching[n + 1], n + 1) /\ StartOf(Matching[n], Matching[n + 1])
    BY <2>1, <2>2, <2>3, RowsUpToNext
  <2>5. ASSUME NEW m \in 0 .. n + 1
        PROVE  RowsUpTo(Matching[m], m) /\ StartOf(Matching[m], Matching[n + 1])
    <3>1. CASE m = n + 1
      <4>1. Len(Matching[n + 1]) \in Nat
        BY <2>4 DEF RowsUpTo
      <4> QED  BY <3>1, <4>1, <2>4 DEF StartOf
    <3>2. CASE m # n + 1
      <4>1. RowsUpTo(Matching[m], m) /\ StartOf(Matching[m], Matching[n])
        BY <3>2, <2>1
      <4>2. Len(Matching[m]) \in Nat /\ Len(Matching[n]) \in Nat /\ Len(Matching[n + 1]) \in Nat
        BY <2>1, <2>4, <4>1 DEF RowsUpTo
      <4>3. \A i \in 1 .. Len(Matching[m]) : i \in 1 .. Len(Matching[n])
        BY <4>1, <4>2 DEF StartOf
      <4> QED  BY <4>1, <4>2, <4>3, <2>4 DEF StartOf
    <3> QED  BY <3>1, <3>2
  <2> QED  BY <2>5
<1>5. Nat \subseteq T
  <2> HIDE DEF T
  <2> QED  BY <1>3, <1>4, NatSetInduction
<1>6. ASSUME NEW n \in 0 .. Len(table)
      PROVE  /\ RowsUpTo(Matching[n], n)
             /\ \A m \in 0 .. n : StartOf(Matching[m], Matching[n])
  BY <1>2, <1>5
<1> HIDE DEF T
<1>7. \A m, n \in 0 .. Len(table) : m <= n => StartOf(Matching[m], Matching[n])
  <2> SUFFICES ASSUME NEW m \in 0 .. Len(table), NEW n \in 0 .. Len(table), m <= n
               PROVE  StartOf(Matching[m], Matching[n])
    OBVIOUS
  <2>1. m \in 0 .. n
    BY <1>2
  <2> QED  BY <2>1, <1>6
<1> QED  BY <1>1, <1>6, <1>7 DEF MatchingOK
---------------------------------------------------------------------------
(* The plan, the scan and the filter *)

(* What a plan keeps of its statement, whichever of the two it is.         *)
PlanOK ==
    /\ stmt \in Statements
    /\ plan.filter = stmt.filter /\ plan.order = stmt.order
    /\ plan.limit = stmt.limit /\ plan.projection = stmt.cols
    /\ plan.prune = IF stmt.filter = None THEN {} ELSE HintsOf(stmt.filter)
    /\ plan.fused \in BOOLEAN
    /\ plan.fused => stmt.order # None /\ stmt.limit # None
    /\ Names \in SUBSET Cols
    /\ stmt.cols \subseteq Names
    /\ stmt.filter # None => Reads(stmt.filter) \subseteq Names
    /\ stmt.order # None => stmt.order.column \in Names /\ stmt.order.descending \in BOOLEAN
    /\ stmt.limit # None => stmt.limit \in Nat

(* The parameters of a plan; two plans that agree but at one of them.       *)
Fields == {"columns", "prune", "filter", "order", "limit", "fused", "projection"}
DiffersAt(f, p, q) == DOMAIN p = Fields /\ DOMAIN q = Fields /\ \A k \in Fields \ {f} : q[k] = p[k]

(* Changing one parameter of a plan leaves the others.                     *)
LEMMA ChangedAt ==
    ASSUME NEW p, DOMAIN p = Fields, NEW x
    PROVE  /\ DiffersAt("fused", p, [p EXCEPT !.fused = TRUE]) /\ [p EXCEPT !.fused = TRUE].fused = TRUE
           /\ DiffersAt("columns", p, [p EXCEPT !.columns = x]) /\ [p EXCEPT !.columns = x].columns = x
           /\ DiffersAt("prune", p, [p EXCEPT !.prune = x]) /\ [p EXCEPT !.prune = x].prune = x
BY SMT DEF Fields, DiffersAt

(* A plan built from the statement is such a plan.                         *)
LEMMA PlanFacts ==
    ASSUME PlanPart, pc \notin {"idle", "refused"}
    PROVE  PlanOK
<1>1. /\ stmt \in Statements /\ Known(stmt)
      /\ stmt.limit # None => stmt.limit \in Nat
      /\ stmt.order # None => stmt.order.descending \in BOOLEAN
  BY StatementAssumption DEF PlanPart
<1>2. PICK o \in BOOLEAN : plan = PlanOf(stmt, o)
  BY DEF PlanPart
<1> DEFINE fused == stmt.order # None /\ stmt.limit # None
           needed == stmt.cols \cup FilterColumns(stmt) \cup OrderColumns(stmt)
           b == BindSelect(stmt)
           t == TopKRewrite(b)
           q == IF o THEN PushDown(t) ELSE b
           Of(p) == /\ DOMAIN p = Fields
                    /\ p.filter = stmt.filter /\ p.order = stmt.order
                    /\ p.limit = stmt.limit /\ p.projection = stmt.cols
                    /\ p.fused = FALSE \/ (p.fused = TRUE /\ fused)
                    /\ p.columns = None \/ p.columns = needed
<1>3. Of(b) /\ b.prune = {}
  BY DEF BindSelect, Fields
<1>4. Of(t) /\ t.prune = {}
  <2>1. CASE fused
    <3>1. t = [b EXCEPT !.fused = TRUE]
      BY <1>3, <2>1 DEF TopKRewrite
    <3>2. DiffersAt("fused", b, t) /\ t.fused = TRUE
      BY <1>3, <3>1, ChangedAt
    <3> HIDE DEF b, t, needed
    <3> QED  BY <1>3, <2>1, <3>2 DEF DiffersAt, Fields
  <2>2. CASE ~ fused
    <3>1. t = b
      BY <1>3, <2>2 DEF TopKRewrite
    <3> HIDE DEF b, t, needed
    <3> QED  BY <1>3, <3>1
  <2> QED  BY <2>1, <2>2
<1> HIDE DEF b, t
<1>5. Of(PushDown(t)) /\ PushDown(t).prune = {}
  <2>1. NeededColumns(t) = needed
    BY <1>4 DEF NeededColumns, FilterColumns, OrderColumns
  <2> HIDE DEF needed
  <2>2. PushDown(t) = [t EXCEPT !.columns = needed]
    BY <2>1 DEF PushDown
  <2>3. DiffersAt("columns", t, PushDown(t)) /\ PushDown(t).columns = needed
    <3>1. DOMAIN t = Fields
      BY <1>4
    <3>2. DiffersAt("columns", t, [t EXCEPT !.columns = needed]) /\ [t EXCEPT !.columns = needed].columns = needed
      BY <3>1, ChangedAt
    <3> QED  BY <2>2, <3>2
  <2> QED  BY <1>4, <2>3 DEF DiffersAt, Fields
<1> HIDE DEF needed, fused
<1>6. Of(q) /\ q.prune = {}
  BY <1>3, <1>5
<1>7. plan = Lower(q)
  BY <1>2 DEF PlanOf, Optimize, b, t
<1> HIDE DEF q
<1>8. Of(plan) /\ plan.prune = IF stmt.filter = None THEN {} ELSE HintsOf(stmt.filter)
  <2>1. CASE stmt.filter = None
    BY <1>6, <1>7, <2>1 DEF Lower
  <2>2. CASE stmt.filter # None
    <3>1. plan = [q EXCEPT !.prune = HintsOf(stmt.filter)]
      BY <1>6, <1>7, <2>2 DEF Lower
    <3>2. DiffersAt("prune", q, plan) /\ plan.prune = HintsOf(stmt.filter)
      BY <1>6, <3>1, ChangedAt
    <3> QED  BY <1>6, <2>2, <3>2 DEF DiffersAt, Fields
  <2> QED  BY <2>1, <2>2
<1>9. /\ plan.fused \in BOOLEAN
      /\ plan.fused => stmt.order # None /\ stmt.limit # None
  BY <1>8 DEF fused
<1>10. needed \subseteq Cols
  BY <1>1 DEF Known, needed
<1>11. Names \in SUBSET Cols /\ needed \subseteq Names
  BY <1>8, <1>10 DEF Names
<1>12. /\ stmt.cols \subseteq needed
       /\ stmt.filter # None => Reads(stmt.filter) \subseteq needed
       /\ stmt.order # None => stmt.order.column \in needed
  BY DEF needed, FilterColumns, OrderColumns
<1> QED  BY <1>1, <1>8, <1>9, <1>11, <1>12 DEF PlanOK

(* A zone that encloses a value the comparison accepts does not prune.     *)
LEMMA ZoneKeeps ==
    ASSUME NEW op, NEW v \in I64, NEW x \in Int, NEW zone,
           zone[1] \in Int, zone[2] \in Int, zone[1] <= x, x <= zone[2], RowMatches(op, x, v)
    PROVE  ~ ZonePrunes(op, v, zone)
<1>1. v \in Int
  BY I64Assumption DEF I64
<1>2. HasRange(zone)
  BY DEF HasRange
<1>3. GroupCanMatch(op, v, zone)
  BY <1>1 DEF RowMatches, GroupCanMatch
<1> QED  BY <1>2, <1>3 DEF ZonePrunes

(* group_pruned: a group skipped had no row to give.                       *)
LEMMA PrunedEmpty ==
    ASSUME TableOK(table), WhereSound, PlanOK, NEW g \in 1 .. Len(table), GroupPruned(g)
    PROVE  Matches(g) = <<>>
<1> DEFINE live == LoadRows(g, Cols)
<1>1. PICK p \in plan.prune : p.column \in IntCols /\ ZonePrunes(p.op, p.value, table[g].zone[p.column])
  BY DEF GroupPruned
<1>2. /\ stmt.filter # None /\ p \in HintsOf(stmt.filter)
      /\ stmt \in Statements /\ Reads(stmt.filter) \subseteq Cols
  BY <1>1 DEF PlanOK
<1>3. Matches(g) = Passing(stmt.filter, live)
  BY <1>2 DEF Matches
<1>4. /\ live \in Seq(RowOf(Cols))
      /\ \A i \in 1 .. Len(live) : \E o \in LiveOffsets(g) : live[i] = Item(g, o, Cols)
  <2>1. Cols \in SUBSET Cols
    OBVIOUS
  <2> QED  BY <2>1, LoadRowsAre DEF RowsFrom
<1> HIDE DEF live
<1>5. /\ Matches(g) \in Seq(RowOf(Cols))
      /\ \A i \in 1 .. Len(Matches(g)) : \E k \in 1 .. Len(live) : Keeps(stmt.filter, live[k].vals)
  BY <1>3, <1>4, PassingIs
<1>6. ASSUME NEW k \in 1 .. Len(live), Keeps(stmt.filter, live[k].vals) PROVE FALSE
  <2>1. PICK o \in LiveOffsets(g) : live[k] = Item(g, o, Cols)
    BY <1>4
  <2> DEFINE row == table[g].rows[o + 1]
             c == p.column
             zone == table[g].zone[c]
             values == [i \in DOMAIN table[g].rows |-> table[g].rows[i][c]]
  <2>2. /\ table[g].rows \in Seq([Cols -> Values])
        /\ c \in Cols /\ Type[c] = "Int"
        /\ zone[1] \in I64 /\ zone[2] \in I64
        /\ ZoneEncloses(zone, values, table[g].deletes)
    BY <1>1 DEF TableOK, GroupOK, ReadableGroup, Values, IntCols
  <2>3. /\ o + 1 \in DOMAIN table[g].rows /\ (o + 1) - 1 = o /\ o \notin table[g].deletes
        /\ row \in [Cols -> Values] /\ row[c] \in Values
    BY <2>2 DEF LiveOffsets
  <2>4. live[k].vals = row
    <3>1. row = [d \in Cols |-> row[d]]
      BY <2>3
    <3>2. live[k].vals = [d \in Cols |-> row[d]]
      BY <2>1 DEF Item
    <3> QED  BY <3>1, <3>2
  <2>5. p.value \in I64 /\ RowMatches(p.op, row[c], p.value)
    <3>1. HintsAllow(stmt.filter, row)
      BY <1>2, <2>3 DEF WhereSound
    <3> QED  BY <3>1, <1>2, <1>6, <2>2, <2>4 DEF HintsAllow
  <2> HIDE DEF zone
  <2>6. row[c] \in I64 /\ row[c] # Null
    BY <2>3, <2>5 DEF RowMatches, Values
  <2>7. row[c] \in LiveInts(values, table[g].deletes)
    <3>1. o + 1 \in DOMAIN values /\ values[o + 1] = row[c]
      BY <2>3
    <3> HIDE DEF values, row
    <3> QED  BY <3>1, <2>3, <2>6 DEF LiveInts
  <2> HIDE DEF values, row, c
  <2>8. zone[1] <= row[c] /\ row[c] <= zone[2]
    BY <2>2, <2>7 DEF ZoneEncloses
  <2>9. zone[1] \in Int /\ zone[2] \in Int /\ row[c] \in Int
    BY <2>2, <2>6, I64Assumption DEF I64
  <2>10. ~ ZonePrunes(p.op, p.value, zone)
    BY <2>5, <2>8, <2>9, ZoneKeeps
  <2> QED  BY <2>10, <1>1 DEF zone, c
<1>7. Len(Matches(g)) = 0
  <2>1. Len(Matches(g)) \in Nat
    BY <1>5
  <2>2. 1 \notin 1 .. Len(Matches(g))
    BY <1>5, <1>6
  <2> QED  BY <2>1, <2>2
<1> QED  BY <1>5, <1>7

(* Filtering a projected batch leaves the matching rows, projected.        *)
LEMMA Filtered ==
    ASSUME TableOK(table), WhereSound, PlanOK, NEW g \in 1 .. Len(table)
    PROVE  (IF stmt.filter # None THEN Passing(stmt.filter, LoadRows(g, Names))
                                  ELSE LoadRows(g, Names))
             = ProjectAll(Matches(g), Names)
<1>1. Names \in SUBSET Cols /\ Cols \in SUBSET Cols
  BY DEF PlanOK
<1>2. LoadRows(g, Names) = ProjectAll(LoadRows(g, Cols), Names)
  BY <1>1, LoadRowsAre
<1>3. LoadRows(g, Cols) \in Seq(RowOf(Cols))
  BY <1>1, LoadRowsAre DEF RowsFrom
<1>4. CASE stmt.filter = None
  BY <1>2, <1>4 DEF Matches
<1>5. CASE stmt.filter # None
  <2>1. /\ Reads(stmt.filter) \subseteq Names
        /\ \A row \in [Cols -> Values] : SameOn(stmt.filter, row, Names)
    BY <1>1, <1>5 DEF PlanOK, WhereSound
  <2>2. Passing(stmt.filter, ProjectAll(LoadRows(g, Cols), Names))
          = ProjectAll(Passing(stmt.filter, LoadRows(g, Cols)), Names)
    BY <1>1, <1>3, <2>1, PassingProjected
  <2> QED  BY <1>2, <1>5, <2>2 DEF Matches
<1> QED  BY <1>4, <1>5

(* A group without live rows has none that match.                          *)
LEMMA LoadedEmpty ==
    ASSUME TableOK(table), PlanOK, NEW g \in 1 .. Len(table), LoadRows(g, Names) = <<>>
    PROVE  Matches(g) = <<>>
<1>1. Names \in SUBSET Cols /\ Cols \in SUBSET Cols
  BY DEF PlanOK
<1>2. LoadRows(g, Names) = ProjectAll(LoadRows(g, Cols), Names) /\ LoadRows(g, Cols) \in Seq(RowOf(Cols))
  BY <1>1, LoadRowsAre DEF RowsFrom
<1>3. Len(LoadRows(g, Cols)) = 0
  <2> DEFINE live == LoadRows(g, Cols)
  <2> HIDE DEF live
  <2>1. Len(ProjectAll(live, Names)) = Len(live)
    BY <1>1, <1>2, ProjectAllIs DEF live
  <2>2. ProjectAll(live, Names) = <<>>
    BY <1>2 DEF live
  <2> QED  BY <2>1, <2>2 DEF live
<1>4. LoadRows(g, Cols) = <<>>
  BY <1>2, <1>3
<1>5. Passing(stmt.filter, <<>>) = <<>>
  <2>1. <<>> \in Seq(RowOf(Cols)) /\ Len(<<>>) = 0
    OBVIOUS
  <2>2. /\ Passing(stmt.filter, <<>>) \in Seq(RowOf(Cols))
        /\ \A i \in 1 .. Len(Passing(stmt.filter, <<>>)) : \E k \in 1 .. Len(<<>>) : TRUE
    BY <2>1, PassingIs
  <2>3. Len(Passing(stmt.filter, <<>>)) = 0
    <3>1. 1 \notin 1 .. Len(Passing(stmt.filter, <<>>))
      BY <2>1, <2>2
    <3> QED  BY <2>2, <3>1
  <2> QED  BY <2>2, <2>3
<1> QED  BY <1>4, <1>5 DEF Matches
---------------------------------------------------------------------------
(* The steps *)

(* What depends on the table, the statement and its plan only.             *)
LEMMA SameMeaning ==
    ASSUME UNCHANGED <<table, stmt, plan>>
    PROVE  /\ Names' = Names /\ Blocking' = Blocking /\ Matching' = Matching
           /\ BadPredicate' = BadPredicate
           /\ \A g : Matches(g)' = Matches(g)
           /\ \A g, names : LoadRows(g, names)' = LoadRows(g, names)
           /\ \A n : Result(n)' = Result(n)
           /\ \A n : ResultSize(n)' = ResultSize(n)
           /\ \A rows, n : BestOf(rows, n)' = BestOf(rows, n)
           /\ \A rows : FirstInOrder(rows)' = FirstInOrder(rows)
<1>1. Names' = Names /\ Blocking' = Blocking /\ BadPredicate' = BadPredicate
  BY DEF Names, Blocking, BadPredicate
<1>2. \A g, names : LoadRows(g, names)' = LoadRows(g, names)
  BY DEF LoadRows, Item, LiveOffsets
<1>3. \A g : Matches(g)' = Matches(g)
  BY <1>2 DEF Matches
<1>4. Matching' = Matching
  BY <1>3 DEF Matching
<1>5. \A n : ResultSize(n)' = ResultSize(n)
  BY DEF ResultSize
<1>6. \A n : Result(n)' = Result(n)
  BY <1>4, <1>5 DEF Result
<1>7. \A r : KeyRank(r)' = KeyRank(r)
  BY DEF KeyRank
<1>8. \A rows, n : BestOf(rows, n)' = BestOf(rows, n)
  BY <1>1, <1>4, <1>5, <1>7 DEF BestOf, All
<1>9. \A rows : FirstInOrder(rows)' = FirstInOrder(rows)
  BY <1>1, <1>4, <1>5, <1>7 DEF FirstInOrder, PicksFirst, Precedes, All
<1> QED  BY <1>1, <1>2, <1>3, <1>4, <1>5, <1>6, <1>8, <1>9

(* What a step within a statement leaves as it was.                        *)
LEMMA Running ==
    ASSUME SelectInv, UNCHANGED <<table, stmt, plan>>,
           pc \notin {"idle", "refused"}, pc' \notin {"idle", "refused"}
    PROVE  /\ PlanPart'
           /\ decoded' = decoded => LimitIsLazy'
           /\ pc' # "done" => OrderedCorrect'
           /\ pc' # "failed" => FailsOnlyOnBadPredicate'
<1>1. PlanPart'
  BY DEF SelectInv, PlanPart
<1>2. ASSUME decoded' = decoded PROVE LimitIsLazy'
  BY <1>2, SameMeaning DEF SelectInv, LimitIsLazy
<1>3. ASSUME pc' # "done" PROVE OrderedCorrect'
  BY <1>3 DEF OrderedCorrect
<1>4. ASSUME pc' # "failed" PROVE FailsOnlyOnBadPredicate'
  BY <1>4 DEF FailsOnlyOnBadPredicate
<1> QED  BY <1>1, <1>2, <1>3, <1>4

(* The next group, and what Matching is up to there.                       *)
LEMMA NextGroup ==
    ASSUME TableOK(table), NEW g \in 1 .. Len(table)
    PROVE  /\ MatchingOK
           /\ Matching[g] = Matching[g - 1] \o Matches(g)
           /\ Matching[g - 1] \in Seq(RowOf(Cols)) /\ Matches(g) \in Seq(RowOf(Cols))
           /\ Matches(g) = <<>> => Matching[g] = Matching[g - 1]
<1>1. MatchingOK /\ Len(table) \in Nat
  BY MatchingFacts DEF TableOK
<1>2. g - 1 \in 0 .. Len(table)
  BY <1>1
<1>3. Matching[g] = Matching[g - 1] \o Matches(g) /\ Matching[g - 1] \in Seq(RowOf(Cols))
  BY <1>1, <1>2 DEF MatchingOK, RowsUpTo
<1>4. Matches(g) \in Seq(RowOf(Cols))
  BY MatchesAre DEF RowsFrom
<1>5. ASSUME Matches(g) = <<>> PROVE Matching[g] = Matching[g - 1]
  BY <1>3, <1>5
<1> QED  BY <1>1, <1>3, <1>4, <1>5

(* A pruned group changes nothing but the place.                           *)
LEMMA SkipGroupStep ==
    ASSUME SelectInv, WhereSound, SkipGroup
    PROVE  SelectInv'
<1>1. /\ pc = "pull" /\ pc' = "pull" /\ group \in 1 .. Len(table) /\ group' = group + 1
      /\ UNCHANGED <<table, stmt, plan, decoded, batch, acc, heap, remaining, out>>
      /\ Len(table) \in Nat /\ TableOK(table) /\ TypeOK /\ PlanPart
  BY DEF SkipGroup, Pulling, SelectInv, TypeOK, TableOK
<1>2. PlanOK
  BY <1>1, PlanFacts
<1>3. Matches(group) = <<>>
  BY <1>1, <1>2, PrunedEmpty DEF SkipGroup
<1>4. Matching[group] = Matching[group - 1]
  BY <1>1, <1>3, NextGroup
<1>5. Names' = Names /\ Blocking' = Blocking /\ Matching' = Matching
      /\ (\A n : Result(n)' = Result(n))
      /\ (\A rows, n : BestOf(rows, n)' = BestOf(rows, n))
  BY <1>1, SameMeaning
<1>6. PlanPart' /\ LimitIsLazy' /\ OrderedCorrect' /\ FailsOnlyOnBadPredicate'
  BY <1>1, Running
<1>7. TypeOK'
  BY <1>1, <1>5 DEF TypeOK
<1>8. Behind = group - 1 /\ Behind' = group /\ Seen = Len(Matching[group - 1]) /\ Seen' = Len(Matching[group])
  BY <1>1, <1>5 DEF Behind, Seen
<1>9. BatchPart'
  BY <1>1 DEF SelectInv, BatchPart, Active, Limits
<1>10. StreamPart'
  <2>1. Result(Behind)' = Result(group)
    BY <1>5, <1>8
  <2>2. Result(group) = Result(group - 1)
    BY <1>4 DEF Result
  <2> QED  BY <1>1, <1>5, <1>8, <2>1, <2>2 DEF SelectInv, StreamPart, Active
<1>11. SortPart'
  BY <1>1, <1>4, <1>5, <1>8 DEF SelectInv, SortPart, Active, Sorts
<1>12. TopKPart'
  BY <1>1 DEF SelectInv, TopKPart, Active
<1>13. HeapHoldsBest'
  BY <1>1, <1>4, <1>5, <1>8 DEF SelectInv, HeapHoldsBest
<1> QED  BY <1>6, <1>7, <1>9, <1>10, <1>11, <1>12, <1>13 DEF SelectInv
(* LimitExec still has a budget: all that matched so far is out, and it is *)
(* less than the limit.                                                    *)
LEMMA BudgetLeft ==
    ASSUME TypeOK, PlanOK, MatchingOK, Active, ~ Blocking, remaining # 0, stmt.limit # None,
           remaining = IF Limits(plan) THEN stmt.limit - Len(out) ELSE None,
           NEW n \in 0 .. Len(table), out = Result(n)
    PROVE  /\ Len(Matching[n]) < stmt.limit
           /\ remaining = stmt.limit - Len(Matching[n])
           /\ out = ProjectAll(Matching[n], stmt.cols)
<1>1. stmt.limit \in Nat /\ remaining = stmt.limit - Len(out)
  BY DEF PlanOK, Blocking, Limits
<1>2. Matching[n] \in Seq(RowOf(Cols)) /\ Len(Matching[n]) \in Nat /\ DOMAIN Matching[n] = 1 .. Len(Matching[n])
  BY DEF MatchingOK, RowsUpTo
<1> DEFINE size == ResultSize(Len(Matching[n]))
<1>3. size \in Nat /\ size = IF Len(Matching[n]) <= stmt.limit THEN Len(Matching[n]) ELSE stmt.limit
  BY <1>1, <1>2 DEF ResultSize
<1>4. out = [i \in 1 .. size |-> Project(Matching[n][i], stmt.cols)]
  BY DEF Result
<1> HIDE DEF size
<1>5. Len(out) = size
  BY <1>3, <1>4
<1>6. Len(Matching[n]) < stmt.limit
  BY <1>1, <1>2, <1>3, <1>5
<1>7. size = Len(Matching[n])
  BY <1>1, <1>2, <1>3, <1>6
<1> QED  BY <1>1, <1>2, <1>4, <1>5, <1>6, <1>7 DEF ProjectAll

(* A group is decoded only if the LIMIT asks for more.                     *)
LEMMA LoadGroupStep ==
    ASSUME SelectInv, WhereSound, LoadGroup
    PROVE  SelectInv'
<1>1. /\ pc = "pull" /\ group \in 1 .. Len(table) /\ group' = group + 1
      /\ Blocking \/ remaining # 0
      /\ batch' = LoadRows(group, Names) /\ decoded' = decoded \cup {group}
      /\ pc' = IF batch' = <<>> THEN "pull" ELSE "filter"
      /\ UNCHANGED <<table, stmt, plan, acc, heap, remaining, out>>
      /\ Len(table) \in Nat /\ TableOK(table) /\ TypeOK /\ PlanPart
  BY DEF LoadGroup, Pulling, SelectInv, TypeOK, TableOK
<1>2. PlanOK /\ MatchingOK
  BY <1>1, PlanFacts, MatchingFacts
<1>3. Names \in SUBSET Cols
  BY <1>2 DEF PlanOK
<1>4. batch' = <<>> => Matching[group] = Matching[group - 1]
  <2>1. batch' = <<>> => Matches(group) = <<>>
    BY <1>1, <1>2, LoadedEmpty
  <2> QED  BY <1>1, <2>1, NextGroup
<1>5. Names' = Names /\ Blocking' = Blocking /\ Matching' = Matching
      /\ (\A n : Result(n)' = Result(n))
      /\ (\A g, names : LoadRows(g, names)' = LoadRows(g, names))
      /\ (\A rows, n : BestOf(rows, n)' = BestOf(rows, n))
  BY <1>1, SameMeaning
<1>6. PlanPart' /\ OrderedCorrect' /\ FailsOnlyOnBadPredicate'
  BY <1>1, Running
<1>7. TypeOK'
  <2>1. batch' \in Seq(RowOf(Names))
    BY <1>1, <1>3, LoadRowsAre DEF RowsFrom
  <2> QED  BY <1>1, <1>5, <2>1 DEF TypeOK
<1>8. Behind = group - 1 /\ Seen = Len(Matching[group - 1])
  BY <1>1 DEF Behind, Seen
<1>9. /\ Behind' = IF batch' = <<>> THEN group ELSE group - 1
      /\ Seen' = Len(Matching[Behind'])
  BY <1>1, <1>5 DEF Behind, Seen
<1>10. Matching[Behind'] = Matching[Behind]
  BY <1>4, <1>8, <1>9
<1>11. BatchPart'
  <2>1. pc' \in {"pull", "filter"} /\ (group + 1) - 1 = group
    BY <1>1
  <2> QED  BY <1>1, <1>5, <2>1 DEF SelectInv, BatchPart, Active, Limits
<1>12. StreamPart'
  <2>1. Result(Behind)' = Result(Behind)
    <3>1. Result(Behind)' = Result(Behind')
      BY <1>5
    <3>2. Result(Behind') = Result(Behind)
      BY <1>10 DEF Result
    <3> QED  BY <3>1, <3>2
  <2> QED  BY <1>1, <1>5, <2>1 DEF SelectInv, StreamPart, Active
<1>13. SortPart'
  BY <1>1, <1>5, <1>10 DEF SelectInv, SortPart, Active, Sorts
<1>14. TopKPart'
  BY <1>1 DEF SelectInv, TopKPart, Active
<1>15. HeapHoldsBest'
  BY <1>1, <1>5, <1>8, <1>9, <1>10 DEF SelectInv, HeapHoldsBest
<1>16. LimitIsLazy'
  <2> SUFFICES ASSUME stmt.order = None, stmt.limit # None, NEW g \in decoded \cup {group}
               PROVE  Len(Matching[g - 1]) < stmt.limit
    BY <1>1, <1>5 DEF LimitIsLazy
  <2>1. CASE g \in decoded
    BY <1>1, <2>1 DEF SelectInv, LimitIsLazy
  <2>2. CASE g = group
    <3>1. ~ Blocking /\ Active
      BY <1>1, <1>2 DEF PlanOK, Blocking, Active
    <3>2. /\ remaining = IF Limits(plan) THEN stmt.limit - Len(out) ELSE None
          /\ out = Result(group - 1) /\ group - 1 \in 0 .. Len(table)
      BY <1>1, <1>8, <3>1 DEF SelectInv, BatchPart, StreamPart
    <3> QED  BY <1>1, <1>2, <2>2, <3>1, <3>2, BudgetLeft
  <2> QED  BY <2>1, <2>2
<1> QED  BY <1>6, <1>7, <1>11, <1>12, <1>13, <1>14, <1>15, <1>16 DEF SelectInv

(* The filter fails on a bad predicate only, and passes on what matches.   *)
LEMMA FilterStep ==
    ASSUME SelectInv, WhereSound, Filter
    PROVE  SelectInv'
<1>1. /\ pc = "filter" /\ TableOK(table) /\ TypeOK /\ PlanPart
      /\ group - 1 \in 1 .. Len(table) /\ batch = LoadRows(group - 1, Names)
      /\ UNCHANGED <<table, stmt, plan, group, decoded, acc, heap, remaining, out>>
      /\ Len(table) \in Nat
  BY DEF Filter, SelectInv, TypeOK, TableOK, BatchPart
<1>2. PlanOK /\ MatchingOK
  BY <1>1, PlanFacts, MatchingFacts
<1>3. Names \in SUBSET Cols
  BY <1>2 DEF PlanOK
<1> DEFINE bad == stmt.filter # None /\ ~ IsCondition(stmt.filter)
<1>4. /\ pc' = IF bad THEN "failed" ELSE "sink"
      /\ batch' = IF bad \/ stmt.filter = None THEN batch ELSE Passing(stmt.filter, batch)
  BY <1>2 DEF Filter, PlanOK
<1>5. ~ bad => batch' = ProjectAll(Matches(group - 1), Names)
  BY <1>1, <1>2, <1>4, Filtered
<1>6. Names' = Names /\ Blocking' = Blocking /\ Matching' = Matching /\ BadPredicate' = BadPredicate
      /\ (\A n : Result(n)' = Result(n))
      /\ (\A g : Matches(g)' = Matches(g))
      /\ (\A rows, n : BestOf(rows, n)' = BestOf(rows, n))
  BY <1>1, SameMeaning
<1>7. PlanPart' /\ OrderedCorrect' /\ LimitIsLazy'
  BY <1>1, <1>4, Running
<1>8. FailsOnlyOnBadPredicate'
  BY <1>4, <1>6 DEF FailsOnlyOnBadPredicate, BadPredicate
<1>9. /\ Matching[group - 1] = Matching[group - 2] \o Matches(group - 1)
      /\ Matching[group - 2] \in Seq(RowOf(Cols)) /\ Matches(group - 1) \in Seq(RowOf(Cols))
  <2>1. (group - 1) - 1 = group - 2
    BY <1>1 DEF TypeOK
  <2> QED  BY <1>1, <2>1, NextGroup
<1>10. /\ ProjectAll(Matches(group - 1), Names) \in Seq(RowOf(Names))
       /\ Len(ProjectAll(Matches(group - 1), Names)) = Len(Matches(group - 1))
       /\ \A i \in 1 .. Len(Matches(group - 1)) :
             ProjectAll(Matches(group - 1), Names)[i] = Project(Matches(group - 1)[i], Names)
  <2>1. Cols \in SUBSET Cols
    OBVIOUS
  <2> QED  BY <1>3, <1>9, <2>1, ProjectAllIs
<1>11. TypeOK'
  <2>1. batch' \in Seq(RowOf(Names))
    <3>1. CASE bad
      BY <1>1, <1>4, <3>1 DEF TypeOK
    <3>2. CASE ~ bad
      BY <1>5, <1>10, <3>2
    <3> QED  BY <3>1, <3>2
  <2>2. pc' \in {"failed", "sink"}
    BY <1>4
  <2> HIDE DEF bad
  <2> QED  BY <1>1, <1>6, <2>1, <2>2 DEF TypeOK
<1> HIDE DEF bad
<1>12. Behind = group - 2 /\ Seen = Len(Matching[group - 2])
  BY <1>1 DEF Behind, Seen
<1>13. ASSUME ~ bad
       PROVE  /\ pc' = "sink" /\ Behind' = group - 2
              /\ Seen' = Len(Matching[group - 1]) - Len(batch')
              /\ Seen' = Len(Matching[group - 2])
  <2>1. Len(Matching[group - 1]) = Len(Matching[group - 2]) + Len(Matches(group - 1))
    BY <1>9, JoinIs
  <2>2. Len(batch') = Len(Matches(group - 1)) /\ Len(Matches(group - 1)) \in Nat /\ Len(Matching[group - 2]) \in Nat
    BY <1>5, <1>9, <1>10, <1>13
  <2>3. pc' = "sink" /\ Behind' = group - 2 /\ Seen' = Len(Matching[group - 1]) - Len(batch')
    BY <1>1, <1>4, <1>6, <1>13 DEF Behind, Seen
  <2> QED  BY <2>1, <2>2, <2>3
<1>14. BatchPart'
  BY <1>1, <1>4, <1>5, <1>6 DEF SelectInv, BatchPart, Active, Limits
<1>15. StreamPart'
  <2>1. CASE bad
    BY <1>4, <2>1 DEF StreamPart, Active
  <2>2. CASE ~ bad
    BY <1>1, <1>6, <1>12, <1>13, <2>2 DEF SelectInv, StreamPart, Active
  <2> QED  BY <2>1, <2>2
<1>16. SortPart'
  <2>1. CASE bad
    BY <1>4, <2>1 DEF SortPart, Active
  <2>2. CASE ~ bad
    BY <1>1, <1>6, <1>12, <1>13, <2>2 DEF SelectInv, SortPart, Active, Sorts
  <2> QED  BY <2>1, <2>2
<1>17. TopKPart'
  <2>1. CASE bad
    BY <1>4, <2>1 DEF TopKPart, Active
  <2>2. CASE ~ bad
    <3>1. ASSUME NEW i \in 1 .. Len(Matches(group - 1))
          PROVE  batch'[i] = Project(Matching[group - 1][Seen' + i], Names)
      <4>1. Matching[group - 1][Len(Matching[group - 2]) + i] = Matches(group - 1)[i]
        <5> DEFINE s == Matching[group - 2]
                   t == Matches(group - 1)
        <5>1. s \in Seq(RowOf(Cols)) /\ t \in Seq(RowOf(Cols)) /\ Matching[group - 1] = s \o t
          BY <1>9
        <5> HIDE DEF s, t
        <5>2. \A k \in 1 .. Len(t) : (s \o t)[Len(s) + k] = t[k]
          BY <5>1, JoinIs
        <5> QED  BY <5>1, <5>2 DEF s, t
      <4> QED  BY <1>5, <1>10, <1>13, <2>2, <4>1
    <3>2. batch' \in Seq(RowOf(Names)) /\ Len(batch') = Len(Matches(group - 1))
          /\ DOMAIN batch' = 1 .. Len(Matches(group - 1)) /\ Len(Matches(group - 1)) \in Nat
      BY <1>5, <1>9, <1>10, <2>2
    <3> QED  BY <1>1, <1>6, <1>13, <2>2, <3>1, <3>2 DEF SelectInv, TopKPart, Active
  <2> QED  BY <2>1, <2>2
<1>18. HeapHoldsBest'
  <2>1. CASE bad
    BY <1>4, <2>1 DEF HeapHoldsBest
  <2>2. CASE ~ bad
    BY <1>1, <1>6, <1>12, <1>13, <2>2 DEF SelectInv, HeapHoldsBest
  <2> QED  BY <2>1, <2>2
<1> QED  BY <1>7, <1>8, <1>11, <1>14, <1>15, <1>16, <1>17, <1>18 DEF SelectInv
(* At the start nothing has matched, and nothing is what there is to show. *)
LEMMA AtTheStart ==
    (TableOK(table) /\ PlanPart /\ pc \notin {"idle", "refused"}) =>
        PlanOK /\ Matching[0] = <<>> /\ Result(0) = <<>> /\ BestOf({}, 0)
<1> SUFFICES ASSUME TableOK(table), PlanPart, pc \notin {"idle", "refused"}
             PROVE  PlanOK /\ Matching[0] = <<>> /\ Result(0) = <<>> /\ BestOf({}, 0)
  OBVIOUS
<1>1. PlanOK /\ Matching[0] = <<>>
  BY PlanFacts, MatchingIs
<1>2. Len(<<>>) = 0 /\ ResultSize(0) = 0
  BY <1>1 DEF ResultSize, PlanOK
<1>3. Result(0) = <<>>
  BY <1>1, <1>2 DEF Result
<1>4. BestOf({}, 0)
  BY <1>2, FS_EmptySet DEF BestOf, All
<1> QED  BY <1>1, <1>3, <1>4

(* A statement starts with nothing done, or is refused.                    *)
LEMMA SubmitStep ==
    ASSUME SelectInv, NEW s \in Statements, NEW optimize \in BOOLEAN, Submit(s, optimize)
    PROVE  SelectInv'
<1>1. /\ pc = "idle" /\ stmt' = s
      /\ UNCHANGED <<table, group, decoded, batch, acc, heap, out>>
      /\ group = 1 /\ batch = <<>> /\ acc = <<>> /\ heap = {} /\ out = <<>>
      /\ plan = NoPlan /\ remaining = None /\ decoded = {}
      /\ TableOK(table) /\ Len(table) \in Nat
  BY DEF Submit, SelectInv, PlanPart, TypeOK, TableOK
<1>2. \A names : <<>> \in Seq(RowOf(names))
  OBVIOUS
<1>3. IsFiniteSet({})
  BY FS_EmptySet
<1>4. CASE ~ Known(s)
  <2>1. pc' = "refused" /\ plan' = plan /\ remaining' = remaining
    BY <1>4 DEF Submit
  <2>2. TypeOK'
    BY <1>1, <1>2, <1>3, <2>1 DEF TypeOK
  <2>3. PlanPart'
    BY <1>1, <2>1 DEF PlanPart, NoPlan
  <2>4. BatchPart' /\ StreamPart' /\ SortPart' /\ TopKPart'
    BY <2>1 DEF BatchPart, StreamPart, SortPart, TopKPart, Active
  <2>5. HeapHoldsBest' /\ OrderedCorrect' /\ LimitIsLazy' /\ FailsOnlyOnBadPredicate'
    BY <2>1 DEF HeapHoldsBest, OrderedCorrect, LimitIsLazy, FailsOnlyOnBadPredicate
  <2> QED  BY <2>2, <2>3, <2>4, <2>5 DEF SelectInv
<1>5. CASE Known(s)
  <2>1. /\ pc' = "pull" /\ plan' = PlanOf(s, optimize)
        /\ remaining' = IF Limits(plan') THEN s.limit ELSE None
    BY <1>5 DEF Submit
  <2>2. PlanPart'
    BY <1>1, <1>5, <2>1 DEF PlanPart, Known, FilterColumns, OrderColumns
  <2>3. PlanOK' /\ Matching'[0] = <<>> /\ Result(0)' = <<>> /\ BestOf({}, 0)'
    <3>1. (TableOK(table) /\ PlanPart /\ pc \notin {"idle", "refused"})'
      BY <1>1, <2>1, <2>2
    <3>2. ((TableOK(table) /\ PlanPart /\ pc \notin {"idle", "refused"}) =>
             PlanOK /\ Matching[0] = <<>> /\ Result(0) = <<>> /\ BestOf({}, 0))'
      BY AtTheStart, PTL
    <3> QED  BY <3>1, <3>2
  <2>4. remaining' = None \/ remaining' \in Nat
    BY <1>1, <2>1, <2>3 DEF PlanOK, Limits
  <2>5. TypeOK'
    BY <1>1, <1>2, <1>3, <2>1, <2>4 DEF TypeOK
  <2>6. Behind' = 0 /\ Seen' = 0
    BY <1>1, <2>1, <2>3 DEF Behind, Seen
  <2>7. BatchPart'
    <3>1. Limits(plan') => s.limit \in Nat
      BY <1>1, <2>3 DEF PlanOK, Limits
    <3> QED  BY <1>1, <2>1, <3>1 DEF BatchPart, Limits
  <2>8. StreamPart'
    BY <1>1, <2>1, <2>3, <2>6 DEF StreamPart
  <2>9. SortPart'
    BY <1>1, <2>1, <2>3, <2>6 DEF SortPart, ProjectAll
  <2>10. TopKPart'
    BY <1>1, <2>1 DEF TopKPart
  <2>11. HeapHoldsBest'
    BY <1>1, <2>3, <2>6 DEF HeapHoldsBest
  <2>12. OrderedCorrect' /\ LimitIsLazy' /\ FailsOnlyOnBadPredicate'
    BY <1>1, <2>1 DEF OrderedCorrect, LimitIsLazy, FailsOnlyOnBadPredicate
  <2> QED  BY <2>2, <2>5, <2>7, <2>8, <2>9, <2>10, <2>11, <2>12 DEF SelectInv
<1> QED  BY <1>4, <1>5

(* Afterwards all is as at the beginning.                                  *)
LEMMA FinishStep ==
    ASSUME SelectInv, Finish
    PROVE  SelectInv'
<1>1. /\ pc' = "idle" /\ stmt' = NoStatement /\ plan' = NoPlan
      /\ group' = 1 /\ decoded' = {} /\ batch' = <<>>
      /\ acc' = <<>> /\ heap' = {} /\ remaining' = None /\ out' = <<>> /\ table' = table
      /\ TableOK(table) /\ Len(table) \in Nat
  BY DEF Finish, SelectInv, TypeOK, TableOK
<1>2. TypeOK'
  <2>1. \A names : <<>> \in Seq(RowOf(names))
    OBVIOUS
  <2>2. IsFiniteSet({})
    BY FS_EmptySet
  <2> QED  BY <1>1, <2>1, <2>2 DEF TypeOK
<1>3. PlanPart'
  BY <1>1 DEF PlanPart, NoPlan
<1>4. BatchPart' /\ StreamPart' /\ SortPart' /\ TopKPart'
  BY <1>1 DEF BatchPart, StreamPart, SortPart, TopKPart, Active
<1>5. HeapHoldsBest' /\ OrderedCorrect' /\ LimitIsLazy' /\ FailsOnlyOnBadPredicate'
  BY <1>1 DEF HeapHoldsBest, OrderedCorrect, LimitIsLazy, FailsOnlyOnBadPredicate
<1> QED  BY <1>2, <1>3, <1>4, <1>5 DEF SelectInv

(* Projecting a concatenation is concatenating the projections.            *)
LEMMA ProjectJoin ==
    ASSUME NEW names \in SUBSET Cols, NEW s \in Seq(RowOf(Cols)), NEW t \in Seq(RowOf(Cols))
    PROVE  ProjectAll(s \o t, names) = ProjectAll(s, names) \o ProjectAll(t, names)
<1> DEFINE a == ProjectAll(s, names)
           b == ProjectAll(t, names)
           j == s \o t
<1>1. Cols \in SUBSET Cols
  OBVIOUS
<1>2. /\ j \in Seq(RowOf(Cols)) /\ Len(j) = Len(s) + Len(t)
      /\ \A i \in 1 .. Len(s) : j[i] = s[i]
      /\ \A i \in 1 .. Len(t) : j[Len(s) + i] = t[i]
      /\ \A k \in 1 .. Len(s) + Len(t) :
            k \in 1 .. Len(s) \/ \E i \in 1 .. Len(t) : k = Len(s) + i
  BY JoinIs
<1>3. /\ a \in Seq(RowOf(names)) /\ Len(a) = Len(s)
      /\ \A i \in 1 .. Len(s) : a[i] = Project(s[i], names)
  BY <1>1, ProjectAllIs
<1>4. /\ b \in Seq(RowOf(names)) /\ Len(b) = Len(t)
      /\ \A i \in 1 .. Len(t) : b[i] = Project(t[i], names)
  BY <1>1, ProjectAllIs
<1> HIDE DEF a, b, j
<1>5. /\ ProjectAll(j, names) \in Seq(RowOf(names)) /\ Len(ProjectAll(j, names)) = Len(j)
      /\ \A i \in 1 .. Len(j) : ProjectAll(j, names)[i] = Project(j[i], names)
  BY <1>1, <1>2, ProjectAllIs
<1>6. /\ a \o b \in Seq(RowOf(names)) /\ Len(a \o b) = Len(a) + Len(b)
      /\ \A i \in 1 .. Len(a) : (a \o b)[i] = a[i]
      /\ \A i \in 1 .. Len(b) : (a \o b)[Len(a) + i] = b[i]
  <2>1. a \in Seq(RowOf(names)) /\ b \in Seq(RowOf(names))
    BY <1>3, <1>4
  <2>2. /\ a \o b \in Seq(RowOf(names)) /\ Len(a \o b) = Len(a) + Len(b)
        /\ \A i \in 1 .. Len(a) : (a \o b)[i] = a[i]
        /\ \A i \in 1 .. Len(b) : (a \o b)[Len(a) + i] = b[i]
        /\ \A k \in 1 .. Len(a) + Len(b) : k \in 1 .. Len(a) \/ \E i \in 1 .. Len(b) : k = Len(a) + i
    BY ONLY <2>1, JoinIs
  <2> QED  BY <2>2
<1>7. ASSUME NEW k \in 1 .. Len(j) PROVE ProjectAll(j, names)[k] = (a \o b)[k]
  <2>1. CASE k \in 1 .. Len(s)
    BY <2>1, <1>2, <1>3, <1>5, <1>6
  <2>2. CASE k \notin 1 .. Len(s)
    <3>1. PICK i \in 1 .. Len(t) : k = Len(s) + i
      BY <2>2, <1>2
    <3> QED  BY <3>1, <1>2, <1>3, <1>4, <1>5, <1>6
  <2> QED  BY <2>1, <2>2
<1>8. Len(ProjectAll(j, names)) = Len(a \o b)
  BY <1>2, <1>3, <1>4, <1>5, <1>6
<1>9. ProjectAll(j, names) = a \o b
  BY <1>5, <1>6, <1>7, <1>8, SameSeq
<1> QED  BY <1>9 DEF a, b, j

(* SortExec has collected what matches up to the group it is at.           *)
LEMMA CollectStep ==
    ASSUME SelectInv, WhereSound, Collect
    PROVE  SelectInv'
<1>1. /\ pc = "sink" /\ pc' = "pull" /\ Sorts(plan) /\ acc' = acc \o batch /\ batch' = <<>>
      /\ UNCHANGED <<table, stmt, plan, group, decoded, heap, remaining, out>>
      /\ TableOK(table) /\ TypeOK /\ PlanPart /\ Len(table) \in Nat
      /\ group \in 1 .. Len(table) + 1 /\ group > 1
  BY DEF Collect, SelectInv, TypeOK, TableOK, BatchPart
<1>2. PlanOK /\ MatchingOK
  BY <1>1, PlanFacts, MatchingFacts
<1>3. ~ plan.fused /\ Blocking /\ Names \in SUBSET Cols
  BY <1>1, <1>2 DEF PlanOK, Sorts, Blocking
<1>4. Names' = Names /\ Blocking' = Blocking /\ Matching' = Matching
  BY <1>1, SameMeaning
<1>5. PlanPart' /\ LimitIsLazy' /\ OrderedCorrect' /\ FailsOnlyOnBadPredicate'
  BY <1>1, Running
<1>6. /\ Matching[group - 1] = Matching[group - 2] \o Matches(group - 1)
      /\ Matching[group - 2] \in Seq(RowOf(Cols)) /\ Matches(group - 1) \in Seq(RowOf(Cols))
  <2>1. (group - 1) - 1 = group - 2 /\ group - 1 \in 1 .. Len(table)
    BY <1>1
  <2> QED  BY <1>1, <2>1, NextGroup
<1>7. acc = ProjectAll(Matching[group - 2], Names) /\ batch = ProjectAll(Matches(group - 1), Names)
  BY <1>1, <1>3 DEF SelectInv, BatchPart, SortPart, Active, Behind
<1>8. acc' = ProjectAll(Matching[group - 1], Names)
  BY <1>1, <1>3, <1>6, <1>7, ProjectJoin
<1>9. TypeOK'
  <2>1. acc \o batch \in Seq(RowOf(Names)) /\ <<>> \in Seq(RowOf(Names))
    BY <1>1 DEF TypeOK
  <2> QED  BY <1>1, <1>4, <2>1 DEF TypeOK
<1>10. BatchPart'
  BY <1>1 DEF SelectInv, BatchPart, Active, Limits
<1>11. StreamPart'
  BY <1>3, <1>4 DEF StreamPart
<1>12. SortPart'
  BY <1>1, <1>4, <1>8 DEF SelectInv, SortPart, Active, Behind
<1>13. TopKPart' /\ HeapHoldsBest'
  BY <1>1, <1>3 DEF TopKPart, HeapHoldsBest
<1> QED  BY <1>5, <1>9, <1>10, <1>11, <1>12, <1>13 DEF SelectInv

(* What TopKExec has before it: the rest of a batch.                       *)
LEMMA Offered ==
    ASSUME SelectInv, Offering
    PROVE  /\ TableOK(table) /\ TypeOK /\ PlanPart /\ PlanOK /\ MatchingOK
           /\ pc = "sink" /\ plan.fused /\ Blocking /\ group - 1 \in 1 .. Len(table)
           /\ Seen \in Nat /\ Seen + Len(batch) = Len(Matching[group - 1])
           /\ Seen + Len(batch) <= Len(Matching[Len(table)])
           /\ \A i \in 1 .. Len(batch) : batch[i] = Project(Matching[group - 1][Seen + i], Names)
           /\ \A i \in 1 .. Len(batch) : batch[i] = Project(Matching[Len(table)][Seen + i], Names)
           /\ BestOf(heap, Seen) /\ IsFiniteSet(heap) /\ batch \in Seq(RowOf(Names))
<1>1. /\ TableOK(table) /\ TypeOK /\ PlanPart /\ pc = "sink" /\ plan.fused
      /\ Len(table) \in Nat /\ group \in 1 .. Len(table) + 1 /\ group > 1
      /\ IsFiniteSet(heap) /\ batch \in Seq(RowOf(Names))
  BY DEF Offering, SelectInv, TypeOK, TableOK, BatchPart
<1>2. PlanOK /\ MatchingOK
  BY <1>1, PlanFacts, MatchingFacts
<1>3. group - 1 \in 1 .. Len(table) /\ (group - 1) - 1 = group - 2 /\ Blocking
  BY <1>1, <1>2 DEF PlanOK, Blocking
<1>4. /\ Matching[group - 1] = Matching[group - 2] \o Matches(group - 1)
      /\ Matching[group - 2] \in Seq(RowOf(Cols)) /\ Matches(group - 1) \in Seq(RowOf(Cols))
  BY <1>1, <1>3, NextGroup
<1>5. /\ Len(Matching[group - 1]) = Len(Matching[group - 2]) + Len(Matches(group - 1))
      /\ Len(Matching[group - 2]) \in Nat /\ Len(Matches(group - 1)) \in Nat
  BY <1>4, JoinIs
<1>6. /\ Len(batch) <= Len(Matches(group - 1)) /\ Len(batch) \in Nat
      /\ \A i \in 1 .. Len(batch) : batch[i] = Project(Matching[group - 1][Seen + i], Names)
      /\ Seen = Len(Matching[group - 1]) - Len(batch)
      /\ BestOf(heap, Seen)
  BY <1>1 DEF SelectInv, TopKPart, HeapHoldsBest, Active, Seen
<1>7. Seen \in Nat /\ Seen + Len(batch) = Len(Matching[group - 1])
  <2> DEFINE a == Len(Matching[group - 1])
             b == Len(Matching[group - 2])
             c == Len(Matches(group - 1))
             d == Len(batch)
  <2>1. a = b + c /\ b \in Nat /\ c \in Nat /\ d \in Nat /\ d <= c /\ Seen = a - d
    BY <1>5, <1>6
  <2> HIDE DEF a, b, c, d
  <2>2. Seen \in Nat /\ Seen + d = a
    BY <2>1
  <2> QED  BY <2>2 DEF a, d
<1>8. /\ Len(Matching[group - 1]) <= Len(Matching[Len(table)])
      /\ \A i \in 1 .. Len(Matching[group - 1]) : Matching[Len(table)][i] = Matching[group - 1][i]
  <2>1. group - 1 \in 0 .. Len(table) /\ Len(table) \in 0 .. Len(table) /\ group - 1 <= Len(table)
    BY <1>1, <1>3
  <2> QED  BY <1>2, <2>1 DEF MatchingOK, StartOf
<1>9. ASSUME NEW i \in 1 .. Len(batch)
      PROVE  batch[i] = Project(Matching[Len(table)][Seen + i], Names)
  <2>1. Seen + i \in 1 .. Len(Matching[group - 1])
    BY <1>6, <1>7
  <2> QED  BY <1>6, <1>8, <2>1
<1> QED  BY <1>1, <1>2, <1>3, <1>6, <1>7, <1>8, <1>9

(* Nothing is the best of which nothing may be kept.                       *)
LEMMA BestOfEmpty ==
    ASSUME NEW n, ResultSize(n) = 0
    PROVE  BestOf({}, n)
<1>1. {} = {Project(Matching[Len(table)][i], Names) : i \in {}}
  OBVIOUS
<1>2. Cardinality({}) = ResultSize(n)
  BY FS_EmptySet
<1>3. {} \in SUBSET (1 .. n)
  OBVIOUS
<1> QED  BY <1>1, <1>2, <1>3 DEF BestOf, All

(* With LIMIT 0 the best are none.                                         *)
LEMMA BestOfNone ==
    ASSUME stmt.limit = 0, None \notin Nat, IsFiniteSet(heap), NEW n \in Nat, BestOf(heap, n),
           NEW m \in Nat
    PROVE  BestOf(heap, m)
<1>1. ResultSize(n) = 0 /\ ResultSize(m) = 0
  BY DEF ResultSize
<1>2. heap = {}
  <2>1. Cardinality(heap) = 0
    BY <1>1 DEF BestOf, All
  <2> QED  BY <2>1, FS_EmptySet
<1> QED  BY <1>1, <1>2, BestOfEmpty

(* TopKExec asks for the next batch.                                       *)
LEMMA NextBatchStep ==
    ASSUME SelectInv, NextBatch
    PROVE  SelectInv'
<1>1. /\ Offering /\ (batch = <<>> \/ plan.limit = 0) /\ batch' = <<>> /\ pc' = "pull"
      /\ UNCHANGED <<table, stmt, plan, group, decoded, acc, heap, remaining, out>>
  BY DEF NextBatch
<1>2. /\ TypeOK /\ PlanOK /\ MatchingOK /\ pc = "sink" /\ plan.fused /\ Blocking
      /\ group - 1 \in 1 .. Len(table) /\ Seen \in Nat /\ Seen + Len(batch) = Len(Matching[group - 1])
      /\ BestOf(heap, Seen) /\ IsFiniteSet(heap)
  BY <1>1, Offered
<1>3. Names' = Names /\ Blocking' = Blocking /\ Matching' = Matching
      /\ (\A rows, n : BestOf(rows, n)' = BestOf(rows, n))
  BY <1>1, SameMeaning
<1>4. PlanPart' /\ LimitIsLazy' /\ OrderedCorrect' /\ FailsOnlyOnBadPredicate'
  BY <1>1, <1>2, Running
<1>5. TypeOK'
  <2>1. <<>> \in Seq(RowOf(Names))
    OBVIOUS
  <2> QED  BY <1>1, <1>2, <1>3, <2>1 DEF TypeOK
<1>6. BatchPart'
  BY <1>1, <1>2 DEF SelectInv, BatchPart, Active, Limits
<1>7. StreamPart' /\ SortPart'
  BY <1>1, <1>2, <1>3 DEF StreamPart, SortPart, Sorts
<1>8. TopKPart'
  BY <1>1, <1>2 DEF SelectInv, TopKPart, Active
<1>9. Seen' = Len(Matching[group - 1])
  BY <1>1, <1>3 DEF Seen, Behind
<1>10. BestOf(heap, Len(Matching[group - 1]))
  <2>1. CASE batch = <<>>
    <3>1. Len(batch) = 0
      BY <2>1
    <3> QED  BY <1>2, <3>1
  <2>2. CASE plan.limit = 0
    <3>1. stmt.limit = 0 /\ None \notin Nat
      BY <1>2, <2>2, StatementAssumption DEF PlanOK
    <3>2. Len(Matching[group - 1]) \in Nat
      BY <1>2 DEF TypeOK
    <3> QED  BY <1>2, <3>1, <3>2, BestOfNone
  <2> QED  BY <1>1, <2>1, <2>2
<1>11. HeapHoldsBest'
  BY <1>1, <1>3, <1>9, <1>10 DEF HeapHoldsBest
<1> QED  BY <1>4, <1>5, <1>6, <1>7, <1>8, <1>11 DEF SelectInv
---------------------------------------------------------------------------
(* The heap *)

(* Numbers with a bound above have a greatest among them.                  *)
LEMMA GreatestExists ==
    ASSUME NEW T \in SUBSET Int, T # {}, NEW b \in Int, \A t \in T : t <= b
    PROVE  \E m \in T : \A t \in T : t <= m
<1> SUFFICES ASSUME \A m \in T : \E t \in T : m < t PROVE FALSE
  OBVIOUS
<1> DEFINE Free == {n \in Nat : \A k \in 0 .. n : b - k \notin T}
<1>1. 0 \in Free
  <2>1. b \notin T
    OBVIOUS
  <2>2. b - 0 = b
    OBVIOUS
  <2> QED  BY <2>1, <2>2
<1>2. ASSUME NEW n \in Nat, n \in Free PROVE n + 1 \in Free
  <2>1. b - (n + 1) \notin T
    <3> SUFFICES ASSUME b - (n + 1) \in T PROVE FALSE
      OBVIOUS
    <3>1. PICK t \in T : b - (n + 1) < t
      OBVIOUS
    <3>2. b - t \in 0 .. n /\ b - (b - t) = t
      BY <3>1
    <3> QED  BY <3>2, <1>2
  <2>2. \A k \in 0 .. n + 1 : k \in 0 .. n \/ k = n + 1
    OBVIOUS
  <2> QED  BY <2>1, <2>2, <1>2
<1>3. Nat \subseteq Free
  <2> HIDE DEF Free
  <2> QED  BY <1>1, <1>2, NatSetInduction
<1>4. PICK t \in T : TRUE
  OBVIOUS
<1>5. b - t \in Nat /\ b - (b - t) = t
  BY <1>4
<1> QED  BY <1>3, <1>4, <1>5

(* BestOf for rows P with ranks K, all of them different.                  *)
Best(h, n, P, K, c) ==
    \E kept \in SUBSET (1 .. n) :
        /\ h = {P[i] : i \in kept}
        /\ Cardinality(h) = c
        /\ \A i \in kept, j \in (1 .. n) \ kept : K[i] <= K[j]

Different(P, n) == \A i, j \in 1 .. n : i # j => P[i] # P[j]

(* A row no better than any kept may be left out.                          *)
LEMMA BestWithout ==
    ASSUME NEW n \in Nat, NEW h, NEW P, NEW K, NEW c, Best(h, n, P, K, c),
           \A i \in 1 .. n : P[i] \in h => K[i] <= K[n + 1]
    PROVE  Best(h, n + 1, P, K, c)
<1>1. PICK kept \in SUBSET (1 .. n) :
          /\ h = {P[i] : i \in kept}
          /\ Cardinality(h) = c
          /\ \A i \in kept, j \in (1 .. n) \ kept : K[i] <= K[j]
  BY DEF Best
<1>2. kept \in SUBSET (1 .. n + 1)
  OBVIOUS
<1>3. ASSUME NEW i \in kept, NEW j \in (1 .. n + 1) \ kept PROVE K[i] <= K[j]
  <2>1. CASE j = n + 1
    BY <1>1, <2>1
  <2>2. CASE j # n + 1
    <3>1. j \in (1 .. n) \ kept
      BY <2>2
    <3> QED  BY <1>1, <3>1
  <2> QED  BY <2>1, <2>2
<1> QED  BY <1>1, <1>2, <1>3 DEF Best

(* As long as all rows fit, the best are all.                              *)
LEMMA BestOfAll ==
    ASSUME NEW n \in Nat, NEW h, NEW P, NEW K, Best(h, n, P, K, n), IsFiniteSet(h), Different(P, n + 1)
    PROVE  Best(h \cup {P[n + 1]}, n + 1, P, K, n + 1)
<1>1. PICK kept \in SUBSET (1 .. n) : h = {P[i] : i \in kept} /\ Cardinality(h) = n
  BY DEF Best
<1>2. IsFiniteSet(1 .. n) /\ Cardinality(1 .. n) = n
  BY FS_Interval
<1>3. \A i, j \in 1 .. n + 1 : i # j => P[i] # P[j]
  BY DEF Different
<1> DEFINE f == [i \in kept |-> P[i]]
<1>4. f \in Injection(kept, h)
  <2>1. f \in [kept -> h]
    BY <1>1
  <2>2. \A i, j \in kept : f[i] = f[j] => i = j
    BY <1>3
  <2>3. DOMAIN f = kept
    OBVIOUS
  <2> HIDE DEF f
  <2> QED  BY <2>1, <2>2, <2>3 DEF Injection, IsInjective
<1>5. f \in Surjection(kept, h)
  BY <1>1 DEF Surjection
<1>6. Cardinality(kept) = n
  <2> HIDE DEF f
  <2>1. IsFiniteSet(kept)
    BY <1>2, FS_Subset
  <2>2. f \in Bijection(kept, h)
    BY <1>4, <1>5 DEF Bijection
  <2>3. ExistsBijection(kept, h)
    BY <2>2 DEF ExistsBijection
  <2> QED  BY <1>1, <2>1, <2>3, FS_Bijection
<1>7. kept = 1 .. n
  BY <1>2, <1>6, FS_Subset
<1>8. P[n + 1] \notin h
  BY <1>1, <1>3
<1>9. Cardinality(h \cup {P[n + 1]}) = n + 1
  BY <1>1, <1>8, FS_AddElement
<1>10. h \cup {P[n + 1]} = {P[i] : i \in 1 .. n + 1}
  BY <1>1, <1>7
<1>11. 1 .. n + 1 \in SUBSET (1 .. n + 1)
  OBVIOUS
<1> QED  BY <1>9, <1>10, <1>11 DEF Best

(* A row better than the worst kept takes its place.                       *)
LEMMA BestInstead ==
    ASSUME NEW n \in Nat, NEW h, NEW P, NEW K, NEW c, Best(h, n, P, K, c), IsFiniteSet(h),
           Different(P, n + 1), \A i \in 1 .. n + 1 : K[i] \in Int,
           NEW w \in 1 .. n, P[w] \in h, K[n + 1] <= K[w],
           \A i \in 1 .. n : P[i] \in h => K[i] <= K[w]
    PROVE  Best((h \ {P[w]}) \cup {P[n + 1]}, n + 1, P, K, c)
<1>1. PICK kept \in SUBSET (1 .. n) :
          /\ h = {P[i] : i \in kept}
          /\ Cardinality(h) = c
          /\ \A i \in kept, j \in (1 .. n) \ kept : K[i] <= K[j]
  BY DEF Best
<1>2. \A i, j \in 1 .. n + 1 : i # j => P[i] # P[j]
  BY DEF Different
<1>3. w \in kept
  BY <1>1, <1>2
<1> DEFINE now == (kept \ {w}) \cup {n + 1}
           g == (h \ {P[w]}) \cup {P[n + 1]}
<1>4. now \in SUBSET (1 .. n + 1)
  OBVIOUS
<1>5. g = {P[i] : i \in now}
  BY <1>1, <1>2, <1>3
<1>6. Cardinality(g) = c
  <2> DEFINE rest == h \ {P[w]}
  <2>1. IsFiniteSet(rest) /\ Cardinality(rest) = c - 1
    BY <1>1, FS_RemoveElement
  <2>2. P[n + 1] \notin rest
    BY <1>1, <1>2
  <2>3. c \in Int
    BY <1>1, FS_CardinalityType
  <2> HIDE DEF rest
  <2>4. Cardinality(rest \cup {P[n + 1]}) = (c - 1) + 1
    BY <2>1, <2>2, FS_AddElement
  <2> QED  BY <2>3, <2>4 DEF rest
<1>7. ASSUME NEW i \in now, NEW j \in (1 .. n + 1) \ now PROVE K[i] <= K[j]
  <2>1. j = w \/ j \in (1 .. n) \ kept
    BY <1>7
  <2>2. K[w] <= K[j] /\ K[j] \in Int /\ K[w] \in Int /\ K[i] \in Int
    BY <1>1, <1>3, <2>1, <1>4
  <2>3. K[i] <= K[w]
    BY <1>1
  <2> QED  BY <2>2, <2>3
<1> HIDE DEF now, g
<1>8. Best(g, n + 1, P, K, c)
  BY <1>4, <1>5, <1>6, <1>7 DEF Best
<1> QED  BY <1>8 DEF g

(* Ranks of rows that have the column: numbers with a bound, unchanged by  *)
(* the projection, and the order is the order of the ranks.                *)
LEMMA RankOfRow ==
    ASSUME PlanOK, stmt.order # None
    PROVE  /\ \E b \in Int : \A x \in RowOf(Names) : KeyRank(x) \in Int /\ KeyRank(x) <= b
           /\ \A x, y \in RowOf(Names) : Before(plan.order, x, y) <=> KeyRank(x) < KeyRank(y)
           /\ \A r : KeyRank(Project(r, Names)) = KeyRank(r)
<1>1. stmt.order.column \in Names /\ stmt.order.descending \in BOOLEAN /\ plan.order = stmt.order
  BY DEF PlanOK
<1>2. \A x \in RowOf(Names) : x.vals[stmt.order.column] \in Values
  BY <1>1 DEF RowOf
<1>3. \A x, y \in RowOf(Names) : /\ KeyRank(x) \in Int
                                 /\ Before(plan.order, x, y) <=> KeyRank(x) < KeyRank(y)
  BY <1>1, <1>2, RankIs
<1> DEFINE b == IF stmt.order.descending THEN 1 - I64Min ELSE I64Max
<1>4. b \in Int
  BY I64Assumption
<1>5. ASSUME NEW x \in RowOf(Names) PROVE KeyRank(x) <= b
  <2> DEFINE v == x.vals[stmt.order.column]
             m == IF v = Null THEN I64Min - 1 ELSE v
  <2>1. v = Null \/ (v \in Int /\ I64Min <= v /\ v <= I64Max)
    BY <1>2, I64Assumption DEF Values, I64
  <2>2. m \in Int /\ I64Min - 1 <= m /\ m <= I64Max /\ I64Min \in Int /\ I64Max \in Int
    BY <2>1, I64Assumption
  <2>3. KeyRank(x) = IF stmt.order.descending THEN - m ELSE m
    BY DEF KeyRank
  <2> HIDE DEF m
  <2> QED  BY <2>2, <2>3
<1>6. \A r : Project(r, Names).vals[stmt.order.column] = r.vals[stmt.order.column]
  BY <1>1 DEF Project
<1>7. \A r : KeyRank(Project(r, Names)) = KeyRank(r)
  BY <1>6 DEF KeyRank
<1> HIDE DEF b
<1> QED  BY <1>3, <1>4, <1>5, <1>7

(* The top of the heap is a row that none of it comes after.               *)
LEMMA WorstIs ==
    ASSUME PlanOK, stmt.order # None, NEW h, \A x \in h : x \in RowOf(Names), h # {}
    PROVE  /\ Worst(plan.order, h) # {}
           /\ \A x \in Worst(plan.order, h), y \in h : KeyRank(y) <= KeyRank(x)
<1> DEFINE T == {KeyRank(x) : x \in h}
<1>1. PICK b \in Int : \A x \in RowOf(Names) : KeyRank(x) \in Int /\ KeyRank(x) <= b
  BY RankOfRow
<1>2. T \in SUBSET Int /\ T # {} /\ \A t \in T : t <= b
  BY <1>1
<1>3. PICK m \in T : \A t \in T : t <= m
  <2> HIDE DEF T
  <2> QED  BY <1>2, GreatestExists
<1>4. PICK x \in h : KeyRank(x) = m
  BY <1>3
<1>5. \A y \in h : KeyRank(y) <= KeyRank(x)
  BY <1>3, <1>4
<1> HIDE DEF T
<1>6. \A u, v \in h : /\ KeyRank(u) \in Int /\ KeyRank(v) \in Int
                      /\ Before(plan.order, u, v) <=> KeyRank(u) < KeyRank(v)
  BY <1>1, RankOfRow
<1>7. x \in Worst(plan.order, h)
  <2>1. \A y \in h : ~ Before(plan.order, x, y)
    BY <1>5, <1>6
  <2> QED  BY <2>1 DEF Worst
<1>8. ASSUME NEW u \in Worst(plan.order, h), NEW v \in h PROVE KeyRank(v) <= KeyRank(u)
  <2>1. u \in h /\ ~ Before(plan.order, u, v)
    BY <1>8 DEF Worst
  <2> QED  BY <2>1, <1>6
<1> QED  BY <1>7, <1>8

(* All the matching rows, as TopKExec is offered them, and their ranks.    *)
Rows == [i \in 1 .. Len(Matching[Len(table)]) |-> Project(Matching[Len(table)][i], Names)]
Ranks == [i \in 1 .. Len(Matching[Len(table)]) |-> KeyRank(Matching[Len(table)][i])]

(* BestOf is Best for them, and they are all different.                    *)
LEMMA BestOfIs ==
    ASSUME TableOK(table), PlanOK, MatchingOK, stmt.order # None, NEW n \in Nat,
           n <= Len(Matching[Len(table)])
    PROVE  /\ \A h : BestOf(h, n) <=> Best(h, n, Rows, Ranks, ResultSize(n))
           /\ Different(Rows, n)
           /\ \A i \in 1 .. n : Rows[i] \in RowOf(Names) /\ Ranks[i] = KeyRank(Rows[i]) /\ Ranks[i] \in Int
<1> DEFINE all == Matching[Len(table)]
<1>1. all \in Seq(RowOf(Cols)) /\ Apart(all) /\ Len(all) \in Nat
  <2>1. Len(table) \in 0 .. Len(table)
    BY DEF TableOK
  <2> QED  BY <2>1 DEF MatchingOK, RowsUpTo
<1>2. /\ Rows = [i \in 1 .. Len(all) |-> Project(all[i], Names)]
      /\ Ranks = [i \in 1 .. Len(all) |-> KeyRank(all[i])]
      /\ \A h : BestOf(h, n) <=> \E kept \in SUBSET (1 .. n) :
            /\ h = {Project(all[i], Names) : i \in kept}
            /\ Cardinality(h) = ResultSize(n)
            /\ \A i \in kept, j \in (1 .. n) \ kept : KeyRank(all[i]) <= KeyRank(all[j])
  BY DEF Rows, Ranks, BestOf, All
<1> HIDE DEF all
<1>3. n <= Len(all)
  BY DEF all
<1>4. \A i \in 1 .. n : Rows[i] = Project(all[i], Names) /\ Ranks[i] = KeyRank(all[i])
  BY <1>1, <1>2, <1>3
<1>5. ASSUME NEW h
      PROVE  BestOf(h, n) <=> Best(h, n, Rows, Ranks, ResultSize(n))
  <2>1. ASSUME NEW kept \in SUBSET (1 .. n)
        PROVE  /\ {Project(all[i], Names) : i \in kept} = {Rows[i] : i \in kept}
               /\ (\A i \in kept, j \in (1 .. n) \ kept : KeyRank(all[i]) <= KeyRank(all[j]))
                    <=> (\A i \in kept, j \in (1 .. n) \ kept : Ranks[i] <= Ranks[j])
    BY <1>4
  <2>2. ASSUME BestOf(h, n) PROVE Best(h, n, Rows, Ranks, ResultSize(n))
    <3>1. PICK kept \in SUBSET (1 .. n) :
              /\ h = {Project(all[i], Names) : i \in kept}
              /\ Cardinality(h) = ResultSize(n)
              /\ \A i \in kept, j \in (1 .. n) \ kept : KeyRank(all[i]) <= KeyRank(all[j])
      BY <1>2, <2>2
    <3> QED  BY <2>1, <3>1 DEF Best
  <2>3. ASSUME Best(h, n, Rows, Ranks, ResultSize(n)) PROVE BestOf(h, n)
    <3>1. PICK kept \in SUBSET (1 .. n) :
              /\ h = {Rows[i] : i \in kept}
              /\ Cardinality(h) = ResultSize(n)
              /\ \A i \in kept, j \in (1 .. n) \ kept : Ranks[i] <= Ranks[j]
      BY <2>3 DEF Best
    <3>2. /\ h = {Project(all[i], Names) : i \in kept}
          /\ \A i \in kept, j \in (1 .. n) \ kept : KeyRank(all[i]) <= KeyRank(all[j])
      BY <2>1, <3>1
    <3> QED  BY <1>2, <3>1, <3>2
  <2> QED  BY <2>2, <2>3
<1>6. ASSUME NEW i \in 1 .. n
      PROVE  /\ Rows[i] \in RowOf(Names) /\ Rows[i].rid = all[i].rid
             /\ Ranks[i] = KeyRank(Rows[i]) /\ Ranks[i] \in Int
  <2>1. i \in 1 .. Len(all) /\ Names \in SUBSET Cols /\ Cols \in SUBSET Cols
    BY <1>1, <1>3 DEF PlanOK
  <2>2. \A k \in 1 .. Len(all) :
            Project(all[k], Names) \in RowOf(Names) /\ Project(all[k], Names).rid = all[k].rid
    BY <1>1, <2>1, ProjectAllIs
  <2>3. Rows[i] \in RowOf(Names) /\ Rows[i].rid = all[i].rid
    BY <1>4, <2>1, <2>2
  <2> QED  BY <1>4, <2>3, RankOfRow
<1>7. Different(Rows, n)
  <2> SUFFICES ASSUME NEW i \in 1 .. n, NEW j \in 1 .. n, i # j PROVE Rows[i] # Rows[j]
    BY DEF Different
  <2>1. i \in 1 .. Len(all) /\ j \in 1 .. Len(all)
    BY <1>1, <1>3
  <2>2. all[i].rid # all[j].rid
    BY <1>1, <2>1 DEF Apart
  <2> QED  BY <1>6, <2>2
<1> QED  BY <1>5, <1>6, <1>7

(* The next row of a batch has been dealt with.                            *)
LEMMA OneRowOn ==
    ASSUME SelectInv, Offering, batch # <<>>, batch' = Tail(batch),
           UNCHANGED <<table, stmt, plan, pc, group, decoded, acc, remaining, out>>,
           IsFiniteSet(heap'), \A x \in heap' : x \in RowOf(Names), BestOf(heap', Seen + 1)
    PROVE  SelectInv'
<1>1. /\ TypeOK /\ PlanOK /\ pc = "sink" /\ plan.fused /\ Blocking
      /\ group - 1 \in 1 .. Len(table) /\ Seen \in Nat /\ Seen + Len(batch) = Len(Matching[group - 1])
      /\ \A i \in 1 .. Len(batch) : batch[i] = Project(Matching[group - 1][Seen + i], Names)
      /\ batch \in Seq(RowOf(Names))
  BY Offered
<1>2. /\ Names' = Names /\ Blocking' = Blocking /\ Matching' = Matching
      /\ (\A g : Matches(g)' = Matches(g))
      /\ (\A rows, n : BestOf(rows, n)' = BestOf(rows, n))
  BY SameMeaning
<1>3. PlanPart' /\ LimitIsLazy' /\ OrderedCorrect' /\ FailsOnlyOnBadPredicate'
  BY <1>1, Running
<1>4. /\ batch' \in Seq(RowOf(Names)) /\ Len(batch') = Len(batch) - 1 /\ Len(batch) \in Nat
      /\ \A i \in 1 .. Len(batch) - 1 : batch'[i] = batch[i + 1]
      /\ DOMAIN batch' = 1 .. Len(batch) - 1
  BY <1>1
<1>5. TypeOK'
  BY <1>1, <1>2, <1>4 DEF TypeOK
<1>6. BatchPart'
  BY <1>1 DEF SelectInv, BatchPart, Active, Limits
<1>7. StreamPart' /\ SortPart'
  BY <1>1, <1>2 DEF StreamPart, SortPart, Sorts
<1>8. Seen = Len(Matching[group - 1]) - Len(batch) /\ Seen' = Len(Matching[group - 1]) - Len(batch')
  BY <1>1, <1>2 DEF Seen
<1>9. Seen' = Seen + 1
  <2>1. Len(Matching[group - 1]) \in Nat
    BY <1>1, <1>4
  <2> QED  BY <1>4, <1>8, <2>1
<1>10. TopKPart'
  <2>1. out = <<>> /\ Len(batch) <= Len(Matches(group - 1))
    BY <1>1 DEF SelectInv, TopKPart, Active
  <2>2. Len(Matches(group - 1)) \in Nat
    BY <1>1, MatchesAre DEF TypeOK, RowsFrom
  <2>3. Len(batch') <= Len(Matches(group - 1))
    BY <1>4, <2>1, <2>2
  <2>4. ASSUME NEW i \in DOMAIN batch'
        PROVE  batch'[i] = Project(Matching[group - 1][Seen' + i], Names)
    <3>1. i + 1 \in 1 .. Len(batch) /\ batch'[i] = batch[i + 1]
      BY <1>4
    <3>2. Seen' + i = Seen + (i + 1)
      BY <1>1, <1>4, <1>9
    <3> QED  BY <1>1, <3>1, <3>2
  <2> QED  BY <1>1, <1>2, <2>1, <2>3, <2>4 DEF TopKPart
<1>11. HeapHoldsBest'
  BY <1>2, <1>9 DEF HeapHoldsBest
<1> QED  BY <1>3, <1>5, <1>6, <1>7, <1>10, <1>11 DEF SelectInv

(* What is known when TopKExec looks at a row.                             *)
LEMMA RowOffered ==
    ASSUME SelectInv, Offering, batch # <<>>, plan.limit > 0
    PROVE  /\ Seen \in Nat /\ Head(batch) = Rows[Seen + 1] /\ Head(batch) \in RowOf(Names)
           /\ Different(Rows, Seen + 1)
           /\ \A h : BestOf(h, Seen) <=> Best(h, Seen, Rows, Ranks, ResultSize(Seen))
           /\ \A h : BestOf(h, Seen + 1) <=> Best(h, Seen + 1, Rows, Ranks, ResultSize(Seen + 1))
           /\ \A i \in 1 .. Seen + 1 : Rows[i] \in RowOf(Names) /\ Ranks[i] = KeyRank(Rows[i]) /\ Ranks[i] \in Int
           /\ IsFiniteSet(heap) /\ Cardinality(heap) = ResultSize(Seen)
           /\ \A x \in heap : x \in RowOf(Names) /\ \E i \in 1 .. Seen : x = Rows[i]
           /\ Best(heap, Seen, Rows, Ranks, ResultSize(Seen))
           /\ stmt.limit \in Nat /\ plan.limit = stmt.limit /\ None \notin Nat
           /\ Full => ResultSize(Seen) = ResultSize(Seen + 1) /\ heap # {}
           /\ ~ Full => ResultSize(Seen) = Seen /\ ResultSize(Seen + 1) = Seen + 1
<1>1. /\ TableOK(table) /\ TypeOK /\ PlanOK /\ MatchingOK /\ plan.fused
      /\ Seen \in Nat /\ Seen + Len(batch) <= Len(Matching[Len(table)])
      /\ \A i \in 1 .. Len(batch) : batch[i] = Project(Matching[Len(table)][Seen + i], Names)
      /\ BestOf(heap, Seen) /\ IsFiniteSet(heap) /\ batch \in Seq(RowOf(Names))
  BY Offered
<1>2. stmt.order # None /\ stmt.limit \in Nat /\ plan.limit = stmt.limit /\ None \notin Nat
  BY <1>1, StatementAssumption DEF PlanOK
<1>3. Len(Matching[Len(table)]) \in Nat
  <2>1. Len(table) \in 0 .. Len(table)
    BY <1>1 DEF TableOK
  <2> QED  BY <1>1, <2>1 DEF MatchingOK, RowsUpTo
<1>4. Len(batch) \in Nat /\ Len(batch) >= 1 /\ Head(batch) = batch[1] /\ Head(batch) \in RowOf(Names)
  BY <1>1
<1>5. Seen + 1 \in Nat /\ Seen + 1 <= Len(Matching[Len(table)]) /\ Seen <= Len(Matching[Len(table)])
  BY <1>1, <1>3, <1>4
<1>6. Head(batch) = Rows[Seen + 1]
  <2>1. 1 \in 1 .. Len(batch) /\ Seen + 1 \in 1 .. Len(Matching[Len(table)])
    BY <1>1, <1>3, <1>4, <1>5
  <2> QED  BY <1>1, <1>4, <2>1 DEF Rows
<1>7. /\ \A h : BestOf(h, Seen) <=> Best(h, Seen, Rows, Ranks, ResultSize(Seen))
      /\ \A h : BestOf(h, Seen + 1) <=> Best(h, Seen + 1, Rows, Ranks, ResultSize(Seen + 1))
      /\ Different(Rows, Seen + 1)
      /\ \A i \in 1 .. Seen + 1 : Rows[i] \in RowOf(Names) /\ Ranks[i] = KeyRank(Rows[i]) /\ Ranks[i] \in Int
  BY <1>1, <1>2, <1>5, BestOfIs
<1>8. Best(heap, Seen, Rows, Ranks, ResultSize(Seen))
  BY <1>1, <1>7
<1>9. /\ Cardinality(heap) = ResultSize(Seen)
      /\ \A x \in heap : x \in RowOf(Names) /\ \E i \in 1 .. Seen : x = Rows[i]
  BY <1>1, <1>8 DEF Best, TypeOK
<1>10. /\ Full => ResultSize(Seen) = ResultSize(Seen + 1) /\ heap # {}
       /\ ~ Full => ResultSize(Seen) = Seen /\ ResultSize(Seen + 1) = Seen + 1
  <2>1. /\ ResultSize(Seen) = IF Seen <= stmt.limit THEN Seen ELSE stmt.limit
        /\ ResultSize(Seen + 1) = IF Seen + 1 <= stmt.limit THEN Seen + 1 ELSE stmt.limit
    BY <1>2 DEF ResultSize
  <2>2. Full <=> ResultSize(Seen) = stmt.limit
    BY <1>2, <1>9 DEF Full
  <2>3. Full => heap # {}
    <3>1. heap = {} => Cardinality(heap) = 0
      BY FS_EmptySet
    <3> QED  BY <1>2, <3>1 DEF Full
  <2> QED  BY <1>1, <1>2, <2>1, <2>2, <2>3
<1> QED  BY <1>1, <1>2, <1>4, <1>6, <1>7, <1>8, <1>9, <1>10

(* A row that does not beat the worst kept is left out.                    *)
LEMMA RejectStep ==
    ASSUME SelectInv, Reject
    PROVE  SelectInv'
<1>1. /\ Offering /\ batch # <<>> /\ plan.limit > 0 /\ ~ Admits(Head(batch)) /\ batch' = Tail(batch)
      /\ UNCHANGED <<table, stmt, plan, pc, group, decoded, acc, heap, remaining, out>>
  BY DEF Reject
<1> DEFINE n == Seen
           row == Head(batch)
<1>2. /\ n \in Nat /\ row = Rows[n + 1] /\ row \in RowOf(Names)
      /\ BestOf(heap, n + 1) <=> Best(heap, n + 1, Rows, Ranks, ResultSize(n + 1))
      /\ \A i \in 1 .. n + 1 : Rows[i] \in RowOf(Names) /\ Ranks[i] = KeyRank(Rows[i]) /\ Ranks[i] \in Int
      /\ IsFiniteSet(heap) /\ \A x \in heap : x \in RowOf(Names)
      /\ Best(heap, n, Rows, Ranks, ResultSize(n))
      /\ Full => ResultSize(n) = ResultSize(n + 1) /\ heap # {}
  BY <1>1, RowOffered
<1>3. PlanOK /\ stmt.order # None
  BY <1>1, Offered DEF PlanOK
<1> HIDE DEF n, row
<1>4. Full /\ \A x \in Worst(plan.order, heap) : ~ Before(plan.order, row, x)
  BY <1>1 DEF Admits, row
<1>5. /\ Worst(plan.order, heap) # {}
      /\ \A x \in Worst(plan.order, heap), y \in heap : KeyRank(y) <= KeyRank(x)
  BY <1>2, <1>3, <1>4, WorstIs
<1>6. PICK x \in Worst(plan.order, heap) : TRUE
  BY <1>5
<1>7. x \in heap /\ x \in RowOf(Names)
  BY <1>2, <1>6 DEF Worst
<1>8. /\ \A y \in heap : KeyRank(y) <= KeyRank(x) /\ KeyRank(y) \in Int
      /\ KeyRank(x) \in Int /\ KeyRank(row) \in Int
      /\ Before(plan.order, row, x) <=> KeyRank(row) < KeyRank(x)
  BY <1>2, <1>3, <1>5, <1>6, <1>7, RankOfRow
<1>9. ASSUME NEW i \in 1 .. n, Rows[i] \in heap PROVE Ranks[i] <= Ranks[n + 1]
  <2>1. /\ Ranks[i] = KeyRank(Rows[i]) /\ Ranks[n + 1] = KeyRank(row)
    BY <1>2
  <2>2. KeyRank(Rows[i]) <= KeyRank(x) /\ KeyRank(Rows[i]) \in Int /\ ~ (KeyRank(row) < KeyRank(x))
    BY <1>4, <1>6, <1>8, <1>9
  <2> QED  BY <1>8, <2>1, <2>2
<1>10. Best(heap, n + 1, Rows, Ranks, ResultSize(n))
  BY <1>2, <1>9, BestWithout
<1>11. BestOf(heap, n + 1)
  BY <1>2, <1>4, <1>10
<1> QED  BY <1>1, <1>2, <1>11, OneRowOn DEF n

(* A row goes in while there is room, or in the place of the worst kept.   *)
LEMMA AdmitStep ==
    ASSUME SelectInv, Admit
    PROVE  SelectInv'
<1>1. /\ Offering /\ batch # <<>> /\ plan.limit > 0 /\ Admits(Head(batch)) /\ batch' = Tail(batch)
      /\ UNCHANGED <<table, stmt, plan, pc, group, decoded, acc, remaining, out>>
  BY DEF Admit
<1> DEFINE n == Seen
           row == Head(batch)
<1>2. /\ n \in Nat /\ row = Rows[n + 1] /\ row \in RowOf(Names) /\ Different(Rows, n + 1)
      /\ \A h : BestOf(h, n + 1) <=> Best(h, n + 1, Rows, Ranks, ResultSize(n + 1))
      /\ \A i \in 1 .. n + 1 : Rows[i] \in RowOf(Names) /\ Ranks[i] = KeyRank(Rows[i]) /\ Ranks[i] \in Int
      /\ IsFiniteSet(heap)
      /\ \A x \in heap : x \in RowOf(Names) /\ \E i \in 1 .. n : x = Rows[i]
      /\ Best(heap, n, Rows, Ranks, ResultSize(n))
      /\ Full => ResultSize(n) = ResultSize(n + 1) /\ heap # {}
      /\ ~ Full => ResultSize(n) = n /\ ResultSize(n + 1) = n + 1
  BY <1>1, RowOffered
<1>3. PlanOK /\ stmt.order # None
  BY <1>1, Offered DEF PlanOK
<1>4. CASE ~ Full
  <2>1. heap' = heap \cup {row}
    BY <1>4 DEF Admit
  <2> HIDE DEF n, row
  <2>2. Best(heap, n, Rows, Ranks, n)
    BY <1>2, <1>4
  <2>3. Best(heap \cup {Rows[n + 1]}, n + 1, Rows, Ranks, n + 1)
    BY <1>2, <2>2, BestOfAll
  <2>4. BestOf(heap', n + 1)
    BY <1>2, <1>4, <2>1, <2>3
  <2>5. IsFiniteSet(heap')
    BY <1>2, <2>1, FS_AddElement
  <2>6. \A x \in heap' : x \in RowOf(Names)
    BY <1>2, <2>1
  <2> QED  BY <1>1, <2>4, <2>5, <2>6, OneRowOn DEF n
<1>5. CASE Full
  <2>1. PICK x \in Worst(plan.order, heap) : heap' = (heap \ {x}) \cup {row}
    BY <1>5 DEF Admit
  <2>2. PICK u \in Worst(plan.order, heap) : Before(plan.order, row, u)
    BY <1>1, <1>5 DEF Admits
  <2> HIDE DEF n, row
  <2>3. \A y \in Worst(plan.order, heap), z \in heap : KeyRank(z) <= KeyRank(y)
    BY <1>2, <1>3, <1>5, WorstIs
  <2>4. x \in heap /\ u \in heap /\ x \in RowOf(Names) /\ u \in RowOf(Names)
    BY <1>2, <2>1, <2>2 DEF Worst
  <2>5. KeyRank(row) \in Int /\ KeyRank(u) \in Int /\ KeyRank(x) \in Int /\ KeyRank(row) < KeyRank(u)
    BY <1>2, <1>3, <2>2, <2>4, RankOfRow
  <2>6. KeyRank(u) <= KeyRank(x)
    BY <2>1, <2>3, <2>4
  <2>7. PICK w \in 1 .. n : x = Rows[w]
    BY <1>2, <2>4
  <2>8. Ranks[n + 1] <= Ranks[w]
    <3>1. Ranks[n + 1] = KeyRank(row) /\ Ranks[w] = KeyRank(x)
      BY <1>2, <2>7
    <3> QED  BY <2>5, <2>6, <3>1
  <2>9. ASSUME NEW i \in 1 .. n, Rows[i] \in heap PROVE Ranks[i] <= Ranks[w]
    <3>1. Ranks[i] = KeyRank(Rows[i]) /\ Ranks[w] = KeyRank(x)
      BY <1>2, <2>7
    <3> QED  BY <2>1, <2>3, <2>9, <3>1
  <2>10. \A i \in 1 .. n + 1 : Ranks[i] \in Int
    BY <1>2
  <2>11. Best((heap \ {Rows[w]}) \cup {Rows[n + 1]}, n + 1, Rows, Ranks, ResultSize(n))
    BY <1>2, <2>4, <2>7, <2>8, <2>9, <2>10, BestInstead
  <2>12. BestOf(heap', n + 1)
    BY <1>2, <1>5, <2>1, <2>7, <2>11
  <2>13. IsFiniteSet(heap')
    BY <1>2, <2>1, FS_AddElement, FS_RemoveElement
  <2>14. \A y \in heap' : y \in RowOf(Names)
    BY <1>2, <2>1
  <2> QED  BY <1>1, <2>12, <2>13, <2>14, OneRowOn DEF n
<1> QED  BY <1>4, <1>5

---------------------------------------------------------------------------
(* The end of the scan and the result *)

(* What it takes to be the first rows in order.                            *)
Picked(pick, n) == [i \in 1 .. n |-> Project(All[pick[i]], stmt.cols)]

LEMMA FirstInOrderBy ==
    ASSUME NEW n, n = ResultSize(Len(All)),
           NEW pick \in [1 .. n -> DOMAIN All], PicksFirst(pick, n)
    PROVE  FirstInOrder(Picked(pick, n))
<1>1. \E p \in [1 .. n -> DOMAIN All] : PicksFirst(p, n) /\ Picked(pick, n) = Picked(p, n)
  OBVIOUS
<1> QED  BY <1>1 DEF FirstInOrder, Picked

(* The rows a blocking operator has at the end are typed.                  *)
LEMMA SortedTyped ==
    ASSUME PlanOK, stmt.order # None, acc \in Seq(RowOf(Names))
    PROVE  StableSort(plan.order, acc) \in Seq(RowOf(Names)) /\ Len(StableSort(plan.order, acc)) = Len(acc)
<1>1. /\ stmt.order.column \in Names /\ stmt.order.descending \in BOOLEAN /\ plan.order = stmt.order
  BY DEF PlanOK
<1> DEFINE n == Len(acc)
<1>2. n \in Nat /\ DOMAIN acc = 1 .. n
  OBVIOUS
<1> HIDE DEF n
<1>3. \A i \in 1 .. n : acc[i].vals[stmt.order.column] \in Values /\ acc[i] \in RowOf(Names)
  BY <1>1, RowParts DEF n
<1>4. PICK p : Sorting(p, acc, n) /\ StableSort(stmt.order, acc) = Permuted(acc, p, n)
  BY <1>1, <1>2, <1>3, StableSortIs
<1> DEFINE f == [k \in 1 .. n |-> acc[p[k]]]
<1>5. \A k \in 1 .. n : f[k] \in RowOf(Names)
  BY <1>3, <1>4 DEF Sorting
<1>6. f \in Seq(RowOf(Names)) /\ Len(f) = n
  BY <1>2, <1>5
<1> QED  BY <1>1, <1>4, <1>6 DEF n, Permuted

(* Whatever the heap is read out as, it is the rows of the heap, each once.*)
LEMMA HeapOrderIs ==
    ASSUME IsFiniteSet(heap), \A x \in heap : x \in RowOf(Names), NEW s \in HeapOrders(plan.order, heap)
    PROVE  /\ s \in Seq(RowOf(Names)) /\ Len(s) = Cardinality(heap) /\ Cardinality(heap) \in Nat
           /\ \A i \in 1 .. Len(s) : s[i] \in heap
           /\ \A i, j \in 1 .. Len(s) : i # j => s[i] # s[j]
           /\ \A x \in heap : \E i \in 1 .. Len(s) : s[i] = x
           /\ \A i, j \in 1 .. Len(s) : i < j => ~ Before(plan.order, s[j], s[i])
<1> DEFINE n == Cardinality(heap)
<1>1. n \in Nat
  BY FS_CardinalityType
<1>2. /\ s \in [1 .. n -> heap]
      /\ \A i, j \in 1 .. n : i # j => s[i] # s[j]
      /\ \A i, j \in DOMAIN s : i < j => ~ Before(plan.order, s[j], s[i])
  BY DEF HeapOrders, SetToSeqs
<1>3. IsFiniteSet(1 .. n) /\ Cardinality(1 .. n) = Cardinality(heap)
  BY <1>1, FS_Interval
<1> HIDE DEF n
<1>4. s \in Injection(1 .. n, heap)
  <2>1. \A i, j \in 1 .. n : s[i] = s[j] => i = j
    BY <1>2
  <2>2. DOMAIN s = 1 .. n
    BY <1>2
  <2> QED  BY <1>2, <2>1, <2>2 DEF Injection, IsInjective
<1>5. s \in Surjection(1 .. n, heap)
  BY <1>3, <1>4, FS_Injection
<1>6. s \in Seq(RowOf(Names)) /\ Len(s) = n /\ DOMAIN s = 1 .. n
  <2>1. \A i \in 1 .. n : s[i] \in RowOf(Names)
    BY <1>2
  <2>2. s = [i \in 1 .. n |-> s[i]]
    BY <1>2
  <2> QED  BY <1>1, <2>1, <2>2, FunctionIsSeq
<1> QED  BY <1>1, <1>2, <1>5, <1>6 DEF Surjection, n

(* At the end of the scan there is either nothing left to do or one batch. *)
LEMMA EndOfScanStep ==
    ASSUME SelectInv, EndOfScan
    PROVE  SelectInv'
<1>1. /\ pc = "pull" /\ group = Len(table) + 1 /\ TypeOK /\ PlanPart /\ TableOK(table)
      /\ UNCHANGED <<table, stmt, plan, group, decoded, acc, heap, remaining, out>>
      /\ Len(table) \in Nat /\ batch \in Seq(RowOf(Names)) /\ acc \in Seq(RowOf(Names))
      /\ IsFiniteSet(heap) /\ \A x \in heap : x \in RowOf(Names)
  BY DEF EndOfScan, Pulling, SelectInv, TypeOK, TableOK
<1>2. PlanOK
  BY <1>1, PlanFacts
<1>3. /\ Names' = Names /\ Blocking' = Blocking /\ Matching' = Matching
      /\ (\A n : Result(n)' = Result(n))
      /\ (\A rows, n : BestOf(rows, n)' = BestOf(rows, n))
  BY <1>1, SameMeaning
<1>4. /\ pc' \in {"done", "emit"} /\ batch' \in Seq(RowOf(Names))
      /\ pc' = "done" => ~ Blocking
      /\ pc' = "emit" => Blocking
      /\ pc' = "emit" /\ Sorts(plan) => batch' = StableSort(plan.order, acc)
      /\ pc' = "emit" /\ plan.fused => batch' \in HeapOrders(plan.order, heap)
  <2>1. CASE ~ Blocking
    <3>1. ~ Sorts(plan) /\ ~ plan.fused
      BY <1>2, <2>1 DEF Sorts, Blocking, PlanOK
    <3>2. pc' = "done" /\ batch' = batch
      BY <2>1, <3>1 DEF EndOfScan
    <3> QED  BY <1>1, <2>1, <3>2
  <2>2. CASE Sorts(plan)
    <3>1. Blocking /\ ~ plan.fused /\ stmt.order # None /\ plan.order.column \in Names
      BY <1>2, <2>2 DEF Sorts, Blocking, PlanOK
    <3>2. pc' = "emit" /\ batch' = StableSort(plan.order, acc)
      BY <2>2, <3>1 DEF EndOfScan
    <3>3. batch' \in Seq(RowOf(Names))
      BY <1>1, <1>2, <3>1, <3>2, SortedTyped
    <3> QED  BY <3>1, <3>2, <3>3
  <2>3. CASE plan.fused
    <3>1. Blocking /\ ~ Sorts(plan)
      BY <1>2, <2>3 DEF Sorts, Blocking, PlanOK
    <3>2. pc' = "emit" /\ batch' \in HeapOrders(plan.order, heap)
      BY <2>3, <3>1 DEF EndOfScan
    <3>3. batch' \in Seq(RowOf(Names))
      BY <1>1, <3>2, HeapOrderIs
    <3> QED  BY <3>1, <3>2, <3>3
  <2> QED  BY <1>2, <2>1, <2>2, <2>3 DEF Sorts, Blocking, PlanOK
<1>5. PlanPart' /\ LimitIsLazy' /\ FailsOnlyOnBadPredicate'
  BY <1>1, <1>4, Running
<1>6. OrderedCorrect'
  BY <1>1, <1>2, <1>4 DEF OrderedCorrect, Blocking, PlanOK
<1>7. TypeOK'
  BY <1>1, <1>3, <1>4 DEF TypeOK
<1>8. BatchPart'
  BY <1>1, <1>3, <1>4 DEF SelectInv, BatchPart, Active, Limits
<1>9. Behind = group - 1 /\ Behind' = group - 1
      /\ Seen = Len(Matching[group - 1]) /\ Seen' = Len(Matching[group - 1])
  BY <1>1, <1>3, <1>4 DEF Behind, Seen
<1>10. StreamPart'
  BY <1>1, <1>3, <1>4, <1>9 DEF SelectInv, StreamPart, Active
<1>11. SortPart'
  BY <1>1, <1>3, <1>4, <1>9 DEF SelectInv, SortPart, Active, Sorts
<1>12. TopKPart'
  BY <1>1, <1>4 DEF SelectInv, TopKPart, Active
<1>13. HeapHoldsBest'
  BY <1>1, <1>3, <1>9 DEF SelectInv, HeapHoldsBest
<1> QED  BY <1>5, <1>6, <1>7, <1>8, <1>10, <1>11, <1>12, <1>13 DEF SelectInv

(* LIMIT 0, or a LIMIT reached: no more is asked for.                      *)
LEMMA LimitSpentStep ==
    ASSUME SelectInv, LimitSpent
    PROVE  SelectInv'
<1>1. /\ remaining = 0 /\ pc \in {"emit", "pull"}
      /\ pc = "pull" => ~ Blocking
      /\ TypeOK /\ PlanPart /\ TableOK(table) /\ pc' = "done"
      /\ UNCHANGED <<table, stmt, plan, group, decoded, batch, acc, heap, remaining, out>>
  BY DEF LimitSpent, SelectInv, TypeOK
<1>2. PlanOK /\ None \notin Nat
  BY <1>1, PlanFacts, StatementAssumption
<1>3. /\ Names' = Names /\ Blocking' = Blocking /\ Matching' = Matching
      /\ (\A n : Result(n)' = Result(n))
      /\ (\A rows : FirstInOrder(rows)' = FirstInOrder(rows))
  BY <1>1, SameMeaning
<1>4. PlanPart' /\ LimitIsLazy' /\ FailsOnlyOnBadPredicate'
  BY <1>1, Running
<1>5. TypeOK'
  BY <1>1, <1>3 DEF TypeOK
<1>6. BatchPart'
  BY <1>1 DEF SelectInv, BatchPart, Active, Limits
<1>7. StreamPart'
  BY <1>1, <1>3 DEF SelectInv, StreamPart, BatchPart, Active, Behind
<1>8. SortPart' /\ TopKPart' /\ HeapHoldsBest'
  BY <1>1 DEF SortPart, TopKPart, HeapHoldsBest
<1>9. OrderedCorrect'
  <2> SUFFICES ASSUME stmt.order # None PROVE FirstInOrder(out)
    BY <1>1, <1>3 DEF OrderedCorrect
  <2>1. Blocking /\ pc = "emit" /\ Active
    BY <1>1, <1>2 DEF PlanOK, Blocking, Active
  <2>2. Limits(plan) /\ stmt.limit - Len(out) = 0 /\ stmt.limit \in Nat
    BY <1>1, <1>2, <2>1 DEF SelectInv, BatchPart, PlanOK, Limits
  <2>3. out = <<>>
    <3>1. Sorts(plan)
      BY <1>2, <2>1, <2>2 DEF Sorts, Limits, PlanOK, Blocking
    <3> QED  BY <2>1, <3>1 DEF SelectInv, SortPart
  <2>4. stmt.limit = 0
    <3>1. Len(out) = 0
      BY <2>3
    <3> QED  BY <2>2, <3>1
  <2>5. Len(All) \in Nat /\ ResultSize(Len(All)) = 0
    <3>1. Len(table) \in 0 .. Len(table)
      BY <1>1 DEF TableOK
    <3>2. Len(All) \in Nat
      BY <1>1, <3>1, MatchingFacts DEF MatchingOK, RowsUpTo, All
    <3> QED  BY <1>2, <2>4, <3>2 DEF ResultSize
  <2>6. FirstInOrder(<<>>)
    <3> DEFINE pick == [i \in 1 .. 0 |-> i]
    <3>1. pick \in [1 .. 0 -> DOMAIN All]
      OBVIOUS
    <3>2. <<>> = Picked(pick, 0)
      BY DEF Picked
    <3>3. PicksFirst(pick, 0)
      BY DEF PicksFirst
    <3> HIDE DEF pick
    <3> QED  BY <2>5, <3>1, <3>2, <3>3, FirstInOrderBy
  <2> QED  BY <2>3, <2>6
<1> QED  BY <1>4, <1>5, <1>6, <1>7, <1>8, <1>9 DEF SelectInv

(* The first rows of a sequence, projected: what Emit adds to the result.  *)
Cut(rows, take, cols) == [i \in 1 .. take |-> Project(rows[i], cols)]

(* What they are.                                                          *)
LEMMA CutIs ==
    ASSUME NEW names \in SUBSET Cols, NEW cols \in SUBSET names,
           NEW rows \in Seq(RowOf(names)), NEW take \in 0 .. Len(rows)
    PROVE  /\ Cut(rows, take, cols) \in Seq(RowOf(cols)) /\ Len(Cut(rows, take, cols)) = take
           /\ \A i \in 1 .. take : Cut(rows, take, cols)[i] = Project(rows[i], cols)
<1> DEFINE c == Cut(rows, take, cols)
<1>1. Len(rows) \in Nat /\ take \in Nat
  OBVIOUS
<1>2. c = [i \in 1 .. take |-> c[i]] /\ \A i \in 1 .. take : c[i] = Project(rows[i], cols)
  BY DEF Cut
<1>3. \A i \in 1 .. take : Project(rows[i], cols) \in RowOf(cols)
  BY <1>1, ProjectAllIs
<1> HIDE DEF c
<1> QED  BY <1>1, <1>2, <1>3, FunctionIsSeq DEF c

(* The first rows of another group, cut, carry on from those of the groups *)
(* before it.                                                              *)
LEMMA CutJoin ==
    ASSUME NEW names \in SUBSET Cols, NEW cols \in SUBSET names,
           NEW s \in Seq(RowOf(Cols)), NEW t \in Seq(RowOf(Cols)), NEW take \in 0 .. Len(t)
    PROVE  ProjectAll(s, cols) \o Cut(ProjectAll(t, names), take, cols)
             = Cut(s \o t, Len(s) + take, cols)
<1> DEFINE a == ProjectAll(s, cols)
           pt == ProjectAll(t, names)
           b == Cut(pt, take, cols)
           j == s \o t
           r == Cut(j, Len(s) + take, cols)
<1>1. Len(s) \in Nat /\ Len(t) \in Nat /\ take \in Nat /\ cols \in SUBSET Cols /\ Cols \in SUBSET Cols
  OBVIOUS
<1>2. a \in Seq(RowOf(cols)) /\ Len(a) = Len(s) /\ \A i \in 1 .. Len(s) : a[i] = Project(s[i], cols)
  BY <1>1, ProjectAllIs
<1>3. pt \in Seq(RowOf(names)) /\ Len(pt) = Len(t) /\ \A i \in 1 .. Len(t) : pt[i] = Project(t[i], names)
  BY <1>1, ProjectAllIs
<1> HIDE DEF a, pt
<1>4. b \in Seq(RowOf(cols)) /\ Len(b) = take /\ \A i \in 1 .. take : b[i] = Project(pt[i], cols)
  <2>1. cols \in SUBSET names
    OBVIOUS
  <2>2. take \in 0 .. Len(pt) /\ pt \in Seq(RowOf(names))
    BY <1>1, <1>3
  <2> QED  BY <2>1, <2>2, CutIs, ZenonT(60)
<1>5. /\ j \in Seq(RowOf(Cols)) /\ Len(j) = Len(s) + Len(t)
      /\ \A i \in 1 .. Len(s) : j[i] = s[i]
      /\ \A i \in 1 .. Len(t) : j[Len(s) + i] = t[i]
  BY JoinIs
<1> HIDE DEF b, j
<1>6. r \in Seq(RowOf(cols)) /\ Len(r) = Len(s) + take
      /\ \A i \in 1 .. Len(s) + take : r[i] = Project(j[i], cols)
  <2>1. Len(s) + take \in 0 .. Len(j)
    BY <1>1, <1>5
  <2> QED  BY <1>1, <1>5, <2>1, CutIs
<1> HIDE DEF r
<1> DEFINE ab == a \o b
<1>7. /\ ab \in Seq(RowOf(cols)) /\ Len(ab) = Len(s) + take
      /\ \A i \in 1 .. Len(s) : ab[i] = a[i]
      /\ \A i \in 1 .. take : ab[Len(s) + i] = b[i]
      /\ \A k \in 1 .. Len(s) + take : k \in 1 .. Len(s) \/ \E i \in 1 .. take : k = Len(s) + i
  <2>1. a \in Seq(RowOf(cols)) /\ b \in Seq(RowOf(cols))
    BY <1>2, <1>4
  <2>2. /\ ab \in Seq(RowOf(cols)) /\ Len(ab) = Len(a) + Len(b)
        /\ \A i \in 1 .. Len(a) : ab[i] = a[i]
        /\ \A i \in 1 .. Len(b) : ab[Len(a) + i] = b[i]
        /\ \A k \in 1 .. Len(a) + Len(b) : k \in 1 .. Len(a) \/ \E i \in 1 .. Len(b) : k = Len(a) + i
    BY <2>1, JoinIs
  <2> QED  BY <1>2, <1>4, <2>2
<1> HIDE DEF ab
<1>8. ASSUME NEW k \in 1 .. Len(s) + take PROVE ab[k] = r[k]
  <2>1. CASE k \in 1 .. Len(s)
    BY <2>1, <1>2, <1>5, <1>6, <1>7
  <2>2. CASE \E i \in 1 .. take : k = Len(s) + i
    <3>1. PICK i \in 1 .. take : k = Len(s) + i
      BY <2>2
    <3>2. i \in 1 .. Len(t)
      BY <1>1
    <3>3. ab[k] = Project(Project(t[i], names), cols)
      BY <3>1, <3>2, <1>3, <1>4, <1>7
    <3>4. r[k] = Project(t[i], cols)
      BY <3>1, <3>2, <1>5, <1>6
    <3> QED  BY <3>3, <3>4, ProjectTwice
  <2> QED  BY <2>1, <2>2, <1>7
<1>9. ab = r
  BY <1>6, <1>7, <1>8, SameSeq
<1> QED  BY <1>9 DEF ab, a, b, pt, j, r

(* What Emit does, whatever it emits: its columns are there.               *)
LEMMA Emitted ==
    ASSUME SelectInv, Emit
    PROVE  /\ PlanOK /\ TableOK(table) /\ MatchingOK /\ Active
           /\ UNCHANGED <<table, stmt, plan, group, decoded, acc, heap>>
           /\ remaining # 0 /\ pc \in {"sink", "emit"} /\ (pc = "sink" => ~ Blocking)
           /\ batch' = <<>> /\ batch \in Seq(RowOf(Names)) /\ Len(batch) \in Nat
           /\ Take(Len(batch)) \in 0 .. Len(batch)
           /\ Names \in SUBSET Cols /\ stmt.cols \in SUBSET Names
           /\ out \in Seq(RowOf(stmt.cols))
           /\ out' = out \o Cut(batch, Take(Len(batch)), stmt.cols)
           /\ out' \in Seq(RowOf(stmt.cols)) /\ Len(out') = Len(out) + Take(Len(batch))
           /\ remaining' = IF remaining = None THEN None ELSE remaining - Take(Len(batch))
           /\ remaining' = None \/ remaining' \in Nat
           /\ pc' = IF Blocking THEN "done" ELSE "pull"
<1>1. /\ TypeOK /\ PlanPart /\ TableOK(table) /\ pc \in {"sink", "emit"} /\ (pc = "sink" => ~ Blocking)
      /\ UNCHANGED <<table, stmt, plan, group, decoded, acc, heap>> /\ batch' = <<>> /\ remaining # 0
  BY DEF Emit, Emitting, SelectInv, TypeOK
<1>2. PlanOK /\ MatchingOK /\ None \notin Nat
  BY <1>1, PlanFacts, MatchingFacts, StatementAssumption
<1>3. Names \in SUBSET Cols /\ stmt.cols \in SUBSET Names /\ plan.projection = stmt.cols
  BY <1>2 DEF PlanOK
<1>4. /\ batch \in Seq(RowOf(Names)) /\ Len(batch) \in Nat /\ out \in Seq(RowOf(stmt.cols))
      /\ remaining = None \/ remaining \in Nat
  BY <1>1, <1>3 DEF TypeOK
<1> DEFINE take == Take(Len(batch))
<1>5. take \in 0 .. Len(batch) /\ take \in Nat /\ (remaining # None => take <= remaining)
  BY <1>2, <1>4 DEF Take
<1>6. /\ out' = out \o Cut(batch, take, stmt.cols)
      /\ remaining' = IF remaining = None THEN None ELSE remaining - take
      /\ pc' = IF Blocking THEN "done" ELSE "pull"
  BY <1>3 DEF Emit, Cut
<1> HIDE DEF take
<1> DEFINE c == Cut(batch, take, stmt.cols)
<1>7. c \in Seq(RowOf(stmt.cols)) /\ Len(c) = take
  BY <1>3, <1>4, <1>5, CutIs
<1> HIDE DEF c
<1>8. out \o c \in Seq(RowOf(stmt.cols)) /\ Len(out \o c) = Len(out) + take
  BY <1>4, <1>7, JoinIs
<1>9. remaining' = None \/ remaining' \in Nat
  BY <1>4, <1>5, <1>6
<1> QED  BY <1>1, <1>2, <1>3, <1>4, <1>5, <1>6, <1>8, <1>9 DEF take, c, Active

(* Without ORDER BY a batch goes straight out.                             *)
LEMMA StreamEmitStep ==
    ASSUME SelectInv, Emit, pc = "sink"
    PROVE  SelectInv'
<1> DEFINE take == Take(Len(batch))
<1>1. /\ PlanOK /\ TableOK(table) /\ MatchingOK /\ Active /\ TypeOK /\ None \notin Nat
      /\ UNCHANGED <<table, stmt, plan, group, decoded, acc, heap>>
      /\ remaining # 0 /\ ~ Blocking
      /\ batch' = <<>> /\ batch \in Seq(RowOf(Names)) /\ Len(batch) \in Nat
      /\ take \in 0 .. Len(batch)
      /\ Names \in SUBSET Cols /\ stmt.cols \in SUBSET Names
      /\ out \in Seq(RowOf(stmt.cols))
      /\ out' = out \o Cut(batch, take, stmt.cols)
      /\ out' \in Seq(RowOf(stmt.cols)) /\ Len(out') = Len(out) + take
      /\ remaining' = IF remaining = None THEN None ELSE remaining - take
      /\ remaining' = None \/ remaining' \in Nat
      /\ pc' = "pull"
  BY Emitted, StatementAssumption DEF SelectInv
<1>2. stmt.order = None /\ ~ plan.fused /\ ~ Sorts(plan) /\ (Limits(plan) <=> stmt.limit # None)
      /\ plan.projection = stmt.cols
  BY <1>1 DEF PlanOK, Blocking, Sorts, Limits
<1>3. /\ group \in 1 .. Len(table) + 1 /\ group > 1 /\ Len(table) \in Nat
      /\ out = Result(group - 2) /\ batch = ProjectAll(Matches(group - 1), Names)
      /\ remaining = IF Limits(plan) THEN stmt.limit - Len(out) ELSE None
      /\ remaining = None \/ remaining \in Nat
  BY <1>1, <1>2 DEF SelectInv, TypeOK, TableOK, BatchPart, StreamPart, Behind
<1>4. Names' = Names /\ Blocking' = Blocking /\ Matching' = Matching /\ (\A n : Result(n)' = Result(n))
  BY <1>1, SameMeaning
<1>5. PlanPart' /\ LimitIsLazy' /\ OrderedCorrect' /\ FailsOnlyOnBadPredicate'
  BY <1>1, Running DEF Active
<1> DEFINE s == Matching[group - 2]
           t == Matches(group - 1)
<1>6. Matching[group - 1] = s \o t /\ s \in Seq(RowOf(Cols)) /\ t \in Seq(RowOf(Cols))
  <2>1. (group - 1) - 1 = group - 2 /\ group - 1 \in 1 .. Len(table)
    BY <1>3
  <2> QED  BY <1>1, <2>1, NextGroup
<1>7. Len(s) \in Nat /\ Len(t) \in Nat /\ Len(s \o t) = Len(s) + Len(t) /\ Len(batch) = Len(t)
  <2>1. Len(s \o t) = Len(s) + Len(t)
    BY <1>6, JoinIs
  <2>2. Cols \in SUBSET Cols
    OBVIOUS
  <2>3. Len(ProjectAll(t, Names)) = Len(t)
    BY <1>1, <1>6, <2>2, ProjectAllIs
  <2> QED  BY <1>3, <1>6, <2>1, <2>3
<1> HIDE DEF take, s, t
<1>8. /\ out = ProjectAll(s, stmt.cols)
      /\ ResultSize(Len(s) + Len(t)) = Len(s) + take
      /\ remaining' = IF Limits(plan) THEN stmt.limit - (Len(s) + take) ELSE None
      /\ Len(out) = Len(s)
  <2>0. Len(ProjectAll(s, stmt.cols)) = Len(s)
    <3>1. Cols \in SUBSET Cols /\ stmt.cols \in SUBSET Cols
      BY <1>1
    <3> QED  BY <1>6, <3>1, ProjectAllIs
  <2>1. CASE stmt.limit = None
    <3>1. remaining = None /\ remaining' = None /\ take = Len(t)
      BY <1>1, <1>2, <1>3, <1>7, <2>1 DEF take, Take
    <3>2. ResultSize(Len(s)) = Len(s) /\ ResultSize(Len(s) + Len(t)) = Len(s) + Len(t)
      BY <2>1 DEF ResultSize
    <3>3. DOMAIN s = 1 .. Len(s)
      BY <1>6
    <3>4. out = ProjectAll(s, stmt.cols)
      BY <1>3, <3>2, <3>3 DEF Result, ProjectAll, s
    <3> QED  BY <1>2, <2>0, <2>1, <3>1, <3>2, <3>4
  <2>2. CASE stmt.limit # None
    <3>1. group - 2 \in 0 .. Len(table)
      BY <1>3
    <3>2. Len(s) < stmt.limit /\ remaining = stmt.limit - Len(s) /\ out = ProjectAll(s, stmt.cols)
      BY <1>1, <1>3, <2>2, <3>1, BudgetLeft DEF s
    <3>3. stmt.limit \in Nat
      BY <1>1, <2>2 DEF PlanOK
    <3>4. remaining \in Nat /\ remaining # None /\ remaining' = stmt.limit - Len(s) - take
      BY <1>1, <1>7, <3>2, <3>3
    <3>5. take = IF Len(t) <= remaining THEN Len(t) ELSE remaining
      BY <1>7, <3>4 DEF take, Take
    <3>6. ResultSize(Len(s) + Len(t)) = IF Len(s) + Len(t) <= stmt.limit THEN Len(s) + Len(t) ELSE stmt.limit
      BY <2>2 DEF ResultSize
    <3>7. ResultSize(Len(s) + Len(t)) = Len(s) + take
      BY <1>7, <3>2, <3>3, <3>5, <3>6
    <3>8. stmt.limit - Len(s) - take = stmt.limit - (Len(s) + take)
      BY <1>7, <3>2, <3>3, <3>5
    <3> QED  BY <1>2, <2>0, <2>2, <3>2, <3>4, <3>7, <3>8
  <2> QED  BY <2>1, <2>2
<1>9. out' = Result(group - 1)
  <2>1. take \in 0 .. Len(t)
    BY <1>1, <1>7
  <2>2. out' = Cut(s \o t, Len(s) + take, stmt.cols)
    <3>1. ProjectAll(s, stmt.cols) \o Cut(ProjectAll(t, Names), take, stmt.cols)
            = Cut(s \o t, Len(s) + take, stmt.cols)
      <4>1. Names \in SUBSET Cols /\ stmt.cols \in SUBSET Names
        BY <1>1
      <4>2. s \in Seq(RowOf(Cols)) /\ t \in Seq(RowOf(Cols))
        BY <1>6
      <4> QED  BY <4>1, <4>2, <2>1, CutJoin
    <3>2. batch = ProjectAll(t, Names)
      BY <1>3 DEF t
    <3> QED  BY <1>1, <1>8, <3>1, <3>2
  <2>3. Result(group - 1) = Cut(s \o t, ResultSize(Len(s \o t)), stmt.cols)
    BY <1>6 DEF Result, Cut
  <2> QED  BY <1>7, <1>8, <2>2, <2>3
<1>10. TypeOK'
  <2>1. <<>> \in Seq(RowOf(Names))
    OBVIOUS
  <2> QED  BY <1>1, <1>2, <1>4, <2>1 DEF TypeOK
<1>11. BatchPart'
  <2>1. remaining' = IF Limits(plan) THEN stmt.limit - Len(out') ELSE None
    BY <1>1, <1>8
  <2> QED  BY <1>1, <2>1 DEF BatchPart, Active, Limits
<1>12. StreamPart'
  <2>1. Behind' = group - 1
    BY <1>1 DEF Behind
  <2> QED  BY <1>1, <1>4, <1>9, <2>1 DEF StreamPart
<1>13. SortPart' /\ TopKPart' /\ HeapHoldsBest'
  BY <1>1, <1>2 DEF SortPart, TopKPart, HeapHoldsBest, Sorts
<1> QED  BY <1>5, <1>10, <1>11, <1>12, <1>13 DEF SelectInv

(* All that match, their ranks, and what the blocking operators have of    *)
(* them.                                                                   *)
LEMMA AllIs ==
    ASSUME PlanOK, MatchingOK, TableOK(table), stmt.order # None
    PROVE  /\ All \in Seq(RowOf(Cols)) /\ Len(All) \in Nat /\ DOMAIN All = 1 .. Len(All) /\ Apart(All)
           /\ ResultSize(Len(All)) \in 0 .. Len(All)
           /\ \A i \in 1 .. Len(All) :
                 /\ Project(All[i], Names) \in RowOf(Names)
                 /\ Project(All[i], Names).rid = All[i].rid
                 /\ KeyRank(Project(All[i], Names)) = KeyRank(All[i]) /\ KeyRank(All[i]) \in Int
                 /\ Project(Project(All[i], Names), stmt.cols) = Project(All[i], stmt.cols)
<1>1. Names \in SUBSET Cols /\ Cols \in SUBSET Cols /\ stmt.cols \in SUBSET Names
      /\ (stmt.limit # None => stmt.limit \in Nat)
  BY DEF PlanOK
<1>2. All \in Seq(RowOf(Cols)) /\ Apart(All) /\ Len(All) \in Nat /\ DOMAIN All = 1 .. Len(All)
  <2>1. Len(table) \in 0 .. Len(table)
    BY DEF TableOK
  <2> QED  BY <2>1 DEF MatchingOK, RowsUpTo, All
<1> DEFINE n == Len(All)
<1>3. ResultSize(n) \in 0 .. n
  <2>1. n \in Nat
    BY <1>2
  <2> HIDE DEF n
  <2> QED  BY <1>1, <2>1 DEF ResultSize
<1>4. ASSUME NEW i \in 1 .. Len(All)
      PROVE  /\ Project(All[i], Names) \in RowOf(Names)
             /\ Project(All[i], Names).rid = All[i].rid
             /\ KeyRank(Project(All[i], Names)) = KeyRank(All[i]) /\ KeyRank(All[i]) \in Int
             /\ Project(Project(All[i], Names), stmt.cols) = Project(All[i], stmt.cols)
  <2>1. Project(All[i], Names) \in RowOf(Names) /\ Project(All[i], Names).rid = All[i].rid
    BY <1>1, <1>2, ProjectAllIs
  <2>2. KeyRank(Project(All[i], Names)) = KeyRank(All[i]) /\ KeyRank(Project(All[i], Names)) \in Int
    BY <2>1, RankOfRow
  <2>3. Project(Project(All[i], Names), stmt.cols) = Project(All[i], stmt.cols)
    BY <1>1, ProjectTwice
  <2> QED  BY <2>1, <2>2, <2>3
<1> QED  BY <1>2, <1>3, <1>4

(* The first rows of a stable sort of all that match are the result.       *)
LEMMA SortedFirst ==
    ASSUME PlanOK, MatchingOK, TableOK(table), Sorts(plan),
           acc = ProjectAll(All, Names), batch = StableSort(plan.order, acc)
    PROVE  /\ Len(batch) = Len(All)
           /\ FirstInOrder(Cut(batch, ResultSize(Len(All)), stmt.cols))
<1>1. stmt.order # None /\ plan.order = stmt.order /\ ~ plan.fused /\ stmt.order.descending \in BOOLEAN
      /\ stmt.order.column \in Names
  BY DEF PlanOK, Sorts
<1> DEFINE n == Len(All)
           c == ResultSize(n)
<1>2. /\ All \in Seq(RowOf(Cols)) /\ n \in Nat /\ DOMAIN All = 1 .. n /\ c \in 0 .. n
      /\ \A i \in 1 .. n :
            /\ Project(All[i], Names) \in RowOf(Names)
            /\ KeyRank(Project(All[i], Names)) = KeyRank(All[i]) /\ KeyRank(All[i]) \in Int
            /\ Project(Project(All[i], Names), stmt.cols) = Project(All[i], stmt.cols)
  BY <1>1, AllIs
<1>3. DOMAIN acc = 1 .. n /\ \A i \in 1 .. n : acc[i] = Project(All[i], Names)
  BY <1>2 DEF ProjectAll
<1> HIDE DEF n, c
<1>4. \A i \in 1 .. n : acc[i].vals[stmt.order.column] \in Values
  <2>1. ASSUME NEW i \in 1 .. n PROVE acc[i].vals[stmt.order.column] \in Values
    <3>1. acc[i] \in [rid : Nat \X Nat, vals : [Names -> Values]]
      BY <1>2, <1>3 DEF RowOf
    <3> QED  BY <1>1, <3>1
  <2> QED  BY <2>1
<1>5. PICK p : Sorting(p, acc, n) /\ StableSort(stmt.order, acc) = Permuted(acc, p, n)
  BY <1>1, <1>2, <1>3, <1>4, StableSortIs
<1>6. /\ p \in [1 .. n -> 1 .. n]
      /\ \A i \in 1 .. n : \E k \in 1 .. n : p[k] = i
      /\ \A k, l \in 1 .. n : k < l =>
            \/ KeyRank(All[p[k]]) < KeyRank(All[p[l]])
            \/ KeyRank(All[p[k]]) = KeyRank(All[p[l]]) /\ p[k] < p[l]
  <2>1. /\ p \in [1 .. n -> 1 .. n]
        /\ \A i \in 1 .. n : \E k \in 1 .. n : p[k] = i
        /\ \A k, l \in 1 .. n : k < l =>
              \/ KeyRank(acc[p[k]]) < KeyRank(acc[p[l]])
              \/ KeyRank(acc[p[k]]) = KeyRank(acc[p[l]]) /\ p[k] < p[l]
    BY <1>5 DEF Sorting
  <2>2. \A k \in 1 .. n : KeyRank(acc[p[k]]) = KeyRank(All[p[k]])
    BY <1>2, <1>3, <2>1
  <2>3. ASSUME NEW k \in 1 .. n, NEW l \in 1 .. n, k < l
        PROVE  \/ KeyRank(All[p[k]]) < KeyRank(All[p[l]])
               \/ KeyRank(All[p[k]]) = KeyRank(All[p[l]]) /\ p[k] < p[l]
    <3>1. \/ KeyRank(acc[p[k]]) < KeyRank(acc[p[l]])
          \/ KeyRank(acc[p[k]]) = KeyRank(acc[p[l]]) /\ p[k] < p[l]
      BY ONLY <2>1, <2>3
    <3>2. /\ KeyRank(acc[p[k]]) = KeyRank(All[p[k]])
          /\ KeyRank(acc[p[l]]) = KeyRank(All[p[l]])
      BY ONLY <2>2
    <3> QED  BY ONLY <3>1, <3>2
  <2> QED  BY <2>1, <2>3
<1>7. batch = [k \in 1 .. n |-> acc[p[k]]]
  BY <1>1, <1>5 DEF Permuted
<1>8. Len(batch) = n
  BY <1>2, <1>7
<1> DEFINE pick == [i \in 1 .. c |-> p[i]]
<1>9. pick \in [1 .. c -> DOMAIN All] /\ \A i \in 1 .. c : i \in 1 .. n /\ pick[i] = p[i]
  <2>1. c \in 0 .. n /\ n \in Nat
    BY <1>2
  <2>2. \A i \in 1 .. c : i \in 1 .. n
    BY <2>1
  <2>3. \A i \in 1 .. c : p[i] \in DOMAIN All
    BY <1>2, <1>6, <2>2
  <2> QED  BY <2>2, <2>3
<1>10. Cut(batch, c, stmt.cols) = Picked(pick, c)
  <2>1. ASSUME NEW i \in 1 .. c PROVE Project(batch[i], stmt.cols) = Project(All[pick[i]], stmt.cols)
    <3>1. batch[i] = Project(All[p[i]], Names) /\ p[i] \in 1 .. n
      BY <1>3, <1>6, <1>7, <1>9
    <3> QED  BY <1>2, <1>9, <3>1
  <2> HIDE DEF pick
  <2> QED  BY <2>1 DEF Cut, Picked
<1> HIDE DEF pick
<1>11. PicksFirst(pick, c)
  <2>1. ASSUME NEW k \in 1 .. n, NEW l \in 1 .. n, k < l
        PROVE  p[k] # p[l] /\ Precedes(p[k], p[l])
    <3>1. p[k] \in 1 .. n /\ p[l] \in 1 .. n
      BY <1>6
    <3>2. KeyRank(All[p[k]]) \in Int /\ KeyRank(All[p[l]]) \in Int
      BY <1>2, <3>1
    <3>3. \/ KeyRank(All[p[k]]) < KeyRank(All[p[l]])
          \/ KeyRank(All[p[k]]) = KeyRank(All[p[l]]) /\ p[k] < p[l]
      BY <1>6, <2>1
    <3>4. p[k] # p[l]
      BY <3>1, <3>2, <3>3
    <3> QED  BY <3>3, <3>4 DEF Precedes
  <2>2. ASSUME NEW i \in 1 .. c, NEW j \in 1 .. c, i < j
        PROVE  pick[i] # pick[j] /\ Precedes(pick[i], pick[j])
    BY <1>9, <2>1, <2>2
  <2>3. ASSUME NEW k \in DOMAIN All \ {pick[i] : i \in 1 .. c}, NEW i \in 1 .. c
        PROVE  Precedes(pick[i], k)
    <3>1. PICK l \in 1 .. n : p[l] = k
      BY <1>2, <1>6
    <3>2. l \notin 1 .. c
      BY <1>9, <3>1
    <3>3. i \in 1 .. n /\ i < l
      BY <1>2, <3>2
    <3> QED  BY <1>9, <2>1, <3>1, <3>3
  <2> QED  BY <2>2, <2>3 DEF PicksFirst
<1>12. FirstInOrder(Picked(pick, c))
  BY <1>9, <1>11, FirstInOrderBy DEF c, n
<1> QED  BY <1>8, <1>10, <1>12 DEF c, n

(* So are the rows of the heap, read out in order.                         *)
LEMMA HeapFirst ==
    ASSUME PlanOK, MatchingOK, TableOK(table), plan.fused, IsFiniteSet(heap),
           \A x \in heap : x \in RowOf(Names),
           BestOf(heap, Len(All)), batch \in HeapOrders(plan.order, heap)
    PROVE  /\ Len(batch) = ResultSize(Len(All))
           /\ FirstInOrder(Cut(batch, ResultSize(Len(All)), stmt.cols))
<1>1. stmt.order # None /\ plan.order = stmt.order
  BY DEF PlanOK
<1> DEFINE n == Len(All)
           c == ResultSize(n)
<1>2. /\ All \in Seq(RowOf(Cols)) /\ n \in Nat /\ DOMAIN All = 1 .. n /\ c \in 0 .. n /\ Apart(All)
      /\ \A i \in 1 .. n :
            /\ Project(All[i], Names) \in RowOf(Names) /\ Project(All[i], Names).rid = All[i].rid
            /\ KeyRank(Project(All[i], Names)) = KeyRank(All[i]) /\ KeyRank(All[i]) \in Int
            /\ Project(Project(All[i], Names), stmt.cols) = Project(All[i], stmt.cols)
  BY <1>1, AllIs
<1>3. /\ batch \in Seq(RowOf(Names)) /\ Len(batch) = Cardinality(heap)
      /\ \A i \in 1 .. Len(batch) : batch[i] \in heap
      /\ \A i, j \in 1 .. Len(batch) : i # j => batch[i] # batch[j]
      /\ \A x \in heap : \E i \in 1 .. Len(batch) : batch[i] = x
      /\ \A i, j \in 1 .. Len(batch) : i < j => ~ Before(plan.order, batch[j], batch[i])
  BY HeapOrderIs
<1>4. PICK kept \in SUBSET (1 .. n) :
          /\ heap = {Project(All[i], Names) : i \in kept}
          /\ Cardinality(heap) = c
          /\ \A i \in kept, j \in (1 .. n) \ kept : KeyRank(All[i]) <= KeyRank(All[j])
  BY DEF BestOf
<1> HIDE DEF n, c
<1>5. Len(batch) = c
  BY <1>3, <1>4
<1> DEFINE pick == [i \in 1 .. c |-> CHOOSE k \in kept : batch[i] = Project(All[k], Names)]
<1>6. ASSUME NEW i \in 1 .. c
      PROVE  pick[i] \in kept /\ pick[i] \in 1 .. n /\ batch[i] = Project(All[pick[i]], Names)
  <2>1. \E k \in kept : batch[i] = Project(All[k], Names)
    BY <1>3, <1>4, <1>5, ZenonT(60)
  <2> QED  BY <2>1
<1>7. pick \in [1 .. c -> DOMAIN All]
  BY <1>2, <1>6
<1> HIDE DEF pick
<1>8. Cut(batch, c, stmt.cols) = Picked(pick, c)
  <2>1. ASSUME NEW i \in 1 .. c PROVE Project(batch[i], stmt.cols) = Project(All[pick[i]], stmt.cols)
    BY <1>2, <1>6
  <2> QED  BY <2>1 DEF Cut, Picked
<1>9. PicksFirst(pick, c)
  <2>1. ASSUME NEW i \in 1 .. c, NEW j \in 1 .. c, i < j
        PROVE  pick[i] # pick[j] /\ Precedes(pick[i], pick[j])
    <3>1. batch[i] # batch[j] /\ ~ Before(plan.order, batch[j], batch[i])
          /\ batch[i] \in RowOf(Names) /\ batch[j] \in RowOf(Names)
      BY <1>3, <1>5, <2>1
    <3>2. ~ (KeyRank(batch[j]) < KeyRank(batch[i]))
      BY <1>1, <3>1, RankOfRow
    <3>3. KeyRank(All[pick[i]]) = KeyRank(batch[i]) /\ KeyRank(All[pick[j]]) = KeyRank(batch[j])
          /\ KeyRank(batch[i]) \in Int /\ KeyRank(batch[j]) \in Int
      BY <1>2, <1>6
    <3>4. pick[i] # pick[j]
      BY <1>6, <3>1
    <3> QED  BY <3>2, <3>3, <3>4 DEF Precedes
  <2>2. ASSUME NEW k \in DOMAIN All \ {pick[i] : i \in 1 .. c}, NEW i \in 1 .. c
        PROVE  Precedes(pick[i], k)
    <3>1. k \in 1 .. n /\ \A l \in 1 .. c : pick[l] # k
      BY <1>2
    <3>2. k \notin kept
      <4> SUFFICES ASSUME k \in kept PROVE FALSE
        OBVIOUS
      <4>1. PICK l \in 1 .. c : batch[l] = Project(All[k], Names)
        BY <1>3, <1>4, <1>5
      <4>2. Project(All[pick[l]], Names) = Project(All[k], Names) /\ pick[l] \in 1 .. n
        BY <1>6, <4>1
      <4>3. All[pick[l]].rid = All[k].rid
        BY <1>2, <3>1, <4>2
      <4> QED  BY <1>2, <3>1, <4>2, <4>3 DEF Apart, n
    <3>3. KeyRank(All[pick[i]]) <= KeyRank(All[k])
      BY <1>4, <1>6, <3>1, <3>2
    <3>4. KeyRank(All[pick[i]]) \in Int /\ KeyRank(All[k]) \in Int
      BY <1>2, <1>6, <3>1
    <3> QED  BY <3>3, <3>4 DEF Precedes
  <2> QED  BY <2>1, <2>2 DEF PicksFirst
<1>10. FirstInOrder(Picked(pick, c))
  BY <1>7, <1>9, FirstInOrderBy DEF c, n
<1> QED  BY <1>5, <1>8, <1>10 DEF c, n

(* A blocking operator's one batch is the result, cut by the LIMIT.        *)
LEMMA BlockedEmitStep ==
    ASSUME SelectInv, Emit, pc = "emit"
    PROVE  SelectInv'
<1> DEFINE take == Take(Len(batch))
<1>1. /\ PlanOK /\ TableOK(table) /\ MatchingOK /\ Active /\ TypeOK /\ PlanPart /\ None \notin Nat
      /\ UNCHANGED <<table, stmt, plan, group, decoded, acc, heap>>
      /\ batch' = <<>> /\ batch \in Seq(RowOf(Names)) /\ Len(batch) \in Nat
      /\ take \in 0 .. Len(batch)
      /\ out' = out \o Cut(batch, take, stmt.cols)
      /\ out' \in Seq(RowOf(stmt.cols)) /\ Len(out') = Len(out) + take
      /\ remaining' = IF remaining = None THEN None ELSE remaining - take
      /\ remaining' = None \/ remaining' \in Nat
      /\ pc' = IF Blocking THEN "done" ELSE "pull"
      /\ plan.projection = stmt.cols
  BY Emitted, StatementAssumption DEF SelectInv, PlanOK
<1>2. /\ Blocking /\ group = Len(table) + 1 /\ Len(table) \in Nat
      /\ remaining = IF Limits(plan) THEN stmt.limit - Len(out) ELSE None
      /\ Sorts(plan) => /\ out = <<>> /\ acc = ProjectAll(Matching[Behind], Names)
                        /\ batch = StableSort(plan.order, acc)
      /\ plan.fused => out = <<>> /\ batch \in HeapOrders(plan.order, heap) /\ BestOf(heap, Seen)
      /\ IsFiniteSet(heap) /\ \A x \in heap : x \in RowOf(Names)
  BY <1>1 DEF SelectInv, BatchPart, SortPart, TopKPart, HeapHoldsBest, TypeOK, TableOK
<1>3. Behind = Len(table) /\ Seen = Len(All) /\ Matching[Behind] = All
  BY <1>2 DEF Behind, Seen, All
<1>4. /\ stmt.order # None /\ (Sorts(plan) \/ plan.fused) /\ (plan.fused => ~ Limits(plan))
      /\ Sorts(plan) => (Limits(plan) <=> stmt.limit # None)
      /\ stmt.limit # None => stmt.limit \in Nat
  BY <1>1, <1>2 DEF PlanOK, Blocking, Sorts, Limits
<1>5. Len(All) \in Nat
  BY <1>1, <1>4, AllIs
<1>6. /\ out = <<>> /\ take = ResultSize(Len(All))
      /\ FirstInOrder(Cut(batch, ResultSize(Len(All)), stmt.cols))
  <2>1. CASE Sorts(plan)
    <3>1. Len(batch) = Len(All) /\ FirstInOrder(Cut(batch, ResultSize(Len(All)), stmt.cols))
      BY <1>1, <1>2, <1>3, <2>1, SortedFirst
    <3>2. remaining = IF stmt.limit # None THEN stmt.limit ELSE None
      BY <1>2, <1>4, <2>1
    <3>3. take = ResultSize(Len(All))
      BY <1>1, <1>4, <3>1, <3>2 DEF Take, ResultSize
    <3> QED  BY <1>2, <2>1, <3>1, <3>3
  <2>2. CASE plan.fused
    <3>1. Len(batch) = ResultSize(Len(All)) /\ FirstInOrder(Cut(batch, ResultSize(Len(All)), stmt.cols))
      BY <1>1, <1>2, <1>3, <2>2, HeapFirst
    <3>2. take = Len(batch)
      BY <1>2, <1>4, <2>2 DEF Take
    <3> QED  BY <1>2, <2>2, <3>1, <3>2
  <2> QED  BY <1>4, <2>1, <2>2
<1> HIDE DEF take
<1>7. pc' = "done"
  BY <1>1, <1>2
<1>8. /\ Names' = Names /\ Blocking' = Blocking /\ (\A rows : FirstInOrder(rows)' = FirstInOrder(rows))
  BY <1>1, SameMeaning
<1>9. PlanPart' /\ LimitIsLazy' /\ FailsOnlyOnBadPredicate'
  BY <1>1, <1>7, Running DEF Active
<1>10. OrderedCorrect'
  <2> DEFINE r == Cut(batch, take, stmt.cols)
  <2>1. out' = <<>> \o r /\ FirstInOrder(r)
    BY <1>1, <1>6
  <2>2. r \in Seq(RowOf(stmt.cols))
    BY <1>1, CutIs DEF PlanOK
  <2> HIDE DEF r
  <2>3. out' = r
    BY <2>1, <2>2
  <2> QED  BY <1>8, <2>1, <2>3 DEF OrderedCorrect
<1>11. TypeOK'
  <2>1. <<>> \in Seq(RowOf(Names))
    OBVIOUS
  <2> QED  BY <1>1, <1>7, <1>8, <2>1 DEF TypeOK
<1>12. BatchPart'
  <2>1. Len(out) = 0
    BY <1>6
  <2>2. remaining' = IF Limits(plan) THEN stmt.limit - Len(out') ELSE None
    <3>1. CASE ~ Limits(plan)
      BY <1>1, <1>2, <3>1
    <3>2. CASE Limits(plan)
      <4>1. remaining \in Nat /\ remaining = stmt.limit
        BY <1>2, <1>4, <2>1, <3>2 DEF Limits, Sorts
      <4> QED  BY <1>1, <2>1, <3>2, <4>1
    <3> QED  BY <3>1, <3>2
  <2> QED  BY <1>1, <1>7, <2>2 DEF BatchPart, Active, Limits
<1>13. StreamPart' /\ SortPart' /\ TopKPart' /\ HeapHoldsBest'
  BY <1>2, <1>7, <1>8 DEF StreamPart, SortPart, TopKPart, HeapHoldsBest
<1> QED  BY <1>9, <1>10, <1>11, <1>12, <1>13 DEF SelectInv

(* Nothing happens.                                                        *)
LEMMA StutterStep ==
    ASSUME SelectInv, UNCHANGED vars
    PROVE  SelectInv'
<1>1. /\ Names' = Names /\ Blocking' = Blocking /\ Matching' = Matching
      /\ BadPredicate' = BadPredicate
      /\ \A g : Matches(g)' = Matches(g)
      /\ \A g, names : LoadRows(g, names)' = LoadRows(g, names)
      /\ \A n : Result(n)' = Result(n)
      /\ \A rows, n : BestOf(rows, n)' = BestOf(rows, n)
      /\ \A rows : FirstInOrder(rows)' = FirstInOrder(rows)
  BY SameMeaning DEF vars
<1>2. TypeOK'
  BY <1>1 DEF SelectInv, TypeOK, vars
<1>3. PlanPart'
  BY DEF SelectInv, PlanPart, vars
<1>4. Behind' = Behind /\ Seen' = Seen
  BY <1>1 DEF Behind, Seen, vars
<1>5. BatchPart' /\ StreamPart'
  BY <1>1, <1>4 DEF SelectInv, BatchPart, StreamPart, Active, vars
<1>6. SortPart' /\ TopKPart'
  BY <1>1, <1>4 DEF SelectInv, SortPart, TopKPart, Active, vars
<1>7. HeapHoldsBest' /\ OrderedCorrect' /\ LimitIsLazy' /\ FailsOnlyOnBadPredicate'
  BY <1>1, <1>4 DEF SelectInv, HeapHoldsBest, OrderedCorrect, LimitIsLazy, FailsOnlyOnBadPredicate, vars
<1> QED  BY <1>2, <1>3, <1>5, <1>6, <1>7 DEF SelectInv

---------------------------------------------------------------------------
(* The theorems *)

(* Every state the pipeline starts in satisfies the invariant.             *)
LEMMA SelectInit == Init => SelectInv
<1> SUFFICES ASSUME Init PROVE SelectInv
  OBVIOUS
<1>1. TableOK(table)
  BY TableAssumption DEF Init
<1>2. TypeOK
  <2>1. Len(table) \in Nat
    BY <1>1 DEF TableOK
  <2>2. <<>> \in Seq(RowOf(Names)) /\ <<>> \in Seq(RowOf(plan.projection)) /\ IsFiniteSet({})
    BY FS_EmptySet
  <2> QED  BY <1>1, <2>1, <2>2 DEF Init, TypeOK
<1>3. PlanPart /\ BatchPart /\ StreamPart /\ SortPart /\ TopKPart
  BY DEF Init, PlanPart, BatchPart, StreamPart, SortPart, TopKPart, Active
<1>4. HeapHoldsBest /\ OrderedCorrect /\ LimitIsLazy /\ FailsOnlyOnBadPredicate
  BY DEF Init, HeapHoldsBest, OrderedCorrect, LimitIsLazy, FailsOnlyOnBadPredicate
<1> QED  BY <1>2, <1>3, <1>4 DEF SelectInv

(* Every step keeps it.                                                    *)
LEMMA SelectStep == SelectInv /\ WhereSound /\ [Next]_vars => SelectInv'
<1> SUFFICES ASSUME SelectInv, WhereSound, [Next]_vars PROVE SelectInv'
  OBVIOUS
<1>1. ASSUME NEW s \in Statements, NEW optimize \in BOOLEAN, Submit(s, optimize) PROVE SelectInv'
  BY <1>1, SubmitStep
<1>2. CASE SkipGroup
  BY <1>2, SkipGroupStep
<1>3. CASE LoadGroup
  BY <1>3, LoadGroupStep
<1>4. CASE Filter
  BY <1>4, FilterStep
<1>5. CASE Collect
  BY <1>5, CollectStep
<1>6. CASE Admit
  BY <1>6, AdmitStep
<1>7. CASE Reject
  BY <1>7, RejectStep
<1>8. CASE NextBatch
  BY <1>8, NextBatchStep
<1>9. CASE EndOfScan
  BY <1>9, EndOfScanStep
<1>10. CASE Emit
  <2>1. pc \in {"sink", "emit"}
    BY <1>10, Emitted
  <2> QED  BY <1>10, <2>1, StreamEmitStep, BlockedEmitStep
<1>11. CASE LimitSpent
  BY <1>11, LimitSpentStep
<1>12. CASE Finish
  BY <1>12, FinishStep
<1>13. CASE UNCHANGED vars
  BY <1>13, StutterStep
<1> QED
  BY <1>1, <1>2, <1>3, <1>4, <1>5, <1>6, <1>7, <1>8, <1>9, <1>10, <1>11, <1>12, <1>13 DEF Next

(* LIMIT reached, the groups not looked at have no more to say.            *)
LEMMA EnoughIsAll ==
    ASSUME PlanOK, MatchingOK, TableOK(table), NEW n \in 0 .. Len(table), stmt.limit # None,
           out = Result(n), stmt.limit - Len(out) = 0
    PROVE  out = Result(Len(table))
<1> DEFINE m == Matching[n]
           all == Matching[Len(table)]
<1>1. stmt.limit \in Nat /\ Len(table) \in 0 .. Len(table) /\ n <= Len(table)
  BY DEF PlanOK, TableOK
<1>2. m \in Seq(RowOf(Cols)) /\ all \in Seq(RowOf(Cols)) /\ StartOf(m, all)
  BY <1>1 DEF MatchingOK, RowsUpTo
<1>3. /\ out = [i \in 1 .. ResultSize(Len(m)) |-> Project(m[i], stmt.cols)]
      /\ Result(Len(table)) = [i \in 1 .. ResultSize(Len(all)) |-> Project(all[i], stmt.cols)]
  BY DEF Result
<1> HIDE DEF m, all
<1>4. Len(m) \in Nat /\ Len(all) \in Nat /\ Len(m) <= Len(all) /\ \A i \in 1 .. Len(m) : all[i] = m[i]
  BY <1>2 DEF StartOf
<1>5. /\ ResultSize(Len(m)) = IF Len(m) <= stmt.limit THEN Len(m) ELSE stmt.limit
      /\ ResultSize(Len(all)) = IF Len(all) <= stmt.limit THEN Len(all) ELSE stmt.limit
  BY DEF ResultSize
<1>6. Len(out) = ResultSize(Len(m))
  <2>1. ResultSize(Len(m)) \in Nat
    BY <1>1, <1>4, <1>5
  <2> QED  BY <1>3, <2>1
<1>7. ResultSize(Len(m)) = stmt.limit /\ ResultSize(Len(all)) = stmt.limit /\ stmt.limit <= Len(m)
  BY <1>1, <1>4, <1>5, <1>6
<1>8. \A i \in 1 .. stmt.limit : all[i] = m[i]
  BY <1>1, <1>4, <1>7
<1> QED  BY <1>3, <1>7, <1>8

(* The invariant says what a SELECT without ORDER BY has collected.        *)
LEMMA UnorderedFollows == SelectInv => UnorderedCorrect
<1> SUFFICES ASSUME SelectInv, pc = "done", stmt.order = None
             PROVE  out = Result(Len(table))
  BY DEF UnorderedCorrect, Result, All
<1>1. PlanPart /\ TypeOK /\ TableOK(table) /\ Active
  BY DEF SelectInv, TypeOK, Active
<1>2. PlanOK /\ MatchingOK
  BY <1>1, PlanFacts, MatchingFacts
<1>3. ~ Blocking /\ ~ plan.fused /\ (Limits(plan) <=> stmt.limit # None)
  BY <1>2 DEF PlanOK, Blocking, Limits
<1>4. /\ out = Result(group - 1) /\ (remaining = 0 \/ group = Len(table) + 1)
      /\ group \in 1 .. Len(table) + 1 /\ Len(table) \in Nat
      /\ remaining = IF Limits(plan) THEN stmt.limit - Len(out) ELSE None
  BY <1>1, <1>3 DEF SelectInv, StreamPart, BatchPart, Behind, TypeOK, TableOK
<1>5. CASE group = Len(table) + 1
  <2>1. group - 1 = Len(table)
    BY <1>4, <1>5
  <2> QED  BY <1>4, <2>1
<1>6. CASE remaining = 0
  <2>1. stmt.limit # None /\ stmt.limit - Len(out) = 0
    BY <1>3, <1>4, <1>6, StatementAssumption
  <2>2. group - 1 \in 0 .. Len(table)
    BY <1>4
  <2> QED  BY <1>1, <1>2, <1>4, <2>1, <2>2, EnoughIsAll
<1> QED  BY <1>4, <1>5, <1>6

(* The invariant holds of every SELECT on every table, optimized or not,   *)
(* if the hints of its WHERE clause let through all that the clause keeps. *)
THEOREM SelectInvariance == WhereSound => (Spec => []SelectInv)
<1> SUFFICES ASSUME WhereSound PROVE Spec => []SelectInv
  OBVIOUS
<1>1. SelectInv /\ [Next]_vars => SelectInv'
  BY SelectStep
<1> QED  BY <1>1, SelectInit, PTL DEF Spec

(* Without ORDER BY, planned either way: all matching rows, or under LIMIT *)
(* the first ones.  Neither a pruned group nor a column left out of the    *)
(* scan, nor a deleted row, changes the answer.                            *)
THEOREM StreamsAreCorrect == WhereSound => (Spec => []UnorderedCorrect)
BY SelectInvariance, UnorderedFollows, PTL

(* With ORDER BY, planned either way: the first rows in the order of their *)
(* keys, stable under a plain sort; a TopK returns the keys a sort and a   *)
(* limit would.                                                            *)
THEOREM SortsAreCorrect == WhereSound => (Spec => []OrderedCorrect)
<1>1. SelectInv => OrderedCorrect
  BY DEF SelectInv
<1> QED  BY <1>1, SelectInvariance, PTL

(* After every row, TopKExec's heap is the best of the rows offered.       *)
THEOREM HeapIsBest == WhereSound => (Spec => []HeapHoldsBest)
<1>1. SelectInv => HeapHoldsBest
  BY DEF SelectInv
<1> QED  BY <1>1, SelectInvariance, PTL

(* Under LIMIT without ORDER BY, no group is decoded once the groups       *)
(* before it hold enough.                                                  *)
THEOREM ScansStopEarly == WhereSound => (Spec => []LimitIsLazy)
<1>1. SelectInv => LimitIsLazy
  BY DEF SelectInv
<1> QED  BY <1>1, SelectInvariance, PTL

(* Column push-down never takes a column away that an operator looks up:   *)
(* a SELECT that was bound fails on nothing but a WHERE clause that is no  *)
(* condition.                                                              *)
THEOREM PushDownIsSafe == WhereSound => (Spec => []FailsOnlyOnBadPredicate)
<1>1. SelectInv => FailsOnlyOnBadPredicate
  BY DEF SelectInv
<1> QED  BY <1>1, SelectInvariance, PTL

---------------------------------------------------------------------------
(* Pruning hints *)

(* What is wanted of one expression.                                       *)
ExprSound(expr) ==
    /\ Reads(expr) \subseteq Cols => \A row \in [Cols -> Values] : HintsAllow(expr, row)
    /\ \A row \in [Cols -> Values] : \A names \in SUBSET Cols : SameOn(expr, row, names)

(* A row over fewer columns.                                               *)
Narrowed(row, names) == [c \in names |-> row[c]]

(* A comparison keeps no row that its hint rejects: the operator is        *)
(* flipped with the operands.                                              *)
LEMMA CompareSound ==
    ASSUME NEW left, NEW op, NEW right, NEW row \in [Cols -> Values],
           IsIntLiteral(left) => left.val \in I64,
           IsIntLiteral(right) => right.val \in I64,
           CompareValues(Operand(left, row), op, Operand(right, row)),
           NEW p \in AsScanPredicate(left, op, right),
           p.column \in Cols, Type[p.column] = "Int"
    PROVE  p.value \in I64 /\ RowMatches(p.op, row[p.column], p.value)
<1> DEFINE c == p.column
<1>0. row[c] \in I64 \cup {Null} /\ Null \notin Int /\ I64 \subseteq Int
  BY I64Assumption DEF Values, I64
<1>1. CASE /\ left.node = "Column" /\ IsIntLiteral(right)
           /\ p = Hint(left.name, op, right.val)
  <2>1. c = left.name /\ p.op = op /\ p.value = right.val
    BY <1>1 DEF Hint
  <2>2. Operand(left, row).val = row[c] /\ Operand(right, row).val = p.value
    BY <1>1, <2>1 DEF Operand, IsIntLiteral
  <2>3. RowMatches(op, row[c], p.value)
    BY <2>2 DEF CompareValues
  <2> QED  BY <1>1, <2>1, <2>3
<1>2. CASE /\ right.node = "Column" /\ IsIntLiteral(left)
           /\ p = Hint(right.name, Flip(op), left.val)
  <2>1. c = right.name /\ p.op = Flip(op) /\ p.value = left.val
    BY <1>2 DEF Hint
  <2>2. Operand(right, row).val = row[c] /\ Operand(left, row).val = p.value
    BY <1>2, <2>1 DEF Operand, IsIntLiteral
  <2>3. RowMatches(op, p.value, row[c]) /\ row[c] # Null
    BY <2>2 DEF CompareValues
  <2>4. p.value \in I64 /\ p.value \in Int /\ row[c] \in Int
    BY <1>0, <1>2, <2>1, <2>3
  <2>5. RowMatches(Flip(op), row[c], p.value)
    BY <2>3, <2>4 DEF RowMatches, Flip
  <2> QED  BY <2>1, <2>4, <2>5
<1> QED  BY <1>1, <1>2 DEF AsScanPredicate

(* An expression is sound when those below it are.                         *)
LEMMA NodeSound ==
    ASSUME NEW expr,
           \A part \in Parts(expr) : ExprSound(part),
           \A part \in Parts(expr) : IsIntLiteral(part) => part.val \in I64,
           \A part \in Parts(expr) : ReadsByParts(part),
           ReadsByParts(expr), HintsByParts(expr),
           \A names \in SUBSET Cols : \A row \in [names -> Values] :
               Reads(expr) \subseteq names => KeepsByParts(expr, row)
    PROVE  ExprSound(expr)
<1>1. ASSUME expr.node \in {"Compare", "Logical"}
      PROVE  /\ Parts(expr) = {expr.left, expr.right}
             /\ Reads(expr.left) \subseteq Reads(expr) /\ Reads(expr.right) \subseteq Reads(expr)
  <2>1. Parts(expr) = {expr.left, expr.right}
    BY <1>1 DEF Parts
  <2>2. Reads(expr) = UNION {Reads(part) : part \in Parts(expr)}
    BY <1>1 DEF ReadsByParts
  <2> QED  BY <2>1, <2>2
<1>2. ASSUME Reads(expr) \subseteq Cols, NEW row \in [Cols -> Values], Keeps(expr, row),
             NEW p \in HintsOf(expr), p.column \in Cols, Type[p.column] = "Int"
      PROVE  p.value \in I64 /\ RowMatches(p.op, row[p.column], p.value)
  <2>1. KeepsByParts(expr, row)
    BY <1>2
  <2>2. CASE expr.node = "Compare"
    <3>1. CompareValues(Operand(expr.left, row), expr.op, Operand(expr.right, row))
      BY <1>2, <2>1, <2>2 DEF KeepsByParts
    <3>2. p \in AsScanPredicate(expr.left, expr.op, expr.right)
      BY <1>2, <2>2 DEF HintsByParts
    <3>3. /\ IsIntLiteral(expr.left) => expr.left.val \in I64
          /\ IsIntLiteral(expr.right) => expr.right.val \in I64
      BY <1>1, <2>2
    <3> QED  BY <1>2, <3>1, <3>2, <3>3, CompareSound
  <2>3. CASE expr.node # "Compare"
    <3>1. /\ expr.node = "Logical" /\ expr.op = "And"
          /\ p \in HintsOf(expr.left) \cup HintsOf(expr.right)
      BY <1>2, <2>3 DEF HintsByParts
    <3>2. Keeps(expr.left, row) /\ Keeps(expr.right, row)
      BY <1>2, <2>1, <3>1 DEF KeepsByParts
    <3>3. HintsAllow(expr.left, row) /\ HintsAllow(expr.right, row)
      BY <1>1, <1>2, <3>1 DEF ExprSound
    <3> QED  BY <1>2, <3>1, <3>2, <3>3 DEF HintsAllow
  <2> QED  BY <2>2, <2>3
<1>3. ASSUME NEW row \in [Cols -> Values], NEW names \in SUBSET Cols,
             Reads(expr) \subseteq names
      PROVE  Keeps(expr, Narrowed(row, names)) <=> Keeps(expr, row)
  <2> DEFINE narrow == Narrowed(row, names)
  <2>1. narrow \in [names -> Values]
    BY DEF Narrowed
  <2>2. KeepsByParts(expr, narrow) /\ KeepsByParts(expr, row)
    BY <1>3, <2>1
  <2>3. CASE expr.node = "Compare"
    <3>1. ASSUME NEW part \in Parts(expr) PROVE Operand(part, narrow) = Operand(part, row)
      <4>1. CASE part.node = "Column"
        <5>1. part.name \in names
          BY <1>1, <1>3, <2>3, <3>1, <4>1 DEF ReadsByParts
        <5>2. narrow[part.name] = row[part.name]
          BY <5>1 DEF Narrowed
        <5> HIDE DEF narrow
        <5> QED  BY <4>1, <5>2 DEF Operand
      <4>2. CASE part.node # "Column"
        BY <4>2 DEF Operand
      <4> QED  BY <4>1, <4>2
    <3> QED  BY <1>1, <2>2, <2>3, <3>1 DEF KeepsByParts
  <2>4. CASE expr.node = "Logical"
    <3>1. /\ Keeps(expr.left, narrow) <=> Keeps(expr.left, row)
          /\ Keeps(expr.right, narrow) <=> Keeps(expr.right, row)
      BY <1>1, <1>3, <2>4 DEF ExprSound, SameOn, Narrowed
    <3> QED  BY <2>2, <2>4, <3>1 DEF KeepsByParts
  <2>5. CASE expr.node \notin {"Compare", "Logical"}
    BY <2>2, <2>5 DEF KeepsByParts
  <2> QED  BY <2>3, <2>4, <2>5
<1>4. Reads(expr) \subseteq Cols => \A row \in [Cols -> Values] : HintsAllow(expr, row)
  BY <1>2 DEF HintsAllow
<1>5. \A row \in [Cols -> Values] : \A names \in SUBSET Cols : SameOn(expr, row, names)
  BY <1>3 DEF SameOn, Narrowed
<1> QED  BY <1>4, <1>5 DEF ExprSound

(* Every row a WHERE clause keeps is let through by every hint drawn from  *)
(* it, and the columns it names are enough to evaluate it, however its     *)
(* comparisons, ANDs and ORs nest (the claim of physical/prune.rs).        *)
THEOREM HintsAreSound ==
    ASSUME NEW Exprs, NEW depth, WhereTrees(Exprs, depth)
    PROVE  WhereSound
<1> DEFINE T == {n \in Nat : \A expr \in Exprs : depth[expr] < n => ExprSound(expr)}
<1>1. \A expr \in Exprs : depth[expr] \in Nat
  BY DEF WhereTrees, TreesByParts
<1>2. 0 \in T
  BY <1>1
<1>3. ASSUME NEW n \in Nat, n \in T PROVE n + 1 \in T
  <2> SUFFICES ASSUME NEW expr \in Exprs, depth[expr] < n + 1 PROVE ExprSound(expr)
    OBVIOUS
  <2>1. \A part \in Parts(expr) :
            part \in Exprs /\ depth[part] < depth[expr] /\ depth[part] \in Nat
    BY <1>1 DEF WhereTrees, TreesByParts
  <2>2. depth[expr] \in Nat
    BY <1>1
  <2>3. \A part \in Parts(expr) : depth[part] < n
    BY <2>1, <2>2
  <2>4. \A part \in Parts(expr) : ExprSound(part)
    BY <1>3, <2>1, <2>3
  <2>5. \A part \in Parts(expr) : (IsIntLiteral(part) => part.val \in I64) /\ ReadsByParts(part)
    BY <2>1 DEF WhereTrees, TreesByParts
  <2>6. /\ ReadsByParts(expr) /\ HintsByParts(expr)
        /\ \A names \in SUBSET Cols : \A row \in [names -> Values] :
              Reads(expr) \subseteq names => KeepsByParts(expr, row)
    BY DEF WhereTrees, TreesByParts
  <2> QED  BY <2>4, <2>5, <2>6, NodeSound
<1> HIDE DEF T
<1>4. Nat \subseteq T
  BY <1>2, <1>3, NatSetInduction
<1>5. ASSUME NEW expr \in Exprs PROVE ExprSound(expr)
  <2>1. depth[expr] \in Nat /\ depth[expr] + 1 \in T /\ depth[expr] < depth[expr] + 1
    BY <1>1, <1>4
  <2> QED  BY <2>1 DEF T
<1> QED  BY <1>5 DEF WhereSound, WhereTrees, TreesByParts, ExprSound
============================================================================
