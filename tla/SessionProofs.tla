---------------------------- MODULE SessionProofs ----------------------------
(***************************************************************************)
(* The commands, for every parser, every set of commands and tables of     *)
(* every size: the handle a command works with is about the table its name *)
(* stands for, no two columns of a table share a file, and what the binder *)
(* let through is carried out.                                             *)
(***************************************************************************)
EXTENDS Session, RidOrderProofs

---------------------------------------------------------------------------
(* Sequences *)

(* What a sequence is to the provers.                                      *)
LEMMA SequenceIs ==
    ASSUME NEW s, IsSequence(s)
    PROVE  Len(s) \in Nat /\ DOMAIN s = 1 .. Len(s) /\ s = [i \in 1 .. Len(s) |-> s[i]]
  BY DEF IsSequence

(* A function on 1 .. n is one.                                            *)
LEMMA FunctionIsSequence ==
    ASSUME NEW n \in Nat, NEW f, f = [i \in 1 .. n |-> f[i]]
    PROVE  IsSequence(f) /\ Len(f) = n /\ DOMAIN f = 1 .. n
<1>1. DOMAIN f = 1 .. n
  OBVIOUS
<1>2. \A i \in 1 .. n : f[i] \in ToSet(f)
  BY <1>1 DEF ToSet
<1>3. f \in Seq(ToSet(f))
  BY <1>2
<1> QED  BY <1>1, <1>3 DEF IsSequence

(* j is the first n elements of s and t behind them.                       *)
ExtendedBy(s, n, t, j) ==
    /\ IsSequence(j) /\ Len(j) = n + Len(t)
    /\ \A i \in 1 .. n : j[i] = s[i]
    /\ \A i \in 1 .. Len(t) : j[n + i] = t[i]
    /\ \A k \in 1 .. n + Len(t) : k \in 1 .. n \/ \E i \in 1 .. Len(t) : k = n + i

(* The beginning of a sequence with another behind it is one too.          *)
LEMMA Extended ==
    ASSUME NEW s, IsSequence(s), NEW n \in 0 .. Len(s), NEW t, IsSequence(t)
    PROVE  ExtendedBy(s, n, t, SubSeq(s, 1, n) \o t)
<1> DEFINE T == ToSet(s) \cup ToSet(t)
           a == SubSeq(s, 1, n)
           j == a \o t
<1>1. s \in Seq(T) /\ t \in Seq(T) /\ n \in Nat /\ Len(t) \in Nat /\ Len(s) \in Nat
  <2>1. s \in Seq(ToSet(s)) /\ t \in Seq(ToSet(t))
    BY DEF IsSequence
  <2> QED  BY <2>1
<1> HIDE DEF T
<1>2. a \in Seq(T) /\ Len(a) = n /\ \A i \in 1 .. n : a[i] = s[i]
  BY <1>1
<1> HIDE DEF a
<1>3. /\ j \in Seq(T) /\ Len(j) = n + Len(t)
      /\ \A i \in 1 .. n : j[i] = a[i]
      /\ \A i \in 1 .. Len(t) : j[n + i] = t[i]
  BY <1>1, <1>2
<1> HIDE DEF j
<1>4. j = [i \in 1 .. n + Len(t) |-> j[i]] /\ n + Len(t) \in Nat
  BY <1>1, <1>3
<1>5. IsSequence(j)
  BY <1>4, FunctionIsSequence
<1>6. ASSUME NEW k \in 1 .. n + Len(t), k \notin 1 .. n
      PROVE  \E i \in 1 .. Len(t) : k = n + i
  <2>1. k - n \in 1 .. Len(t) /\ k = n + (k - n)
    BY <1>1, <1>6
  <2> QED  BY <2>1
<1>7. ExtendedBy(s, n, t, j)
  BY ONLY <1>2, <1>3, <1>5, <1>6 DEF ExtendedBy
<1> QED  BY <1>7 DEF a, j

---------------------------------------------------------------------------
(* Looking up a table *)

(* The manifest of the table that a name stands for.                       *)
Manifest(name) == manifest[catalog[name]]

(* The files, apart from what a process holds in memory.                   *)
DiskPart ==
    /\ nextId \in Nat \ {0}
    /\ DOMAIN manifest \subseteq 1 .. nextId - 1 /\ DOMAIN groups = DOMAIN manifest
    /\ \A i \in DOMAIN manifest :
          /\ DOMAIN manifest[i] = {"id", "name", "columns", "next_rid"}
          /\ IsSequence(manifest[i].columns) /\ IsSequence(groups[i])
          /\ manifest[i].next_rid \in Nat
    /\ CatalogPart /\ RowsPart /\ ColumnFilesDistinct

(* A name stands for at most one table.                                    *)
LEMMA DescribeIs ==
    ASSUME NEW name
    PROVE  /\ name \notin DOMAIN catalog => DescribeTable(name) = {}
           /\ name \in DOMAIN catalog =>
                 DescribeTable(name) =
                    {[id |-> Manifest(name).id, name |-> Manifest(name).name,
                      columns |-> Manifest(name).columns, dir |-> catalog[name],
                      next_rid |-> Manifest(name).next_rid]}
<1>1. CASE name \notin DOMAIN catalog
  BY <1>1 DEF DescribeTable
<1>2. CASE name \in DOMAIN catalog
  <2>1. {name} \cap DOMAIN catalog = {name}
    BY <1>2
  <2>2. {catalog[n] : n \in {name}} = {catalog[name]}
    OBVIOUS
  <2> QED  BY <1>2, <2>1, <2>2 DEF DescribeTable, Manifest
<1> QED  BY <1>1, <1>2

(* Nor does opening it give more than one handle.                          *)
LEMMA OpenIs ==
    ASSUME NEW name
    PROVE  /\ name \notin DOMAIN catalog => OpenTable(name) = {}
           /\ name \in DOMAIN catalog =>
                 OpenTable(name) = {[name |-> Manifest(name).name,
                                     columns |-> Manifest(name).columns,
                                     dir |-> catalog[name]]}
<1>1. CASE name \notin DOMAIN catalog
  BY <1>1, DescribeIs DEF OpenTable
<1>2. CASE name \in DOMAIN catalog
  <2> DEFINE d == [id |-> Manifest(name).id, name |-> Manifest(name).name,
                   columns |-> Manifest(name).columns, dir |-> catalog[name],
                   next_rid |-> Manifest(name).next_rid]
  <2>1. DescribeTable(name) = {d}
    BY <1>2, DescribeIs
  <2>2. /\ d.name = Manifest(name).name /\ d.columns = Manifest(name).columns
        /\ d.dir = catalog[name]
    OBVIOUS
  <2> HIDE DEF d
  <2>3. OpenTable(name) = {[name |-> d.name, columns |-> d.columns, dir |-> d.dir]}
    BY <2>1 DEF OpenTable
  <2> QED  BY <1>2, <2>2, <2>3
<1> QED  BY <1>1, <1>2

---------------------------------------------------------------------------
(* What the changes of the files keep *)

(* A table that is made has a directory and files of its own.              *)
LEMMA CreateKeeps ==
    ASSUME DiskPart, NEW name, NEW columns, IsSequence(columns),
           CanCreate(name, columns), CreateTable(name, columns)
    PROVE  DiskPart'
<1> DEFINE made == [id |-> nextId, name |-> name, columns |-> columns, next_rid |-> 0]
<1>1. /\ manifest' = With(manifest, nextId, made)
      /\ groups' = With(groups, nextId, <<>>)
      /\ catalog' = With(catalog, name, nextId)
      /\ nextId' = nextId + 1
  BY DEF CreateTable
<1>2. /\ made.name = name /\ made.columns = columns /\ made.next_rid = 0
      /\ DOMAIN made = {"id", "name", "columns", "next_rid"}
  OBVIOUS
<1> HIDE DEF made
<1>3. /\ nextId \in Nat \ {0} /\ nextId \notin DOMAIN manifest
      /\ DOMAIN manifest \subseteq 1 .. nextId - 1 /\ DOMAIN groups = DOMAIN manifest
  BY DEF DiskPart
<1>4. /\ DOMAIN manifest' = DOMAIN manifest \cup {nextId}
      /\ DOMAIN groups' = DOMAIN manifest \cup {nextId}
      /\ DOMAIN catalog' = DOMAIN catalog \cup {name}
      /\ manifest'[nextId] = made /\ groups'[nextId] = <<>> /\ catalog'[name] = nextId
      /\ \A i \in DOMAIN manifest : manifest'[i] = manifest[i] /\ groups'[i] = groups[i]
      /\ \A n \in DOMAIN catalog : n # name => catalog'[n] = catalog[n]
  BY <1>1, <1>3 DEF With
<1>5. IsSequence(<<>>) /\ Len(<<>>) = 0
  BY DEF IsSequence
<1>6. DOMAIN manifest' \subseteq 1 .. nextId' - 1 /\ nextId' \in Nat \ {0}
  BY <1>1, <1>3, <1>4
<1>7. \A i \in DOMAIN manifest' :
          /\ DOMAIN manifest'[i] = {"id", "name", "columns", "next_rid"}
          /\ IsSequence(manifest'[i].columns) /\ IsSequence(groups'[i])
          /\ manifest'[i].next_rid \in Nat
  BY <1>2, <1>4, <1>5 DEF DiskPart
<1>8. CatalogPart'
  <2>1. name \notin DOMAIN catalog
    BY DEF CanCreate
  <2>2. \A n \in DOMAIN catalog : catalog[n] \in DOMAIN manifest /\ manifest[catalog[n]].name = n
    BY DEF DiskPart, CatalogPart
  <2> QED  BY <1>2, <1>3, <1>4, <2>1, <2>2 DEF CatalogPart
<1>9. RowsPart'
  <2>1. \A i \in DOMAIN manifest :
            /\ Len(groups[i]) = manifest[i].next_rid
            /\ \A r \in DOMAIN groups[i] :
                  /\ DOMAIN groups[i][r] = {"values", "dead"}
                  /\ IsSequence(groups[i][r].values)
                  /\ ValidRecord(manifest[i].columns, groups[i][r].values)
    BY DEF DiskPart, RowsPart
  <2>2. DOMAIN <<>> = {}
    OBVIOUS
  <2>3. \A i \in DOMAIN manifest' : Len(groups'[i]) = manifest'[i].next_rid
    BY <1>2, <1>4, <1>5, <2>1
  <2>4. \A i \in DOMAIN manifest' : \A r \in DOMAIN groups'[i] :
            /\ DOMAIN groups'[i][r] = {"values", "dead"}
            /\ IsSequence(groups'[i][r].values)
            /\ ValidRecord(manifest'[i].columns, groups'[i][r].values)
    BY <1>2, <1>4, <2>1, <2>2
  <2> QED  BY <2>3, <2>4 DEF RowsPart, ValidRecord
<1>10. ColumnFilesDistinct'
  <2>1. \A i \in DOMAIN manifest : \A c, d \in DOMAIN manifest[i].columns :
            Fold(manifest[i].columns[c].name) = Fold(manifest[i].columns[d].name) => c = d
    BY DEF DiskPart, ColumnFilesDistinct
  <2>2. \A c, d \in DOMAIN columns : Fold(columns[c].name) = Fold(columns[d].name) => c = d
    <3> SUFFICES ASSUME NEW c \in DOMAIN columns, NEW d \in DOMAIN columns,
                        Fold(columns[c].name) = Fold(columns[d].name), c # d
                 PROVE  FALSE
      OBVIOUS
    <3>1. DOMAIN columns = 1 .. Len(columns) /\ Len(columns) \in Nat
      BY SequenceIs
    <3>2. \A i \in DOMAIN columns :
             Fold(columns[i].name) \notin {Fold(columns[j].name) : j \in 1 .. i - 1}
      BY DEF CanCreate, ValidSchema
    <3>3. c \in 1 .. d - 1 \/ d \in 1 .. c - 1
      BY <3>1
    <3> QED  BY <3>2, <3>3
  <2>3. \A i \in DOMAIN manifest' : \A c, d \in DOMAIN manifest'[i].columns :
            Fold(manifest'[i].columns[c].name) = Fold(manifest'[i].columns[d].name) => c = d
    BY <1>2, <1>4, <2>1, <2>2
  <2> QED  BY <2>3 DEF ColumnFilesDistinct, Fold
<1> QED  BY <1>4, <1>6, <1>7, <1>8, <1>9, <1>10 DEF DiskPart, IsSequence, ToSet

(* A table that is dropped takes nothing of another one with it.           *)
LEMMA DropKeeps ==
    ASSUME DiskPart, NEW name \in DOMAIN catalog, DropTable(name)
    PROVE  DiskPart' /\ name \notin DOMAIN catalog'
<1> DEFINE gone == catalog[name]
<1>1. /\ DOMAIN catalog' = DOMAIN catalog \ {name}
      /\ DOMAIN manifest' = DOMAIN manifest \ {gone}
      /\ DOMAIN groups' = DOMAIN groups \ {gone}
      /\ \A n \in DOMAIN catalog' : catalog'[n] = catalog[n]
      /\ \A i \in DOMAIN manifest' : manifest'[i] = manifest[i]
      /\ \A i \in DOMAIN groups' : groups'[i] = groups[i]
      /\ nextId' = nextId
  BY DEF DropTable
<1>2. /\ nextId \in Nat \ {0}
      /\ DOMAIN manifest \subseteq 1 .. nextId - 1 /\ DOMAIN groups = DOMAIN manifest
      /\ \A i \in DOMAIN manifest :
            /\ DOMAIN manifest[i] = {"id", "name", "columns", "next_rid"}
            /\ IsSequence(manifest[i].columns) /\ IsSequence(groups[i])
            /\ manifest[i].next_rid \in Nat
  BY DEF DiskPart
<1>3. CatalogPart'
  <2>1. \A n \in DOMAIN catalog : catalog[n] \in DOMAIN manifest /\ manifest[catalog[n]].name = n
    BY DEF DiskPart, CatalogPart
  <2>2. \A n \in DOMAIN catalog' : catalog[n] # gone
    BY <1>1, <2>1
  <2> HIDE DEF gone
  <2> QED  BY <1>1, <2>1, <2>2 DEF CatalogPart
<1> HIDE DEF gone
<1>4. RowsPart'
  <2>1. \A i \in DOMAIN manifest :
            /\ Len(groups[i]) = manifest[i].next_rid
            /\ \A r \in DOMAIN groups[i] :
                  /\ DOMAIN groups[i][r] = {"values", "dead"}
                  /\ IsSequence(groups[i][r].values)
                  /\ ValidRecord(manifest[i].columns, groups[i][r].values)
    BY DEF DiskPart, RowsPart
  <2>2. \A i \in DOMAIN manifest' : i \in DOMAIN manifest /\ i \in DOMAIN groups'
    BY <1>1, <1>2
  <2> QED  BY <1>1, <2>1, <2>2 DEF RowsPart, ValidRecord
<1>5. ColumnFilesDistinct'
  BY <1>1 DEF DiskPart, ColumnFilesDistinct, Fold
<1> QED  BY <1>1, <1>2, <1>3, <1>4, <1>5 DEF DiskPart

(* What a handle shows of the tables stays the same.                       *)
SameTables ==
    /\ catalog' = catalog /\ nextId' = nextId
    /\ DOMAIN manifest' = DOMAIN manifest
    /\ \A i \in DOMAIN manifest : /\ DOMAIN manifest'[i] = DOMAIN manifest[i]
                                  /\ manifest'[i].name = manifest[i].name
                                  /\ manifest'[i].columns = manifest[i].columns

(* Other rows in the files of one table: as many as next_rid says, and     *)
(* each fits.                                                              *)
LEMMA RowsReplaced ==
    ASSUME DiskPart, SameTables, NEW d \in DOMAIN manifest,
           NEW rows, IsSequence(rows),
           groups' = [groups EXCEPT ![d] = rows],
           manifest'[d].next_rid = Len(rows),
           \A i \in DOMAIN manifest : i # d => manifest'[i].next_rid = manifest[i].next_rid,
           \A r \in DOMAIN rows : /\ DOMAIN rows[r] = {"values", "dead"}
                                  /\ IsSequence(rows[r].values)
                                  /\ ValidRecord(manifest[d].columns, rows[r].values)
    PROVE  DiskPart'
<1>1. /\ nextId \in Nat \ {0}
      /\ DOMAIN manifest \subseteq 1 .. nextId - 1 /\ DOMAIN groups = DOMAIN manifest
      /\ \A i \in DOMAIN manifest :
            /\ DOMAIN manifest[i] = {"id", "name", "columns", "next_rid"}
            /\ IsSequence(manifest[i].columns) /\ IsSequence(groups[i])
            /\ manifest[i].next_rid \in Nat
  BY DEF DiskPart
<1>2. /\ DOMAIN groups' = DOMAIN manifest /\ groups'[d] = rows
      /\ \A i \in DOMAIN manifest : i # d => groups'[i] = groups[i]
  BY <1>1
<1>3. Len(rows) \in Nat
  BY SequenceIs
<1>4. CatalogPart'
  BY DEF DiskPart, CatalogPart, SameTables
<1>5. RowsPart'
  <2>1. \A i \in DOMAIN manifest :
            /\ Len(groups[i]) = manifest[i].next_rid
            /\ \A r \in DOMAIN groups[i] :
                  /\ DOMAIN groups[i][r] = {"values", "dead"}
                  /\ IsSequence(groups[i][r].values)
                  /\ ValidRecord(manifest[i].columns, groups[i][r].values)
    BY DEF DiskPart, RowsPart
  <2>2. ASSUME NEW i \in DOMAIN manifest
        PROVE  /\ Len(groups'[i]) = manifest'[i].next_rid
               /\ \A r \in DOMAIN groups'[i] :
                     /\ DOMAIN groups'[i][r] = {"values", "dead"}
                     /\ IsSequence(groups'[i][r].values)
                     /\ ValidRecord(manifest[i].columns, groups'[i][r].values)
    <3>1. CASE i = d
      BY <3>1, <1>2
    <3>2. CASE i # d
      BY <3>2, <1>2, <2>1
    <3> QED  BY <3>1, <3>2
  <2> QED  BY <2>2 DEF RowsPart, SameTables, ValidRecord
<1>6. ColumnFilesDistinct'
  <2>1. \A i \in DOMAIN manifest : \A a, b \in DOMAIN manifest[i].columns :
            Fold(manifest[i].columns[a].name) = Fold(manifest[i].columns[b].name) => a = b
    BY DEF DiskPart, ColumnFilesDistinct
  <2>2. \A i \in DOMAIN manifest' : i \in DOMAIN manifest /\ manifest'[i].columns = manifest[i].columns
    BY DEF SameTables
  <2>3. \A i \in DOMAIN manifest' : \A a, b \in DOMAIN manifest'[i].columns :
            Fold(manifest'[i].columns[a].name) = Fold(manifest'[i].columns[b].name) => a = b
    BY <2>1, <2>2
  <2> QED  BY <2>3 DEF ColumnFilesDistinct, Fold
<1>7. \A i \in DOMAIN manifest' :
          /\ DOMAIN manifest'[i] = {"id", "name", "columns", "next_rid"}
          /\ IsSequence(manifest'[i].columns) /\ IsSequence(groups'[i])
          /\ manifest'[i].next_rid \in Nat
  <2>1. ASSUME NEW i \in DOMAIN manifest
        PROVE  IsSequence(groups'[i]) /\ manifest'[i].next_rid \in Nat
    BY <1>1, <1>2, <1>3
  <2> QED  BY <1>1, <2>1 DEF SameTables
<1> QED  BY <1>1, <1>2, <1>4, <1>5, <1>6, <1>7 DEF DiskPart, SameTables, IsSequence, ToSet

(* Opening after the step.                                                 *)
LEMMA OpenIsNext ==
    ASSUME NEW name
    PROVE  (/\ name \notin DOMAIN catalog => OpenTable(name) = {}
            /\ name \in DOMAIN catalog =>
                  OpenTable(name) = {[name |-> Manifest(name).name,
                                      columns |-> Manifest(name).columns,
                                      dir |-> catalog[name]]})'
<1>1. /\ name \notin DOMAIN catalog => OpenTable(name) = {}
      /\ name \in DOMAIN catalog =>
            OpenTable(name) = {[name |-> Manifest(name).name,
                                columns |-> Manifest(name).columns,
                                dir |-> catalog[name]]}
  BY OpenIs
<1> QED  BY <1>1, PTL

(* A handle is found in the same place, with the same columns.             *)
LEMMA OpensAgain ==
    ASSUME CatalogPart, SameTables, NEW name
    PROVE  OpenTable(name)' = OpenTable(name)
<1>1. CASE name \notin DOMAIN catalog
  <2>1. OpenTable(name) = {}
    BY <1>1, OpenIs
  <2>2. OpenTable(name)' = {}
    BY <1>1 DEF SameTables, OpenTable, DescribeTable
  <2> QED  BY <2>1, <2>2
<1>2. CASE name \in DOMAIN catalog
  <2>1. OpenTable(name) = {[name |-> Manifest(name).name, columns |-> Manifest(name).columns,
                            dir |-> catalog[name]]}
    BY <1>2, OpenIs
  <2>2. OpenTable(name)' = {[name |-> Manifest(name)'.name, columns |-> Manifest(name)'.columns,
                             dir |-> catalog'[name]]}
    BY <1>2, OpenIsNext DEF SameTables
  <2>3. /\ Manifest(name)'.name = Manifest(name).name /\ catalog'[name] = catalog[name]
        /\ Manifest(name)'.columns = Manifest(name).columns
    BY <1>2 DEF SameTables, CatalogPart, Manifest
  <2> QED  BY <2>1, <2>2, <2>3
<1> QED  BY <1>1, <1>2

(* What a handle knows.                                                    *)
LEMMA HandleIs ==
    ASSUME CatalogPart, NEW name, NEW h, OpenTable(name) = {h}
    PROVE  /\ name \in DOMAIN catalog /\ h.name = name
           /\ h.dir = catalog[name] /\ h.dir \in DOMAIN manifest
           /\ h.columns = manifest[h.dir].columns
<1>1. name \in DOMAIN catalog
  BY OpenIs
<1>2. h = [name |-> Manifest(name).name, columns |-> Manifest(name).columns,
           dir |-> catalog[name]]
  BY <1>1, OpenIs
<1> QED  BY <1>1, <1>2 DEF CatalogPart, Manifest

(* Rows are appended to the table of the handle and to no other; the       *)
(* others of its rows are what they were, or dead.                         *)
LEMMA AppendKeeps ==
    ASSUME DiskPart, NEW name, NEW h, OpenTable(name) = {h},
           NEW rows, IsSequence(rows), Len(rows) = Len(groups[h.dir]),
           \A r \in DOMAIN rows : /\ DOMAIN rows[r] = {"values", "dead"}
                                  /\ rows[r].values = groups[h.dir][r].values,
           NEW records, IsSequence(records),
           \A r \in DOMAIN records : /\ IsSequence(records[r])
                                     /\ ValidRecord(h.columns, records[r]),
           AppendRows(h, rows, records)
    PROVE  DiskPart' /\ SameTables
<1> DEFINE d == catalog[h.name]
           from == manifest[d].next_rid
           new == [i \in DOMAIN records |-> [values |-> records[i], dead |-> FALSE]]
           all == SubSeq(rows, 1, from) \o new
<1>1. /\ groups' = [groups EXCEPT ![h.dir] = all]
      /\ manifest' = [manifest EXCEPT ![d].next_rid = from + Len(records)]
      /\ UNCHANGED <<catalog, nextId>>
  BY DEF AppendRows
<1>2. d = h.dir /\ d \in DOMAIN manifest /\ h.columns = manifest[d].columns
  <2>1. CatalogPart
    BY DEF DiskPart
  <2> QED  BY <2>1, HandleIs
<1>3. from = Len(rows) /\ from \in Nat /\ DOMAIN rows = 1 .. from
  BY <1>2, SequenceIs DEF DiskPart, RowsPart
<1>4. Len(records) \in Nat /\ DOMAIN records = 1 .. Len(records)
  BY SequenceIs
<1>5. /\ IsSequence(new) /\ Len(new) = Len(records)
      /\ \A i \in 1 .. Len(records) : new[i].values = records[i] /\ DOMAIN new[i] = {"values", "dead"}
  <2>1. /\ new = [i \in 1 .. Len(records) |-> new[i]]
        /\ \A i \in 1 .. Len(records) : new[i].values = records[i] /\ DOMAIN new[i] = {"values", "dead"}
    BY <1>4
  <2> HIDE DEF new
  <2> QED  BY <2>1, <1>4, FunctionIsSequence
<1> HIDE DEF new
<1>6. /\ IsSequence(all) /\ Len(all) = from + Len(new)
      /\ \A i \in 1 .. from : all[i] = rows[i]
      /\ \A i \in 1 .. Len(new) : all[from + i] = new[i]
      /\ \A k \in 1 .. from + Len(new) :
            k \in 1 .. from \/ \E i \in 1 .. Len(new) : k = from + i
  <2>1. from \in 0 .. Len(rows)
    BY <1>3
  <2> HIDE DEF from, all
  <2>2. IsSequence(new)
    BY <1>5
  <2>3. ExtendedBy(rows, from, new, SubSeq(rows, 1, from) \o new)
    BY ONLY <2>1, <2>2, IsSequence(rows), Extended
  <2>4. ExtendedBy(rows, from, new, all)
    BY <2>3 DEF all
  <2> QED  BY ONLY <2>4 DEF ExtendedBy
<1> HIDE DEF all
<1>7. DOMAIN all = 1 .. from + Len(records)
  BY <1>5, <1>6, SequenceIs
<1>8. \A i \in DOMAIN groups[h.dir] :
         /\ IsSequence(groups[h.dir][i].values)
         /\ ValidRecord(h.columns, groups[h.dir][i].values)
  BY <1>2 DEF DiskPart, RowsPart
<1>9. DOMAIN groups[h.dir] = DOMAIN rows
  <2>1. IsSequence(groups[h.dir])
    BY <1>2 DEF DiskPart
  <2> QED  BY <2>1, SequenceIs
<1>10. \A r \in DOMAIN all : /\ DOMAIN all[r] = {"values", "dead"}
                             /\ IsSequence(all[r].values)
                             /\ ValidRecord(manifest[d].columns, all[r].values)
  <2> SUFFICES ASSUME NEW r \in DOMAIN all
               PROVE  /\ DOMAIN all[r] = {"values", "dead"}
                      /\ IsSequence(all[r].values)
                      /\ ValidRecord(h.columns, all[r].values)
    BY <1>2
  <2>1. CASE r \in 1 .. from
    BY <2>1, <1>3, <1>6, <1>8, <1>9
  <2>2. CASE r \notin 1 .. from
    <3>1. PICK i \in 1 .. Len(new) : r = from + i
      BY <2>2, <1>5, <1>6, <1>7
    <3>2. /\ all[r].values = records[i] /\ i \in DOMAIN records
          /\ DOMAIN all[r] = {"values", "dead"}
      BY <3>1, <1>4, <1>5, <1>6
    <3> QED  BY <3>2
  <2> QED  BY <2>1, <2>2
<1>11. SameTables
  <2>1. DOMAIN manifest[d] = {"id", "name", "columns", "next_rid"}
    BY <1>2 DEF DiskPart
  <2>2. /\ manifest'[d] = [manifest[d] EXCEPT !.next_rid = from + Len(records)]
        /\ DOMAIN manifest' = DOMAIN manifest
        /\ \A i \in DOMAIN manifest : i # d => manifest'[i] = manifest[i]
    BY <1>1, <1>2
  <2> HIDE DEF from, d
  <2>3. /\ manifest'[d].name = manifest[d].name /\ manifest'[d].columns = manifest[d].columns
        /\ DOMAIN manifest'[d] = DOMAIN manifest[d]
    BY <2>1, <2>2
  <2> QED  BY <1>1, <2>2, <2>3 DEF SameTables
<1>12. /\ manifest'[d].next_rid = Len(all)
       /\ \A i \in DOMAIN manifest : i # d => manifest'[i].next_rid = manifest[i].next_rid
  <2>1. manifest'[d] = [manifest[d] EXCEPT !.next_rid = from + Len(records)]
    BY <1>1, <1>2
  <2>2. DOMAIN manifest[d] = {"id", "name", "columns", "next_rid"}
    BY <1>2 DEF DiskPart
  <2> HIDE DEF from, d
  <2> QED  BY <1>1, <1>2, <1>5, <1>6, <2>1, <2>2
<1> HIDE DEF d
<1> QED  BY <1>1, <1>2, <1>6, <1>10, <1>11, <1>12, RowsReplaced

(* Tombstones change no value.                                             *)
LEMMA TombstonedIs ==
    ASSUME DiskPart, NEW name, NEW h, OpenTable(name) = {h}, NEW rids
    PROVE  /\ IsSequence(Tombstoned(h, rids))
           /\ Len(Tombstoned(h, rids)) = Len(groups[h.dir])
           /\ DOMAIN Tombstoned(h, rids) = DOMAIN groups[h.dir]
           /\ \A r \in DOMAIN Tombstoned(h, rids) :
                 /\ DOMAIN Tombstoned(h, rids)[r] = {"values", "dead"}
                 /\ Tombstoned(h, rids)[r].values = groups[h.dir][r].values
<1> DEFINE rows == Tombstoned(h, rids)
<1>1. h.dir \in DOMAIN manifest
  BY HandleIs DEF DiskPart
<1>2. IsSequence(groups[h.dir])
  BY <1>1 DEF DiskPart
<1>3. Len(groups[h.dir]) \in Nat /\ DOMAIN groups[h.dir] = 1 .. Len(groups[h.dir])
  BY <1>2, SequenceIs
<1>4. /\ rows = [i \in 1 .. Len(groups[h.dir]) |-> rows[i]]
      /\ \A i \in 1 .. Len(groups[h.dir]) :
            rows[i] = [groups[h.dir][i] EXCEPT !.dead = @ \/ i - 1 \in rids]
  BY <1>3 DEF Tombstoned
<1>5. \A i \in 1 .. Len(groups[h.dir]) : DOMAIN groups[h.dir][i] = {"values", "dead"}
  BY <1>1, <1>3 DEF DiskPart, RowsPart
<1> HIDE DEF rows
<1>6. \A i \in 1 .. Len(groups[h.dir]) : /\ DOMAIN rows[i] = {"values", "dead"}
                                         /\ rows[i].values = groups[h.dir][i].values
  BY <1>4, <1>5
<1>7. IsSequence(rows) /\ Len(rows) = Len(groups[h.dir]) /\ DOMAIN rows = 1 .. Len(groups[h.dir])
  BY <1>3, <1>4, FunctionIsSequence
<1> QED  BY <1>3, <1>6, <1>7 DEF rows

---------------------------------------------------------------------------
(* The records an UPDATE writes *)

(* One round of the loop of NewRecord.                                     *)
Round(sets, columns, record, f, n) ==
    IF n = 0 THEN record
    ELSE [f[n - 1] EXCEPT ![Position(columns, sets[n].column)] = sets[n].value]

(* What the loop makes of the record in n rounds.                          *)
Rounds(sets, columns, record, n, f) ==
    f = [i \in 0 .. n |-> Round(sets, columns, record, f, i)]

(* The loop has a result for every number of rounds.                       *)
LEMMA RoundsExist ==
    ASSUME NEW sets, NEW columns, NEW record
    PROVE  \A n \in Nat : \E f : Rounds(sets, columns, record, n, f)
<1> DEFINE T == {n \in Nat : \E f : f = [i \in 0 .. n |-> Round(sets, columns, record, f, i)]}
<1>1. 0 \in T
  <2> DEFINE g == [i \in 0 .. 0 |-> record]
  <2>1. g = [i \in 0 .. 0 |-> Round(sets, columns, record, g, i)]
    BY DEF Round
  <2> QED  BY <2>1
<1>2. ASSUME NEW n \in Nat, n \in T PROVE n + 1 \in T
  <2>1. PICK f : f = [i \in 0 .. n |-> Round(sets, columns, record, f, i)]
    BY <1>2
  <2> DEFINE g == [i \in 0 .. n + 1 |->
                      IF i = n + 1 THEN Round(sets, columns, record, f, n + 1) ELSE f[i]]
  <2>2. ASSUME NEW i \in 0 .. n + 1 PROVE g[i] = Round(sets, columns, record, g, i)
    <3>1. CASE i = 0
      BY <3>1, <2>1 DEF Round
    <3>2. CASE i # 0 /\ i # n + 1
      <4>1. i \in 0 .. n /\ i - 1 \in 0 .. n + 1 /\ i - 1 # n + 1
        BY <3>2
      <4>2. f[i] = Round(sets, columns, record, f, i)
        BY <4>1, <2>1
      <4>3. g[i] = f[i] /\ g[i - 1] = f[i - 1]
        BY <4>1, <3>2
      <4> HIDE DEF g
      <4> QED  BY <4>2, <4>3 DEF Round
    <3>3. CASE i = n + 1
      <4>1. i - 1 = n /\ n \in 0 .. n + 1 /\ n # n + 1
        BY <3>3
      <4>2. g[i] = Round(sets, columns, record, f, i) /\ g[i - 1] = f[i - 1]
        BY <4>1, <3>3
      <4> HIDE DEF g
      <4> QED  BY <4>2 DEF Round
    <3> QED  BY <3>1, <3>2, <3>3
  <2>3. g = [i \in 0 .. n + 1 |-> Round(sets, columns, record, g, i)]
    <3>1. g = [i \in 0 .. n + 1 |-> g[i]]
      OBVIOUS
    <3> HIDE DEF g
    <3> QED  BY <2>2, <3>1
  <2> HIDE DEF g
  <2> QED  BY <2>3
<1> HIDE DEF T
<1>3. Nat \subseteq T
  BY <1>1, <1>2, NatSetInduction
<1> QED  BY <1>3 DEF T, Rounds

(* No two columns have one name.                                           *)
NamesDistinct(columns) ==
    \A c, d \in DOMAIN columns : columns[c].name = columns[d].name => c = d

(* A record that fits.                                                     *)
FitRecord(columns, record) == IsSequence(record) /\ ValidRecord(columns, record)

(* One value that the binder has checked, and the record still fits.       *)
LEMMA AssignOne ==
    ASSUME NEW columns, IsSequence(columns), NamesDistinct(columns),
           NEW record, FitRecord(columns, record),
           NEW name, NEW value,
           \E i \in DOMAIN columns : columns[i].name = name /\ CheckValue(value, columns[i])
    PROVE  FitRecord(columns, [record EXCEPT ![Position(columns, name)] = value])
<1> DEFINE p == Position(columns, name)
           new == [record EXCEPT ![p] = value]
<1>1. PICK i \in DOMAIN columns : columns[i].name = name /\ CheckValue(value, columns[i])
  OBVIOUS
<1>2. p = i
  <2>1. p \in DOMAIN columns /\ columns[p].name = name
    BY <1>1 DEF Position
  <2> QED  BY <1>1, <2>1 DEF NamesDistinct
<1> HIDE DEF p
<1>3. /\ Len(record) \in Nat /\ DOMAIN record = 1 .. Len(record)
      /\ record = [j \in 1 .. Len(record) |-> record[j]]
      /\ DOMAIN columns = 1 .. Len(columns) /\ Len(record) = Len(columns)
  BY SequenceIs DEF FitRecord, ValidRecord
<1>4. /\ new = [j \in 1 .. Len(record) |-> new[j]]
      /\ \A j \in 1 .. Len(record) : new[j] = IF j = i THEN value ELSE record[j]
  BY <1>2, <1>3
<1> HIDE DEF new
<1>5. IsSequence(new) /\ Len(new) = Len(record) /\ DOMAIN new = 1 .. Len(record)
  BY <1>3, <1>4, FunctionIsSequence
<1>6. ASSUME NEW j \in DOMAIN new
      PROVE  IF new[j].ty = "Null" THEN columns[j].nullable ELSE new[j].ty = columns[j].ty
  <2>1. CASE j = i
    BY <1>1, <1>4, <1>5, <2>1 DEF CheckValue
  <2>2. CASE j # i
    BY <1>3, <1>4, <1>5, <2>2 DEF FitRecord, ValidRecord
  <2> QED  BY <2>1, <2>2
<1> QED  BY <1>3, <1>5, <1>6 DEF FitRecord, ValidRecord, new, p

(* All of them.                                                            *)
LEMMA NewRecordFits ==
    ASSUME IsSequence(Handle.columns), NamesDistinct(Handle.columns),
           NEW record, FitRecord(Handle.columns, record), IsSequence(Plan.assignments),
           \A a \in ToSet(Plan.assignments) :
               \E i \in DOMAIN Handle.columns :
                   /\ Handle.columns[i].name = a.column
                   /\ CheckValue(a.value, Handle.columns[i])
    PROVE  FitRecord(Handle.columns, NewRecord(record))
<1> DEFINE columns == Handle.columns
           sets == Plan.assignments
           n == Len(sets)
           f == CHOOSE g : Rounds(sets, columns, record, n, g)
<1>1. n \in Nat /\ DOMAIN sets = 1 .. n
  BY SequenceIs
<1>2. f = [i \in 0 .. n |-> Round(sets, columns, record, f, i)]
  <2>1. Rounds(sets, columns, record, n, f)
    <3> HIDE DEF sets, columns, n
    <3>1. \E g : Rounds(sets, columns, record, n, g)
      BY ONLY <1>1, RoundsExist
    <3> QED  BY ONLY <3>1
  <2> QED  BY ONLY <2>1 DEF Rounds
<1>3. NewRecord(record) = f[n]
  BY DEF NewRecord, Round, Rounds
<1>4. /\ IsSequence(columns) /\ NamesDistinct(columns) /\ FitRecord(columns, record)
      /\ \A i \in 1 .. n : \E j \in DOMAIN columns :
            columns[j].name = sets[i].column /\ CheckValue(sets[i].value, columns[j])
  BY <1>1 DEF ToSet
<1> HIDE DEF f, n, sets, columns
<1> DEFINE T == {k \in Nat : k <= n => FitRecord(columns, f[k])}
<1>5. 0 \in T
  <2>1. f[0] = record
    BY <1>1, <1>2 DEF Round
  <2> QED  BY <1>4, <2>1
<1>6. ASSUME NEW k \in Nat, k \in T PROVE k + 1 \in T
  <2> SUFFICES ASSUME k + 1 <= n PROVE FitRecord(columns, f[k + 1])
    OBVIOUS
  <2>1. FitRecord(columns, f[k])
    BY <1>1, <1>6
  <2>2. k + 1 \in 0 .. n /\ k + 1 \in 1 .. n /\ k + 1 # 0 /\ (k + 1) - 1 = k
    BY <1>1
  <2>3. f[k + 1] = [f[k] EXCEPT ![Position(columns, sets[k + 1].column)] = sets[k + 1].value]
    <3>1. f[k + 1] = Round(sets, columns, record, f, k + 1)
      BY ONLY <1>2, <2>2
    <3> QED  BY ONLY <3>1, <2>2 DEF Round
  <2>4. \E j \in DOMAIN columns :
           columns[j].name = sets[k + 1].column /\ CheckValue(sets[k + 1].value, columns[j])
    BY <1>4, <2>2
  <2> QED  BY <1>4, <2>1, <2>3, <2>4, AssignOne
<1>7. Nat \subseteq T
  <2> HIDE DEF T
  <2> QED  BY <1>5, <1>6, NatSetInduction
<1>8. FitRecord(columns, f[n])
  BY <1>1, <1>7
<1> QED  BY <1>3, <1>8 DEF columns

---------------------------------------------------------------------------
(* What a scan finds *)

(* Every record of the table fits its columns.                             *)
LEMMA ScanFits ==
    ASSUME DiskPart, NEW name, NEW h, OpenTable(name) = {h}
    PROVE  /\ Len(Scan(h)) \in Nat /\ DOMAIN Scan(h) = 1 .. Len(Scan(h))
           /\ \A i \in 1 .. Len(Scan(h)) : FitRecord(h.columns, Scan(h)[i])
<1> DEFINE S == ScanRids(h)
           n == manifest[catalog[h.name]].next_rid
           rids == InRidOrder(S, n)
           scan == Scan(h)
<1>1. CatalogPart
  BY DEF DiskPart
<1>2. /\ catalog[h.name] = h.dir /\ h.dir \in DOMAIN manifest
      /\ h.columns = manifest[h.dir].columns
  BY <1>1, HandleIs
<1>3. n \in Nat /\ n = Len(groups[h.dir]) /\ IsSequence(groups[h.dir])
  BY <1>2 DEF DiskPart, RowsPart
<1>4. DOMAIN groups[h.dir] = 1 .. n
  BY <1>3, SequenceIs
<1>5. Lists(rids, S, n)
  <2> HIDE DEF S, n
  <2> QED  BY <1>3, CollectsInOrder
<1>6. scan = [i \in DOMAIN rids |-> groups[h.dir][rids[i] + 1].values]
  BY DEF Scan
<1> HIDE DEF S, n, rids, scan
<1>7. rids \in Seq(Nat) /\ \A i \in 1 .. Len(rids) : rids[i] < n
  BY <1>5 DEF Lists
<1>8. Len(rids) \in Nat /\ DOMAIN rids = 1 .. Len(rids)
  BY <1>7
<1>9. \A i \in 1 .. Len(rids) : rids[i] + 1 \in 1 .. n
  BY <1>3, <1>7, <1>8
<1>10. /\ scan = [i \in 1 .. Len(rids) |-> scan[i]]
       /\ \A i \in 1 .. Len(rids) : scan[i] = groups[h.dir][rids[i] + 1].values
  BY <1>6, <1>8
<1>11. Len(scan) = Len(rids) /\ DOMAIN scan = 1 .. Len(rids)
  BY <1>8, <1>10, FunctionIsSequence
<1>12. \A r \in 1 .. n : FitRecord(h.columns, groups[h.dir][r].values)
  BY <1>2, <1>4 DEF DiskPart, RowsPart, FitRecord
<1> QED  BY <1>8, <1>9, <1>10, <1>11, <1>12 DEF scan

---------------------------------------------------------------------------
(* What the binder lets through *)

(* There is one plan at most.                                              *)
LEMMA OnePlan ==
    ASSUME NEW ast, NEW p \in Bind(ast), NEW q \in Bind(ast)
    PROVE  p = q
<1>1. CASE ast.stmt = "CreateTable"
  <2>1. p \in BindCreateTable(ast) /\ q \in BindCreateTable(ast)
    BY <1>1 DEF Bind
  <2> QED  BY <2>1 DEF BindCreateTable
<1>2. CASE ast.stmt = "Insert"
  <2>1. p \in BindInsert(ast) /\ q \in BindInsert(ast)
    BY <1>2 DEF Bind
  <2> QED  BY <2>1 DEF BindInsert
<1>3. CASE ast.stmt = "Select"
  <2>1. p \in BindSelect(ast) /\ q \in BindSelect(ast)
    BY <1>3 DEF Bind
  <2>2. \A d, e \in DescribeTable(ast.from) : d = e
    BY DescribeIs
  <2> QED  BY <2>1, <2>2 DEF BindSelect
<1>4. CASE ast.stmt = "Update"
  <2>1. p \in BindUpdate(ast) /\ q \in BindUpdate(ast)
    BY <1>4 DEF Bind
  <2> QED  BY <2>1 DEF BindUpdate
<1>5. CASE ast.stmt = "ShowTables"
  <2>1. p \in {[exec |-> "ShowTables"]} /\ q \in {[exec |-> "ShowTables"]}
    BY <1>5 DEF Bind
  <2> QED  BY <2>1
<1>6. CASE ast.stmt \notin {"CreateTable", "Insert", "Select", "Update", "ShowTables"}
  <2>1. p \in BindNamed(ast.stmt, ast) /\ q \in BindNamed(ast.stmt, ast)
    BY <1>6 DEF Bind
  <2> QED  BY <2>1 DEF BindNamed
<1> QED  BY <1>1, <1>2, <1>3, <1>4, <1>5, <1>6

(* What the executor may count on.                                         *)
Bound(p) ==
    /\ p.exec = "CreateTable" => ValidSchema(p.table, p.columns) /\ IsSequence(p.columns)
    /\ p.exec = "Insert" =>
          /\ IsSequence(p.values)
          /\ \E d \in DescribeTable(p.table) :
                /\ Len(p.values) = Len(d.columns)
                /\ \A i \in DOMAIN d.columns : CheckValue(p.values[i], d.columns[i])
    /\ p.exec = "Update" =>
          /\ IsSequence(p.assignments)
          /\ \E d \in DescribeTable(p.table) : \A a \in ToSet(p.assignments) :
                \E i \in DOMAIN d.columns :
                    d.columns[i].name = a.column /\ CheckValue(a.value, d.columns[i])
    /\ p.exec \in {"Insert", "Update", "Delete", "Projection", "DropTable", "Describe"} =>
          p.table \in DOMAIN catalog

(* The binder has seen to it.                                              *)
LEMMA BindBinds ==
    ASSUME NEW ast, IsAst(ast), NEW p \in Bind(ast)
    PROVE  Bound(p)
<1>1. \A name : DescribeTable(name) # {} => name \in DOMAIN catalog
  BY DescribeIs
<1>2. CASE ast.stmt = "CreateTable"
  <2>1. p \in BindCreateTable(ast)
    BY <1>2 DEF Bind
  <2>2. /\ p = [exec |-> "CreateTable", table |-> ast.table, columns |-> ast.columns]
        /\ ValidSchema(ast.table, ast.columns)
    BY <2>1 DEF BindCreateTable
  <2>3. p.exec = "CreateTable" /\ p.table = ast.table /\ p.columns = ast.columns
    BY <2>2
  <2> QED  BY <1>2, <2>2, <2>3 DEF Bound, IsAst
<1>3. CASE ast.stmt = "Insert"
  <2>1. p \in BindInsert(ast)
    BY <1>3 DEF Bind
  <2>2. PICK d \in DescribeTable(ast.table) :
            /\ Len(ast.values) = Len(d.columns)
            /\ \A i \in DOMAIN d.columns : CheckValue(ast.values[i], d.columns[i])
    BY <2>1 DEF BindInsert
  <2>3. p.exec = "Insert" /\ p.table = ast.table /\ p.values = ast.values
    BY <2>1 DEF BindInsert
  <2> QED  BY <1>1, <1>3, <2>2, <2>3 DEF Bound, IsAst
<1>4. CASE ast.stmt = "Select"
  <2>1. p \in BindSelect(ast)
    BY <1>4 DEF Bind
  <2>2. DescribeTable(ast.from) # {} /\ p.exec = "Projection" /\ p.table = ast.from
    BY <2>1 DEF BindSelect
  <2> QED  BY <1>1, <2>2 DEF Bound
<1>5. CASE ast.stmt = "Update"
  <2>1. p \in BindUpdate(ast)
    BY <1>5 DEF Bind
  <2>2. PICK d \in DescribeTable(ast.table) :
            \A a \in ToSet(ast.assignments) : \E i \in DOMAIN d.columns :
                d.columns[i].name = a.column /\ CheckValue(a.value, d.columns[i])
    BY <2>1 DEF BindUpdate
  <2>3. p.exec = "Update" /\ p.table = ast.table /\ p.assignments = ast.assignments
    BY <2>1 DEF BindUpdate
  <2> QED  BY <1>1, <1>5, <2>2, <2>3 DEF Bound, IsAst
<1>6. CASE ast.stmt = "ShowTables"
  <2>1. p.exec = "ShowTables"
    BY <1>6 DEF Bind
  <2> QED  BY <2>1 DEF Bound
<1>7. CASE ast.stmt \notin {"CreateTable", "Insert", "Select", "Update", "ShowTables"}
  <2>1. p \in BindNamed(ast.stmt, ast)
    BY <1>7 DEF Bind
  <2>2. DescribeTable(ast.table) # {} /\ p.exec = ast.stmt /\ p.table = ast.table
    BY <2>1 DEF BindNamed
  <2> QED  BY <1>1, <1>7, <2>2 DEF Bound
<1> QED  BY <1>2, <1>3, <1>4, <1>5, <1>6, <1>7

(* So it is for the plan that is carried out.                              *)
LEMMA PlanIs ==
    ASSUME ProcessPart, pc \in {"execute", "opened"}
    PROVE  plan = {Plan} /\ Bound(Plan)
<1>1. PICK ast \in parsed : IsAst(ast) /\ plan = Bind(ast) /\ plan # {}
  BY DEF ProcessPart
<1>2. Plan \in plan
  BY <1>1 DEF Plan
<1>3. \A p \in plan : p = Plan
  BY <1>1, <1>2, OnePlan
<1>4. Bound(Plan)
  BY <1>1, <1>2, BindBinds
<1> QED  BY <1>2, <1>3, <1>4

---------------------------------------------------------------------------
(* The steps *)

(* The steps of bench gen and where each one goes on.                      *)
LEMMA StepsAre ==
    /\ ToSet(GenerateSteps) = {"drop", "create", "open", "load"}
    /\ GoOn("drop") => pc' = "create"
    /\ GoOn("create") => pc' = "open"
    /\ GoOn("open") => pc' = "load"
    /\ \A step : At(step) => /\ asked.cmd = "bench gen" /\ answer = NoAnswer
                             /\ pc = IF step = "drop" THEN "generate" ELSE step
<1> DEFINE steps == <<"drop", "create", "open", "load">>
<1>1. /\ DOMAIN steps = 1 .. 4 /\ Head(steps) = "drop"
      /\ steps[1] = "drop" /\ steps[2] = "create" /\ steps[3] = "open" /\ steps[4] = "load"
  OBVIOUS
<1>2. GenerateSteps = steps
  BY DEF GenerateSteps
<1> HIDE DEF steps
<1>3. \A i \in DOMAIN steps : i = 1 \/ i = 2 \/ i = 3 \/ i = 4
  BY <1>1
<1>4. 1 \in DOMAIN steps /\ 2 \in DOMAIN steps /\ 3 \in DOMAIN steps /\ 4 \in DOMAIN steps
  BY <1>1
<1>5. ToSet(steps) = {"drop", "create", "open", "load"}
  BY <1>1, <1>3, <1>4 DEF ToSet
<1>6. /\ (CHOOSE i \in DOMAIN steps : steps[i] = "drop") = 1
      /\ (CHOOSE i \in DOMAIN steps : steps[i] = "create") = 2
      /\ (CHOOSE i \in DOMAIN steps : steps[i] = "open") = 3
  BY <1>1, <1>3, <1>4
<1>7. \A step : GoOn(step) => pc' = steps[(CHOOSE i \in DOMAIN steps : steps[i] = step) + 1]
  BY <1>2 DEF GoOn
<1>8. /\ GoOn("drop") => pc' = steps[2]
      /\ GoOn("create") => pc' = steps[3]
      /\ GoOn("open") => pc' = steps[4]
  <2>1. 1 + 1 = 2 /\ 2 + 1 = 3 /\ 3 + 1 = 4
    OBVIOUS
  <2>2. GoOn("drop") => pc' = steps[2]
    <3>1. GoOn("drop") => pc' = steps[(CHOOSE i \in DOMAIN steps : steps[i] = "drop") + 1]
      BY ONLY <1>7
    <3> QED  BY ONLY <3>1, <1>6, <2>1
  <2>3. GoOn("create") => pc' = steps[3]
    <3>1. GoOn("create") => pc' = steps[(CHOOSE i \in DOMAIN steps : steps[i] = "create") + 1]
      BY ONLY <1>7
    <3> QED  BY ONLY <3>1, <1>6, <2>1
  <2>4. GoOn("open") => pc' = steps[4]
    <3>1. GoOn("open") => pc' = steps[(CHOOSE i \in DOMAIN steps : steps[i] = "open") + 1]
      BY ONLY <1>7
    <3> QED  BY ONLY <3>1, <1>6, <2>1
  <2> QED  BY <2>2, <2>3, <2>4
<1>9. \A step : At(step) => /\ asked.cmd = "bench gen" /\ answer = NoAnswer
                            /\ pc = IF step = "drop" THEN "generate" ELSE step
  BY <1>1, <1>2 DEF At
<1> QED  BY <1>1, <1>2, <1>5, <1>8, <1>9

(* A process that has answered is gone.                                    *)
LEMMA Answered ==
    ASSUME DiskPart', NEW reply, reply # NoAnswer, Answer(reply)
    PROVE  SessionInv'
<1>1. /\ pc' = "idle" /\ answer' = reply /\ answer' # NoAnswer
      /\ handle' = {} /\ plan' = {} /\ loaded' = 0
  BY DEF Answer
<1>2. TypeOK'
  BY <1>1 DEF DiskPart, TypeOK, IsSequence, ToSet
<1>3. ProcessPart'
  BY <1>1 DEF ProcessPart, Running, NoAnswer
<1>4. GeneratePart'
  <2>1. pc' \notin {"generate"} \cup {"drop", "create", "open", "load"}
    BY <1>1
  <2>2. ToSet(GenerateSteps)' = {"drop", "create", "open", "load"}
    BY StepsAre DEF GenerateSteps, ToSet
  <2>3. pc' \notin {"generate"} \cup ToSet(GenerateSteps)'
    BY <2>1, <2>2
  <2>4. pc' # "create" /\ pc' # "open" /\ pc' # "load"
    BY <2>1
  <2> QED  BY <2>3, <2>4 DEF GeneratePart
<1>5. HandleFresh'
  BY <1>1 DEF HandleFresh
<1> QED  BY <1>2, <1>3, <1>4, <1>5 DEF SessionInv, DiskPart

(* The answers differ.                                                     *)
LEMMA AnswersDiffer ==
    /\ Refused # NoAnswer /\ Done # NoAnswer /\ Done # Refused
    /\ \A x : [names |-> x] # NoAnswer /\ [names |-> x] # Refused
    /\ \A x : [columns |-> x] # NoAnswer /\ [columns |-> x] # Refused
    /\ \A x, y : [header |-> x, rows |-> y] # NoAnswer /\ [header |-> x, rows |-> y] # Refused
  BY DEF Refused, Done, NoAnswer

(* The files stay as they are while a step touches none.                   *)
LEMMA DiskUntouched ==
    ASSUME DiskPart, UNCHANGED disk
    PROVE  DiskPart' /\ SameTables
<1>1. UNCHANGED <<catalog, nextId, manifest, groups>>
  BY DEF disk
<1>2. CatalogPart'
  BY <1>1 DEF DiskPart, CatalogPart
<1>3. RowsPart'
  BY <1>1 DEF DiskPart, RowsPart, ValidRecord
<1>4. ColumnFilesDistinct'
  BY <1>1 DEF DiskPart, ColumnFilesDistinct, Fold
<1> QED  BY <1>1, <1>2, <1>3, <1>4 DEF DiskPart, SameTables

(* The parts of the invariant.                                             *)
LEMMA Parts ==
    /\ SessionInv => DiskPart
    /\ (DiskPart /\ loaded \in Nat
        /\ pc \in {"idle", "parsed", "execute", "opened", "generate"} \cup ToSet(GenerateSteps)
        /\ ProcessPart /\ GeneratePart /\ HandleFresh)'
       => SessionInv'
  BY DEF SessionInv, DiskPart, TypeOK

(* Binding and opening look at nothing but the catalog and the manifests.  *)
LEMMA LooksAgain ==
    ASSUME UNCHANGED <<catalog, manifest>>
    PROVE  /\ \A ast : Bind(ast)' = Bind(ast)
           /\ \A name : OpenTable(name)' = OpenTable(name)
<1>1. \A name : DescribeTable(name)' = DescribeTable(name)
  BY DEF DescribeTable
<1>2. \A name : OpenTable(name)' = OpenTable(name)
  BY <1>1 DEF OpenTable
<1>3. \A ast : /\ BindCreateTable(ast)' = BindCreateTable(ast)
               /\ BindInsert(ast)' = BindInsert(ast)
               /\ BindSelect(ast)' = BindSelect(ast)
               /\ BindUpdate(ast)' = BindUpdate(ast)
               /\ \A exec : BindNamed(exec, ast)' = BindNamed(exec, ast)
  BY <1>1 DEF BindCreateTable, BindInsert, BindSelect, BindUpdate, BindNamed, CheckValue,
              HasColumn, NamesOf, ToSet, ValidSchema, ValidIdentifier, Fold
<1>4. \A ast : Bind(ast)' = Bind(ast)
  BY <1>3 DEF Bind
<1> QED  BY <1>2, <1>4

(* A process starts.                                                       *)
LEMMA SubmitStep == SessionInv /\ Submit => SessionInv'
<1> SUFFICES ASSUME SessionInv, Submit PROVE SessionInv'
  OBVIOUS
<1>1. PICK command \in Commands :
          /\ asked' = command
          /\ \/ command.cmd = "bench gen" /\ pc' = "generate" /\ parsed' = {}
             \/ /\ command.cmd # "bench gen" /\ pc' = "parsed"
                /\ parsed' = Lowered(command.text)
  BY DEF Submit
<1>2. /\ pc = "idle" /\ answer' = NoAnswer
      /\ plan' = plan /\ handle' = handle /\ loaded' = loaded /\ UNCHANGED disk
  BY DEF Submit
<1>3. plan = {} /\ handle = {} /\ loaded \in Nat /\ DiskPart
  BY <1>2, Parts DEF SessionInv, ProcessPart, TypeOK
<1>4. DiskPart'
  BY <1>2, <1>3, DiskUntouched
<1>5. ProcessPart'
  BY <1>1, <1>2, <1>3 DEF ProcessPart, Running
<1>6. ToSet(GenerateSteps)' = {"drop", "create", "open", "load"}
  BY StepsAre DEF GenerateSteps, ToSet
<1>7. GeneratePart'
  BY <1>1, <1>6 DEF GeneratePart
<1>8. HandleFresh'
  BY <1>2, <1>3 DEF HandleFresh
<1> QED  BY <1>1, <1>2, <1>3, <1>4, <1>5, <1>7, <1>8, Parts

(* It binds what it has parsed.                                            *)
LEMMA BindStep == SessionInv /\ BindCommand => SessionInv'
<1> SUFFICES ASSUME SessionInv, BindCommand PROVE SessionInv'
  OBVIOUS
<1> DEFINE bound == UNION {Bind(ast) : ast \in parsed}
<1>1. /\ pc = "parsed" /\ UNCHANGED disk
      /\ \/ Answer(Refused)
         \/ Answer(Done)
         \/ /\ bound # {} /\ plan' = bound /\ pc' = "execute"
            /\ UNCHANGED <<asked, answer, parsed, handle, loaded>>
  BY DEF BindCommand
<1>2. DiskPart' /\ SameTables
  BY <1>1, Parts, DiskUntouched
<1>3. CASE Answer(Refused) \/ Answer(Done)
  BY <1>2, <1>3, Answered, AnswersDiffer
<1>4. CASE /\ bound # {} /\ plan' = bound /\ pc' = "execute"
           /\ UNCHANGED <<asked, answer, parsed, handle, loaded>>
  <2>1. /\ asked \in Commands /\ asked.cmd # "bench gen" /\ parsed = Lowered(asked.text)
        /\ answer = NoAnswer /\ handle = {} /\ loaded \in Nat
    BY <1>1 DEF SessionInv, ProcessPart, TypeOK
  <2>2. PICK ast \in parsed : TRUE
    BY <1>4
  <2>3. IsAst(ast) /\ parsed = {ast}
    BY <2>1, <2>2, CommandAssumption
  <2>4. bound = Bind(ast)
    BY <2>3
  <2>5. Bind(ast)' = Bind(ast)
    BY <1>1, LooksAgain DEF disk
  <2>6. IsAst(ast)'
    BY <2>3 DEF IsAst, IsSequence, ToSet
  <2> HIDE DEF bound
  <2>7. \E x \in parsed' : IsAst(x)' /\ plan' = Bind(x)' /\ plan' # {}
    BY <1>4, <2>2, <2>4, <2>5, <2>6
  <2>8. ProcessPart'
    BY <1>4, <2>1, <2>7 DEF ProcessPart
  <2>9. ToSet(GenerateSteps)' = {"drop", "create", "open", "load"}
    BY StepsAre DEF GenerateSteps, ToSet
  <2>10. GeneratePart'
    BY <1>4, <2>9 DEF GeneratePart
  <2>11. HandleFresh'
    BY <1>4, <2>1 DEF HandleFresh
  <2> QED  BY <1>2, <1>4, <2>1, <2>8, <2>10, <2>11, Parts
<1> QED  BY <1>1, <1>3, <1>4

(* A statement that is refused while it is carried out wanted to make a    *)
(* table whose name is taken.                                              *)
RefusedForName == answer' = Refused => Plan.exec = "CreateTable" /\ Plan.table \in DOMAIN catalog

(* A statement without a handle.                                           *)
LEMMA NamedSteps ==
    ASSUME SessionInv,
           ExecCreateTable \/ ExecDropTable \/ ExecShowTables \/ ExecDescribe
    PROVE  SessionInv' /\ RefusedForName
<1>1. pc = "execute" /\ ProcessPart /\ DiskPart
  BY Parts DEF SessionInv, ExecCreateTable, ExecDropTable, ExecShowTables, ExecDescribe, Executes
<1>2. plan = {Plan} /\ Bound(Plan)
  BY <1>1, PlanIs
<1>3. \A exec : Executes(exec) => Plan.exec = exec
  BY <1>2 DEF Executes
<1>4. CASE ExecCreateTable
  <2>1. /\ Plan.exec = "CreateTable"
        /\ IF CanCreate(Plan.table, Plan.columns)
           THEN CreateTable(Plan.table, Plan.columns) /\ Answer(Done)
           ELSE Answer(Refused) /\ UNCHANGED disk
    BY <1>3, <1>4 DEF ExecCreateTable
  <2>2. ValidSchema(Plan.table, Plan.columns) /\ IsSequence(Plan.columns)
    BY <1>2, <2>1 DEF Bound
  <2>3. CASE CanCreate(Plan.table, Plan.columns)
    <3>1. DiskPart'
      BY <1>1, <2>1, <2>2, <2>3, CreateKeeps
    <3>2. Answer(Done)
      BY <2>1, <2>3
    <3> QED  BY <3>1, <3>2, Answered, AnswersDiffer DEF RefusedForName, Answer
  <2>4. CASE ~ CanCreate(Plan.table, Plan.columns)
    <3>1. DiskPart'
      BY <1>1, <2>1, <2>4, DiskUntouched
    <3>2. SessionInv'
      BY <2>1, <2>4, <3>1, Answered, AnswersDiffer
    <3> QED  BY <2>1, <2>2, <2>4, <3>2 DEF RefusedForName, CanCreate
  <2> QED  BY <2>3, <2>4
<1>5. CASE ExecDropTable
  <2>1. Plan.exec = "DropTable" /\ DropTable(Plan.table) /\ Answer(Done)
    BY <1>3, <1>5 DEF ExecDropTable
  <2>2. DiskPart'
    BY <1>1, <1>2, <2>1, DropKeeps DEF Bound
  <2> QED  BY <2>1, <2>2, Answered, AnswersDiffer DEF RefusedForName, Answer
<1>6. CASE ExecShowTables
  <2>1. Answer([names |-> DOMAIN catalog]) /\ UNCHANGED disk
    BY <1>6 DEF ExecShowTables
  <2>2. DiskPart'
    BY <1>1, <2>1, DiskUntouched
  <2> QED  BY <2>1, <2>2, Answered, AnswersDiffer DEF RefusedForName, Answer
<1>7. CASE ExecDescribe
  <2>1. PICK d \in DescribeTable(Plan.table) : Answer([columns |-> d.columns])
    BY <1>7 DEF ExecDescribe
  <2>2. DiskPart'
    BY <1>1, <1>7, DiskUntouched DEF ExecDescribe
  <2> QED  BY <2>1, <2>2, Answered, AnswersDiffer DEF RefusedForName, Answer
<1> QED  BY <1>4, <1>5, <1>6, <1>7

(* The others open their table.                                            *)
LEMMA OpenStep ==
    ASSUME SessionInv, Open
    PROVE  SessionInv' /\ answer' # Refused
<1>1. pc = "execute" /\ ProcessPart /\ DiskPart /\ loaded \in Nat
  BY Parts DEF SessionInv, Open, TypeOK
<1>2. /\ handle' = OpenTable(Plan.table) /\ pc' = "opened" /\ UNCHANGED disk
      /\ asked' = asked /\ answer' = answer /\ parsed' = parsed /\ plan' = plan
      /\ loaded' = loaded
  BY DEF Open
<1>3. plan = {Plan} /\ Bound(Plan)
  BY <1>1, PlanIs
<1>4. Plan.table \in DOMAIN catalog
  BY <1>3 DEF Open, Bound
<1>5. PICK h : OpenTable(Plan.table) = {h}
  BY <1>4, OpenIs
<1>6. h.name = Plan.table
  BY <1>1, <1>5, HandleIs DEF DiskPart
<1>7. DiskPart'
  BY <1>1, <1>2, DiskUntouched
<1>8. Plan' = Plan
  BY <1>2 DEF Plan
<1>9. /\ \A ast : Bind(ast)' = Bind(ast)
      /\ OpenTable(Plan.table)' = OpenTable(Plan.table)
      /\ OpenTable(h.name)' = OpenTable(h.name)
  <2>1. UNCHANGED <<catalog, manifest>>
    BY <1>2 DEF disk
  <2>2. \A name : OpenTable(name)' = OpenTable(name)
    BY <2>1, LooksAgain
  <2>3. OpenTable(Plan.table)' = OpenTable(Plan.table)
    BY <1>8, <2>1 DEF OpenTable, DescribeTable
  <2> QED  BY <2>1, <2>2, <2>3, LooksAgain
<1>10. ProcessPart'
  <2>1. PICK ast \in parsed : IsAst(ast) /\ plan = Bind(ast) /\ plan # {}
    BY <1>1 DEF ProcessPart
  <2>2. IsAst(ast)' /\ Bind(ast)' = Bind(ast)
    BY <1>9, <2>1 DEF IsAst, IsSequence, ToSet
  <2>3. \E x \in parsed' : IsAst(x)' /\ plan' = Bind(x)' /\ plan' # {}
    BY <1>2, <2>1, <2>2
  <2>4. handle' = OpenTable(Plan.table)' /\ handle' # {}
    BY <1>2, <1>5, <1>9
  <2>5. answer' = NoAnswer /\ asked' \in Commands
    BY <1>1, <1>2 DEF ProcessPart
  <2> QED  BY <1>2, <2>3, <2>4, <2>5 DEF ProcessPart
<1>11. ToSet(GenerateSteps)' = {"drop", "create", "open", "load"}
  BY StepsAre DEF GenerateSteps, ToSet
<1>12. GeneratePart'
  BY <1>2, <1>11 DEF GeneratePart
<1>13. HandleFresh'
  <2>1. \A x \in handle' : x = h /\ OpenTable(x.name)' = {x}
    BY <1>2, <1>5, <1>6, <1>9
  <2> QED  BY <2>1 DEF HandleFresh
<1>14. SessionInv'
  BY <1>1, <1>2, <1>7, <1>10, <1>12, <1>13, Parts
<1> QED  BY <1>1, <1>2, <1>14, AnswersDiffer DEF ProcessPart

(* The handle of a statement, and its plan.                                *)
LEMMA OpenedIs ==
    ASSUME SessionInv, pc = "opened"
    PROVE  /\ DiskPart /\ OpenTable(Plan.table) = {Handle} /\ Bound(Plan)
           /\ Handle.dir \in DOMAIN manifest /\ IsSequence(Handle.columns)
           /\ NamesDistinct(Handle.columns)
           /\ \A d \in DescribeTable(Plan.table) : d.columns = Handle.columns
<1>1. DiskPart /\ ProcessPart /\ CatalogPart /\ ColumnFilesDistinct
  BY Parts DEF SessionInv
<1>2. Bound(Plan) /\ handle = OpenTable(Plan.table) /\ handle # {}
  BY <1>1, PlanIs DEF ProcessPart
<1>3. OpenTable(Plan.table) = {Handle} /\ Plan.table \in DOMAIN catalog
  <2>1. Plan.table \in DOMAIN catalog
    BY <1>2, OpenIs
  <2>2. PICK h : OpenTable(Plan.table) = {h}
    BY <2>1, OpenIs
  <2>3. Handle = h
    BY <1>2, <2>2 DEF Handle
  <2> QED  BY <2>1, <2>2, <2>3
<1>4. /\ Handle.dir = catalog[Plan.table] /\ Handle.dir \in DOMAIN manifest
      /\ Handle.columns = manifest[Handle.dir].columns
  BY <1>1, <1>3, HandleIs
<1>5. IsSequence(Handle.columns)
  BY <1>1, <1>4 DEF DiskPart
<1>6. NamesDistinct(Handle.columns)
  <2>1. \A a, b \in DOMAIN Handle.columns :
           Fold(Handle.columns[a].name) = Fold(Handle.columns[b].name) => a = b
    BY <1>1, <1>4 DEF ColumnFilesDistinct
  <2> QED  BY <2>1 DEF NamesDistinct
<1>7. \A d \in DescribeTable(Plan.table) : d.columns = Handle.columns
  BY <1>3, <1>4, DescribeIs DEF Manifest
<1> QED  BY <1>1, <1>2, <1>3, <1>4, <1>5, <1>6, <1>7

(* INSERT: the record the binder let through fits.                         *)
LEMMA InsertStep ==
    ASSUME SessionInv, ExecInsert
    PROVE  SessionInv' /\ answer' # Refused
<1>1. /\ pc = "opened" /\ Plan.exec = "Insert"
      /\ IF ValidRecord(Handle.columns, Plan.values)
         THEN AppendRows(Handle, groups[Handle.dir], <<Plan.values>>) /\ Answer(Done)
         ELSE Answer(Refused) /\ UNCHANGED disk
  BY DEF ExecInsert, Works
<1>2. /\ DiskPart /\ OpenTable(Plan.table) = {Handle} /\ Bound(Plan)
      /\ Handle.dir \in DOMAIN manifest /\ IsSequence(Handle.columns)
      /\ \A d \in DescribeTable(Plan.table) : d.columns = Handle.columns
  BY <1>1, OpenedIs
<1>3. /\ IsSequence(Plan.values) /\ Len(Plan.values) = Len(Handle.columns)
      /\ \A i \in DOMAIN Handle.columns : CheckValue(Plan.values[i], Handle.columns[i])
  BY <1>1, <1>2 DEF Bound
<1>4. DOMAIN Plan.values = DOMAIN Handle.columns
  BY <1>2, <1>3, SequenceIs
<1>5. ValidRecord(Handle.columns, Plan.values)
  BY <1>3, <1>4 DEF ValidRecord, CheckValue
<1>6. /\ IsSequence(groups[Handle.dir])
      /\ \A r \in DOMAIN groups[Handle.dir] : DOMAIN groups[Handle.dir][r] = {"values", "dead"}
  BY <1>2 DEF DiskPart, RowsPart
<1> DEFINE records == <<Plan.values>>
<1>7. /\ DOMAIN records = 1 .. 1 /\ records[1] = Plan.values
      /\ records = [i \in 1 .. 1 |-> records[i]]
  OBVIOUS
<1>8. AppendRows(Handle, groups[Handle.dir], records) /\ Answer(Done)
  BY <1>1, <1>5
<1> HIDE DEF records
<1>9. IsSequence(records)
  BY <1>7, FunctionIsSequence
<1>10. \A r \in DOMAIN records : /\ IsSequence(records[r])
                                 /\ ValidRecord(Handle.columns, records[r])
  BY <1>3, <1>5, <1>7
<1>11. DiskPart'
  BY <1>2, <1>6, <1>8, <1>9, <1>10, AppendKeeps
<1> QED  BY <1>8, <1>11, Answered, AnswersDiffer DEF Answer

(* DELETE.                                                                 *)
LEMMA DeleteStep ==
    ASSUME SessionInv, ExecDelete
    PROVE  SessionInv' /\ answer' # Refused
<1> DEFINE rows == Tombstoned(Handle, ScanRids(Handle))
<1>1. /\ pc = "opened" /\ groups' = [groups EXCEPT ![Handle.dir] = rows]
      /\ Answer(Done) /\ UNCHANGED <<catalog, nextId, manifest>>
  BY DEF ExecDelete, Works
<1>2. DiskPart /\ OpenTable(Plan.table) = {Handle} /\ Handle.dir \in DOMAIN manifest
  BY <1>1, OpenedIs
<1>3. /\ IsSequence(rows) /\ Len(rows) = Len(groups[Handle.dir])
      /\ DOMAIN rows = DOMAIN groups[Handle.dir]
      /\ \A r \in DOMAIN rows : /\ DOMAIN rows[r] = {"values", "dead"}
                                /\ rows[r].values = groups[Handle.dir][r].values
  BY <1>2, TombstonedIs
<1> HIDE DEF rows
<1>4. \A r \in DOMAIN rows : /\ IsSequence(rows[r].values)
                             /\ ValidRecord(manifest[Handle.dir].columns, rows[r].values)
  BY <1>2, <1>3 DEF DiskPart, RowsPart
<1>5. manifest'[Handle.dir].next_rid = Len(rows)
  BY <1>1, <1>2, <1>3 DEF DiskPart, RowsPart
<1>6. SameTables
  BY <1>1 DEF SameTables
<1>7. DiskPart'
  <2>1. PICK d \in DOMAIN manifest : d = Handle.dir
    BY <1>2
  <2>2. /\ groups' = [groups EXCEPT ![d] = rows] /\ manifest'[d].next_rid = Len(rows)
        /\ \A i \in DOMAIN manifest : i # d => manifest'[i].next_rid = manifest[i].next_rid
        /\ \A r \in DOMAIN rows : /\ DOMAIN rows[r] = {"values", "dead"}
                                  /\ IsSequence(rows[r].values)
                                  /\ ValidRecord(manifest[d].columns, rows[r].values)
    BY <2>1, <1>1, <1>3, <1>4, <1>5
  <2> QED  BY ONLY <2>2, <1>2, <1>3, <1>6, RowsReplaced
<1> QED  BY <1>1, <1>7, Answered, AnswersDiffer DEF Answer

(* UPDATE: the new records fit, because the old ones did and each SET was  *)
(* checked against the column it is for.                                   *)
LEMMA UpdateStep ==
    ASSUME SessionInv, ExecUpdate
    PROVE  SessionInv' /\ answer' # Refused
<1> DEFINE rows == Tombstoned(Handle, ScanRids(Handle))
           records == [i \in DOMAIN Scan(Handle) |-> NewRecord(Scan(Handle)[i])]
<1>1. /\ pc = "opened" /\ Plan.exec = "Update"
      /\ IF \A r \in ToSet(records) : ValidRecord(Handle.columns, r)
         THEN AppendRows(Handle, rows, records) /\ Answer(Done)
         ELSE Answer(Refused) /\ UNCHANGED disk
  BY DEF ExecUpdate, Works
<1>2. /\ DiskPart /\ OpenTable(Plan.table) = {Handle} /\ Bound(Plan)
      /\ IsSequence(Handle.columns) /\ NamesDistinct(Handle.columns)
      /\ \A d \in DescribeTable(Plan.table) : d.columns = Handle.columns
  BY <1>1, OpenedIs
<1>3. /\ IsSequence(rows) /\ Len(rows) = Len(groups[Handle.dir])
      /\ DOMAIN rows = DOMAIN groups[Handle.dir]
      /\ \A r \in DOMAIN rows : /\ DOMAIN rows[r] = {"values", "dead"}
                                /\ rows[r].values = groups[Handle.dir][r].values
  BY <1>2, TombstonedIs
<1> HIDE DEF rows
<1>4. /\ IsSequence(Plan.assignments)
      /\ \A a \in ToSet(Plan.assignments) : \E i \in DOMAIN Handle.columns :
            Handle.columns[i].name = a.column /\ CheckValue(a.value, Handle.columns[i])
  BY <1>1, <1>2 DEF Bound
<1>5. /\ Len(Scan(Handle)) \in Nat /\ DOMAIN Scan(Handle) = 1 .. Len(Scan(Handle))
      /\ \A i \in 1 .. Len(Scan(Handle)) : FitRecord(Handle.columns, Scan(Handle)[i])
  BY <1>2, ScanFits
<1>6. \A i \in 1 .. Len(Scan(Handle)) :
         FitRecord(Handle.columns, NewRecord(Scan(Handle)[i]))
  BY <1>2, <1>4, <1>5, NewRecordFits
<1>7. /\ records = [i \in 1 .. Len(Scan(Handle)) |-> records[i]]
      /\ \A i \in 1 .. Len(Scan(Handle)) : records[i] = NewRecord(Scan(Handle)[i])
  BY <1>5
<1> HIDE DEF records
<1>8. IsSequence(records) /\ DOMAIN records = 1 .. Len(Scan(Handle))
  BY <1>5, <1>7, FunctionIsSequence
<1>9. \A r \in DOMAIN records : IsSequence(records[r]) /\ ValidRecord(Handle.columns, records[r])
  BY <1>6, <1>7, <1>8 DEF FitRecord
<1>10. AppendRows(Handle, rows, records) /\ Answer(Done)
  <2>1. \A r \in ToSet(records) : ValidRecord(Handle.columns, r)
    BY <1>9 DEF ToSet
  <2> QED  BY <1>1, <2>1
<1>11. DiskPart'
  BY <1>2, <1>3, <1>8, <1>9, <1>10, AppendKeeps
<1> QED  BY <1>10, <1>11, Answered, AnswersDiffer DEF Answer

(* SELECT.                                                                 *)
LEMMA SelectStep ==
    ASSUME SessionInv, ExecSelect
    PROVE  SessionInv' /\ answer' # Refused
<1>1. UNCHANGED disk /\ \E x, y : Answer([header |-> x, rows |-> y])
  BY DEF ExecSelect
<1>2. DiskPart'
  BY <1>1, Parts, DiskUntouched
<1> QED  BY <1>1, <1>2, Answered, AnswersDiffer DEF Answer

---------------------------------------------------------------------------
(* bench gen *)

(* A step of bench gen that leaves it running.                             *)
LEMMA GeneratesOn ==
    ASSUME SessionInv, DiskPart',
           pc \in {"generate", "create", "open", "load"}, asked.cmd = "bench gen",
           UNCHANGED <<asked, answer, parsed, plan>>,
           pc' \in {"create", "open", "load"}, loaded' \in Nat,
           pc' # "load" => handle' = {},
           pc' = "create" => asked.table \notin DOMAIN catalog',
           pc' = "open" => /\ asked.table \in DOMAIN catalog'
                           /\ manifest'[catalog'[asked.table]].columns = BenchColumns,
           pc' = "load" => /\ handle' = OpenTable(asked.table)' /\ handle' # {}
                           /\ \A h \in handle' : h.columns = BenchColumns
    PROVE  SessionInv'
<1>1. /\ pc # "idle" /\ pc \notin {"execute", "opened"} /\ ProcessPart
      /\ answer = NoAnswer /\ asked \in Commands /\ plan = {}
  BY DEF SessionInv, ProcessPart
<1>2. ProcessPart'
  BY <1>1 DEF ProcessPart
<1>3. ToSet(GenerateSteps)' = {"drop", "create", "open", "load"}
  BY StepsAre DEF GenerateSteps, ToSet
<1>4. GeneratePart'
  BY DEF GeneratePart
<1>5. HandleFresh'
  <2>1. CASE pc' = "load"
    <3>1. PICK h : h \in handle'
      BY <2>1
    <3>2. PICK name : name = asked.table
      OBVIOUS
    <3>3. OpenTable(asked.table)' = OpenTable(name)'
      BY <3>2 DEF OpenTable, DescribeTable
    <3>4. name \in DOMAIN catalog'
      <4>1. name \notin DOMAIN catalog' => OpenTable(name)' = {}
        BY OpenIsNext
      <4> QED  BY <2>1, <3>1, <3>3, <4>1
    <3>5. OpenTable(name)' = {h} /\ h.name = manifest'[catalog'[name]].name
      <4>1. OpenTable(name)' = {[name |-> Manifest(name)'.name,
                                 columns |-> Manifest(name)'.columns,
                                 dir |-> catalog'[name]]}
        BY <3>4, OpenIsNext
      <4>2. h \in OpenTable(name)'
        BY <2>1, <3>1, <3>3
      <4>3. h = [name |-> Manifest(name)'.name, columns |-> Manifest(name)'.columns,
                 dir |-> catalog'[name]]
        BY ONLY <4>1, <4>2
      <4>4. OpenTable(name)' = {h} /\ h.name = Manifest(name)'.name
        BY ONLY <4>1, <4>3
      <4> QED  BY <4>4 DEF Manifest
    <3>6. h.name = name
      BY <3>4, <3>5 DEF DiskPart, CatalogPart
    <3>7. OpenTable(h.name)' = {h}
      BY <3>5, <3>6 DEF OpenTable, DescribeTable
    <3>8. handle' = {h}
      BY <2>1, <3>3, <3>5
    <3> QED  BY <3>7, <3>8 DEF HandleFresh
  <2>2. CASE pc' # "load"
    BY <2>2 DEF HandleFresh
  <2> QED  BY <2>1, <2>2
<1> QED  BY <1>2, <1>3, <1>4, <1>5, Parts

(* The old table goes.                                                     *)
LEMMA GenerateDropStep == SessionInv /\ GenerateDrop => SessionInv'
<1> SUFFICES ASSUME SessionInv, GenerateDrop PROVE SessionInv'
  OBVIOUS
<1>1. /\ pc = "generate" /\ asked.cmd = "bench gen" /\ pc' = "create"
      /\ UNCHANGED <<asked, answer, parsed, plan, handle, loaded>>
      /\ IF asked.table \in DOMAIN catalog THEN DropTable(asked.table) ELSE UNCHANGED disk
  BY StepsAre DEF GenerateDrop, locals
<1>2. DiskPart /\ handle = {} /\ loaded \in Nat
  BY <1>1, Parts DEF SessionInv, ProcessPart, TypeOK
<1>3. DiskPart' /\ asked.table \notin DOMAIN catalog'
  <2>1. CASE asked.table \in DOMAIN catalog
    BY <1>1, <1>2, <2>1, DropKeeps
  <2>2. CASE asked.table \notin DOMAIN catalog
    BY <1>1, <1>2, <2>2, DiskUntouched DEF disk
  <2> QED  BY <2>1, <2>2
<1> QED  BY <1>1, <1>2, <1>3, GeneratesOn

(* The new one is made.                                                    *)
LEMMA GenerateCreateStep == SessionInv /\ GenerateCreate => SessionInv'
<1> SUFFICES ASSUME SessionInv, GenerateCreate PROVE SessionInv'
  OBVIOUS
<1>1. pc = "create" /\ asked.cmd = "bench gen"
  BY StepsAre DEF GenerateCreate
<1>2. DiskPart /\ handle = {} /\ loaded \in Nat
  BY <1>1, Parts DEF SessionInv, ProcessPart, TypeOK
<1>3. CASE CanCreate(asked.table, BenchColumns)
  <2>1. /\ CreateTable(asked.table, BenchColumns) /\ pc' = "open"
        /\ UNCHANGED <<asked, answer, parsed, plan, handle, loaded>>
    BY <1>3, StepsAre DEF GenerateCreate, locals
  <2>2. DiskPart'
    BY <1>2, <1>3, <2>1, BenchAssumption, CreateKeeps
  <2>3. /\ asked.table \in DOMAIN catalog'
        /\ manifest'[catalog'[asked.table]].columns = BenchColumns
    BY <2>1 DEF CreateTable, With
  <2> QED  BY <1>1, <1>2, <2>1, <2>2, <2>3, GeneratesOn
<1>4. CASE ~ CanCreate(asked.table, BenchColumns)
  <2>1. Answer(Refused) /\ UNCHANGED disk
    BY <1>4 DEF GenerateCreate
  <2> QED  BY <1>2, <2>1, DiskUntouched, Answered, AnswersDiffer
<1> QED  BY <1>3, <1>4

(* It is opened.                                                           *)
LEMMA GenerateOpenStep == SessionInv /\ GenerateOpen => SessionInv'
<1> SUFFICES ASSUME SessionInv, GenerateOpen PROVE SessionInv'
  OBVIOUS
<1>1. /\ pc = "open" /\ asked.cmd = "bench gen" /\ pc' = "load"
      /\ handle' = OpenTable(asked.table)
      /\ UNCHANGED <<asked, answer, parsed, plan, loaded>> /\ UNCHANGED disk
  BY StepsAre DEF GenerateOpen
<1>2. DiskPart /\ loaded \in Nat
  BY Parts DEF SessionInv, TypeOK
<1>3. DiskPart'
  BY <1>1, <1>2, DiskUntouched
<1>4. /\ asked.table \in DOMAIN catalog
      /\ manifest[catalog[asked.table]].columns = BenchColumns
  BY <1>1 DEF SessionInv, GeneratePart
<1>5. PICK h : OpenTable(asked.table) = {h}
  BY <1>4, OpenIs
<1>6. h.columns = BenchColumns
  <2>1. CatalogPart
    BY <1>2 DEF DiskPart
  <2>2. h.dir = catalog[asked.table] /\ h.columns = manifest[h.dir].columns
    <3>1. PICK name : name = asked.table
      OBVIOUS
    <3>2. OpenTable(name) = {h}
      BY ONLY <3>1, <1>5
    <3>3. h.dir = catalog[name] /\ h.columns = manifest[h.dir].columns
      BY ONLY <2>1, <3>2, HandleIs
    <3> QED  BY ONLY <3>1, <3>3
  <2> QED  BY <2>2, <1>4
<1>7. OpenTable(asked.table)' = OpenTable(asked.table)
  <2>1. PICK name : name = asked.table
    OBVIOUS
  <2>2. OpenTable(name)' = OpenTable(name)
    BY <1>1, LooksAgain DEF disk
  <2>3. OpenTable(asked.table)' = OpenTable(name)'
    BY <1>1, <2>1 DEF OpenTable, DescribeTable
  <2> QED  BY <2>1, <2>2, <2>3
<1>8. /\ handle' = OpenTable(asked.table)' /\ handle' # {}
      /\ \A x \in handle' : x.columns = BenchColumns
  BY <1>1, <1>5, <1>6, <1>7
<1> QED  BY <1>1, <1>2, <1>3, <1>8, GeneratesOn

(* A row of it is loaded.                                                  *)
LEMMA GenerateLoadStep == SessionInv /\ GenerateLoad => SessionInv'
<1> SUFFICES ASSUME SessionInv, GenerateLoad PROVE SessionInv'
  OBVIOUS
<1> DEFINE records == <<BenchRow>>
<1>1. /\ pc = "load" /\ asked.cmd = "bench gen" /\ pc' = "load"
      /\ AppendRows(Handle, groups[Handle.dir], records) /\ loaded' = loaded + 1
      /\ UNCHANGED <<asked, answer, parsed, plan, handle>>
  BY StepsAre DEF GenerateLoad
<1>2. DiskPart /\ CatalogPart /\ loaded \in Nat
  BY Parts DEF SessionInv, TypeOK
<1>3. /\ handle = OpenTable(asked.table) /\ handle # {}
      /\ \A h \in handle : h.columns = BenchColumns
  BY <1>1 DEF SessionInv, GeneratePart
<1>4. OpenTable(asked.table) = {Handle}
  <2>1. PICK h : OpenTable(asked.table) = {h}
    BY <1>3, OpenIs
  <2> QED  BY <1>3, <2>1 DEF Handle
<1>5. Handle.columns = BenchColumns /\ Handle.dir \in DOMAIN manifest
  BY <1>2, <1>3, <1>4, HandleIs
<1>6. /\ IsSequence(groups[Handle.dir])
      /\ \A r \in DOMAIN groups[Handle.dir] : DOMAIN groups[Handle.dir][r] = {"values", "dead"}
  BY <1>2, <1>5 DEF DiskPart, RowsPart
<1>7. /\ DOMAIN records = 1 .. 1 /\ records[1] = BenchRow
      /\ records = [i \in 1 .. 1 |-> records[i]]
  OBVIOUS
<1> HIDE DEF records
<1>8. IsSequence(records)
  BY <1>7, FunctionIsSequence
<1>9. \A r \in DOMAIN records : /\ IsSequence(records[r])
                                /\ ValidRecord(Handle.columns, records[r])
  BY <1>5, <1>7, BenchAssumption
<1>10. DiskPart' /\ SameTables
  <2>1. PICK name : OpenTable(name) = {Handle}
    BY <1>4
  <2>2. AppendRows(Handle, groups[Handle.dir], records) /\ DiskPart
    BY <1>1, <1>2
  <2> QED  BY <1>6, <1>8, <1>9, <2>1, <2>2, AppendKeeps
<1>11. OpenTable(asked.table)' = OpenTable(asked.table)
  <2>1. PICK name : name = asked.table
    OBVIOUS
  <2>2. OpenTable(name)' = OpenTable(name)
    BY <1>2, <1>10, OpensAgain
  <2>3. OpenTable(asked.table)' = OpenTable(name)'
    BY <1>1, <2>1 DEF OpenTable, DescribeTable
  <2> QED  BY <2>1, <2>2, <2>3
<1>12. /\ handle' = OpenTable(asked.table)' /\ handle' # {}
       /\ \A x \in handle' : x.columns = BenchColumns
  BY <1>1, <1>3, <1>11
<1>13. loaded' \in Nat
  <2>1. loaded' = loaded + 1 /\ loaded \in Nat
    BY <1>1, <1>2
  <2> QED  BY ONLY <2>1
<1> QED  BY <1>1, <1>10, <1>12, <1>13, GeneratesOn

(* It reports that it is done.                                             *)
LEMMA EndSteps == SessionInv /\ (ParseCommand \/ GenerateEnds) => SessionInv'
<1> SUFFICES ASSUME SessionInv, ParseCommand \/ GenerateEnds PROVE SessionInv'
  OBVIOUS
<1>1. UNCHANGED disk /\ (Answer(Done) \/ Answer(Refused))
  BY DEF ParseCommand, GenerateEnds
<1>2. DiskPart'
  BY <1>1, Parts, DiskUntouched
<1> QED  BY <1>1, <1>2, Answered, AnswersDiffer

(* A statement that is carried out keeps the invariant, and it is refused  *)
(* only for the name of a new table.                                       *)
LEMMA ExecuteSteps ==
    ASSUME SessionInv, Next, pc \in {"execute", "opened"}
    PROVE  SessionInv' /\ RefusedForName
<1>1. CASE ExecCreateTable \/ ExecDropTable \/ ExecShowTables \/ ExecDescribe
  BY <1>1, NamedSteps
<1>2. CASE Open
  BY <1>2, OpenStep DEF RefusedForName
<1>3. CASE ExecInsert
  BY <1>3, InsertStep DEF RefusedForName
<1>4. CASE ExecDelete
  BY <1>4, DeleteStep DEF RefusedForName
<1>5. CASE ExecUpdate
  BY <1>5, UpdateStep DEF RefusedForName
<1>6. CASE ExecSelect
  BY <1>6, SelectStep DEF RefusedForName
<1>7. ~ (Submit \/ ParseCommand \/ BindCommand)
  BY DEF Submit, ParseCommand, BindCommand
<1>8. ~ (GenerateDrop \/ GenerateCreate \/ GenerateOpen \/ GenerateLoad \/ GenerateEnds)
  <2>1. ~ (At("drop") \/ At("create") \/ At("open") \/ At("load"))
    BY StepsAre
  <2> QED  BY <2>1 DEF GenerateDrop, GenerateCreate, GenerateOpen, GenerateLoad, GenerateEnds
<1> QED  BY <1>1, <1>2, <1>3, <1>4, <1>5, <1>6, <1>7, <1>8 DEF Next

(* Every step keeps the invariant.                                         *)
LEMMA StepKeeps == SessionInv /\ [Next]_vars => SessionInv'
<1> SUFFICES ASSUME SessionInv, [Next]_vars PROVE SessionInv'
  OBVIOUS
<1>1. CASE Next /\ pc \in {"execute", "opened"}
  BY <1>1, ExecuteSteps
<1>2. CASE Next /\ pc \notin {"execute", "opened"}
  <2>1. ~ (ExecCreateTable \/ ExecDropTable \/ ExecShowTables \/ ExecDescribe \/ Open)
    BY <1>2 DEF ExecCreateTable, ExecDropTable, ExecShowTables, ExecDescribe, Open, Executes
  <2>2. ~ (ExecInsert \/ ExecDelete \/ ExecUpdate \/ ExecSelect)
    BY <1>2 DEF ExecInsert, ExecDelete, ExecUpdate, ExecSelect, Works
  <2> QED  BY <1>2, <2>1, <2>2, SubmitStep, BindStep, GenerateDropStep, GenerateCreateStep,
              GenerateOpenStep, GenerateLoadStep, EndSteps DEF Next
<1>3. CASE UNCHANGED vars
  <2>1. /\ UNCHANGED disk /\ UNCHANGED <<pc, parsed, plan, handle, loaded, asked, answer>>
        /\ UNCHANGED <<catalog, manifest>>
    BY <1>3 DEF vars, disk
  <2>2. DiskPart'
    BY <2>1, Parts, DiskUntouched
  <2>3. /\ \A ast : Bind(ast)' = Bind(ast)
        /\ \A name : OpenTable(name)' = OpenTable(name)
    BY <2>1, LooksAgain
  <2>4. \A h \in handle : OpenTable(h.name)' = OpenTable(h.name)
    BY <2>1 DEF OpenTable, DescribeTable
  <2>5. HandleFresh'
    BY <2>1, <2>4 DEF SessionInv, HandleFresh, Running
  <2>6. OpenTable(Plan.table)' = OpenTable(Plan.table) /\ Plan' = Plan
    BY <2>1 DEF OpenTable, DescribeTable, Plan
  <2>7. \A ast : IsAst(ast)' = IsAst(ast)
    BY DEF IsAst, IsSequence, ToSet
  <2>8. ProcessPart'
    <3>1. ProcessPart
      BY DEF SessionInv
    <3> QED  BY <2>1, <2>3, <2>6, <2>7, <3>1 DEF ProcessPart
  <2>9. OpenTable(asked.table)' = OpenTable(asked.table)
    BY <2>1 DEF OpenTable, DescribeTable
  <2>10. ToSet(GenerateSteps)' = ToSet(GenerateSteps)
    BY DEF GenerateSteps, ToSet
  <2>11. GeneratePart'
    BY <2>1, <2>9, <2>10 DEF SessionInv, GeneratePart
  <2> QED  BY <2>1, <2>2, <2>5, <2>8, <2>10, <2>11, Parts DEF SessionInv, TypeOK
<1> QED  BY <1>1, <1>2, <1>3

(* So it holds from the start, on an empty database.                       *)
LEMMA InitInv == Init => SessionInv
<1> SUFFICES ASSUME Init PROVE SessionInv
  OBVIOUS
<1>1. /\ DOMAIN catalog = {} /\ DOMAIN manifest = {} /\ DOMAIN groups = {} /\ nextId = 1
      /\ pc = "idle" /\ plan = {} /\ handle = {} /\ loaded = 0 /\ answer = Refused
  BY DEF Init
<1>2. pc \notin {"generate"} \cup ToSet(GenerateSteps)
  BY <1>1, StepsAre
<1>3. TypeOK /\ CatalogPart /\ RowsPart
  BY <1>1 DEF TypeOK, CatalogPart, RowsPart
<1>4. ColumnFilesDistinct /\ HandleFresh
  BY <1>1 DEF HandleFresh, ColumnFilesDistinct
<1>5. ProcessPart
  BY <1>1, AnswersDiffer DEF ProcessPart
<1>6. GeneratePart
  <2>1. pc # "create" /\ pc # "open" /\ pc # "load"
    BY <1>1
  <2> QED  BY <1>2, <2>1 DEF GeneratePart
<1> QED  BY <1>3, <1>4, <1>5, <1>6 DEF SessionInv

---------------------------------------------------------------------------
(* Theorems *)

(* Whatever commands are run: the catalog, the manifests and the rows fit  *)
(* together, and a process holds the plan and the handle of what stands on *)
(* disk.                                                                   *)
THEOREM SessionInvariance == Spec => []SessionInv
  BY InitInv, StepKeeps, PTL DEF Spec

(* A handle that a data-plane call uses is about the table its name stands *)
(* for now: DROP and `bench gen` leave no handle behind.                   *)
THEOREM HandlesAreFresh == Spec => []HandleFresh
<1>1. SessionInv => HandleFresh
  BY DEF SessionInv
<1> QED  BY <1>1, SessionInvariance, PTL

(* No two columns of a table share a `.col` file.                          *)
THEOREM FilesAreDistinct == Spec => []ColumnFilesDistinct
<1>1. SessionInv => ColumnFilesDistinct
  BY DEF SessionInv
<1> QED  BY <1>1, SessionInvariance, PTL

(* What the binder lets through is carried out, but for a CREATE TABLE of  *)
(* a name that is taken.                                                   *)
THEOREM BoundIsDone == Spec => BoundMeansDone
<1>1. SessionInv /\ [Next]_vars =>
        [/\ pc \in {"execute", "opened"} /\ answer' = Refused
         => Plan.exec = "CreateTable" /\ Plan.table \in DOMAIN catalog]_vars
  <2> SUFFICES ASSUME SessionInv, Next, pc \in {"execute", "opened"}, answer' = Refused
               PROVE  Plan.exec = "CreateTable" /\ Plan.table \in DOMAIN catalog
    OBVIOUS
  <2> QED  BY ExecuteSteps DEF RefusedForName
<1> QED  BY <1>1, SessionInvariance, PTL DEF Spec, BoundMeansDone
=============================================================================
