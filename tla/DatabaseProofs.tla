--------------------------- MODULE DatabaseProofs ---------------------------
(***************************************************************************)
(* Theorems about Database for any number of commands and tables: the      *)
(* inductive invariant, what follows from it, and the refinement of        *)
(* NameSpace.                                                              *)
(***************************************************************************)
EXTENDS Database, TLAPS

-----------------------------------------------------------------------------
(* Catalogs in memory.                                                     *)

(* Undoing a registration gives the catalog back.                          *)
LEMMA RollBack ==
    ASSUME NEW c \in Catalogs, NEW n \in Names, NEW i \in Ids, c.tables[n] = NoId
    PROVE  RolledBack(Registered(c, n, i), n) = c
<1>1. /\ c.next \in Int /\ c.tables \in [Names -> Ids \cup {NoId}]
      /\ c = [next |-> c.next, tables |-> c.tables]
  BY DEF Catalogs
<1>2. [[c.tables EXCEPT ![n] = i] EXCEPT ![n] = NoId] = c.tables
  BY <1>1
<1> QED  BY <1>1, <1>2 DEF RolledBack, Registered

(* So does putting a removed entry back.                                   *)
LEMMA PutBack ==
    ASSUME NEW c \in Catalogs, NEW n \in Names, NEW i \in Ids, c.tables[n] = i
    PROVE  Restored(Forgotten(c, n), n, i) = c
<1>1. /\ c.tables \in [Names -> Ids \cup {NoId}]
      /\ c = [next |-> c.next, tables |-> c.tables]
  BY DEF Catalogs
<1>2. [[c.tables EXCEPT ![n] = NoId] EXCEPT ![n] = i] = c.tables
  BY <1>1
<1> QED  BY <1>1, <1>2 DEF Restored, Forgotten

LEMMA CatalogTypes ==
    ASSUME NEW c \in Catalogs, NEW n \in Names
    PROVE  /\ Forgotten(c, n) \in Catalogs
           /\ \A i \in Ids : c.next \in Ids => Registered(c, n, i) \in Catalogs
BY DatabaseAssumption DEF Catalogs, Forgotten, Registered, Ids, NoId

-----------------------------------------------------------------------------
(* Steps that leave the tables alone.                                      *)

(* A step of a command that does not hold the lock.                        *)
LEMMA OutsideStep ==
    ASSUME DbInv, DbTypeOK', NamePart', NEW p \in Procs,
           lock # p, lock' = lock, pc'[p] \notin InsidePCs \ {"done"},
           UNCHANGED <<catalog, dirs, manifest, group0>>,
           \A q \in Procs \ {p} : /\ pc'[q] = pc[q] /\ name'[q] = name[q]
                                  /\ mem'[q] = mem[q] /\ id'[q] = id[q]
                                  /\ rid'[q] = rid[q]
    PROVE  DbInv'
<1>1. LockPart'
  BY DEF DbInv, LockPart
<1>2. IdPart' /\ EntriesBacked' /\ DataReachable'
  BY DEF DbInv, IdPart, EntriesBacked, DataReachable
<1>3. MemoryIsDisk'
  BY DEF DbInv, MemoryIsDisk, Settled
<1>4. HolderPart'
  BY DEF DbInv, HolderPart, Creating, Filling, Removing, Writing
<1> QED  BY <1>1, <1>2, <1>3, <1>4 DEF DbInv

(* The end of a command: nothing depends on what it held.                  *)
LEMMA LeaveStep ==
    ASSUME DbInv, NEW p \in Procs, Leave(p)
    PROVE  DbInv'
<1>1. DbTypeOK'
  <2>1. EmptyCatalog \in Catalogs
    BY DatabaseAssumption DEF EmptyCatalog, Catalogs, Ids, NoId
  <2>2. 0 \in 0 .. MaxRows
    BY DatabaseAssumption
  <2> QED  BY <2>1, <2>2 DEF DbInv, DbTypeOK, Leave, GoTo, disk, PCs
<1>2. LockPart'
  BY DatabaseAssumption
     DEF DbInv, DbTypeOK, LockPart, Leave, GoTo, InsidePCs, CreatePCs, RemovePCs
<1>3. IdPart' /\ EntriesBacked' /\ DataReachable'
  BY DEF DbInv, IdPart, EntriesBacked, DataReachable, Leave, disk
<1>4. \A q \in Procs : lock' = q =>
          /\ lock = q /\ q # p
          /\ pc'[q] = pc[q] /\ name'[q] = name[q]
          /\ mem'[q] = mem[q] /\ id'[q] = id[q] /\ rid'[q] = rid[q]
  BY DatabaseAssumption DEF DbInv, DbTypeOK, Leave, GoTo
<1>5. MemoryIsDisk'
  BY <1>4 DEF DbInv, MemoryIsDisk, Settled, Leave, disk
<1>6. HolderPart'
  BY <1>4 DEF DbInv, HolderPart, Creating, Filling, Removing, Writing, Leave, disk
<1>7. NamePart'
  BY DEF DbInv, DbTypeOK, NamePart, Leave, GoTo
<1> QED  BY <1>1, <1>2, <1>3, <1>5, <1>6, <1>7 DEF DbInv

(* A step of the command that holds the lock.                              *)
LEMMA InsideStep ==
    ASSUME DbInv, DbTypeOK', NEW p \in Procs, lock = p, lock' = lock,
           pc' = [pc EXCEPT ![p] = pc'[p]], pc'[p] \in InsidePCs,
           pc[p] # "off", name' = name,
           IdPart', EntriesBacked', DataReachable',
           Settled(p)' => mem'[p] = catalog',
           Creating(p)', Filling(p)', Removing(p)', Writing(p)'
    PROVE  DbInv'
<1>1. LockPart'
  BY DEF DbInv, DbTypeOK, LockPart
<1>2. MemoryIsDisk'
  BY DEF MemoryIsDisk, Settled
<1>3. HolderPart'
  BY DEF HolderPart
<1>4. NamePart'
  BY DEF DbInv, DbTypeOK, NamePart
<1> QED  BY <1>1, <1>2, <1>3, <1>4 DEF DbInv


(* What a command knows while it holds the lock.                           *)
LEMMA HolderKnows ==
    ASSUME DbInv, NEW p \in Procs, pc[p] \in InsidePCs \ {"done"}
    PROVE  /\ lock = p
           /\ name[p] \in Names
           /\ Creating(p) /\ Filling(p) /\ Removing(p) /\ Writing(p)
           /\ pc[p] \notin {"load", "publish", "unpublish", "undo"} => mem[p] = catalog
BY
   DEF DbInv, NamePart, LockPart, HolderPart, MemoryIsDisk, Settled, InsidePCs,
       CreatePCs, RemovePCs

(* Tables of a catalog that are not the one at hand.                       *)
LEMMA OtherIds ==
    ASSUME DbInv, NEW n \in Names
    PROVE  /\ catalog.next \in 1 .. MaxId + 1
           /\ catalog.tables \in [Names -> Ids \cup {NoId}]
           /\ catalog.tables[n] < catalog.next
           /\ \A m \in Names : m # n /\ catalog.tables[n] # NoId
                                 => catalog.tables[m] # catalog.tables[n]
BY DEF DbInv, DbTypeOK, IdPart, Catalogs

-----------------------------------------------------------------------------
(* Steps before the lock.                                                  *)

LEMMA StartInv ==
    ASSUME DbInv, NEW p \in Procs, NEW k \in Kinds, NEW n \in Names, Start(p, k, n)
    PROVE  DbInv'
<1>1. DbTypeOK'
  BY DEF DbInv, DbTypeOK, Start, GoTo, PCs, InitPCs, disk, local
<1>2. lock # p
  BY DEF DbInv, LockPart, Start, InsidePCs, CreatePCs, RemovePCs
<1>3. pc'[p] \in {"mkdb", "gate"} /\ \A q \in Procs \ {p} : pc'[q] = pc[q]
  BY DEF DbInv, DbTypeOK, Start, GoTo
<1>4. pc'[p] \notin InsidePCs \ {"done"}
  BY <1>3 DEF InsidePCs, CreatePCs, RemovePCs
<1>5. NamePart' /\ \A q \in Procs \ {p} : name'[q] = name[q]
  BY <1>3 DEF DbInv, DbTypeOK, NamePart, Start
<1> QED
  BY <1>1, <1>2, <1>3, <1>4, <1>5, OutsideStep DEF Start, disk, local

(* The steps of init, and the gate, leave their command outside.           *)
LEMMA InitInv ==
    ASSUME DbInv, NEW p \in Procs, MkDb(p) \/ TruncMeta(p) \/ FillMeta(p) \/ Gate(p)
    PROVE  DbInv'
<1>1. DbTypeOK'
  BY DEF DbInv, DbTypeOK, MkDb, TruncMeta, FillMeta, Gate, GoTo, PCs, InitPCs,
         InsidePCs, MetaStates, disk, asked, local
<1>2. lock # p
  BY
     DEF DbInv, LockPart, MkDb, TruncMeta, FillMeta, Gate, InsidePCs, CreatePCs,
         RemovePCs
<1>3. /\ pc'[p] \in {"trunc_meta", "fill_meta", "gate", "done", "lock"}
      /\ \A q \in Procs \ {p} : pc'[q] = pc[q]
  BY DEF DbInv, DbTypeOK, MkDb, TruncMeta, FillMeta, Gate, GoTo
<1>4. pc'[p] \notin InsidePCs \ {"done"}
  BY <1>3 DEF InsidePCs, CreatePCs, RemovePCs
<1>5. NamePart'
  BY <1>3 DEF DbInv, NamePart, MkDb, TruncMeta, FillMeta, Gate, asked
<1> QED
  BY <1>1, <1>2, <1>3, <1>4, <1>5, OutsideStep
     DEF MkDb, TruncMeta, FillMeta, Gate, disk, asked, local

(* The lock is taken by one command only because nobody had it.            *)
LEMMA LockInv ==
    ASSUME DbInv, NEW p \in Procs, Lock(p)
    PROVE  DbInv'
<1>1. DbTypeOK'
  BY DEF DbInv, DbTypeOK, Lock, GoTo, PCs, InsidePCs, disk, asked, local
<1>2. lock = NoProc /\ lock' = p /\ pc[p] = "lock" /\ pc'[p] = "load"
      /\ \A q \in Procs \ {p} : pc'[q] = pc[q]
  BY DEF DbInv, DbTypeOK, Lock, LockFree, GoTo
<1>3. LockPart'
  <2>1. \A q \in Procs : pc[q] \notin InsidePCs \ {"done"}
    BY <1>2, DatabaseAssumption DEF DbInv, LockPart
  <2> QED  BY <1>2, <2>1 DEF LockPart, InsidePCs
<1>4. IdPart' /\ EntriesBacked' /\ DataReachable'
  BY DEF DbInv, IdPart, EntriesBacked, DataReachable, Lock, disk
<1>5. MemoryIsDisk'
  BY <1>2 DEF MemoryIsDisk, Settled
<1>6. NamePart'
  BY <1>2 DEF DbInv, Lock, asked, NamePart
<1>7. HolderPart'
  BY <1>2 DEF HolderPart, Creating, Filling, Removing, Writing
<1> QED  BY <1>1, <1>3, <1>4, <1>5, <1>6, <1>7 DEF DbInv

-----------------------------------------------------------------------------
(* Steps under the lock that leave the disk alone.                         *)

(* They cannot disturb what is said of the disk.                           *)
LEMMA QuietStep ==
    ASSUME DbInv, DbTypeOK', NEW p \in Procs, pc[p] \in InsidePCs \ {"done"},
           UNCHANGED <<disk, lock, asked>>,
           pc' = [pc EXCEPT ![p] = pc'[p]], pc'[p] \in InsidePCs,
           Settled(p)' => mem'[p] = catalog,
           Creating(p)', Filling(p)', Removing(p)', Writing(p)'
    PROVE  DbInv'
<1>1. lock = p /\ pc[p] # "off"
  BY HolderKnows DEF InsidePCs, CreatePCs, RemovePCs
<1>2. IdPart' /\ EntriesBacked' /\ DataReachable'
  BY DEF DbInv, IdPart, EntriesBacked, DataReachable, disk
<1> QED  BY <1>1, <1>2, InsideStep DEF disk, asked

(* The catalog is read under the lock.                                     *)
LEMMA LoadInv ==
    ASSUME DbInv, NEW p \in Procs, Load(p)
    PROVE  DbInv'
<1>1. pc[p] \in {"load"} /\ pc'[p] \in {"recover"} /\ pc' = [pc EXCEPT ![p] = pc'[p]]
  BY DEF DbInv, DbTypeOK, Load, GoTo
<1>2. pc[p] \in InsidePCs \ {"done"} /\ pc'[p] \in InsidePCs
  BY <1>1 DEF InsidePCs, CreatePCs, RemovePCs
<1>3. /\ lock = p
      /\ Creating(p)
      /\ Filling(p)
      /\ Removing(p)
      /\ Writing(p)
      /\ name[p] \in Names
      /\ (pc[p] \notin {"load", "publish", "unpublish", "undo"} => mem[p] = catalog)
  BY <1>2, HolderKnows
<1>5. DbTypeOK'
  BY <1>1, <1>2, <1>3 DEF DbInv, DbTypeOK, Load, PCs, disk, asked, local
<1>6. Settled(p)' => mem'[p] = catalog
  BY <1>1, <1>3 DEF DbInv, DbTypeOK, Load, GoTo, Settled, disk, local
<1>7. Creating(p)' /\ Filling(p)' /\ Removing(p)' /\ Writing(p)'
  BY <1>1, <1>3
     DEF DbInv, DbTypeOK, Load, GoTo, Creating, Filling, Removing, Writing, disk, asked,
         local
<1> QED  BY <1>1, <1>2, <1>5, <1>6, <1>7, QuietStep DEF Load, local

(* Recovery, and system calls that fail where nothing is undone.           *)
LEMMA PlainInv ==
    ASSUME DbInv, NEW p \in Procs, Recover(p) \/ Fail(p)
    PROVE  DbInv'
<1>1. /\ pc[p] \in {"recover", "mkdir", "manifest", "read", "commit"}
      /\ pc'[p] \in {"failed", "call"}
      /\ pc' = [pc EXCEPT ![p] = pc'[p]]
  BY DEF DbInv, DbTypeOK, Recover, Fail, GoTo
<1>2. pc[p] \in InsidePCs \ {"done"} /\ pc'[p] \in InsidePCs
  BY <1>1 DEF InsidePCs, CreatePCs, RemovePCs
<1>3. /\ lock = p
      /\ Creating(p)
      /\ Filling(p)
      /\ Removing(p)
      /\ Writing(p)
      /\ name[p] \in Names
      /\ (pc[p] \notin {"load", "publish", "unpublish", "undo"} => mem[p] = catalog)
  BY <1>2, HolderKnows
<1>5. DbTypeOK'
  BY <1>1, <1>2, <1>3 DEF DbInv, DbTypeOK, Recover, Fail, PCs, disk, asked, local
<1>6. Settled(p)' => mem'[p] = catalog
  BY <1>1, <1>3 DEF DbInv, DbTypeOK, Recover, Fail, GoTo, Settled, disk, local
<1>7. Creating(p)' /\ Filling(p)' /\ Removing(p)' /\ Writing(p)'
  BY <1>1, <1>3
     DEF DbInv, DbTypeOK, Recover, Fail, GoTo, Creating, Filling, Removing, Writing,
         disk, asked, local
<1> QED  BY <1>1, <1>2, <1>5, <1>6, <1>7, QuietStep DEF Recover, Fail, local

(* A call: what it knows of its table is the catalog's.                    *)
LEMMA CallInv ==
    ASSUME DbInv, NEW p \in Procs, Call(p)
    PROVE  DbInv'
<1>1. /\ pc[p] \in {"call"}
      /\ pc'[p] \in {"create", "unpublish", "read", "failed"}
      /\ pc' = [pc EXCEPT ![p] = pc'[p]]
  BY DEF DbInv, DbTypeOK, Call, GoTo
<1>2. pc[p] \in InsidePCs \ {"done"} /\ pc'[p] \in InsidePCs
  BY <1>1 DEF InsidePCs, CreatePCs, RemovePCs
<1>3. /\ lock = p
      /\ Creating(p)
      /\ Filling(p)
      /\ Removing(p)
      /\ Writing(p)
      /\ name[p] \in Names
      /\ (pc[p] \notin {"load", "publish", "unpublish", "undo"} => mem[p] = catalog)
  BY <1>2, HolderKnows
<1>4. Entry(p) \in Ids \cup {NoId} /\ catalog.tables[name[p]] = Entry(p)
      /\ Forgotten(catalog, name[p]) \in Catalogs
  <2>1. catalog.tables[name[p]] \in Ids \cup {NoId}
    BY <1>3, OtherIds
  <2>2. mem[p] = catalog
    BY <1>1, <1>3
  <2> QED  BY <1>3, <2>1, <2>2, CatalogTypes DEF Entry, DbInv, DbTypeOK
<1>5. DbTypeOK'
  BY <1>1, <1>2, <1>3, <1>4 DEF DbInv, DbTypeOK, Call, PCs, disk, asked, local
<1>6. Settled(p)' => mem'[p] = catalog
  BY <1>1, <1>3, <1>4 DEF DbInv, DbTypeOK, Call, GoTo, Settled, disk, local
<1>7. Creating(p)' /\ Filling(p)' /\ Removing(p)' /\ Writing(p)'
  BY <1>1, <1>3, <1>4
     DEF DbInv, DbTypeOK, Call, GoTo, Creating, Filling, Removing, Writing, disk, asked,
         local
<1> QED  BY <1>1, <1>2, <1>5, <1>6, <1>7, QuietStep DEF Call, local

(* A new table gets the next id.                                           *)
LEMMA CreateInv ==
    ASSUME DbInv, NEW p \in Procs, Create(p)
    PROVE  DbInv'
<1>1. /\ pc[p] \in {"create"}
      /\ pc'[p] \in {"mkdir", "failed"}
      /\ pc' = [pc EXCEPT ![p] = pc'[p]]
  BY DEF DbInv, DbTypeOK, Create, GoTo
<1>2. pc[p] \in InsidePCs \ {"done"} /\ pc'[p] \in InsidePCs
  BY <1>1 DEF InsidePCs, CreatePCs, RemovePCs
<1>3. /\ lock = p
      /\ Creating(p)
      /\ Filling(p)
      /\ Removing(p)
      /\ Writing(p)
      /\ name[p] \in Names
      /\ (pc[p] \notin {"load", "publish", "unpublish", "undo"} => mem[p] = catalog)
  BY <1>2, HolderKnows
<1>4. CanCreate(p) => mem[p].next \in Ids /\ catalog.tables[name[p]] = NoId
  BY <1>1, <1>3, OtherIds DEF CanCreate, Entry, Ids
<1>5. DbTypeOK'
  BY <1>1, <1>2, <1>3, <1>4 DEF DbInv, DbTypeOK, Create, PCs, disk, asked, local
<1>6. Settled(p)' => mem'[p] = catalog
  BY <1>1, <1>3, <1>4 DEF DbInv, DbTypeOK, Create, GoTo, Settled, disk, local
<1>7. Creating(p)' /\ Filling(p)' /\ Removing(p)' /\ Writing(p)'
  BY <1>1, <1>3, <1>4
     DEF DbInv, DbTypeOK, Create, GoTo, Creating, Filling, Removing, Writing, disk,
         asked, local
<1> QED  BY <1>1, <1>2, <1>5, <1>6, <1>7, QuietStep DEF Create, local

(* next_rid is read from a manifest nobody else writes.                    *)
LEMMA ReadRidInv ==
    ASSUME DbInv, NEW p \in Procs, ReadRid(p)
    PROVE  DbInv'
<1>1. /\ pc[p] \in {"read"}
      /\ pc'[p] \in {"commit", "failed"}
      /\ pc' = [pc EXCEPT ![p] = pc'[p]]
  BY DEF DbInv, DbTypeOK, ReadRid, GoTo
<1>2. pc[p] \in InsidePCs \ {"done"} /\ pc'[p] \in InsidePCs
  BY <1>1 DEF InsidePCs, CreatePCs, RemovePCs
<1>3. /\ lock = p
      /\ Creating(p)
      /\ Filling(p)
      /\ Removing(p)
      /\ Writing(p)
      /\ name[p] \in Names
      /\ (pc[p] \notin {"load", "publish", "unpublish", "undo"} => mem[p] = catalog)
  BY <1>2, HolderKnows
<1>4. /\ id[p] \in Ids /\ manifest[id[p]].rows \in 0 .. MaxRows
      /\ catalog.tables[name[p]] = id[p]
  BY <1>1, <1>3 DEF Writing, DbInv, DbTypeOK, Manifests
<1>5. DbTypeOK'
  BY <1>1, <1>2, <1>3, <1>4
     DEF DbInv, DbTypeOK, ReadRid, PCs, disk, asked, local, Usable
<1>6. Settled(p)' => mem'[p] = catalog
  BY <1>1, <1>3, <1>4, DatabaseAssumption
     DEF DbInv, DbTypeOK, ReadRid, GoTo, Settled, disk, local
<1>7. Creating(p)' /\ Filling(p)' /\ Removing(p)' /\ Writing(p)'
  BY <1>1, <1>3, <1>4, DatabaseAssumption
     DEF DbInv, DbTypeOK, ReadRid, GoTo, Creating, Filling, Removing, Writing, disk,
         asked, local, Usable
<1> QED  BY <1>1, <1>2, <1>5, <1>6, <1>7, QuietStep DEF ReadRid, local

(* The entry is made in memory.                                            *)
LEMMA RegisterInv ==
    ASSUME DbInv, NEW p \in Procs, RegisterTable(p)
    PROVE  DbInv'
<1>1. /\ pc[p] \in {"register"}
      /\ pc'[p] \in {"publish"}
      /\ pc' = [pc EXCEPT ![p] = pc'[p]]
  BY DEF DbInv, DbTypeOK, RegisterTable, GoTo
<1>2. pc[p] \in InsidePCs \ {"done"} /\ pc'[p] \in InsidePCs
  BY <1>1 DEF InsidePCs, CreatePCs, RemovePCs
<1>3. /\ lock = p
      /\ Creating(p)
      /\ Filling(p)
      /\ Removing(p)
      /\ Writing(p)
      /\ name[p] \in Names
      /\ (pc[p] \notin {"load", "publish", "unpublish", "undo"} => mem[p] = catalog)
  BY <1>2, HolderKnows
<1>4. Registered(catalog, name[p], id[p]) \in Catalogs /\ mem[p] = catalog
  BY <1>1, <1>3, CatalogTypes DEF Creating, DbInv, DbTypeOK
<1>5. DbTypeOK'
  BY <1>1, <1>2, <1>3, <1>4 DEF DbInv, DbTypeOK, RegisterTable, PCs, disk, asked, local
<1>6. Settled(p)' => mem'[p] = catalog
  BY <1>1, <1>3, <1>4 DEF DbInv, DbTypeOK, RegisterTable, GoTo, Settled, disk, local
<1>7. Creating(p)' /\ Filling(p)' /\ Removing(p)' /\ Writing(p)'
  BY <1>1, <1>3, <1>4
     DEF DbInv, DbTypeOK, RegisterTable, GoTo, Creating, Filling, Removing, Writing,
         disk, asked, local
<1> QED  BY <1>1, <1>2, <1>5, <1>6, <1>7, QuietStep DEF RegisterTable, local

(* It is undone when it cannot be saved.                                   *)
LEMMA PublishFailsInv ==
    ASSUME DbInv, NEW p \in Procs, PublishFails(p)
    PROVE  DbInv'
<1>1. pc[p] \in {"publish"} /\ pc'[p] \in {"cleanup"} /\ pc' = [pc EXCEPT ![p] = pc'[p]]
  BY DEF DbInv, DbTypeOK, PublishFails, GoTo
<1>2. pc[p] \in InsidePCs \ {"done"} /\ pc'[p] \in InsidePCs
  BY <1>1 DEF InsidePCs, CreatePCs, RemovePCs
<1>3. /\ lock = p
      /\ Creating(p)
      /\ Filling(p)
      /\ Removing(p)
      /\ Writing(p)
      /\ name[p] \in Names
      /\ (pc[p] \notin {"load", "publish", "unpublish", "undo"} => mem[p] = catalog)
  BY <1>2, HolderKnows
<1>4. /\ RolledBack(mem[p], name[p]) = catalog /\ id[p] \in Ids
      /\ \A n \in Names : catalog.tables[n] # id[p]
  <2>1. id[p] \in Ids /\ id[p] = catalog.next
    BY <1>1, <1>3 DEF Creating
  <2>2. RolledBack(mem[p], name[p]) = catalog
    BY <1>1, <1>3, RollBack DEF Creating, DbInv, DbTypeOK
  <2>3. \A n \in Names : catalog.tables[n] # id[p]
    BY <2>1, OtherIds DEF Ids, NoId
  <2> QED  BY <2>1, <2>2, <2>3
<1>5. DbTypeOK'
  BY <1>1, <1>2, <1>3, <1>4 DEF DbInv, DbTypeOK, PublishFails, PCs, disk, asked, local
<1>6. Settled(p)' => mem'[p] = catalog
  BY <1>1, <1>3, <1>4 DEF DbInv, DbTypeOK, PublishFails, GoTo, Settled, disk, local
<1>7. Creating(p)' /\ Filling(p)' /\ Removing(p)' /\ Writing(p)'
  BY <1>1, <1>3, <1>4
     DEF DbInv, DbTypeOK, PublishFails, GoTo, Creating, Filling, Removing, Writing,
         disk, asked, local
<1> QED  BY <1>1, <1>2, <1>5, <1>6, <1>7, QuietStep DEF PublishFails, local

(* A table whose row group cannot be made is taken out again.              *)
LEMMA MaterializeFailsInv ==
    ASSUME DbInv, NEW p \in Procs, MaterializeFails(p)
    PROVE  DbInv'
<1>1. /\ pc[p] \in {"mkgroup", "fillgroup"}
      /\ pc'[p] \in {"undo"}
      /\ pc' = [pc EXCEPT ![p] = pc'[p]]
  BY DEF DbInv, DbTypeOK, MaterializeFails, GoTo
<1>2. pc[p] \in InsidePCs \ {"done"} /\ pc'[p] \in InsidePCs
  BY <1>1 DEF InsidePCs, CreatePCs, RemovePCs
<1>3. /\ lock = p
      /\ Creating(p)
      /\ Filling(p)
      /\ Removing(p)
      /\ Writing(p)
      /\ name[p] \in Names
      /\ (pc[p] \notin {"load", "publish", "unpublish", "undo"} => mem[p] = catalog)
  BY <1>2, HolderKnows
<1>4. mem[p] = catalog /\ Forgotten(catalog, name[p]) \in Catalogs
  BY <1>1, <1>3, CatalogTypes DEF DbInv, DbTypeOK
<1>5. DbTypeOK'
  BY <1>1, <1>2, <1>3, <1>4
     DEF DbInv, DbTypeOK, MaterializeFails, PCs, disk, asked, local
<1>6. Settled(p)' => mem'[p] = catalog
  BY <1>1, <1>3, <1>4 DEF DbInv, DbTypeOK, MaterializeFails, GoTo, Settled, disk, local
<1>7. Creating(p)' /\ Filling(p)' /\ Removing(p)' /\ Writing(p)'
  BY <1>1, <1>3, <1>4
     DEF DbInv, DbTypeOK, MaterializeFails, GoTo, Creating, Filling, Removing, Writing,
         disk, asked, local
<1> QED  BY <1>1, <1>2, <1>5, <1>6, <1>7, QuietStep DEF MaterializeFails, local

(* A removal that cannot be saved is undone.                               *)
LEMMA UnpublishFailsInv ==
    ASSUME DbInv, NEW p \in Procs, UnpublishFails(p)
    PROVE  DbInv'
<1>1. /\ pc[p] \in {"unpublish", "undo"}
      /\ pc'[p] \in {"failed"}
      /\ pc' = [pc EXCEPT ![p] = pc'[p]]
  BY DEF DbInv, DbTypeOK, UnpublishFails, GoTo
<1>2. pc[p] \in InsidePCs \ {"done"} /\ pc'[p] \in InsidePCs
  BY <1>1 DEF InsidePCs, CreatePCs, RemovePCs
<1>3. /\ lock = p
      /\ Creating(p)
      /\ Filling(p)
      /\ Removing(p)
      /\ Writing(p)
      /\ name[p] \in Names
      /\ (pc[p] \notin {"load", "publish", "unpublish", "undo"} => mem[p] = catalog)
  BY <1>2, HolderKnows
<1>4. Restored(mem[p], name[p], id[p]) = catalog
  BY <1>1, <1>3, PutBack DEF Removing, DbInv, DbTypeOK
<1>5. DbTypeOK'
  BY <1>1, <1>2, <1>3, <1>4 DEF DbInv, DbTypeOK, UnpublishFails, PCs, disk, asked, local
<1>6. Settled(p)' => mem'[p] = catalog
  BY <1>1, <1>3, <1>4 DEF DbInv, DbTypeOK, UnpublishFails, GoTo, Settled, disk, local
<1>7. Creating(p)' /\ Filling(p)' /\ Removing(p)' /\ Writing(p)'
  BY <1>1, <1>3, <1>4
     DEF DbInv, DbTypeOK, UnpublishFails, GoTo, Creating, Filling, Removing, Writing,
         disk, asked, local
<1> QED  BY <1>1, <1>2, <1>5, <1>6, <1>7, QuietStep DEF UnpublishFails, local

-----------------------------------------------------------------------------
(* Steps that change the disk.                                             *)

(* The directory of a table that is not published.                         *)
LEMMA MkDirInv ==
    ASSUME DbInv, NEW p \in Procs, MkDir(p)
    PROVE  DbInv'
<1>1. pc[p] \in {"mkdir"} /\ pc'[p] \in {"manifest"} /\ pc' = [pc EXCEPT ![p] = pc'[p]]
  BY DEF DbInv, DbTypeOK, MkDir, LoadsMore, GoTo
<1>2. pc[p] \in InsidePCs \ {"done"} /\ pc'[p] \in InsidePCs /\ pc[p] # "off"
  BY <1>1 DEF InsidePCs, CreatePCs, RemovePCs
<1>3. /\ lock = p
      /\ Creating(p)
      /\ Filling(p)
      /\ Removing(p)
      /\ Writing(p)
      /\ name[p] \in Names
      /\ (pc[p] \notin {"load", "publish", "unpublish", "undo"} => mem[p] = catalog)
  BY <1>2, HolderKnows
<1>4. id[p] \in Ids
  BY <1>1, <1>3 DEF Creating
<1>5. DbTypeOK'
  BY <1>1, <1>2, <1>3, <1>4
     DEF DbInv, DbTypeOK, MkDir, PCs, GroupStates, Manifests, asked, local
<1>6. IdPart'
  BY <1>1, <1>3, <1>4 DEF DbInv, DbTypeOK, MkDir, IdPart, Ids, NoId
<1>7. EntriesBacked'
  BY <1>1, <1>3, <1>4 DEF DbInv, DbTypeOK, MkDir, EntriesBacked
<1>8. DataReachable'
  BY <1>1, <1>3, <1>4 DEF DbInv, DbTypeOK, MkDir, DataReachable
<1>9. Settled(p)' => mem'[p] = catalog'
  BY <1>1, <1>3, <1>4 DEF MkDir, GoTo, Settled, local
<1>10. Creating(p)' /\ Filling(p)' /\ Removing(p)' /\ Writing(p)'
  BY <1>1, <1>3, <1>4
     DEF DbInv, DbTypeOK, MkDir, GoTo, Creating, Filling, Removing, Writing, asked,
         local
<1> QED  BY <1>1, <1>2, <1>3, <1>5, <1>6, <1>7, <1>8, <1>9, <1>10, InsideStep
     DEF MkDir, asked, local

(* Its manifest, in a directory no entry has.                              *)
LEMMA WriteManifestInv ==
    ASSUME DbInv, NEW p \in Procs, WriteManifest(p)
    PROVE  DbInv'
<1>1. /\ pc[p] \in {"manifest"}
      /\ pc'[p] \in {"register"}
      /\ pc' = [pc EXCEPT ![p] = pc'[p]]
  BY DEF DbInv, DbTypeOK, WriteManifest, LoadsMore, GoTo
<1>2. pc[p] \in InsidePCs \ {"done"} /\ pc'[p] \in InsidePCs /\ pc[p] # "off"
  BY <1>1 DEF InsidePCs, CreatePCs, RemovePCs
<1>3. /\ lock = p
      /\ Creating(p)
      /\ Filling(p)
      /\ Removing(p)
      /\ Writing(p)
      /\ name[p] \in Names
      /\ (pc[p] \notin {"load", "publish", "unpublish", "undo"} => mem[p] = catalog)
  BY <1>2, HolderKnows
<1>4. /\ id[p] \in Ids /\ [name |-> name[p], rows |-> 0] \in Manifests
      /\ \A n \in Names : catalog.tables[n] # id[p]
      /\ \A n \in Names : catalog.tables[n] \in Ids \cup {NoId}
  BY <1>1, <1>3, OtherIds, DatabaseAssumption DEF Creating, Manifests, Ids, NoId
<1>5. DbTypeOK'
  BY <1>1, <1>2, <1>3, <1>4
     DEF DbInv, DbTypeOK, WriteManifest, PCs, GroupStates, asked, local
<1>6. IdPart'
  BY <1>1, <1>3, <1>4 DEF DbInv, DbTypeOK, WriteManifest, IdPart, Ids, NoId
<1>7. EntriesBacked'
  BY <1>1, <1>3, <1>4 DEF DbInv, DbTypeOK, WriteManifest, EntriesBacked
<1>8. DataReachable'
  BY <1>1, <1>3, <1>4 DEF DbInv, DbTypeOK, WriteManifest, DataReachable
<1>9. Settled(p)' => mem'[p] = catalog'
  BY <1>1, <1>3, <1>4 DEF WriteManifest, GoTo, Settled, local
<1>10. Creating(p)' /\ Filling(p)' /\ Removing(p)' /\ Writing(p)'
  BY <1>1, <1>3, <1>4, DatabaseAssumption
     DEF DbInv, DbTypeOK, WriteManifest, GoTo, Creating, Filling, Removing, Writing,
         asked, local
<1> QED  BY <1>1, <1>2, <1>3, <1>5, <1>6, <1>7, <1>8, <1>9, <1>10, InsideStep
     DEF WriteManifest, asked, local

(* The catalog is published: the new entry is backed and empty.            *)
LEMMA PublishInv ==
    ASSUME DbInv, NEW p \in Procs, Publish(p)
    PROVE  DbInv'
<1>1. pc[p] \in {"publish"} /\ pc'[p] \in {"mkgroup"} /\ pc' = [pc EXCEPT ![p] = pc'[p]]
  BY DEF DbInv, DbTypeOK, Publish, LoadsMore, GoTo
<1>2. pc[p] \in InsidePCs \ {"done"} /\ pc'[p] \in InsidePCs /\ pc[p] # "off"
  BY <1>1 DEF InsidePCs, CreatePCs, RemovePCs
<1>3. /\ lock = p
      /\ Creating(p)
      /\ Filling(p)
      /\ Removing(p)
      /\ Writing(p)
      /\ name[p] \in Names
      /\ (pc[p] \notin {"load", "publish", "unpublish", "undo"} => mem[p] = catalog)
  BY <1>2, HolderKnows
<1>4. /\ id[p] \in Ids /\ id[p] = catalog.next /\ catalog.next \in Int
      /\ id[p] \in dirs
      /\ manifest[id[p]] = [name |-> name[p], rows |-> 0]
      /\ catalog'.next = catalog.next + 1
      /\ catalog'.tables = [catalog.tables EXCEPT ![name[p]] = id[p]]
      /\ catalog.tables \in [Names -> Ids \cup {NoId}]
      /\ \A n \in Names : catalog.tables[n] < catalog.next
  BY <1>1, <1>3, OtherIds DEF Publish, Creating, Registered
<1>5. DbTypeOK'
  BY <1>1, <1>2, <1>3, <1>4
     DEF DbInv, DbTypeOK, Publish, PCs, GroupStates, Manifests, asked, local
<1>6. IdPart'
  <2>1. \A n \in Names : catalog'.tables[n] = IF n = name[p] THEN id[p] ELSE catalog.tables[n]
    BY <1>3, <1>4
  <2>2. \A n \in Names : catalog.tables[n] \in Int
    BY <1>4 DEF Ids, NoId
  <2>3. \A n \in Names : catalog'.tables[n] < catalog'.next
    BY <1>4, <2>1, <2>2
  <2>4. \A m, n \in Names : catalog'.tables[m] = catalog'.tables[n] /\ m # n
                            => catalog'.tables[m] = NoId
    BY <1>4, <2>1, <2>2 DEF DbInv, IdPart
  <2>5. \A i \in Ids : i >= catalog'.next => group0'[i] = "none"
    BY <1>4 DEF DbInv, IdPart, Publish, Ids
  <2> QED  BY <2>3, <2>4, <2>5 DEF IdPart
<1>7. EntriesBacked'
  BY <1>1, <1>3, <1>4 DEF DbInv, DbTypeOK, Publish, EntriesBacked
<1>8. DataReachable'
  BY <1>1, <1>3, <1>4 DEF DbInv, DbTypeOK, Publish, DataReachable
<1>9. Settled(p)' => mem'[p] = catalog'
  BY <1>1, <1>3, <1>4 DEF Publish, GoTo, Settled, local
<1>10. Creating(p)' /\ Filling(p)' /\ Removing(p)' /\ Writing(p)'
  BY <1>1, <1>3, <1>4
     DEF DbInv, DbTypeOK, Publish, GoTo, Creating, Filling, Removing, Writing, asked,
         local
<1> QED  BY <1>1, <1>2, <1>3, <1>5, <1>6, <1>7, <1>8, <1>9, <1>10, InsideStep
     DEF Publish, asked, local

(* The directory of row group 0 of an empty table.                         *)
LEMMA MkGroupInv ==
    ASSUME DbInv, NEW p \in Procs, MkGroup(p)
    PROVE  DbInv'
<1>1. /\ pc[p] \in {"mkgroup"}
      /\ pc'[p] \in {"fillgroup"}
      /\ pc' = [pc EXCEPT ![p] = pc'[p]]
  BY DEF DbInv, DbTypeOK, MkGroup, LoadsMore, GoTo
<1>2. pc[p] \in InsidePCs \ {"done"} /\ pc'[p] \in InsidePCs /\ pc[p] # "off"
  BY <1>1 DEF InsidePCs, CreatePCs, RemovePCs
<1>3. /\ lock = p
      /\ Creating(p)
      /\ Filling(p)
      /\ Removing(p)
      /\ Writing(p)
      /\ name[p] \in Names
      /\ (pc[p] \notin {"load", "publish", "unpublish", "undo"} => mem[p] = catalog)
  BY <1>2, HolderKnows
<1>4. /\ id[p] \in Ids /\ id[p] < catalog.next /\ catalog.next \in Int
      /\ manifest[id[p]].rows = 0 /\ catalog.tables \in [Names -> Ids \cup {NoId}]
  BY <1>1, <1>3, OtherIds DEF Filling
<1>5. DbTypeOK'
  BY <1>1, <1>2, <1>3, <1>4
     DEF DbInv, DbTypeOK, MkGroup, PCs, GroupStates, Manifests, asked, local
<1>6. IdPart'
  BY <1>1, <1>3, <1>4 DEF DbInv, DbTypeOK, MkGroup, IdPart, Ids, NoId
<1>7. EntriesBacked'
  BY <1>1, <1>3, <1>4 DEF DbInv, DbTypeOK, MkGroup, EntriesBacked
<1>8. DataReachable'
  BY <1>1, <1>3, <1>4 DEF DbInv, DbTypeOK, MkGroup, DataReachable
<1>9. Settled(p)' => mem'[p] = catalog'
  BY <1>1, <1>3, <1>4 DEF MkGroup, GoTo, Settled, local
<1>10. Creating(p)' /\ Filling(p)' /\ Removing(p)' /\ Writing(p)'
  BY <1>1, <1>3, <1>4
     DEF DbInv, DbTypeOK, MkGroup, GoTo, Creating, Filling, Removing, Writing, asked,
         local
<1> QED  BY <1>1, <1>2, <1>3, <1>5, <1>6, <1>7, <1>8, <1>9, <1>10, InsideStep
     DEF MkGroup, asked, local

(* Its files.                                                              *)
LEMMA FillGroupInv ==
    ASSUME DbInv, NEW p \in Procs, FillGroup(p)
    PROVE  DbInv'
<1>1. /\ pc[p] \in {"fillgroup"}
      /\ pc'[p] \in {"read", "done"}
      /\ pc' = [pc EXCEPT ![p] = pc'[p]]
  BY DEF DbInv, DbTypeOK, FillGroup, LoadsMore, GoTo
<1>2. pc[p] \in InsidePCs \ {"done"} /\ pc'[p] \in InsidePCs /\ pc[p] # "off"
  BY <1>1 DEF InsidePCs, CreatePCs, RemovePCs
<1>3. /\ lock = p
      /\ Creating(p)
      /\ Filling(p)
      /\ Removing(p)
      /\ Writing(p)
      /\ name[p] \in Names
      /\ (pc[p] \notin {"load", "publish", "unpublish", "undo"} => mem[p] = catalog)
  BY <1>2, HolderKnows
<1>4. /\ id[p] \in Ids /\ id[p] < catalog.next /\ catalog.next \in Int
      /\ catalog.tables \in [Names -> Ids \cup {NoId}]
  BY <1>1, <1>3, OtherIds DEF Filling
<1>5. DbTypeOK'
  BY <1>1, <1>2, <1>3, <1>4
     DEF DbInv, DbTypeOK, FillGroup, PCs, GroupStates, Manifests, asked, local
<1>6. IdPart'
  BY <1>1, <1>3, <1>4 DEF DbInv, DbTypeOK, FillGroup, IdPart, Ids, NoId
<1>7. EntriesBacked'
  BY <1>1, <1>3, <1>4 DEF DbInv, DbTypeOK, FillGroup, EntriesBacked
<1>8. DataReachable'
  BY <1>1, <1>3, <1>4 DEF DbInv, DbTypeOK, FillGroup, DataReachable
<1>9. Settled(p)' => mem'[p] = catalog'
  BY <1>1, <1>3, <1>4 DEF FillGroup, GoTo, Settled, local
<1>10. Creating(p)' /\ Filling(p)' /\ Removing(p)' /\ Writing(p)'
  BY <1>1, <1>3, <1>4
     DEF DbInv, DbTypeOK, FillGroup, GoTo, Creating, Filling, Removing, Writing, asked,
         local
<1> QED  BY <1>1, <1>2, <1>3, <1>5, <1>6, <1>7, <1>8, <1>9, <1>10, InsideStep
     DEF FillGroup, asked, local

(* A published removal: the entry is gone, its directory is nobody's.      *)
LEMMA UnpublishInv ==
    ASSUME DbInv, NEW p \in Procs, Unpublish(p)
    PROVE  DbInv'
<1>1. /\ pc[p] \in {"unpublish", "undo"}
      /\ pc'[p] \in {"rmdir", "cleanup"}
      /\ pc' = [pc EXCEPT ![p] = pc'[p]]
  BY DEF DbInv, DbTypeOK, Unpublish, LoadsMore, GoTo
<1>2. pc[p] \in InsidePCs \ {"done"} /\ pc'[p] \in InsidePCs /\ pc[p] # "off"
  BY <1>1 DEF InsidePCs, CreatePCs, RemovePCs
<1>3. /\ lock = p
      /\ Creating(p)
      /\ Filling(p)
      /\ Removing(p)
      /\ Writing(p)
      /\ name[p] \in Names
      /\ (pc[p] \notin {"load", "publish", "unpublish", "undo"} => mem[p] = catalog)
  BY <1>2, HolderKnows
<1>4. /\ id[p] \in Ids /\ catalog.tables[name[p]] = id[p] /\ catalog.next \in Int
      /\ catalog'.next = catalog.next
      /\ catalog'.tables = [catalog.tables EXCEPT ![name[p]] = NoId]
      /\ catalog.tables \in [Names -> Ids \cup {NoId}]
      /\ \A n \in Names : n # name[p] => catalog.tables[n] # id[p]
      /\ \A n \in Names : catalog.tables[n] < catalog.next
      /\ NoId < catalog.next /\ id[p] # NoId
  BY <1>1, <1>3, OtherIds DEF Unpublish, Removing, Forgotten, Ids, NoId
<1>5. DbTypeOK'
  BY <1>1, <1>2, <1>3, <1>4
     DEF DbInv, DbTypeOK, Unpublish, PCs, GroupStates, Manifests, asked, local
<1>6. IdPart'
  BY <1>1, <1>3, <1>4 DEF DbInv, DbTypeOK, Unpublish, IdPart, Ids, NoId
<1>7. EntriesBacked'
  BY <1>1, <1>3, <1>4 DEF DbInv, DbTypeOK, Unpublish, EntriesBacked
<1>8. DataReachable'
  BY <1>1, <1>3, <1>4 DEF DbInv, DbTypeOK, Unpublish, DataReachable
<1>9. Settled(p)' => mem'[p] = catalog'
  BY <1>1, <1>3, <1>4 DEF Unpublish, GoTo, Settled, local
<1>10. Creating(p)' /\ Filling(p)' /\ Removing(p)' /\ Writing(p)'
  BY <1>1, <1>3, <1>4
     DEF DbInv, DbTypeOK, Unpublish, GoTo, Creating, Filling, Removing, Writing, asked,
         local
<1> QED  BY <1>1, <1>2, <1>3, <1>5, <1>6, <1>7, <1>8, <1>9, <1>10, InsideStep
     DEF Unpublish, asked, local

(* Files removed from a directory that is nobody's.                        *)
LEMMA RemoveSomeInv ==
    ASSUME DbInv, NEW p \in Procs, RemoveSome(p)
    PROVE  DbInv'
<1>1. /\ pc[p] \in {"rmdir", "cleanup"}
      /\ pc'[p] \in {"rmdir", "cleanup"}
      /\ pc' = [pc EXCEPT ![p] = pc'[p]]
  BY DEF DbInv, DbTypeOK, RemoveSome, LoadsMore, GoTo
<1>2. pc[p] \in InsidePCs \ {"done"} /\ pc'[p] \in InsidePCs /\ pc[p] # "off"
  BY <1>1 DEF InsidePCs, CreatePCs, RemovePCs
<1>3. /\ lock = p
      /\ Creating(p)
      /\ Filling(p)
      /\ Removing(p)
      /\ Writing(p)
      /\ name[p] \in Names
      /\ (pc[p] \notin {"load", "publish", "unpublish", "undo"} => mem[p] = catalog)
  BY <1>2, HolderKnows
<1>4. /\ id[p] \in Ids /\ NoManifest \in Manifests
      /\ \A n \in Names : catalog.tables[n] # id[p]
      /\ \A n \in Names : catalog.tables[n] \in Ids \cup {NoId}
  BY <1>1, <1>3, OtherIds, DatabaseAssumption DEF Removing, Manifests, NoManifest
<1>5. DbTypeOK'
  BY <1>1, <1>2, <1>3, <1>4
     DEF DbInv, DbTypeOK, RemoveSome, PCs, GroupStates, Manifests, asked, local
<1>6. IdPart'
  BY <1>1, <1>3, <1>4 DEF DbInv, DbTypeOK, RemoveSome, IdPart, Ids, NoId
<1>7. EntriesBacked'
  BY <1>1, <1>3, <1>4 DEF DbInv, DbTypeOK, RemoveSome, EntriesBacked
<1>8. DataReachable'
  BY <1>1, <1>3, <1>4 DEF DbInv, DbTypeOK, RemoveSome, DataReachable
<1>9. Settled(p)' => mem'[p] = catalog'
  BY <1>1, <1>3, <1>4 DEF RemoveSome, GoTo, Settled, local
<1>10. Creating(p)' /\ Filling(p)' /\ Removing(p)' /\ Writing(p)'
  BY <1>1, <1>3, <1>4
     DEF DbInv, DbTypeOK, RemoveSome, GoTo, Creating, Filling, Removing, Writing, asked,
         local
<1> QED  BY <1>1, <1>2, <1>3, <1>5, <1>6, <1>7, <1>8, <1>9, <1>10, InsideStep
     DEF RemoveSome, asked, local

(* The directory itself.                                                   *)
LEMMA RemoveEndsInv ==
    ASSUME DbInv, NEW p \in Procs, RemoveEnds(p)
    PROVE  DbInv'
<1>1. /\ pc[p] \in {"rmdir", "cleanup"}
      /\ pc'[p] \in {"create", "failed", "done"}
      /\ pc' = [pc EXCEPT ![p] = pc'[p]]
  BY DEF DbInv, DbTypeOK, RemoveEnds, LoadsMore, GoTo
<1>2. pc[p] \in InsidePCs \ {"done"} /\ pc'[p] \in InsidePCs /\ pc[p] # "off"
  BY <1>1 DEF InsidePCs, CreatePCs, RemovePCs
<1>3. /\ lock = p
      /\ Creating(p)
      /\ Filling(p)
      /\ Removing(p)
      /\ Writing(p)
      /\ name[p] \in Names
      /\ (pc[p] \notin {"load", "publish", "unpublish", "undo"} => mem[p] = catalog)
  BY <1>2, HolderKnows
<1>4. /\ id[p] \in Ids /\ NoManifest \in Manifests
      /\ \A n \in Names : catalog.tables[n] # id[p]
      /\ \A n \in Names : catalog.tables[n] \in Ids \cup {NoId}
  BY <1>1, <1>3, OtherIds, DatabaseAssumption DEF Removing, Manifests, NoManifest
<1>5. DbTypeOK'
  BY <1>1, <1>2, <1>3, <1>4
     DEF DbInv, DbTypeOK, RemoveEnds, PCs, GroupStates, Manifests, asked, local
<1>6. IdPart'
  BY <1>1, <1>3, <1>4 DEF DbInv, DbTypeOK, RemoveEnds, IdPart, Ids, NoId
<1>7. EntriesBacked'
  BY <1>1, <1>3, <1>4 DEF DbInv, DbTypeOK, RemoveEnds, EntriesBacked
<1>8. DataReachable'
  BY <1>1, <1>3, <1>4 DEF DbInv, DbTypeOK, RemoveEnds, DataReachable
<1>9. Settled(p)' => mem'[p] = catalog'
  BY <1>1, <1>3, <1>4 DEF RemoveEnds, GoTo, Settled, local
<1>10. Creating(p)' /\ Filling(p)' /\ Removing(p)' /\ Writing(p)'
  BY <1>1, <1>3, <1>4
     DEF DbInv, DbTypeOK, RemoveEnds, GoTo, Creating, Filling, Removing, Writing, asked,
         local
<1> QED  BY <1>1, <1>2, <1>3, <1>5, <1>6, <1>7, <1>8, <1>9, <1>10, InsideStep
     DEF RemoveEnds, asked, local

(* A commit: one row more, in a table that has its row group.              *)
LEMMA CommitRidInv ==
    ASSUME DbInv, NEW p \in Procs, CommitRid(p)
    PROVE  DbInv'
<1>1. /\ pc[p] \in {"commit"}
      /\ pc'[p] \in {"read", "done"}
      /\ pc' = [pc EXCEPT ![p] = pc'[p]]
  BY DEF DbInv, DbTypeOK, CommitRid, LoadsMore, GoTo
<1>2. pc[p] \in InsidePCs \ {"done"} /\ pc'[p] \in InsidePCs /\ pc[p] # "off"
  BY <1>1 DEF InsidePCs, CreatePCs, RemovePCs
<1>3. /\ lock = p
      /\ Creating(p)
      /\ Filling(p)
      /\ Removing(p)
      /\ Writing(p)
      /\ name[p] \in Names
      /\ (pc[p] \notin {"load", "publish", "unpublish", "undo"} => mem[p] = catalog)
  BY <1>2, HolderKnows
<1>4. /\ id[p] \in Ids /\ catalog.tables[name[p]] = id[p]
      /\ group0[id[p]] = "whole"
      /\ [manifest[id[p]] EXCEPT !.rows = rid[p] + 1] \in Manifests
      /\ rid[p] + 1 \in 0 .. MaxRows
      /\ \A n \in Names : catalog.tables[n] \in Ids \cup {NoId}
  BY <1>1, <1>3, OtherIds, DatabaseAssumption DEF Writing, DbInv, DbTypeOK, Manifests
<1>5. DbTypeOK'
  BY <1>1, <1>2, <1>3, <1>4
     DEF DbInv, DbTypeOK, CommitRid, PCs, GroupStates, asked, local
<1>6. IdPart'
  BY <1>1, <1>3, <1>4 DEF DbInv, DbTypeOK, CommitRid, IdPart, Ids, NoId
<1>7. EntriesBacked'
  BY <1>1, <1>3, <1>4 DEF DbInv, DbTypeOK, CommitRid, EntriesBacked
<1>8. DataReachable'
  BY <1>1, <1>3, <1>4 DEF DbInv, DbTypeOK, CommitRid, DataReachable
<1>9. Settled(p)' => mem'[p] = catalog'
  BY <1>1, <1>3, <1>4 DEF CommitRid, GoTo, Settled, local
<1>10. Creating(p)' /\ Filling(p)' /\ Removing(p)' /\ Writing(p)'
  BY <1>1, <1>3, <1>4
     DEF DbInv, DbTypeOK, CommitRid, GoTo, Creating, Filling, Removing, Writing, asked,
         local
<1> QED  BY <1>1, <1>2, <1>3, <1>5, <1>6, <1>7, <1>8, <1>9, <1>10, InsideStep
     DEF CommitRid, asked, local

-----------------------------------------------------------------------------
(* The inductive invariant.                                                *)

LEMMA InitDbInv == Init => DbInv
<1> SUFFICES ASSUME Init PROVE DbInv
  OBVIOUS
<1>1. EmptyCatalog \in Catalogs /\ NoManifest \in Manifests /\ 0 \in 0 .. MaxRows
  BY DatabaseAssumption DEF EmptyCatalog, NoManifest, Catalogs, Manifests, Ids, NoId
<1>2. DbTypeOK
  BY <1>1 DEF Init, DbTypeOK, MetaStates, GroupStates, PCs
<1>3. LockPart /\ NamePart /\ HolderPart /\ MemoryIsDisk
  BY DatabaseAssumption DEF Init, LockPart, NamePart, HolderPart, MemoryIsDisk, Settled,
                            InsidePCs, CreatePCs, RemovePCs
<1>4. IdPart /\ EntriesBacked /\ DataReachable
  BY DEF Init, IdPart, EntriesBacked, DataReachable, EmptyCatalog, NoId
<1> QED  BY <1>2, <1>3, <1>4 DEF DbInv

LEMMA NextDbInv ==
    ASSUME DbInv, [Next]_vars
    PROVE  DbInv'
<1>1. CASE UNCHANGED vars
  BY <1>1 DEF vars, DbInv, DbTypeOK, NamePart, LockPart, IdPart, HolderPart, Creating,
              Filling, Removing, Writing, MemoryIsDisk, Settled, EntriesBacked, DataReachable
<1>2. ASSUME NEW p \in Procs, NEW k \in Kinds, NEW n \in Names, Start(p, k, n)
      PROVE  DbInv'
  BY <1>2, StartInv
<1>3. ASSUME NEW p \in Procs, Step(p)
      PROVE  DbInv'
  <2>1. CASE MkDb(p) \/ TruncMeta(p) \/ FillMeta(p) \/ Gate(p)
    BY <2>1, InitInv
  <2>2. CASE Lock(p)
    BY <2>2, LockInv
  <2>3. CASE Refused(p) \/ Exit(p) \/ Crash(p)
    BY <2>3, LeaveStep DEF Refused, Exit, Crash
  <2>4. CASE Load(p) \/ Recover(p) \/ Fail(p) \/ Call(p)
    BY <2>4, LoadInv, PlainInv, CallInv
  <2>5. CASE Create(p) \/ MkDir(p) \/ WriteManifest(p) \/ RegisterTable(p)
    BY <2>5, CreateInv, MkDirInv, WriteManifestInv, RegisterInv
  <2>6. CASE Publish(p) \/ PublishFails(p) \/ MkGroup(p) \/ FillGroup(p) \/ MaterializeFails(p)
    BY <2>6, PublishInv, PublishFailsInv, MkGroupInv, FillGroupInv, MaterializeFailsInv
  <2>7. CASE Unpublish(p) \/ UnpublishFails(p) \/ RemoveSome(p) \/ RemoveEnds(p)
    BY <2>7, UnpublishInv, UnpublishFailsInv, RemoveSomeInv, RemoveEndsInv
  <2>8. CASE ReadRid(p) \/ CommitRid(p)
    BY <2>8, ReadRidInv, CommitRidInv
  <2> QED  BY <1>3, <2>1, <2>2, <2>3, <2>4, <2>5, <2>6, <2>7, <2>8 DEF Step
<1> QED  BY <1>1, <1>2, <1>3 DEF Next

(* DbInv, the inductive invariant, holds whatever number of commands run,  *)
(* fail and die: the lock protocol of open, the id allocation and the      *)
(* order of the writes in create_table and drop_table.                     *)
THEOREM DbInvariance == Spec => []DbInv
<1>1. Init => DbInv
  BY InitDbInv
<1>2. DbInv /\ [Next]_vars => DbInv'
  BY NextDbInv
<1> QED  BY <1>1, <1>2, PTL DEF Spec

-----------------------------------------------------------------------------
(* What follows from it.                                                   *)

(* No command ever works on a catalog that is not the one on disk: the     *)
(* lock of ColumnStore::open and the undoing of failed saves.              *)
THEOREM MemoryIsCurrent == Spec => []MemoryIsDisk
<1>1. DbInv => MemoryIsDisk
  BY DEF DbInv
<1> QED  BY <1>1, DbInvariance, PTL

(* catalog.toml never dangles: create_table publishes last, drop_table     *)
(* takes the entry out first.                                              *)
THEOREM EntriesNeverDangle == Spec => []EntriesBacked
<1>1. DbInv => EntriesBacked
  BY DEF DbInv
<1> QED  BY <1>1, DbInvariance, PTL

(* A committed row always has its row group, though an empty table may be  *)
(* left without one.                                                       *)
THEOREM RowsHaveTheirGroup == Spec => []DataReachable
<1>1. DbInv => DataReachable
  BY DEF DbInv
<1> QED  BY <1>1, DbInvariance, PTL

(* A directory that create_table takes over never has row groups in it:    *)
(* next_table_id goes back only for a table that was never published.      *)
THEOREM DirectoriesAreFresh == Spec => []FreshDir
<1>1. DbInv => FreshDir
  <2> SUFFICES ASSUME DbInv, NEW p \in Procs, pc[p] \in {"mkdir", "manifest"}
               PROVE  group0[id[p]] = "none"
    BY DEF FreshDir
  <2>1. Creating(p)
    BY HolderKnows DEF InsidePCs, CreatePCs
  <2>2. id[p] \in Ids /\ id[p] >= catalog.next
    BY <2>1 DEF Creating, Ids
  <2> QED  BY <2>2 DEF DbInv, IdPart
<1> QED  BY <1>1, DbInvariance, PTL

-----------------------------------------------------------------------------
(* The refinement of NameSpace.                                            *)

LEMMA InitIsNInit == Init => NS!NInit
<1> SUFFICES ASSUME Init PROVE NS!NInit
  OBVIOUS
<1>1. catalog.next = 1 /\ catalog.tables = [n \in Names |-> NoId]
  BY DEF Init, EmptyCatalog
<1>2. 1 .. catalog.next - 1 = {}
  BY <1>1
<1>3. Rows = [n \in Names |-> 0]
  BY <1>1 DEF Rows
<1> QED  BY <1>1, <1>2, <1>3 DEF NS!NInit

(* A step that leaves the catalog alone, and the manifests of its tables,  *)
(* is none of NameSpace's.                                                 *)
LEMMA Stutter ==
    ASSUME catalog' = catalog,
           \A n \in Names : catalog.tables[n] # NoId
              => manifest'[catalog.tables[n]].rows = manifest[catalog.tables[n]].rows
    PROVE  UNCHANGED NS!nvars
<1>1. Rows' = Rows
  BY DEF Rows
<1> QED  BY <1>1 DEF NS!nvars

LEMMA PublishRegisters ==
    ASSUME DbInv, NEW p \in Procs, Publish(p)
    PROVE  NS!Register(name[p])
<1>1. lock = p /\ Creating(p) /\ name[p] \in Names
  BY HolderKnows DEF Publish, InsidePCs, CreatePCs
<1>2. /\ id[p] = catalog.next /\ id[p] \in Ids
      /\ catalog.tables[name[p]] = NoId
      /\ manifest[id[p]].rows = 0
      /\ catalog' = Registered(catalog, name[p], id[p])
      /\ manifest' = manifest
  BY <1>1 DEF Creating, Publish
<1>3. /\ catalog'.next = catalog.next + 1
      /\ catalog'.tables = [catalog.tables EXCEPT ![name[p]] = id[p]]
      /\ catalog.tables \in [Names -> Ids \cup {NoId}]
      /\ catalog.next \in Nat \ {0}
  BY <1>1, <1>2, OtherIds DEF Registered
<1>4. id[p] \notin 1 .. catalog.next - 1
  BY <1>2, <1>3
<1>5. (1 .. catalog.next - 1)' = (1 .. catalog.next - 1) \cup {id[p]}
  BY <1>2, <1>3
<1>6. Rows' = Rows
  BY <1>1, <1>2, <1>3 DEF Rows, Ids, NoId
<1> QED  BY <1>2, <1>3, <1>4, <1>5, <1>6 DEF NS!Register

LEMMA UnpublishRetires ==
    ASSUME DbInv, NEW p \in Procs, Unpublish(p)
    PROVE  NS!Retire(name[p])
<1>1. lock = p /\ Removing(p) /\ name[p] \in Names
  BY HolderKnows DEF Unpublish, InsidePCs, RemovePCs
<1>2. /\ catalog.tables[name[p]] # NoId
      /\ catalog' = Forgotten(catalog, name[p])
      /\ manifest' = manifest
  BY <1>1 DEF Removing, Unpublish, Ids, NoId
<1>3. /\ catalog'.next = catalog.next
      /\ catalog'.tables = [catalog.tables EXCEPT ![name[p]] = NoId]
      /\ catalog.tables \in [Names -> Ids \cup {NoId}]
  BY <1>1, <1>2, OtherIds DEF Forgotten
<1>4. Rows' = [Rows EXCEPT ![name[p]] = 0]
  BY <1>1, <1>2, <1>3 DEF Rows
<1> QED  BY <1>2, <1>3, <1>4 DEF NS!Retire

LEMMA CommitGrows ==
    ASSUME DbInv, NEW p \in Procs, CommitRid(p)
    PROVE  NS!Grow(name[p])
<1>1. lock = p /\ Writing(p) /\ name[p] \in Names
  BY HolderKnows DEF CommitRid, InsidePCs
<1>2. /\ id[p] \in Ids /\ catalog.tables[name[p]] = id[p] /\ id[p] # NoId
      /\ rid[p] = manifest[id[p]].rows
      /\ catalog' = catalog
      /\ manifest' = [manifest EXCEPT ![id[p]].rows = rid[p] + 1]
      /\ manifest \in [Ids -> Manifests]
  BY <1>1 DEF Writing, CommitRid, DbInv, DbTypeOK, Ids, NoId
<1>3. /\ manifest'[id[p]].rows = manifest[id[p]].rows + 1
      /\ \A i \in Ids \ {id[p]} : manifest'[i] = manifest[i]
  BY <1>2 DEF Manifests
<1>4. \A n \in Names : /\ catalog.tables[n] \in Ids \cup {NoId}
                       /\ n # name[p] => catalog.tables[n] # id[p]
  BY <1>1, <1>2, OtherIds
<1>5. Rows' = [Rows EXCEPT ![name[p]] = @ + 1]
  BY <1>1, <1>2, <1>3, <1>4 DEF Rows
<1> QED  BY <1>2, <1>5 DEF NS!Grow

(* Writing or removing files of a directory that no entry has.             *)
LEMMA OrphanSteps ==
    ASSUME DbInv, NEW p \in Procs, WriteManifest(p) \/ RemoveSome(p)
    PROVE  UNCHANGED NS!nvars
<1>1. Creating(p) /\ Removing(p)
  BY HolderKnows DEF WriteManifest, RemoveSome, InsidePCs, CreatePCs, RemovePCs
<1>2. \A n \in Names : catalog.tables[n] # id[p] /\ catalog.tables[n] \in Ids \cup {NoId}
  BY <1>1, OtherIds DEF Creating, Removing, WriteManifest, RemoveSome
<1>3. catalog' = catalog /\ \A i \in Ids \ {id[p]} : manifest'[i] = manifest[i]
  BY DEF WriteManifest, RemoveSome, DbInv, DbTypeOK
<1> QED  BY <1>2, <1>3, Stutter

LEMMA NextIsNNext ==
    ASSUME DbInv, [Next]_vars
    PROVE  [NS!NNext]_NS!nvars
<1>1. CASE catalog' = catalog /\ manifest' = manifest
  BY <1>1, Stutter
<1>2. ASSUME NEW p \in Procs, Step(p), ~ (catalog' = catalog /\ manifest' = manifest)
      PROVE  [NS!NNext]_NS!nvars
  <2>1. WriteManifest(p) \/ Publish(p) \/ Unpublish(p) \/ RemoveSome(p) \/ CommitRid(p)
    BY <1>2
       DEF Step, MkDb, TruncMeta, FillMeta, Gate, Lock, Refused, Load, Recover, Call,
                Create, MkDir, RegisterTable, PublishFails, MkGroup, FillGroup,
                MaterializeFails, UnpublishFails, RemoveEnds, ReadRid, Fail, Exit, Crash,
                Leave, disk
  <2>2. name[p] \in Names
    BY <2>1
       DEF DbInv, NamePart, WriteManifest, Publish, Unpublish, RemoveSome, CommitRid
  <2>3. CASE WriteManifest(p) \/ RemoveSome(p)
    BY <2>3, OrphanSteps
  <2>4. CASE Publish(p)
    BY <2>2, <2>4, PublishRegisters DEF NS!NNext
  <2>5. CASE Unpublish(p)
    BY <2>2, <2>5, UnpublishRetires DEF NS!NNext
  <2>6. CASE CommitRid(p)
    BY <2>2, <2>6, CommitGrows DEF NS!NNext
  <2> QED  BY <2>1, <2>3, <2>4, <2>5, <2>6
<1>3. ASSUME NEW p \in Procs, NEW k \in Kinds, NEW n \in Names, Start(p, k, n)
      PROVE  catalog' = catalog /\ manifest' = manifest
  BY <1>3 DEF Start, disk
<1> QED  BY <1>1, <1>2, <1>3 DEF Next, vars

(* The commands together implement NameSpace: tables are registered,       *)
(* grown and retired one at a time, and no two ever have the same id.      *)
THEOREM Refinement == Spec => ImplementsNameSpace
<1>1. Init => NS!NInit
  BY InitIsNInit
<1>2. DbInv /\ [Next]_vars => [NS!NNext]_NS!nvars
  BY NextIsNNext
<1> QED  BY <1>1, <1>2, DbInvariance, PTL DEF Spec, ImplementsNameSpace, NS!NSpec
=============================================================================
