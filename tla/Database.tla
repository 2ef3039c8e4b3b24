------------------------------ MODULE Database ------------------------------
(***************************************************************************)
(* The database directory and the commands that run on it at the same      *)
(* time: src/catalog/metadata.rs (balik.meta), the whole-database lock and *)
(* open of src/storage/column_store.rs, and the table directory of         *)
(* src/catalog/tables.rs.                                                  *)
(*                                                                         *)
(* A command is a process.  It may die, or a system call may fail, before  *)
(* any of its durable writes; the operating system then drops its lock.    *)
(* Inside a table only row group 0 (which create_table makes) and the      *)
(* number of committed rows are kept: module ColumnStore is about the rest.*)
(***************************************************************************)
EXTENDS Integers

CONSTANTS
    Procs,     \* the commands that may run at the same time
    Names,     \* table names
    NoProc,    \* nobody holds the lock
    NoName,    \* the name in a manifest that is not there
    MaxId,     \* bound: tables created
    MaxRows    \* bound: rows of a table

ASSUME DatabaseAssumption == /\ MaxId \in Nat
                             /\ MaxRows \in Nat
                             /\ NoProc \notin Procs
                             /\ NoName \notin Names

VARIABLES
    meta,      \* balik.meta, and the directory it is in
    lock,      \* who holds balik.lock
    catalog,   \* catalog.toml; a missing file reads as EmptyCatalog
    dirs,      \* table directories that exist
    manifest,  \* manifest[i]: the manifest.toml of directory i
    group0,    \* group0[i]: row group 0 of directory i
    pc,        \* pc[p]: where command p is; "off" when it does not run
    kind,      \* what it was asked to do
    name,      \* and to which table
    mem,       \* the Catalog it holds in memory
    id,        \* the table directory it works on
    rid        \* the next_rid it read

disk == <<meta, catalog, dirs, manifest, group0>>
asked == <<kind, name>>
local == <<mem, id, rid>>
vars == <<meta, lock, catalog, dirs, manifest, group0, pc, kind, name, mem, id, rid>>

Ids == 1 .. MaxId
NoId == 0
Kinds == {"init", "create", "drop", "insert", "generate"}

(* tables[n] is the id of the entry named n.                               *)
Catalogs == [next : 1 .. MaxId + 1, tables : [Names -> Ids \cup {NoId}]]
EmptyCatalog == [next |-> 1, tables |-> [n \in Names |-> NoId]]

Manifests == [name : Names \cup {NoName}, rows : 0 .. MaxRows]
NoManifest == [name |-> NoName, rows |-> 0]

(* "nodir": not even the directory; "short": what fs::write leaves between *)
(* truncating and writing.                                                 *)
MetaStates == {"nodir", "missing", "short", "whole"}

(* "part": the row group's directory exists, some file in it does not.     *)
GroupStates == {"none", "part", "whole"}

InitPCs == {"mkdb", "trunc_meta", "fill_meta"}
CreatePCs == {"create", "mkdir", "manifest", "register", "publish", "mkgroup", "fillgroup"}
RemovePCs == {"unpublish", "undo", "rmdir", "cleanup"}
InsidePCs == {"load", "recover", "call", "read", "commit", "done", "failed"}
                 \cup CreatePCs \cup RemovePCs
PCs == {"off", "gate", "lock"} \cup InitPCs \cup InsidePCs

DbTypeOK ==
    /\ meta \in MetaStates
    /\ lock \in Procs \cup {NoProc}
    /\ catalog \in Catalogs
    /\ dirs \subseteq Ids
    /\ manifest \in [Ids -> Manifests]
    /\ group0 \in [Ids -> GroupStates]
    /\ pc \in [Procs -> PCs]
    /\ kind \in [Procs -> Kinds \cup {"none"}]
    /\ name \in [Procs -> Names \cup {NoName}]
    /\ mem \in [Procs -> Catalogs]
    /\ id \in [Procs -> Ids \cup {NoId}]
    /\ rid \in [Procs -> 0 .. MaxRows]

Init ==
    /\ meta = "nodir"
    /\ lock = NoProc
    /\ catalog = EmptyCatalog
    /\ dirs = {}
    /\ manifest = [i \in Ids |-> NoManifest]
    /\ group0 = [i \in Ids |-> "none"]
    /\ pc = [p \in Procs |-> "off"]
    /\ kind = [p \in Procs |-> "none"]
    /\ name = [p \in Procs |-> NoName]
    /\ mem = [p \in Procs |-> EmptyCatalog]
    /\ id = [p \in Procs |-> NoId]
    /\ rid = [p \in Procs |-> 0]

GoTo(p, place) == pc' = [pc EXCEPT ![p] = place]

(* The process ends: its lock goes with it, its memory too.                *)
Leave(p) ==
    /\ GoTo(p, "off")
    /\ lock' = IF lock = p THEN NoProc ELSE lock
    /\ kind' = [kind EXCEPT ![p] = "none"]
    /\ name' = [name EXCEPT ![p] = NoName]
    /\ mem' = [mem EXCEPT ![p] = EmptyCatalog]
    /\ id' = [id EXCEPT ![p] = NoId]
    /\ rid' = [rid EXCEPT ![p] = 0]
    /\ UNCHANGED disk

-----------------------------------------------------------------------------
(* init, and the commands up to the lock.                                  *)

(* metadata::initialize refuses a path that exists; `bench gen` runs it    *)
(* when there is no balik.meta, and goes on when there is a good one.  A   *)
(* refused command leaves no trace and is not modelled.                    *)
Start(p, k, n) ==
    /\ pc[p] = "off"
    /\ \/ k \in {"init", "generate"} /\ meta = "nodir" /\ GoTo(p, "mkdb")
       \/ k = "generate" /\ meta = "whole" /\ GoTo(p, "gate")
       \/ k \notin {"init", "generate"} /\ GoTo(p, "gate")
    /\ kind' = [kind EXCEPT ![p] = k]
    /\ name' = [name EXCEPT ![p] = n]
    /\ UNCHANGED <<disk, lock, local>>

(* create_dir_all: fine if somebody else was faster.                       *)
MkDb(p) ==
    /\ pc[p] = "mkdb"
    /\ meta' = IF meta = "nodir" THEN "missing" ELSE meta
    /\ GoTo(p, "trunc_meta")
    /\ UNCHANGED <<lock, catalog, dirs, manifest, group0, asked, local>>

TruncMeta(p) ==
    /\ pc[p] = "trunc_meta"
    /\ meta' = "short"
    /\ GoTo(p, "fill_meta")
    /\ UNCHANGED <<lock, catalog, dirs, manifest, group0, asked, local>>

FillMeta(p) ==
    /\ pc[p] = "fill_meta"
    /\ meta' = "whole"
    /\ GoTo(p, IF kind[p] = "generate" THEN "gate" ELSE "done")
    /\ UNCHANGED <<lock, catalog, dirs, manifest, group0, asked, local>>

(* ColumnStore::open: the status check, before the lock.                   *)
Gate(p) ==
    /\ pc[p] = "gate"
    /\ meta = "whole"
    /\ GoTo(p, "lock")
    /\ UNCHANGED <<disk, lock, asked, local>>

(* Mutant of LockFree: the lock is not waited for.                         *)
LockIgnored == TRUE

LockFree == lock = NoProc

(* acquire_lock: try_lock, which fails at once when the lock is taken.     *)
Lock(p) ==
    /\ pc[p] = "lock"
    /\ LockFree
    /\ lock' = p
    /\ GoTo(p, "load")
    /\ UNCHANGED <<disk, asked, local>>

(* Not a database, or one that is open elsewhere: the command ends.        *)
Refused(p) ==
    /\ \/ pc[p] = "gate" /\ meta # "whole"
       \/ pc[p] = "lock" /\ ~ LockFree
    /\ Leave(p)

Load(p) ==
    /\ pc[p] = "load"
    /\ mem' = [mem EXCEPT ![p] = catalog]
    /\ GoTo(p, "recover")
    /\ UNCHANGED <<disk, lock, asked, id, rid>>

(* recover: a table without a manifest is skipped, one without row group 0 *)
(* has nothing to reconcile, a row group with a file missing is an error.  *)
Irrecoverable(i) == manifest[i] # NoManifest /\ group0[i] = "part"

Recover(p) ==
    /\ pc[p] = "recover"
    /\ GoTo(p, IF \E n \in Names : mem[p].tables[n] # NoId /\ Irrecoverable(mem[p].tables[n])
               THEN "failed" ELSE "call")
    /\ UNCHANGED <<disk, lock, asked, local>>

-----------------------------------------------------------------------------
(* The calls.  `bench gen` is drop (if the table exists), create, and one  *)
(* bulk_load after the other.                                              *)

(* Mutant of Forgotten: the id is handed out again.                        *)
ForgottenId(c, n) == [next |-> c.next - 1, tables |-> [c.tables EXCEPT ![n] = NoId]]

(* tables.remove in drop_table: next_table_id never goes back.             *)
Forgotten(c, n) == [next |-> c.next, tables |-> [c.tables EXCEPT ![n] = NoId]]

Entry(p) == mem[p].tables[name[p]]

Call(p) ==
    /\ pc[p] = "call"
    /\ \/ /\ kind[p] = "create" \/ (kind[p] = "generate" /\ Entry(p) = NoId)
          /\ GoTo(p, "create")
          /\ UNCHANGED <<mem, id>>
       \/ /\ kind[p] \in {"drop", "generate"}
          /\ Entry(p) # NoId
          /\ GoTo(p, "unpublish")
          /\ id' = [id EXCEPT ![p] = Entry(p)]
          /\ mem' = [mem EXCEPT ![p] = Forgotten(@, name[p])]
       \/ /\ kind[p] = "insert"
          /\ Entry(p) # NoId
          /\ GoTo(p, "read")
          /\ id' = [id EXCEPT ![p] = Entry(p)]
          /\ UNCHANGED mem
       \/ /\ kind[p] \in {"drop", "insert"}        \* no such table
          /\ Entry(p) = NoId
          /\ GoTo(p, "failed")
          /\ UNCHANGED <<mem, id>>
    /\ UNCHANGED <<disk, lock, asked, rid>>

(* Mutant of CanCreate: an existing entry is replaced.                     *)
CanCreateAgain(p) == mem[p].next <= MaxId

(* contains_key, and the bound on ids.                                     *)
CanCreate(p) == Entry(p) = NoId /\ mem[p].next <= MaxId

Create(p) ==
    /\ pc[p] = "create"
    /\ IF CanCreate(p)
       THEN GoTo(p, "mkdir") /\ id' = [id EXCEPT ![p] = mem[p].next]
       ELSE GoTo(p, "failed") /\ UNCHANGED id
    /\ UNCHANGED <<disk, lock, asked, mem, rid>>

(* create_dir_all: an orphan of that id is taken over.                     *)
MkDir(p) ==
    /\ pc[p] = "mkdir"
    /\ dirs' = dirs \cup {id[p]}
    /\ GoTo(p, "manifest")
    /\ UNCHANGED <<meta, lock, catalog, manifest, group0, asked, local>>

WriteManifest(p) ==
    /\ pc[p] = "manifest"
    /\ manifest' = [manifest EXCEPT ![id[p]] = [name |-> name[p], rows |-> 0]]
    /\ GoTo(p, "register")
    /\ UNCHANGED <<meta, lock, catalog, dirs, group0, asked, local>>

Registered(c, n, i) == [next |-> c.next + 1, tables |-> [c.tables EXCEPT ![n] = i]]

RegisterTable(p) ==
    /\ pc[p] = "register"
    /\ mem' = [mem EXCEPT ![p] = Registered(@, name[p], id[p])]
    /\ GoTo(p, "publish")
    /\ UNCHANGED <<disk, lock, asked, id, rid>>

Publish(p) ==
    /\ pc[p] = "publish"
    /\ catalog' = mem[p]
    /\ GoTo(p, "mkgroup")
    /\ UNCHANGED <<meta, lock, dirs, manifest, group0, asked, local>>

(* Mutant of RolledBack: the id allocator is forgotten.                    *)
RolledBackName(c, n) == [c EXCEPT !.tables[n] = NoId]

RolledBack(c, n) == [next |-> c.next - 1, tables |-> [c.tables EXCEPT ![n] = NoId]]

(* save_atomic returns Err: undo in memory, remove the directory.          *)
PublishFails(p) ==
    /\ pc[p] = "publish"
    /\ mem' = [mem EXCEPT ![p] = RolledBack(@, name[p])]
    /\ GoTo(p, "cleanup")
    /\ UNCHANGED <<disk, lock, asked, id, rid>>

(* materialize_row_group for row group 0: the directory, then its files.   *)
MkGroup(p) ==
    /\ pc[p] = "mkgroup"
    /\ group0' = [group0 EXCEPT ![id[p]] = "part"]
    /\ GoTo(p, "fillgroup")
    /\ UNCHANGED <<meta, lock, catalog, dirs, manifest, asked, local>>

LoadsMore(p) == kind[p] = "generate" /\ GoTo(p, "read")

FillGroup(p) ==
    /\ pc[p] = "fillgroup"
    /\ group0' = [group0 EXCEPT ![id[p]] = "whole"]
    /\ LoadsMore(p) \/ GoTo(p, "done")
    /\ UNCHANGED <<meta, lock, catalog, dirs, manifest, asked, local>>

(* It returns Err: the table is dropped again.                             *)
MaterializeFails(p) ==
    /\ pc[p] \in {"mkgroup", "fillgroup"}
    /\ mem' = [mem EXCEPT ![p] = Forgotten(@, name[p])]
    /\ GoTo(p, "undo")
    /\ UNCHANGED <<disk, lock, asked, id, rid>>

(* Its entry put back when the catalog cannot be saved.                    *)
Restored(c, n, i) == [next |-> c.next, tables |-> [c.tables EXCEPT ![n] = i]]

(* drop_table, its entry gone from memory: the catalog first.              *)
Unpublish(p) ==
    /\ pc[p] \in {"unpublish", "undo"}
    /\ catalog' = mem[p]
    /\ GoTo(p, IF pc[p] = "undo" THEN "cleanup" ELSE "rmdir")
    /\ UNCHANGED <<meta, lock, dirs, manifest, group0, asked, local>>

UnpublishFails(p) ==
    /\ pc[p] \in {"unpublish", "undo"}
    /\ mem' = [mem EXCEPT ![p] = Restored(@, name[p], id[p])]
    /\ GoTo(p, "failed")
    /\ UNCHANGED <<disk, lock, asked, id, rid>>

(* remove_dir_all takes the files in any order, and may stop anywhere; its *)
(* caller logs that and goes on.                                           *)
RemoveSome(p) ==
    /\ pc[p] \in {"rmdir", "cleanup"}
    /\ \/ /\ manifest' = [manifest EXCEPT ![id[p]] = NoManifest]
          /\ UNCHANGED group0
       \/ /\ \E s \in {"part", "none"} :
                /\ s = "part" => group0[id[p]] # "none"
                /\ group0' = [group0 EXCEPT ![id[p]] = s]
          /\ UNCHANGED manifest
    /\ UNCHANGED <<meta, lock, catalog, dirs, pc, asked, local>>

RemoveEnds(p) ==
    /\ pc[p] \in {"rmdir", "cleanup"}
    /\ dirs' = IF manifest[id[p]] = NoManifest /\ group0[id[p]] = "none"
               THEN dirs \ {id[p]} ELSE dirs
    /\ GoTo(p, IF pc[p] = "cleanup" THEN "failed"
               ELSE IF kind[p] = "generate" THEN "create" ELSE "done")
    /\ UNCHANGED <<meta, lock, catalog, manifest, group0, asked, local>>

(* Mutant of Usable: row group 0 is not needed.                            *)
UsableWithoutGroup(i) == manifest[i] # NoManifest

(* insert and bulk_load: the manifest is read, so are the files of the     *)
(* group.  One row stands for what a call commits.                         *)
Usable(i) == manifest[i] # NoManifest /\ group0[i] = "whole"

ReadRid(p) ==
    /\ pc[p] = "read"
    /\ IF Usable(id[p]) /\ manifest[id[p]].rows < MaxRows      \* bound
       THEN /\ rid' = [rid EXCEPT ![p] = manifest[id[p]].rows]
            /\ GoTo(p, "commit")
       ELSE GoTo(p, "failed") /\ UNCHANGED rid
    /\ UNCHANGED <<disk, lock, asked, mem, id>>

(* set_next_rid.                                                           *)
CommitRid(p) ==
    /\ pc[p] = "commit"
    /\ manifest' = [manifest EXCEPT ![id[p]].rows = rid[p] + 1]
    /\ LoadsMore(p) \/ GoTo(p, "done")
    /\ UNCHANGED <<meta, lock, catalog, dirs, group0, asked, local>>

-----------------------------------------------------------------------------
(* A system call returns Err where nothing is undone.                      *)
Fail(p) ==
    /\ pc[p] \in {"recover", "mkdir", "manifest", "read", "commit"}
    /\ GoTo(p, "failed")
    /\ UNCHANGED <<disk, lock, asked, local>>

Exit(p) == pc[p] \in {"done", "failed"} /\ Leave(p)

(* The process dies.                                                       *)
Crash(p) == pc[p] # "off" /\ Leave(p)

Step(p) ==
    \/ MkDb(p) \/ TruncMeta(p) \/ FillMeta(p)
    \/ Gate(p) \/ Lock(p) \/ Refused(p) \/ Load(p) \/ Recover(p) \/ Call(p)
    \/ Create(p) \/ MkDir(p) \/ WriteManifest(p) \/ RegisterTable(p)
    \/ Publish(p) \/ PublishFails(p) \/ MkGroup(p) \/ FillGroup(p)
    \/ MaterializeFails(p) \/ Unpublish(p) \/ UnpublishFails(p)
    \/ RemoveSome(p) \/ RemoveEnds(p) \/ ReadRid(p) \/ CommitRid(p)
    \/ Fail(p) \/ Exit(p) \/ Crash(p)

Next == \E p \in Procs : Step(p) \/ \E k \in Kinds, n \in Names : Start(p, k, n)

Spec == Init /\ [][Next]_vars

-----------------------------------------------------------------------------
(* Properties.                                                             *)

(* The catalog a command works with is the one on disk, from its load to   *)
(* its exit, except between changing its copy and saving it: the lock      *)
(* comes before the load, every failed save is undone in memory.           *)
Settled(p) == lock = p /\ pc[p] \notin {"load", "publish", "unpublish", "undo"}

MemoryIsDisk == \A p \in Procs : Settled(p) => mem[p] = catalog

(* An entry of catalog.toml always has its directory, with the manifest of *)
(* that very table in it ("never a dangling catalog entry", create_table;  *)
(* "catalog truth before fs cleanup", drop_table), whatever died when.     *)
EntriesBacked ==
    \A n \in Names : catalog.tables[n] # NoId =>
        /\ catalog.tables[n] \in dirs
        /\ manifest[catalog.tables[n]].name = n

(* create_table may take over the directory of a table that was never      *)
(* published; it never meets the row groups of another table there.        *)
FreshDir == \A p \in Procs : pc[p] \in {"mkdir", "manifest"} => group0[id[p]] = "none"

(* Committed rows always have their row group: a table that is left        *)
(* without one by a crash is an empty table.                               *)
DataReachable ==
    \A n \in Names : catalog.tables[n] # NoId /\ manifest[catalog.tables[n]].rows > 0
        => group0[catalog.tables[n]] = "whole"

(* Once no command runs, every table of the catalog can be written to:     *)
(* insert's comment, "Group 0 is materialized at create time".             *)
NoTableWithoutGroup ==
    lock = NoProc =>
        \A n \in Names : catalog.tables[n] # NoId => group0[catalog.tables[n]] = "whole"

(* Once no init runs, there is a database or there is nothing              *)
(* (docs/storage-design.md lists balik.meta among the files that are       *)
(* replaced atomically).                                                   *)
InitAllOrNothing == (\A p \in Procs : pc[p] \notin InitPCs) => meta \in {"nodir", "whole"}

-----------------------------------------------------------------------------
(* The inductive invariant.                                                *)

(* A command that runs was asked about some table.                         *)
NamePart == \A p \in Procs : pc[p] # "off" => name[p] \in Names

(* Past the lock a command holds it, until it is over.                     *)
LockPart ==
    \A p \in Procs : /\ pc[p] \in InsidePCs \ {"done"} => lock = p
                     /\ lock = p => pc[p] \in InsidePCs

(* Ids below next are taken, each by one name at most; those from next on  *)
(* have never had a row group.                                             *)
IdPart ==
    /\ \A n \in Names : catalog.tables[n] < catalog.next
    /\ \A m, n \in Names : catalog.tables[m] = catalog.tables[n] /\ m # n
                             => catalog.tables[m] = NoId
    /\ \A i \in Ids : i >= catalog.next => group0[i] = "none"

(* What the command that holds the lock has done so far.                   *)
Creating(p) ==
    pc[p] \in {"mkdir", "manifest", "register", "publish"} =>
        /\ id[p] = catalog.next
        /\ id[p] \in Ids
        /\ catalog.tables[name[p]] = NoId
        /\ pc[p] # "mkdir" => id[p] \in dirs
        /\ pc[p] \in {"register", "publish"} =>
              manifest[id[p]] = [name |-> name[p], rows |-> 0]
        /\ pc[p] = "publish" => mem[p] = Registered(catalog, name[p], id[p])

Filling(p) ==
    pc[p] \in {"mkgroup", "fillgroup"} =>
        /\ id[p] \in Ids
        /\ catalog.tables[name[p]] = id[p]
        /\ manifest[id[p]].rows = 0

Removing(p) ==
    /\ pc[p] \in {"unpublish", "undo"} =>
           /\ id[p] \in Ids
           /\ catalog.tables[name[p]] = id[p]
           /\ mem[p] = Forgotten(catalog, name[p])
    /\ pc[p] \in {"rmdir", "cleanup"} =>
           /\ id[p] \in Ids
           /\ \A n \in Names : catalog.tables[n] # id[p]

Writing(p) ==
    pc[p] \in {"read", "commit"} =>
        /\ id[p] \in Ids
        /\ catalog.tables[name[p]] = id[p]
        /\ pc[p] = "commit" => /\ group0[id[p]] = "whole"
                               /\ rid[p] = manifest[id[p]].rows
                               /\ rid[p] < MaxRows

HolderPart ==
    \A p \in Procs : lock = p => Creating(p) /\ Filling(p) /\ Removing(p) /\ Writing(p)

(* The invariant the proofs carry through every step.                      *)
DbInv ==
    /\ DbTypeOK
    /\ NamePart
    /\ LockPart
    /\ IdPart
    /\ HolderPart
    /\ MemoryIsDisk
    /\ EntriesBacked
    /\ DataReachable

-----------------------------------------------------------------------------
(* The rows of table n, as the catalog and the manifests have them.        *)
Rows == [n \in Names |-> IF catalog.tables[n] = NoId THEN 0
                         ELSE manifest[catalog.tables[n]].rows]

NS == INSTANCE NameSpace WITH idOf <- catalog.tables, used <- 1 .. catalog.next - 1,
                              size <- Rows

(* However many commands run and die, the tables of the database change    *)
(* one at a time: registered empty under a new id, grown by a commit,      *)
(* retired as a whole.  No registration, row or removal is ever lost.      *)
ImplementsNameSpace == NS!NSpec
=============================================================================
