--------------------------------- MODULE IDML ---------------------------------
(***************************************************************************)
(* The indirect data management layer (idml/idml.rs), its cleaner          *)
(* (cleaner.rs) and the transaction group lock that they share.            *)
(*                                                                         *)
(* Records are written once and named by a record id.  The RIDT maps ids   *)
(* to addresses, the AllocT maps addresses back to ids, and the cleaner    *)
(* moves the records of zones that are mostly freed.  Every operation is a *)
(* chain of asynchronous steps; steps that the code joins are taken in any *)
(* order, and an operation that fails abandons the steps it has left.      *)
(*                                                                         *)
(* The RIDT and the AllocT are maps whose operations are atomic; the       *)
(* blocks of their own nodes are not represented.  A record is one block,  *)
(* and nothing increments a reference count, so every count is one.        *)
(***************************************************************************)
EXTENDS Integers, FiniteSets, FiniteSetsExt

CONSTANTS
    Tasks,          \* tasks of the layers above
    Envs,           \* the environments to consider: a set of Env
    Zones, ZoneSize,
    MinFreed,       \* SyncCleaner::threshold, in blocks of a zone
    MaxRid, MaxTxg, \* bounds on the ids handed out and on the syncs
    None

AllOps == {"put", "get", "delete", "pop"}


\* How the layer is used: how many tasks call it at a time and what they call, whether
\* the cleaner runs, only while no task and no sync is under way (alone), whether tasks
\* may remove the last record of a zone, whether reads can fail, and the zones there are.
Env == [tasks : Nat, ops : SUBSET AllOps, cleaning : BOOLEAN, alone : BOOLEAN,
        erasing : BOOLEAN, readErrors : BOOLEAN, zones : 0 .. Zones]

ASSUME EnvsAssumption == Envs \subseteq Env
ASSUME SizesAssumption == Zones \in Nat /\ ZoneSize \in Nat \ {0} /\ MinFreed \in 1 .. ZoneSize
ASSUME BoundsAssumption == MaxRid \in Nat /\ MaxTxg \in Nat
ASSUME NoneAssumption == None \notin Int

Rids == 0 .. MaxRid - 1
Addrs == 0 .. Zones * ZoneSize - 1
ZoneOf(a) == a \div ZoneSize
BlocksOf(z) == z * ZoneSize .. (z + 1) * ZoneSize - 1

VARIABLES
    env,            \* the environment, which never changes
    ridt,           \* Trees::ridt: the address of each record, or None
    alloct,         \* Trees::alloct: the record at each address, or None
    nextRid,        \* IDML::next_rid
    txg,            \* IDML::transaction
    live,           \* records the layers above hold
    cached,         \* records in the cache
    blocks,         \* "empty", "used" or "freed": what the allocator knows
    content,        \* the record written at each address, or None
    since,          \* the txg in which each zone was first written
    tasks,          \* the operation of each task
    cleaner,        \* the cleaner's task
    sync,           \* the sync that holds the txg lock
    label,          \* the tables that the last label written refers to
    failures        \* assertions that failed, checksums that did not match

vars == <<env, ridt, alloct, nextRid, txg, live, cached, blocks, content, since,
          tasks, cleaner, sync, label, failures>>
tables == <<ridt, alloct>>
disk == <<blocks, content, since>>

Idle == [op |-> "idle", rid |-> None, addr |-> None, todo |-> {}]
Quiet == \A t \in Tasks : tasks[t] = Idle
CleanerIdle == [pc |-> "idle", zones |-> {}, zone |-> None, txg |-> 0, records |-> {},
                rid |-> None, from |-> None, to |-> None, todo |-> {}]
SyncIdle == [pc |-> "idle", todo |-> {}, ridt |-> None, alloct |-> None]

Fail(what) == failures' = failures \cup {what}
FailIf(p, what) == failures' = IF p THEN failures \cup {what} ELSE failures

-----------------------------------------------------------------------------
(* The DDML as the IDML uses it: the allocator fills one zone after the    *)
(* other, and a full zone whose blocks are all freed is erased.            *)

Written(z) == {a \in BlocksOf(z) : blocks[a] # "empty"}
\* Mutant of Room: a block is available as soon as it is freed.
RoomWithFreed == {a \in Addrs : ZoneOf(a) < env.zones /\ blocks[a] # "used"}
Room == {a \in Addrs : ZoneOf(a) < env.zones /\ blocks[a] = "empty"}
Open == {a \in Room : Written(ZoneOf(a)) # {}}
Target == IF Open # {} THEN Min(Open) ELSE Min(Room)
Closed(z) == \A a \in BlocksOf(z) : blocks[a] # "empty"

\* DDML::put_direct.
Write(a, rid) ==
    /\ blocks' = [blocks EXCEPT ![a] = "used"]
    /\ content' = [content EXCEPT ![a] = rid]

FirstWrite(a, t) ==
    since' = IF Written(ZoneOf(a)) = {} THEN [since EXCEPT ![ZoneOf(a)] = t] ELSE since

\* DDML::delete_direct.
Free(a) ==
    LET z == ZoneOf(a)
        last == Closed(z) /\ \A b \in BlocksOf(z) \ {a} : blocks[b] # "used"
        freed == IF last THEN BlocksOf(z) ELSE {a}
    IN /\ blocks' = [b \in Addrs |-> IF b \notin freed THEN blocks[b]
                                     ELSE IF last THEN "empty" ELSE "freed"]
       /\ content' = IF last THEN [b \in Addrs |-> IF b \in freed THEN None ELSE content[b]]
                     ELSE content
       /\ UNCHANGED since

-----------------------------------------------------------------------------
(* The operations of the layers above.  An operation that changes records  *)
(* holds the txg lock for reading; a tree's locks let nobody else use a    *)
(* record that is being deleted or popped.                                 *)

NotCleaning == cleaner.pc \in {"idle", "stopped"}
Others == <<nextRid, txg, cleaner, sync, label>>
MayStart(t, op) ==
    /\ op \in env.ops /\ tasks[t] = Idle
    /\ Cardinality({u \in Tasks : tasks[u] # Idle}) < env.tasks
    /\ env.alone => NotCleaning
    /\ op # "get" => sync.pc = "idle"
Users(rid) == {t \in Tasks : tasks[t].rid = rid}

Begin(t, op, rid, addr, todo) ==
    tasks' = [tasks EXCEPT ![t] = [op |-> op, rid |-> rid, addr |-> addr, todo |-> todo]]
End(t) == tasks' = [tasks EXCEPT ![t] = Idle]

\* Take step x; the operation ends with the last of them.
Todo(t, op, x) == tasks[t].op = op /\ x \in tasks[t].todo
Done(t, x) ==
    LET left == tasks[t].todo \ {x}
    IN IF left = {} THEN End(t) ELSE tasks' = [tasks EXCEPT ![t].todo = left]
IsLast(t, x) == tasks[t].todo = {x}

\* Mutant of PutBegins: the id is read and not incremented.
PutLoadsRid(t) ==
    /\ MayStart(t, "put") /\ nextRid < MaxRid
    /\ Begin(t, "put", nextRid, None, {"write"})
    /\ UNCHANGED <<tables, nextRid, txg, live, cached, disk, cleaner, sync, label, failures>>

\* IDML::put: an id, a block, the two table entries; then it is cached.
PutBegins(t) ==
    /\ MayStart(t, "put") /\ nextRid < MaxRid
    /\ nextRid' = nextRid + 1
    /\ Begin(t, "put", nextRid, None, {"write"})
    /\ UNCHANGED <<tables, txg, live, cached, disk, cleaner, sync, label, failures>>

PutWrites(t) ==
    /\ Todo(t, "put", "write")
    /\ IF Room = {}
       THEN End(t) /\ UNCHANGED disk
       ELSE /\ Write(Target, tasks[t].rid) /\ FirstWrite(Target, txg)
            /\ Begin(t, "put", tasks[t].rid, Target, {"ridt", "alloct"})
    /\ UNCHANGED <<tables, live, cached, Others, failures>>

\* Mutant of PutReturns: it does not wait for both tables.
PutReturnsEarly(t, x) ==
    live' = live \cup {tasks[t].rid} /\ cached' = cached \cup {tasks[t].rid}

PutReturns(t, x) ==
    IF IsLast(t, x)
    THEN live' = live \cup {tasks[t].rid} /\ cached' = cached \cup {tasks[t].rid}
    ELSE UNCHANGED <<live, cached>>

PutRidt(t) ==
    /\ Todo(t, "put", "ridt")
    /\ ridt' = [ridt EXCEPT ![tasks[t].rid] = tasks[t].addr]
    /\ FailIf(ridt[tasks[t].rid] # None, "RID was not unique")
    /\ PutReturns(t, "ridt") /\ Done(t, "ridt")
    /\ UNCHANGED <<alloct, disk, Others>>

PutAlloct(t) ==
    /\ Todo(t, "put", "alloct")
    /\ alloct' = [alloct EXCEPT ![tasks[t].addr] = tasks[t].rid]
    /\ FailIf(alloct[tasks[t].addr] # None, "Double allocate without free")
    /\ PutReturns(t, "alloct") /\ Done(t, "alloct")
    /\ UNCHANGED <<ridt, disk, Others>>

\* IDML::get of a record that is not cached.
GetBegins(t, rid) ==
    /\ MayStart(t, "get") /\ rid \in live \ cached
    /\ Begin(t, "get", rid, ridt[rid], {"read"})
    /\ UNCHANGED <<tables, live, cached, disk, Others, failures>>

GetReads(t) ==
    /\ Todo(t, "get", "read")
    /\ LET ok == content[tasks[t].addr] = tasks[t].rid
       IN /\ cached' = IF ok THEN cached \cup {tasks[t].rid} ELSE cached
          /\ FailIf(~ ok, "ECKSUM")
    /\ End(t)
    /\ UNCHANGED <<tables, live, disk, Others>>

\* Mutants of Removes: the record stays in the cache, or in the AllocT.
RemovesNotCached(t, op, rid, first) ==
    /\ MayStart(t, op) /\ rid \in live /\ Users(rid) = {}
    /\ env.erasing \/ \E r \in live \ {rid} : ZoneOf(ridt[r]) = ZoneOf(ridt[rid])
    /\ live' = live \ {rid}
    /\ Begin(t, op, rid, ridt[rid], {first, "ridt", "alloct"})
    /\ UNCHANGED <<tables, cached, disk, Others, failures>>
RemovesNotAlloct(t, op, rid, first) ==
    /\ MayStart(t, op) /\ rid \in live /\ Users(rid) = {}
    /\ env.erasing \/ \E r \in live \ {rid} : ZoneOf(ridt[r]) = ZoneOf(ridt[rid])
    /\ live' = live \ {rid} /\ cached' = cached \ {rid}
    /\ Begin(t, op, rid, ridt[rid], {first, "ridt"})
    /\ UNCHANGED <<tables, disk, Others, failures>>

\* IDML::delete and IDML::pop look the record up and take it out of the cache.
\* What a pop does not find in the cache is read before its block is freed.
Removes(t, op, rid, first) ==
    /\ MayStart(t, op) /\ rid \in live /\ Users(rid) = {}
    /\ env.erasing \/ \E r \in live \ {rid} : ZoneOf(ridt[r]) = ZoneOf(ridt[rid])
    /\ live' = live \ {rid} /\ cached' = cached \ {rid}
    /\ Begin(t, op, rid, ridt[rid], {first, "ridt", "alloct"})
    /\ UNCHANGED <<tables, disk, Others, failures>>

DeleteBegins(t, rid) == Removes(t, "delete", rid, "free")
PopBegins(t, rid) == Removes(t, "pop", rid, IF rid \in cached THEN "free" ELSE "read")

PopReads(t) ==
    /\ Todo(t, "pop", "read")
    /\ IF content[tasks[t].addr] = tasks[t].rid
       THEN /\ tasks' = [tasks EXCEPT ![t].todo = (@ \ {"read"}) \cup {"free"}]
            /\ UNCHANGED failures
       ELSE End(t) /\ Fail("ECKSUM")
    /\ UNCHANGED <<tables, live, cached, disk, Others>>

RemoveFrees(t) ==
    /\ Todo(t, "delete", "free") \/ Todo(t, "pop", "free")
    /\ IF blocks[tasks[t].addr] = "used"
       THEN Free(tasks[t].addr) /\ UNCHANGED failures
       ELSE Fail("double free") /\ UNCHANGED disk
    /\ Done(t, "free")
    /\ UNCHANGED <<tables, live, cached, Others>>

RemoveRidt(t) ==
    /\ Todo(t, "delete", "ridt") \/ Todo(t, "pop", "ridt")
    /\ ridt' = [ridt EXCEPT ![tasks[t].rid] = None]
    /\ Done(t, "ridt")
    /\ UNCHANGED <<alloct, live, cached, disk, Others, failures>>

RemoveAlloct(t) ==
    /\ Todo(t, "delete", "alloct") \/ Todo(t, "pop", "alloct")
    /\ alloct' = [alloct EXCEPT ![tasks[t].addr] = None]
    /\ FailIf(alloct[tasks[t].addr] = None, "old_rid.is_some()")
    /\ Done(t, "alloct")
    /\ UNCHANGED <<ridt, live, cached, disk, Others>>

\* A read fails, and with it the whole operation.
ReadFails(t) ==
    /\ env.readErrors /\ (Todo(t, "get", "read") \/ Todo(t, "pop", "read"))
    /\ End(t)
    /\ UNCHANGED <<tables, live, cached, disk, Others, failures>>

\* Room is made in the cache for something else.
Expire(rid) ==
    /\ rid \in cached
    /\ cached' = cached \ {rid}
    /\ UNCHANGED <<tables, live, disk, tasks, Others, failures>>

-----------------------------------------------------------------------------
(* The cleaner: SyncCleaner::clean_now and IDML::clean_zone.               *)

AtCleaner(pc) == cleaner.pc = pc
Tables == <<ridt, alloct, live, cached, nextRid, txg, tasks, sync, label>>
\* Mutant of Dirty: open zones are cleaned too.
DirtyOrOpen(z) == Cardinality({a \in BlocksOf(z) : blocks[a] = "freed"}) >= MinFreed
Dirty(z) == Closed(z) /\ Cardinality({a \in BlocksOf(z) : blocks[a] = "freed"}) >= MinFreed

\* SyncCleaner::select_zones: what is dirty enough now is cleaned later.
SelectZones ==
    /\ env.cleaning /\ AtCleaner("idle")
    /\ env.alone => Quiet /\ sync.pc = "idle"
    /\ \E z \in 0 .. Zones - 1 : Dirty(z)
    /\ cleaner' = [cleaner EXCEPT !.pc = "zones", !.zones = {z \in 0 .. Zones - 1 : Dirty(z)}]
    /\ UNCHANGED <<Tables, disk, failures>>

\* The guard that txg() returns is dropped as soon as clean_zone has returned a
\* future, which runs without it.
CleanZone(z) ==
    /\ AtCleaner("zones") /\ z \in cleaner.zones
    /\ sync.pc = "idle"
    /\ cleaner' = [cleaner EXCEPT !.pc = "list", !.zones = @ \ {z}, !.zone = z, !.txg = txg]
    /\ UNCHANGED <<Tables, disk, failures>>

CleanNowReturns ==
    /\ AtCleaner("zones") /\ cleaner.zones = {}
    /\ cleaner' = CleanerIdle
    /\ UNCHANGED <<Tables, disk, failures>>

\* IDML::list_indirect_records.  A range query reads a leaf of the AllocT at a
\* time; a zone's entries are taken to be in one leaf.
ListRecords ==
    /\ AtCleaner("list")
    /\ cleaner' = [cleaner EXCEPT !.pc = "records",
                     !.records = {alloct[a] : a \in BlocksOf(cleaner.zone)} \ {None}]
    /\ UNCHANGED <<Tables, disk, failures>>

\* IDML::move_record looks the record up, reads it unless it is cached (and not
\* compressed), writes it, frees the old block and updates the tables.
MoveLooksUp(rid) ==
    /\ AtCleaner("records") /\ rid \in cleaner.records
    /\ IF ridt[rid] = None
       THEN cleaner' = [cleaner EXCEPT !.pc = "stopped"] /\ Fail("Entry not found in RIDT")
       ELSE /\ \E pc \in IF rid \in cached THEN {"read", "write"} ELSE {"read"} :
                 cleaner' = [cleaner EXCEPT !.pc = pc, !.records = @ \ {rid},
                                            !.rid = rid, !.from = ridt[rid]]
            /\ UNCHANGED failures
    /\ UNCHANGED <<Tables, disk>>

MoveReads ==
    /\ AtCleaner("read")
    /\ LET ok == content[cleaner.from] = cleaner.rid
       IN /\ cleaner' = [cleaner EXCEPT !.pc = IF ok THEN "write" ELSE "stopped"]
          /\ FailIf(~ ok, "ECKSUM")
    /\ UNCHANGED <<Tables, disk>>

\* An error of the cleaner ends its task.
MoveFails ==
    /\ (env.readErrors /\ AtCleaner("read")) \/ (Room = {} /\ AtCleaner("write"))
    /\ cleaner' = [cleaner EXCEPT !.pc = "stopped"]
    /\ UNCHANGED <<Tables, disk, failures>>

MoveWrites ==
    /\ AtCleaner("write") /\ Room # {}
    /\ Write(Target, cleaner.rid) /\ FirstWrite(Target, cleaner.txg)
    /\ cleaner' = [cleaner EXCEPT !.pc = "free", !.to = Target]
    /\ UNCHANGED <<Tables, failures>>

\* Mutant of MoveFrees: the RIDT keeps the old address.
MoveForgetsRidt ==
    /\ AtCleaner("free")
    /\ IF blocks[cleaner.from] = "used"
       THEN Free(cleaner.from) /\ UNCHANGED failures
       ELSE Fail("double free") /\ UNCHANGED disk
    /\ cleaner' = [cleaner EXCEPT !.pc = "update", !.todo = {"alloct"}]
    /\ UNCHANGED Tables

MoveFrees ==
    /\ AtCleaner("free")
    /\ IF blocks[cleaner.from] = "used"
       THEN Free(cleaner.from) /\ UNCHANGED failures
       ELSE Fail("double free") /\ UNCHANGED disk
    /\ cleaner' = [cleaner EXCEPT !.pc = "update", !.todo = {"ridt", "alloct"}]
    /\ UNCHANGED Tables

MoveDone(x) ==
    /\ cleaner' = [cleaner EXCEPT !.todo = @ \ {x},
                                  !.pc = IF cleaner.todo = {x} THEN "records" ELSE "update"]
    /\ FailIf(cleaner.todo = {x} /\ ZoneOf(cleaner.to) = cleaner.zone, "moved into the same zone")
    /\ UNCHANGED <<live, cached, nextRid, txg, tasks, sync, label, disk>>

MoveRidt ==
    /\ AtCleaner("update") /\ "ridt" \in cleaner.todo
    /\ ridt' = [ridt EXCEPT ![cleaner.rid] = cleaner.to]
    /\ MoveDone("ridt") /\ UNCHANGED alloct

MoveAlloct ==
    /\ AtCleaner("update") /\ "alloct" \in cleaner.todo
    /\ alloct' = [alloct EXCEPT ![cleaner.to] = cleaner.rid]
    /\ MoveDone("alloct") /\ UNCHANGED ridt

\* Mutant of ZoneCleaned: the entries stay.
ZoneKeepsEntries ==
    /\ AtCleaner("records") /\ cleaner.records = {}
    /\ FailIf(Written(cleaner.zone) # {} /\ since[cleaner.zone] < cleaner.txg, "did not get fully cleaned")
    /\ cleaner' = [CleanerIdle EXCEPT !.pc = "zones", !.zones = cleaner.zones]
    /\ UNCHANGED <<ridt, alloct, live, cached, nextRid, txg, tasks, sync, label, disk>>

\* The entries of the zone are deleted, and the zone must be clean now.
ZoneCleaned ==
    /\ AtCleaner("records") /\ cleaner.records = {}
    /\ alloct' = [a \in Addrs |-> IF a \in BlocksOf(cleaner.zone) THEN None ELSE alloct[a]]
    /\ FailIf(Written(cleaner.zone) # {} /\ since[cleaner.zone] < cleaner.txg, "did not get fully cleaned")
    /\ cleaner' = [CleanerIdle EXCEPT !.pc = "zones", !.zones = cleaner.zones]
    /\ UNCHANGED <<ridt, live, cached, nextRid, txg, tasks, sync, label, disk>>

-----------------------------------------------------------------------------
(* IDML::advance_transaction, with the lock held for writing: the tables   *)
(* are flushed, one after the other in either order, and the label is      *)
(* written.  check_ridt holds the lock in the same way.                    *)

NotSynced == <<tables, live, cached, nextRid, disk, tasks, cleaner, failures>>
\* Mutant of Writers: the lock keeps nobody out.
NoWriters == {}
Writers == {t \in Tasks : tasks[t].op \in {"put", "delete", "pop"}}

SyncBegins ==
    /\ sync.pc = "idle" /\ Writers = {} /\ txg < MaxTxg
    /\ env.alone => NotCleaning
    /\ sync' = [sync EXCEPT !.pc = "flush", !.todo = {"ridt", "alloct"}]
    /\ UNCHANGED <<NotSynced, txg, label>>

FlushRidt ==
    /\ "ridt" \in sync.todo
    /\ sync' = [sync EXCEPT !.todo = @ \ {"ridt"}, !.ridt = ridt]
    /\ UNCHANGED <<NotSynced, txg, label>>

FlushAlloct ==
    /\ "alloct" \in sync.todo
    /\ sync' = [sync EXCEPT !.todo = @ \ {"alloct"}, !.alloct = alloct]
    /\ UNCHANGED <<NotSynced, txg, label>>

SyncEnds ==
    /\ sync.pc = "flush" /\ sync.todo = {}
    /\ label' = [ridt |-> sync.ridt, alloct |-> sync.alloct, nextRid |-> nextRid]
    /\ txg' = txg + 1
    /\ sync' = SyncIdle
    /\ UNCHANGED NotSynced

-----------------------------------------------------------------------------
\* IDML::create.
Init ==
    /\ env \in Envs
    /\ ridt = [r \in Rids |-> None] /\ alloct = [a \in Addrs |-> None]
    /\ nextRid = 0 /\ txg = 0
    /\ live = {} /\ cached = {}
    /\ blocks = [a \in Addrs |-> "empty"] /\ content = [a \in Addrs |-> None]
    /\ since = [z \in 0 .. Zones - 1 |-> 0]
    /\ tasks = [t \in Tasks |-> Idle] /\ cleaner = CleanerIdle /\ sync = SyncIdle
    /\ label = [ridt |-> ridt, alloct |-> alloct, nextRid |-> 0]
    /\ failures = {}

Client(t) ==
    \/ PutBegins(t) \/ PutWrites(t) \/ PutRidt(t) \/ PutAlloct(t)
    \/ GetReads(t) \/ PopReads(t) \/ ReadFails(t)
    \/ RemoveFrees(t) \/ RemoveRidt(t) \/ RemoveAlloct(t)
    \/ \E rid \in Rids : GetBegins(t, rid) \/ DeleteBegins(t, rid) \/ PopBegins(t, rid)

Cleaner ==
    \/ SelectZones \/ CleanNowReturns \/ ListRecords
    \/ \E z \in 0 .. Zones - 1 : CleanZone(z)
    \/ \E rid \in Rids : MoveLooksUp(rid)
    \/ MoveReads \/ MoveFails \/ MoveWrites \/ MoveFrees \/ MoveRidt \/ MoveAlloct
    \/ ZoneCleaned

Sync == SyncBegins \/ FlushRidt \/ FlushAlloct \/ SyncEnds

Next ==
    /\ \/ \E t \in Tasks : Client(t)
       \/ \E rid \in Rids : Expire(rid)
       \/ Cleaner \/ Sync
    /\ UNCHANGED env

Spec == Init /\ [][Next]_vars

-----------------------------------------------------------------------------
(* Properties.                                                             *)

TaskState == [op : AllOps \cup {"idle"}, rid : Rids \cup {None}, addr : Addrs \cup {None},
              todo : SUBSET {"write", "read", "free", "ridt", "alloct"}]
TypeOK ==
    /\ ridt \in [Rids -> Addrs \cup {None}] /\ alloct \in [Addrs -> Rids \cup {None}]
    /\ nextRid \in 0 .. MaxRid /\ txg \in 0 .. MaxTxg
    /\ live \subseteq Rids /\ cached \subseteq live
    /\ blocks \in [Addrs -> {"empty", "used", "freed"}]
    /\ content \in [Addrs -> Rids \cup {None}]
    /\ \A t \in Tasks : tasks[t] \in TaskState

\* What check_ridt checks, "that the RIDT and AllocT are exact inverses".
Inverses(r, a) ==
    /\ \A rid \in Rids : r[rid] # None => a[r[rid]] = rid
    /\ \A addr \in Addrs : a[addr] # None => r[a[addr]] = addr

\* Whenever no operation is under way the tables are inverses of each other, the
\* records in them are those the layers above hold, and the blocks in use are
\* those the tables name: nothing is lost and nothing leaks, also after cleaning.
QuietIsConsistent ==
    Quiet /\ cleaner.pc \in {"idle", "zones"} =>
        /\ Inverses(ridt, alloct)
        /\ live = {rid \in Rids : ridt[rid] # None}
        /\ {a \in Addrs : blocks[a] = "used"} = {a \in Addrs : alloct[a] # None}

\* A record that the layers above hold is on the disk where the RIDT says, or,
\* between move_record's freeing of the old block and its update of the RIDT, where
\* the RIDT is about to say; a block that holds it is never freed or reused.
LiveIsReadable ==
    \A rid \in live : \E a \in Addrs :
        /\ content[a] = rid /\ blocks[a] = "used"
        /\ ridt[rid] = a \/ (AtCleaner("update") /\ cleaner.rid = rid /\ cleaner.to = a)

\* No operation and no cleaning fails an assertion (a record id or an address
\* used twice, a reverse mapping or a record missing, a block freed twice, a zone
\* not cleaned or refilled by its own records), or reads another record's data.
NoFailure == TypeOK /\ failures = {}

\* At rest nothing is lost and nothing leaks, and at no time is a held record unreadable:
\* what put, get, delete, pop and the cleaner together owe to the layers above.
RecordsSound == QuietIsConsistent /\ LiveIsReadable

\* check_ridt: "Checks that the RIDT and AllocT are exact inverses of each other".
TablesInverse == Quiet /\ NotCleaning => Inverses(ridt, alloct)

\* put's assertion, "Double allocate without free.  DDML allocator leak detected!".
NoDoubleAllocate == "Double allocate without free" \notin failures

\* move_record's expectation, "Inconsistency in alloct.  Entry not found in RIDT".
MoveFindsEntry == "Entry not found in RIDT" \notin failures

\* What a label commits is consistent: the two tables are inverses, and no id
\* above the label's next_rid is in them.
LabelConsistent ==
    /\ Inverses(label.ridt, label.alloct)
    /\ \A rid \in Rids : label.ridt[rid] # None => rid < label.nextRid

\* fswrite: "after a power failure and recovery, either all will have completed, or
\* none will have".  The blocks that the last label refers to are neither erased nor
\* overwritten before the next label is written.
LabelReadable == \A rid \in Rids : label.ridt[rid] # None => content[label.ridt[rid]] = rid

\* No label commits tables that disagree, and the blocks that the last one refers to keep
\* their content until the next, as long as no zone loses its last record meanwhile.
LabelSound == LabelConsistent /\ (~ env.erasing => LabelReadable)
=============================================================================
