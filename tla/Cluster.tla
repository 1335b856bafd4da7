------------------------------- MODULE Cluster -------------------------------
(***************************************************************************)
(* The zone allocator of a cluster: FreeSpaceMap and the operations of     *)
(* Cluster that change it (src/bfffs/src/common/cluster.rs).               *)
(*                                                                         *)
(* A cluster is an array of zones.  A zone is Empty, Open (it has a write  *)
(* pointer and takes allocations) or Closed.  Space is never reused block  *)
(* by block: freeing only counts, and a closed zone whose blocks are all   *)
(* freed is erased as a whole.  The map is kept in memory, and the blocks  *)
(* of it that changed (the dirty ones) are written to a reserved area of   *)
(* the disks, twice per transaction group, when the database syncs.        *)
(*                                                                         *)
(* An LBA is a pair of a zone and an offset from the zone's start.         *)
(***************************************************************************)
EXTENDS Integers, FiniteSets, FiniteSetsExt

CONSTANTS
    TotalZones,      \* VdevRaidApi::zones
    Space,           \* usable LBAs of each zone: the width of zone_limits
    ZonesPerBlock,   \* SPACEMAP_ZONES_PER_LBA
    StripeLbas,      \* data LBAs of a RAID stripe; 1 for a plain disk
    WriteSizes,      \* sizes, in LBAs, of the records that get written
    U32Max           \* u32::max_value(), the sentinel of two fields

Zones == 0 .. TotalZones - 1

ASSUME TotalZonesAssumption == TotalZones \in Nat \ {0}
ASSUME SpaceAssumption ==
    /\ U32Max \in Nat
    /\ StripeLbas \in Nat \ {0}
    /\ Space \in [Zones -> Nat]
    /\ \A z \in Zones : Space[z] < U32Max /\ Space[z] % StripeLbas = 0
ASSUME SizesAssumption == ZonesPerBlock \in Nat \ {0} /\ WriteSizes \subseteq Nat \ {0}

VARIABLES
    zones,        \* FreeSpaceMap::zones: freed_blocks and txgs of each zone
    len,          \* zones.len(): zones at or beyond it are implicitly empty
    emptyZones,   \* FreeSpaceMap::empty_zones: the explicitly empty zones
    openZones,    \* the keys of FreeSpaceMap::open_zones
    allocated,    \* OpenZone::allocated_blocks, 0 for a zone that is not open
    dirty,        \* FreeSpaceMap::dirty: blocks of the map to write out
    smap,         \* the two spacemaps on disk, a ZoneOnDisk per zone
    live,         \* the extents written and not yet freed, as the DDML holds them
    txg,          \* the current transaction group
    phase         \* which spacemap Database::sync_transaction writes next

vars == <<zones, len, emptyZones, openZones, allocated, dirty, smap, live, txg, phase>>

Block(z) == z \div ZonesPerBlock
Blocks == {Block(z) : z \in Zones}
Zone == [freed : Nat, start : Nat, end : Nat]
ZoneOnDisk == [allocated : Nat, freed : Nat, start : Nat, end : Nat]
Extent == [zone : Zones, off : Nat, len : Nat \ {0}, txg : Nat]
NoZone == [freed |-> 0, start |-> 0, end |-> 0]
NoZoneOnDisk == [allocated |-> 0, freed |-> 0, start |-> 0, end |-> 0]

-----------------------------------------------------------------------------
(* Queries of the free space map.                                          *)

IsEmpty(z) == z >= len \/ z \in emptyZones
IsOpen(z) == z \in openZones
\* Mutant of IsClosed: an open zone counts as closed, and may be erased.
ClosedOrOpen(z) == z < len /\ z \notin emptyZones
IsClosed(z) == z < len /\ z \notin emptyZones /\ z \notin openZones
Available(z) == IF IsOpen(z) THEN Space[z] - allocated[z] ELSE 0
InUse(z) == IF IsEmpty(z) THEN 0
            ELSE (IF IsOpen(z) THEN allocated[z] ELSE Space[z]) - zones[z].freed

HasEmpty == emptyZones # {} \/ len < TotalZones
FindEmpty == IF emptyZones # {} THEN Min(emptyZones) ELSE len

-----------------------------------------------------------------------------
(* Cluster::write.  try_allocate takes the first open zone with enough     *)
(* room; the open zones it skipped on the way are finished.                *)

\* Mutant of HasRoom: off by one.
HasAlmostRoom(space) == {z \in openZones : Available(z) + 1 >= space}
HasRoom(space) == {z \in openZones : Available(z) >= space}
\* Mutant of NearlyFull: zones are only finished when some zone had room.
FullIfOtherHasRoom(space) ==
    {z \in openZones : HasRoom(space) # {} /\ \A y \in HasRoom(space) : z < y}
NearlyFull(space) == {z \in openZones : \A y \in HasRoom(space) : z < y}

\* Mutants of FinishZones: the tail of the zone is not counted as freed; the
\* end of the transaction range is taken for inclusive.
FinishKeepsTail(F) ==
    [z \in Zones |-> IF z \in F THEN [zones[z] EXCEPT !.end = txg + 1] ELSE zones[z]]
FinishInclusive(F) ==
    [z \in Zones |-> IF z \in F
                     THEN [zones[z] EXCEPT !.freed = @ + Available(z), !.end = txg]
                     ELSE zones[z]]

FinishZones(F) ==
    [z \in Zones |-> IF z \in F
                     THEN [zones[z] EXCEPT !.freed = @ + Available(z), !.end = txg + 1]
                     ELSE zones[z]]

Unallocate(F) == [z \in Zones |-> IF z \in F THEN 0 ELSE allocated[z]]

NewExtent(z, off, space) == [zone |-> z, off |-> off, len |-> space, txg |-> txg]

\* The record fits in an open zone.
WriteOpen(space) ==
    /\ phase = "running"
    /\ HasRoom(space) # {}
    /\ LET z == Min(HasRoom(space))
           F == NearlyFull(space)
       IN /\ zones' = FinishZones(F)
          /\ openZones' = openZones \ F
          /\ allocated' = [Unallocate(F) EXCEPT ![z] = @ + space]
          /\ dirty' = dirty \cup {Block(y) : y \in F \cup {z}}
          /\ live' = live \cup {NewExtent(z, allocated[z], space)}
    /\ UNCHANGED <<len, emptyZones, smap, txg, phase>>

\* No open zone has room: all of them are finished, and an empty one is opened.
WriteNewZone(space) ==
    /\ phase = "running"
    /\ HasRoom(space) = {}
    /\ HasEmpty
    /\ Space[FindEmpty] >= space
    /\ LET z == FindEmpty
           F == NearlyFull(space)
       IN /\ zones' = [FinishZones(F) EXCEPT
                          ![z] = [freed |-> 0, start |-> txg, end |-> U32Max]]
          /\ len' = IF z >= len THEN z + 1 ELSE len
          /\ emptyZones' = (emptyZones \cup (len .. z - 1)) \ {z}
          /\ openZones' = (openZones \ F) \cup {z}
          /\ allocated' = [Unallocate(F) EXCEPT ![z] = space]
          /\ dirty' = dirty \cup {Block(y) : y \in F \cup {z}}
          /\ live' = live \cup {NewExtent(z, 0, space)}
    /\ UNCHANGED <<smap, txg, phase>>

\* ENOSPC.  The nearly full zones have been finished all the same, and
\* open_zone marks its zone dirty before it finds it too small.
WriteFails(space) ==
    /\ phase = "running"
    /\ HasRoom(space) = {}
    /\ HasEmpty => Space[FindEmpty] < space
    /\ LET F == NearlyFull(space)
           tried == IF HasEmpty THEN {FindEmpty} ELSE {}
       IN /\ zones' = FinishZones(F)
          /\ openZones' = openZones \ F
          /\ allocated' = Unallocate(F)
          /\ dirty' = dirty \cup {Block(y) : y \in F \cup tried}
    /\ UNCHANGED <<len, emptyZones, smap, live, txg, phase>>

-----------------------------------------------------------------------------
(* Cluster::free: count the blocks as freed, and erase a closed zone that  *)
(* has none left in use.  Erasing the last zone of the vector drops every  *)
(* trailing empty zone.                                                    *)

FreeOnly(e) ==
    /\ phase = "running"
    /\ ~ (IsClosed(e.zone) /\ InUse(e.zone) = e.len)
    /\ zones' = [zones EXCEPT ![e.zone].freed = @ + e.len]
    /\ dirty' = dirty \cup {Block(e.zone)}
    /\ live' = live \ {e}
    /\ UNCHANGED <<len, emptyZones, openZones, allocated, smap, txg, phase>>

\* Mutant of FirstTrailingEmpty: truncates the last nonempty zone as well.
LastNonempty(empty) ==
    IF (0 .. len - 1) \ empty = {} THEN 0 ELSE Max((0 .. len - 1) \ empty)

FirstTrailingEmpty(empty) ==
    IF (0 .. len - 1) \ empty = {} THEN 0 ELSE Max((0 .. len - 1) \ empty) + 1

FreeAndErase(e) ==
    /\ phase = "running"
    /\ IsClosed(e.zone)
    /\ InUse(e.zone) = e.len
    /\ LET z == e.zone
           empty == emptyZones \cup {z}
           newLen == IF z = len - 1 THEN FirstTrailingEmpty(empty) ELSE len
       IN /\ zones' = [zones EXCEPT ![z] = [freed |-> @.freed + e.len, start |-> 0, end |-> 0]]
          /\ len' = newLen
          /\ emptyZones' = {y \in empty : y < newLen}
          /\ dirty' = dirty \cup {Block(z)}
    /\ live' = live \ {e}
    /\ UNCHANGED <<openZones, allocated, smap, txg, phase>>

-----------------------------------------------------------------------------
(* Cluster::flush.  flush_zone pads the stripe buffer of every open zone   *)
(* to a whole stripe; the padding is counted as allocated and freed.  Then *)
(* the dirty blocks of the map are written to spacemap idx.                *)

\* Mutant of FlushZone: the padding is not reported.
FlushZoneUnpadded(z) == 0
FlushZone(z) == (StripeLbas - (allocated[z] % StripeLbas)) % StripeLbas

WasteFreed == [z \in Zones |-> IF IsOpen(z) THEN [zones[z] EXCEPT !.freed = @ + FlushZone(z)]
                                            ELSE zones[z]]
WasteAllocated == [z \in Zones |-> IF IsOpen(z) THEN allocated[z] + FlushZone(z)
                                                ELSE allocated[z]]

\* Mutant of Serialize: the map is serialized before the padding is wasted.
SerializeUnpadded(z, zs, al) ==
    IF IsEmpty(z) THEN NoZoneOnDisk
    ELSE [allocated |-> IF IsOpen(z) THEN allocated[z] ELSE U32Max,
          freed |-> zs[z].freed, start |-> zs[z].start, end |-> zs[z].end]

Serialize(z, zs, al) ==
    IF IsEmpty(z) THEN NoZoneOnDisk
    ELSE [allocated |-> IF IsOpen(z) THEN al[z] ELSE U32Max,
          freed |-> zs[z].freed, start |-> zs[z].start, end |-> zs[z].end]

Flush(idx) ==
    LET wasted == dirty \cup {Block(z) : z \in openZones}
    IN /\ zones' = WasteFreed
       /\ allocated' = WasteAllocated
       /\ smap' = [smap EXCEPT ![idx] =
                      [z \in Zones |-> IF Block(z) \in wasted
                                       THEN Serialize(z, WasteFreed, WasteAllocated)
                                       ELSE @[z]]]
       /\ dirty' = {}
       /\ UNCHANGED <<len, emptyZones, openZones, live>>

\* The database syncs with the transaction lock held: it flushes for label 0,
\* then for label 1, and then starts the next transaction group.
FlushFirst ==
    /\ phase = "running"
    /\ txg + 1 < U32Max
    /\ phase' = "label0"
    /\ Flush(0)
    /\ UNCHANGED txg

FlushSecond ==
    /\ phase = "label0"
    /\ phase' = "running"
    /\ Flush(1)
    /\ txg' = txg + 1

-----------------------------------------------------------------------------
(* Cluster::open: rebuild the map from spacemap 0.  A zone with the        *)
(* sentinel is closed, one with no allocation is empty, any other is open. *)

OnDisk(z) == smap[0][z]
OpenOnDisk == {z \in Zones : OnDisk(z).allocated \notin {0, U32Max}}
EmptyOnDisk == {z \in Zones : OnDisk(z).allocated = 0}
LenOnDisk == IF Zones \ EmptyOnDisk = {} THEN 0 ELSE Max(Zones \ EmptyOnDisk) + 1

Reopen ==
    /\ phase = "running"
    /\ dirty = {}
    /\ zones' = [z \in Zones |-> IF z \in EmptyOnDisk THEN NoZone
                                 ELSE [freed |-> OnDisk(z).freed,
                                       start |-> OnDisk(z).start, end |-> OnDisk(z).end]]
    /\ len' = LenOnDisk
    /\ emptyZones' = {z \in EmptyOnDisk : z < LenOnDisk}
    /\ openZones' = OpenOnDisk
    /\ allocated' = [z \in Zones |-> IF z \in OpenOnDisk THEN OnDisk(z).allocated ELSE 0]
    /\ UNCHANGED <<dirty, smap, live, txg, phase>>

-----------------------------------------------------------------------------
\* Cluster::create: nothing is allocated, and every block of the map is dirty.
Init ==
    /\ zones = [z \in Zones |-> NoZone]
    /\ len = 0
    /\ emptyZones = {}
    /\ openZones = {}
    /\ allocated = [z \in Zones |-> 0]
    /\ dirty = Blocks
    /\ smap = [i \in {0, 1} |-> [z \in Zones |-> NoZoneOnDisk]]
    /\ live = {}
    /\ txg = 0
    /\ phase = "running"

Write == \E space \in WriteSizes : WriteOpen(space) \/ WriteNewZone(space) \/ WriteFails(space)
Free == \E e \in live : FreeOnly(e) \/ FreeAndErase(e)

Next == Write \/ Free \/ FlushFirst \/ FlushSecond \/ Reopen

Spec == Init /\ [][Next]_vars

-----------------------------------------------------------------------------
(* Properties.                                                             *)

TypeOK ==
    /\ zones \in [Zones -> Zone]
    /\ len \in 0 .. TotalZones
    /\ emptyZones \subseteq 0 .. len - 1
    /\ openZones \subseteq 0 .. len - 1
    /\ allocated \in [Zones -> Nat]
    /\ dirty \subseteq Blocks
    /\ smap \in [{0, 1} -> [Zones -> ZoneOnDisk]]
    /\ live \subseteq Extent
    /\ txg \in Nat
    /\ phase \in {"running", "label0"}

Lbas(e) == e.off .. e.off + e.len - 1
ExtentsIn(L, z) == {e \in L : e.zone = z}
BlocksIn(L, z) == UNION {Lbas(e) : e \in ExtentsIn(L, z)}

\* No two records share a block, and none reaches past the write pointer of
\* its zone: a zone is never erased, and its blocks never handed out again,
\* while a record in it is live (Cluster::write, Cluster::free).
Limit(z) == IF IsOpen(z) THEN allocated[z] ELSE Space[z]
Disjoint(L) == \A d, e \in L : d # e /\ d.zone = e.zone => Lbas(d) \cap Lbas(e) = {}
ExtentsIntact ==
    /\ Disjoint(live)
    /\ \A e \in live : ~ IsEmpty(e.zone) /\ e.off + e.len <= Limit(e.zone)

\* FreeSpaceMap::in_use, which decides when a zone is erased, is exactly the
\* number of blocks that belong to live records.  freed_blocks therefore never
\* trips the "Double free detected" assertions.
InUseIsLive == \A z \in Zones : InUse(z) = Cardinality(BlocksIn(live, z))

\* At most one zone is open.  FreeSpaceMap::deserialize depends on it: it
\* replays the allocation of each open zone with try_allocate and asserts that
\* the zone it gets is the zone it reopened.
OneOpenZone == \A y, z \in openZones : y = z

\* Every live record was written in a transaction group of its zone's range.
\* Tree::clean_zone prunes its search for a zone's records with that range.
LiveTxgsInRange ==
    \A e \in live : zones[e.zone].start <= e.txg /\ e.txg < zones[e.zone].end

\* A block of the map that is not marked dirty is on disk as it is in memory:
\* no operation forgets to mark what it changes (FreeSpaceMap::dirty_zone), and
\* padding added by a flush is in the spacemap that flush writes.
SpacemapCurrent ==
    \A z \in Zones : Block(z) \notin dirty => OnDisk(z) = Serialize(z, zones, allocated)

\* Whatever spacemap 0 is on disk, Cluster::open does not panic on it: at most
\* one zone is open in it (cluster.rs:194), and that zone's write pointer is at
\* a stripe boundary, as StripeBuffer::new asserts when the zone is reopened.
SpacemapReopens ==
    /\ \A y, z \in OpenOnDisk : y = z
    /\ \A z \in OpenOnDisk : OnDisk(z).allocated % StripeLbas = 0

\* A zone's write pointer never moves back while the zone is open, a closed
\* zone does not reopen without being erased, and no zone is erased while open.
\* Closing and reopening the pool between two steps changes nothing of this.
LifecycleStep ==
    \A z \in Zones :
        /\ IsOpen(z) => ~ IsEmpty(z)' /\ (IsOpen(z)' => allocated'[z] >= allocated[z])
        /\ IsClosed(z) => ~ IsOpen(z)'
ZoneLifecycle == [][LifecycleStep]_vars

\* The allocator's accounting is right: zones are of one kind and inside the vector,
\* one is open at most, in_use counts the live blocks, and the txgs of a zone bound
\* those of its records (FreeSpaceMap, Cluster::write, Cluster::free).
Accounted == TypeOK /\ OneOpenZone /\ InUseIsLive /\ LiveTxgsInRange

\* The free space map survives closing the pool: what is not dirty is on disk as it
\* is in memory, and what is on disk can be opened (Cluster::flush, Cluster::open).
SpacemapSound == SpacemapCurrent /\ SpacemapReopens

-----------------------------------------------------------------------------
(* The inductive invariant.                                                *)

\* The vector never ends in an empty zone, so that the map read back from disk
\* has the same length; an open zone has allocated something, so that it is not
\* read back as empty.
Shape ==
    /\ emptyZones \cap openZones = {}
    /\ len > 0 => ~ IsEmpty(len - 1)
    /\ \A z \in Zones : IF IsOpen(z) THEN 0 < allocated[z] /\ allocated[z] <= Space[z]
                                     ELSE allocated[z] = 0

TxgsBounded ==
    /\ txg < U32Max
    /\ \A z \in openZones : zones[z].start <= txg /\ zones[z].end = U32Max
    /\ \A e \in live : e.txg <= txg

\* Between the two flushes of a sync nothing changes, so that the second one
\* finds nothing to pad and need not write spacemap 0 again.
FlushedOnce ==
    phase = "label0" => /\ dirty = {} /\ txg + 1 < U32Max
                        /\ \A z \in openZones : allocated[z] % StripeLbas = 0

IndInv ==
    /\ TypeOK
    /\ Shape
    /\ OneOpenZone
    /\ ExtentsIntact
    /\ InUseIsLive
    /\ TxgsBounded
    /\ LiveTxgsInRange
    /\ SpacemapCurrent
    /\ SpacemapReopens
    /\ FlushedOnce

-----------------------------------------------------------------------------
(* What comments of the source promise and the code does not do.           *)

\* Once a closed zone has no live record left, it is erased (the comment in
\* Cluster::free: "Erase the zone if it is fully freed").
FullyFreedIsErased == \A z \in Zones : IsClosed(z) => ExtentsIn(live, z) # {}

\* After the flush for label 1, spacemap 1 describes the cluster (the comment
\* on Cluster::flush: "Flush all data and metadata to disk ... idx is the index
\* of the label that is about to be written").
SecondSpacemapComplete ==
    [][FlushSecond => \A z \in Zones : smap'[1][z] = smap'[0][z]]_vars
=============================================================================
