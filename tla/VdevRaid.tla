------------------------------ MODULE VdevRaid ------------------------------
(***************************************************************************)
(* RAID (vdev_raid.rs) over PRIME-S: the stripe buffers of the open zones, *)
(* whole-stripe writes with parity, reads, and the zones that the array    *)
(* makes of its disks' zones.                                              *)
(*                                                                         *)
(* What is written to an LBA is one symbol, a sequence of integers: the    *)
(* LBA and the generation of its zone, a zero, or for parity its index and *)
(* the symbols that it is the parity of (the codec is external).  Disk     *)
(* writes are issued and complete later; a crash loses any of them.  The   *)
(* caller is a Cluster: it fills its zones in order, flushes them, and     *)
(* records after a sync how much of each zone is allocated.                *)
(***************************************************************************)
EXTENDS PrimeS, VdevFile, TLC

CONSTANTS
    NDisks, PerStripe, Redundancy,
    ChunkSize,   \* in LBAs
    BytesPerLba,
    WriteLens,   \* the lengths of writes, in bytes
    ReadLens,    \* the lengths of reads, in LBAs
    MaxErases, MaxCrashes, MaxWrites,
    MaxPending,  \* a write is issued while no more disk writes than this are under way
    MaxTorn      \* a crash lets through all disk writes, or no more than this

ASSUME ArrayAssumption == LegalLayout(NDisks, PerStripe, Redundancy) /\ ChunkSize \in Nat \ {0}

VARIABLES
    raid,     \* the array's geometry, which does not change
    sbs,      \* stripe_buffers: of each open zone, where its stripe begins and what it has
    disks,    \* what is on the disks
    pending,  \* disk writes that have been issued
    zones,    \* the Cluster's zones: state, next LBA and generation
    recorded, \* the zones as of the last sync
    written,  \* what has been written, by LBA
    synced,   \* what had been written when the last sync returned
    wp,       \* how far each zone of each disk has been written
    astray,   \* why disk writes have not been at the write pointer
    erases, crashes, writes, panicked

vars == <<raid, sbs, disks, pending, zones, recorded, written, synced, wp, astray, erases, crashes, writes, panicked>>

Disks == 0 .. NDisks - 1
Zones == 1 .. NZones
DiskZones == [z \in Zones |-> DiskZoneLimits(z - 1)]
M == PerStripe - Redundancy
StripeLbas == M * ChunkSize
DiskLbas == 0 .. NZones * LbasPerZone - 1

Least(a, b) == IF a < b THEN a ELSE b

Nothing == <<>>
Zero == <<0>>
Symbol(lba, gen) == <<10 * (lba + 1) + gen>>

-----------------------------------------------------------------------------
(* Zones.                                                                  *)

StripeChunks(l, s) == Iter(l, DataChunk(s * M), DataChunk((s + 1) * M))
Rows(l, s) == {c.loc.offset : c \in Range(StripeChunks(l, s))}
StripesAt(l, row) == {Loc2Id(l, [disk |-> d, offset |-> row]).addr \div M : d \in Disks}
Nearby(l, row) == Min(StripesAt(l, row)) .. Max(StripesAt(l, row))

\* Mutant of LowStripe: the first stripe with a chunk in the zone.
LowStripeAny(l, row) == Min(Nearby(l, row))
\* zone_limits: the first stripe from which on none reaches below the boundary, and the
\* last that does not reach above it.
LowStripe(l, row) == Min({s \in Nearby(l, row) : \A t \in s .. Max(Nearby(l, row)) : Min(Rows(l, t)) >= row})
HighStripe(l, row) == Max({s \in Nearby(l, row) : Max(Rows(l, s)) <= row})
ZoneLimits(l, z) ==
    <<LowStripe(l, DivRoundup(DiskZones[z][1], ChunkSize)) * StripeLbas,
      (HighStripe(l, DiskZones[z][2] \div ChunkSize - 1) + 1) * StripeLbas>>

\* The first row of a disk, from a zone's first on, at or after an LBA of the array.
RECURSIVE FirstRow(_, _, _, _)
FirstRow(l, d, row, lba) ==
    IF Loc2Id(l, [disk |-> d, offset |-> row]).addr * ChunkSize >= lba THEN row
    ELSE FirstRow(l, d, row + 1, lba)
RowFrom(l, d, z, lba) == FirstRow(l, d, DivRoundup(DiskZones[z][1], ChunkSize), lba)

\* VdevRaid::new.  The limits of the zones, and the chunks of each stripe (counted from
\* one) where issue_1stripe_ops looks for them, follow from the layout.
Stripes == 1 .. (NDisks * NZones * LbasPerZone) \div (PerStripe * ChunkSize) + 2 * NDisks
New(l) ==
    [layout |-> l,
     limits |-> <<>> \o [z \in Zones |-> ZoneLimits(l, z)],
     data |-> <<>> \o [s \in Stripes |-> Iter(l, DataChunk((s - 1) * M), ParityChunk((s - 1) * M, 0))],
     parity |-> <<>> \o [s \in Stripes |-> Iter(l, ParityChunk((s - 1) * M, 0), DataChunk(s * M))]]

L == raid.layout
Limits == raid.limits

\* lba2zone, or 0.
Lba2Zone(lba) ==
    LET loc == Id2Loc(L, DataChunk(lba \div ChunkSize))
        z == DiskLba2Zone(loc.offset * ChunkSize) + 1
    IN IF z \in Zones /\ Limits[z][1] <= lba /\ lba < Limits[z][2] THEN z ELSE 0

-----------------------------------------------------------------------------
(* Disk writes.                                                            *)

DiskWrite(d, lba, syms) == [disk |-> d, lba |-> lba, syms |-> syms]

\* The j-th of n columns of a buffer (SGCursor).
Column(buf, j) == SubSeq(buf, (j - 1) * ChunkSize + 1, j * ChunkSize)

\* Codec::encode: the i-th parity column of a stripe.
Encode(stripe, i) ==
    [r \in 1 .. ChunkSize |-> <<i + 1>> \o [j \in 1 .. M |-> Column(stripe, j)[r][1]]]

\* write_at_one and writev_at_one.
WritevAtOne(stripe, lba) ==
    LET data == raid.data[lba \div StripeLbas + 1]
        parity == raid.parity[lba \div StripeLbas + 1]
    IN {DiskWrite(data[j].loc.disk, data[j].loc.offset * ChunkSize, Column(stripe, j)) : j \in 1 .. M}
       \cup {DiskWrite(parity[i].loc.disk, parity[i].loc.offset * ChunkSize, Encode(stripe, i - 1)) :
                i \in 1 .. Redundancy}
WriteAtOne(stripe, lba) == WritevAtOne(stripe, lba)

\* write_at_multi: one write per disk, of all its chunks, from its first one on.
StripeOf(buf, s) == SubSeq(buf, s * StripeLbas + 1, (s + 1) * StripeLbas)
ChunkOf(buf, lba, id) ==
    LET s == id.addr \div M - lba \div StripeLbas
    IN IF IsData(id) THEN Column(StripeOf(buf, s), (id.addr % M) + 1) ELSE Encode(StripeOf(buf, s), id.parity)
RECURSIVE Gathered(_, _, _, _)
Gathered(buf, lba, chunks, d) ==
    IF chunks = <<>> THEN <<>>
    ELSE (IF Head(chunks).loc.disk = d THEN ChunkOf(buf, lba, Head(chunks).id) ELSE <<>>)
         \o Gathered(buf, lba, Tail(chunks), d)
WriteAtMulti(buf, lba) ==
    LET chunks == Iter(L, DataChunk(lba \div ChunkSize), DataChunk((lba + Len(buf)) \div ChunkSize))
        RowsOn(d) == {chunks[i].loc.offset : i \in {j \in DOMAIN chunks : chunks[j].loc.disk = d}}
    IN {DiskWrite(d, Min(RowsOn(d)) * ChunkSize, Gathered(buf, lba, chunks, d)) :
            d \in {e \in Disks : RowsOn(e) # {}}}

\* A disk after some of its writes.
Applied(ws) ==
    [d \in Disks |-> [lba \in DiskLbas |->
        LET here == {w \in ws : w.disk = d /\ w.lba <= lba /\ lba < w.lba + Len(w.syms)}
        IN IF here = {} THEN disks[d][lba]
           ELSE LET w == CHOOSE x \in here : TRUE IN w.syms[lba - w.lba + 1]]]

OutOfBounds(ws) == IF \A w \in ws : InBounds(w.lba, Len(w.syms)) THEN {} ELSE {"bounds"}

\* Issue writes to a zone.  Those of one disk are sorted by LBA (VdevBlock).
RECURSIVE Advance(_, _)
Advance(at, ws) ==
    IF ws = {} THEN at
    ELSE LET w == CHOOSE x \in ws : \A y \in ws : x.lba <= y.lba
         IN IF w.lba = at THEN Advance(at + Len(w.syms), ws \ {w}) ELSE -1
On(ws, d) == {w \in ws : w.disk = d}
Issue(z, ws, why, failed) ==
    /\ pending' = pending \cup ws
    /\ LET to == [d \in Disks |-> Advance(wp[d][z], On(ws, d))]
       IN /\ wp' = [d \in Disks |-> [wp[d] EXCEPT ![z] = IF to[d] < 0 THEN @ ELSE to[d]]]
          /\ astray' = astray \cup IF \E d \in Disks : to[d] < 0 THEN {why} ELSE {}
    /\ panicked' = OutOfBounds(ws) \cup failed

-----------------------------------------------------------------------------
(* Operations on zones.                                                    *)

Sb(lba, buf) == [lba |-> lba, buf |-> buf]
NextLba(z) == sbs[z].lba + Len(sbs[z].buf)

\* Mutant of Fills: the zone is written from its first stripe on.
FillsNone(z) == {}
\* open_zone_priv.  The space before the zone's first stripe is filled with zeros.
Fills(z) ==
    LET first == DiskZones[z][1]
        usable == [d \in Disks |-> RowFrom(L, d, z, Limits[z][1]) * ChunkSize]
    IN {DiskWrite(d, first, [i \in 1 .. usable[d] - first |-> Zero]) : d \in {e \in Disks : usable[e] > first}}
OpenZone(z) ==
    /\ panicked = {} /\ zones[z].state = "empty"
    /\ \A y \in Zones : zones[y].state # "open" /\ (y < z => zones[y].state = "closed")
    /\ zones' = [zones EXCEPT ![z].state = "open", ![z].next = Limits[z][1]]
    /\ sbs' = (z :> Sb(Limits[z][1], <<>>)) @@ sbs
    /\ Issue(z, Fills(z), "gap", {})
    /\ UNCHANGED <<raid, disks, recorded, written, synced, erases, crashes, writes>>

\* write_at.
Fill(sb, syms) == [sb EXCEPT !.buf = @ \o syms]
Popped(sb) == IF Len(sb.buf) = StripeLbas THEN Sb(sb.lba + StripeLbas, <<>>) ELSE sb
PoppedWrites(sb) == IF Len(sb.buf) = StripeLbas THEN WritevAtOne(sb.buf, sb.lba) ELSE {}

\* First a stripe that is partly in the buffer, or less than a stripe; then whole
\* stripes; then what is left.
FirstPart(sb, bytes, n) ==
    IF sb.buf # <<>> \/ bytes < StripeLbas * BytesPerLba THEN Least(StripeLbas - Len(sb.buf), n) ELSE 0
Rest(sb1, syms, nstripes) ==
    LET whole == SubSeq(syms, 1, nstripes * StripeLbas)
        sb2 == Fill(Sb(sb1.lba + Len(whole), <<>>), SubSeq(syms, Len(whole) + 1, Len(syms)))
    IN [sb |-> Popped(sb2),
        writes |-> PoppedWrites(sb2)
                   \cup IF nstripes = 1 THEN WriteAtOne(whole, sb1.lba)
                        ELSE IF nstripes = 0 THEN {} ELSE WriteAtMulti(whole, sb1.lba)]
WriteAt(z, bytes) ==
    LET n == DivRoundup(bytes, BytesPerLba)
        lba == NextLba(z)
        syms == [i \in 1 .. n |-> Symbol(lba + i - 1, zones[z].gen)]
        get == FirstPart(sbs[z], bytes, n)
        sb1 == Fill(sbs[z], SubSeq(syms, 1, get))
        rest == Rest(Popped(sb1), SubSeq(syms, get + 1, n),
                     (bytes - get * BytesPerLba) \div (StripeLbas * BytesPerLba))
    IN /\ panicked = {} /\ zones[z].state = "open" /\ lba + n <= Limits[z][2]
       /\ writes < MaxWrites /\ Cardinality(pending) <= MaxPending /\ writes' = writes + 1
       /\ zones' = [zones EXCEPT ![z].next = lba + n]
       /\ written' = [i \in lba .. lba + n - 1 |-> syms[i - lba + 1]] @@ written
       /\ sbs' = [sbs EXCEPT ![z] = IF get = n THEN Popped(sb1) ELSE rest.sb]
       /\ Issue(z, PoppedWrites(sb1) \cup IF get = n THEN {} ELSE rest.writes, "gap",
                IF Lba2Zone(lba) = z /\ Lba2Zone(lba + n - 1) = z /\ zones[z].next = lba THEN {} ELSE {"write_at"})
       /\ UNCHANGED <<raid, disks, recorded, synced, erases, crashes>>

\* StripeBuffer::pad.
Padding(sb) == IF sb.buf = <<>> THEN 0 ELSE StripeLbas - Len(sb.buf)
Padded(sb) == Fill(sb, [i \in 1 .. Padding(sb) |-> Zero])
PadWritten(z) ==
    written' = [i \in NextLba(z) .. NextLba(z) + Padding(sbs[z]) - 1 |-> Zero] @@ written

\* Mutant of FlushedTo: the caller is not told about the padding.
FlushedToUnpadded(z) == zones[z].next
\* flush_zone, and the Cluster's note of the padding.
FlushedTo(z) == zones[z].next + Padding(sbs[z])
FlushZone(z) ==
    /\ panicked = {} /\ zones[z].state = "open" /\ sbs[z].buf # <<>>
    /\ sbs' = [sbs EXCEPT ![z] = Popped(Padded(sbs[z]))]
    /\ Issue(z, PoppedWrites(Padded(sbs[z])), "gap", {})
    /\ PadWritten(z)
    /\ zones' = [zones EXCEPT ![z].next = FlushedTo(z)]
    /\ UNCHANGED <<raid, disks, recorded, synced, erases, crashes, writes>>

\* finish_zone.  The Cluster closes a zone that is too full.
FinishZone(z) ==
    /\ panicked = {} /\ zones[z].state = "open"
    /\ \E b \in WriteLens : zones[z].next + DivRoundup(b, BytesPerLba) > Limits[z][2]
    /\ Issue(z, PoppedWrites(Padded(sbs[z])), "gap", {})
    /\ PadWritten(z)
    /\ sbs' = [y \in DOMAIN sbs \ {z} |-> sbs[y]]
    /\ zones' = [zones EXCEPT ![z].state = "closed", ![z].next = FlushedTo(z)]
    /\ UNCHANGED <<raid, disks, recorded, synced, erases, crashes, writes>>

\* erase_zone, of a closed zone whose data is no longer wanted.
InZone(f, z) == {lba \in DOMAIN f : Limits[z][1] <= lba /\ lba < Limits[z][2]}
Except(f, S) == [x \in DOMAIN f \ S |-> f[x]]
EraseZone(z) ==
    /\ panicked = {} /\ zones[z].state = "closed" /\ pending = {} /\ erases < MaxErases
    /\ erases' = erases + 1
    /\ disks' = [d \in Disks |-> [lba \in DiskLbas |->
                     IF lba \in Trimmed(DiskZones[z][1]) THEN Nothing ELSE disks[d][lba]]]
    /\ wp' = [d \in Disks |-> [wp[d] EXCEPT ![z] = DiskZones[z][1]]]
    /\ zones' = [zones EXCEPT ![z] = [state |-> "empty", next |-> 0, gen |-> @.gen + 1]]
    /\ recorded' = [recorded EXCEPT ![z] = zones'[z]]
    /\ written' = Except(written, InZone(written, z))
    /\ synced' = Except(synced, InZone(synced, z))
    /\ panicked' = IF z \in DOMAIN sbs THEN {"erase_zone"} ELSE {}
    /\ UNCHANGED <<raid, sbs, pending, astray, crashes, writes>>

\* Disk writes complete.
Complete ==
    /\ panicked = {} /\ pending # {}
    /\ disks' = Applied(pending) /\ pending' = {}
    /\ UNCHANGED <<raid, sbs, zones, recorded, written, synced, wp, astray, erases, crashes, writes, panicked>>

\* write_spacemap and write_label: every disk gets what the last of them has written.
Metadata == << <<SpacemapAt(0), -1>>, <<LabelAt(0), -2>>, <<SpacemapAt(1), -3>>, <<LabelAt(1), -4>> >>
Labelled(d) ==
    [lba \in DiskLbas |->
        LET over == {i \in DOMAIN Metadata : lba \in Metadata[i][1]}
        IN IF over = {} THEN disks[d][lba] ELSE <<Metadata[Max(over)][2]>>]
\* sync_all, after the Cluster has flushed its zones and written its spacemap.
SyncAll ==
    /\ panicked = {} /\ pending = {} /\ \A z \in DOMAIN sbs : sbs[z].buf = <<>>
    /\ recorded' = zones /\ synced' = written
    /\ recorded # recorded'
    /\ disks' = [d \in Disks |-> Labelled(d)]
    /\ UNCHANGED <<raid, sbs, pending, zones, written, wp, astray, erases, crashes, writes, panicked>>

\* A crash; then the Cluster reopens the zones that were open.  reopen_zone is
\* open_zone_priv with what was allocated.
Crash ==
    /\ panicked = {} /\ crashes < MaxCrashes /\ crashes' = crashes + 1
    /\ \E ws \in SUBSET pending :
        /\ Cardinality(ws) <= MaxTorn \/ ws = pending
        /\ disks' = Applied(ws)
    /\ zones' = [z \in Zones |-> [recorded[z] EXCEPT !.gen = zones[z].gen + 1]]
    /\ LET open == {z \in Zones : recorded[z].state = "open"}
       IN /\ sbs' = [z \in open |-> Sb(recorded[z].next, <<>>)]
          /\ pending' = UNION {Fills(z) : z \in open}
          /\ panicked' = OutOfBounds(pending')
                         \cup IF \E z \in open : (recorded[z].next % StripeLbas) # 0 THEN {"reopen_zone"} ELSE {}
          /\ astray' = astray \cup IF pending' = {} THEN {} ELSE {"reopened"}
          /\ wp' = [d \in Disks |-> [z \in Zones |->
                        IF z \notin open THEN DiskZones[z][1]
                        ELSE RowFrom(L, d, z, recorded[z].next) * ChunkSize]]
    /\ written' = synced
    /\ UNCHANGED <<raid, recorded, synced, erases, writes>>

Init ==
    /\ raid = New(Layout(NDisks, PerStripe, Redundancy))
    /\ sbs = <<>> /\ pending = {} /\ written = <<>> /\ synced = <<>>
    /\ disks = [d \in Disks |-> [lba \in DiskLbas |-> Nothing]]
    /\ zones = [z \in Zones |-> [state |-> "empty", next |-> 0, gen |-> 0]] /\ recorded = zones
    /\ wp = [d \in Disks |-> [z \in Zones |-> DiskZones[z][1]]]
    /\ astray = {} /\ erases = 0 /\ crashes = 0 /\ writes = 0 /\ panicked = {}

Next ==
    \/ \E z \in Zones :
        OpenZone(z) \/ FlushZone(z) \/ FinishZone(z) \/ EraseZone(z) \/ \E b \in WriteLens : WriteAt(z, b)
    \/ Complete \/ SyncAll \/ Crash

Spec == Init /\ [][Next]_vars

-----------------------------------------------------------------------------
(* read_at.                                                                *)

FromDisk(d, lba, n) == [i \in 1 .. n |-> disks[d][lba + i - 1]]

\* read_at_one: a part of a stripe, chunk by chunk, the first from its middle.
RECURSIVE ReadOne(_, _, _)
ReadOne(it, lba, n) ==
    IF n = 0 THEN <<>>
    ELSE LET into == lba % ChunkSize
             len == Least(ChunkSize - into, n)
             loc == NextElem(L, it)
         IN FromDisk(loc.disk, loc.offset * ChunkSize + into, len)
            \o ReadOne(IterNext(L, it), lba + len, n - len)
ReadAtOne(lba, n) == ReadOne(IterNew(L, DataChunk(lba \div ChunkSize)), lba, n)

\* Mutant of From: one read per disk, as if there were no parity between the chunks.
FromOneRead(at, disk_lba) == IF at.next < 0 THEN disk_lba ELSE at.from
\* read_at_multi: the chunks of a disk are read with one request, from the first on,
\* but a new request is begun where a parity chunk has been skipped.
From(at, disk_lba) == IF at.next < disk_lba THEN disk_lba ELSE at.from
RECURSIVE ReadMulti(_, _, _, _)
ReadMulti(at, chunks, lba, n) ==
    IF n = 0 THEN <<>>
    ELSE LET into == lba % ChunkSize
             len == Least(ChunkSize - into, n)
             loc == Head(chunks).loc
             disk_lba == loc.offset * ChunkSize + into
             from == From(at[loc.disk], disk_lba)
         IN FromDisk(loc.disk, from, len)
            \o ReadMulti([at EXCEPT ![loc.disk] = [from |-> from + len, next |-> disk_lba + ChunkSize]],
                         Tail(chunks), lba + len, n - len)
ReadAtMulti(lba, n) ==
    ReadMulti([d \in Disks |-> [from |-> -1, next |-> -1]],
              IterData(L, DataChunk(lba \div ChunkSize), DataChunk(DivRoundup(lba + n, ChunkSize))), lba, n)
ReadDirect(lba, n) ==
    IF lba \div StripeLbas = (lba + n - 1) \div StripeLbas THEN ReadAtOne(lba, n) ELSE ReadAtMulti(lba, n)

\* read_at: the end may be in a stripe buffer.
ReadAt(lba, n) ==
    LET in == {z \in DOMAIN sbs : sbs[z].buf # <<>> /\ lba < NextLba(z) /\ lba + n - 1 >= sbs[z].lba}
        sb == sbs[CHOOSE z \in in : TRUE]
        direct == IF sb.lba > lba THEN sb.lba - lba ELSE 0
    IN IF in = {} THEN ReadDirect(lba, n)
       ELSE (IF direct = 0 THEN <<>> ELSE ReadDirect(lba, direct))
            \o SubSeq(sb.buf, lba + direct - sb.lba + 1, lba + n - sb.lba)

-----------------------------------------------------------------------------
(* Properties.                                                             *)

\* What has been written is read back, from any LBA, of any length, from the disks,
\* the stripe buffer or both, however it was split into writes, after zones next to
\* it have been erased and rewritten, and after a crash what had been synced.
ReadsBack ==
    pending = {} /\ panicked = {} =>
        \A lba \in DOMAIN written, n \in ReadLens :
            lba .. lba + n - 1 \subseteq DOMAIN written =>
                ReadAt(lba, n) = [i \in 1 .. n |-> written[lba + i - 1]]

\* "Up to this many disks may fail": at any time, also while writes are under way and
\* after a crash has lost some of them, every stripe that was synced has enough chunks
\* on the disks that are left, with parity of the very data it was computed from, and
\* every disk has the labels and the spacemaps.
OnDisk(loc) == [i \in 1 .. ChunkSize |-> disks[loc.disk][loc.offset * ChunkSize + i - 1]]
Recoverable ==
    LET stripes == {lba \div StripeLbas : lba \in DOMAIN synced}
        Chunks(s) == raid.data[s + 1] \o raid.parity[s + 1]
        Stripe(s) == [i \in 1 .. StripeLbas |-> synced[s * StripeLbas + i - 1]]
        Good(s) == {c \in 1 .. PerStripe :
                        LET x == Chunks(s)[c]
                        IN OnDisk(x.loc) = IF IsData(x.id) THEN Column(Stripe(s), (x.id.addr % M) + 1)
                                           ELSE Encode(Stripe(s), x.id.parity)}
    IN /\ \A s \in stripes : \A down \in kSubset(Redundancy, Disks) :
             Cardinality({c \in Good(s) : Chunks(s)[c].loc.disk \notin down}) >= M
       /\ stripes # {} => \A d \in Disks, i \in DOMAIN Metadata :
             \A lba \in Metadata[i][1] : disks[d][lba] = <<Metadata[i][2]>>

\* On every disk, a zone is written from its start, in order and without gaps, except
\* that a zone that is reopened has its leading space filled again.
WritePointer == "gap" \notin astray

\* No assertion of the array fails: writes stay in their zone and at the buffer's next
\* LBA, and zones are reopened at the start of a stripe.  One of VdevBlock's may: it
\* does not let anybody write the last LBA of a disk.
NoPanic == panicked \subseteq {"bounds"}

\* Writes, flushes and reopenings keep to the rules of zoned disks and of the array's
\* own assertions.
WritesOrderly == WritePointer /\ NoPanic

\* "Asynchronously erase the given zone": that one.
EraseOnlyItsZone ==
    [][\A z \in Zones : EraseZone(z) =>
         \A d \in Disks, lba \in DiskLbas :
             disks'[d][lba] # disks[d][lba] => DiskLba2Zone(lba) = z - 1]_vars

\* "Zero-fill leading wasted space so as not to cause a write pointer violation on SMR
\* disks."
NoWritePointerViolation == astray = {}
=============================================================================
