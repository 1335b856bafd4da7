------------------------------ MODULE FileBytes ------------------------------
(***************************************************************************)
(* The data and the extended attributes of one file (fs.rs: read, write,   *)
(* setattr and the extattr calls; fs_tree.rs: flush).  The file is made of *)
(* records.  A record's extent is inline, in the tree, until the tree is   *)
(* flushed; then an extent that is larger than a threshold becomes a blob, *)
(* a record of the DML of its own, and the tree keeps its RID.  The same   *)
(* holds for extended attributes.                                          *)
(*                                                                         *)
(* Clients wait for each call, so that a call is a step, but not the       *)
(* syncer: a transaction group may be synced whenever no call of the       *)
(* client's has a transaction open, and read has none unless it updates    *)
(* atimes.  A read is therefore several steps.                             *)
(***************************************************************************)
EXTENDS HTable, FiniteSets, FiniteSetsExt, Functions

CONSTANTS
    RecordSize,    \* Inode::record_size, in bytes
    BlobThreshold, \* BLOB_THRESHOLD, in bytes
    MaxSize,       \* a bound on the size of the file
    Bytes,         \* the bytes that are written
    ReadSizes,     \* the lengths of reads
    AttrNames,     \* namespaces and names of attributes
    AttrHash, AttrValues,
    NameLen(_),    \* the length of an attribute's name without its namespace
    Rids,          \* a bound on the blobs: 1 .. n
    MaxCalls,      \* a bound on the calls that change the file
    Atime          \* Fs::atime

ASSUME SizesAssumption ==
    /\ RecordSize \in Nat \ {0} /\ BlobThreshold \in Nat /\ MaxSize \in Nat
    /\ AttrHash \in [AttrNames -> Nat]

VARIABLES
    size,      \* Inode::size
    extents,   \* the file's extents in the tree, by offset
    attrs,     \* its extended attributes in the tree, by hash
    blobs,     \* the DML's blobs, by RID
    leaked,    \* the blobs whose RIDs have been overwritten
    reader,    \* a read that has begun, or None
    calls,
    panicked

vars == <<size, extents, attrs, blobs, leaked, reader, calls, panicked>>

\* InlineExtent and BlobExtent.
Inline(buf) == [rid |-> None, buf |-> buf, lsize |-> Len(buf)]
Blob(rid, lsize) == [rid |-> rid, buf |-> <<>>, lsize |-> lsize]
IsBlob(e) == e.rid # None
RidsOf(es) == {e.rid : e \in {x \in es : IsBlob(x)}}

Zeros(n) == [i \in 1 .. n |-> 0]
Least(a, b) == IF a < b THEN a ELSE b
Most(a, b) == IF a < b THEN b ELSE a
AttrItems == UNION {Range(attrs[k]) : k \in DOMAIN attrs}

\* The bytes of an extent, wherever they are.
Data(e) == IF IsBlob(e) THEN blobs[e.rid] ELSE e.buf

\* The offset of the record that holds a byte.
RecordOf(o) == (o \div RecordSize) * RecordSize

Idle == panicked = None /\ reader = None
Call == Idle /\ calls < MaxCalls /\ calls' = calls + 1

-----------------------------------------------------------------------------
(* write.                                                                  *)

RoundUp(a, b) == (a + b - 1) \div b

\* Uio::into_chunks.
IntoChunks(data, offset0) ==
    LET nrecs == RoundUp(offset0 + Len(data), RecordSize) - offset0 \div RecordSize
        reclen1 == Least(Len(data), RecordSize - offset0)
        First(i) == IF i = 1 THEN 1 ELSE reclen1 + (i - 2) * RecordSize + 1
        Last(i) == IF i = 1 THEN reclen1
                   ELSE IF i = nrecs THEN Len(data) ELSE reclen1 + (i - 1) * RecordSize
    IN [i \in 1 .. nrecs |-> SubSeq(data, First(i), Last(i))]

\* The read-modify-write of a part of a record.
Overlaid(base, into, data) ==
    [i \in 1 .. Most(into + Len(data), Len(base)) |->
        IF i > into /\ i <= into + Len(data) THEN data[i - into]
        ELSE IF i <= Len(base) THEN base[i] ELSE 0]

\* write_record.  A record that is written as a whole replaces the extent; a blob that
\* it replaces is not freed.  The other blobs move into the tree.
WriteRecord(offset, chunks, i, s) ==
    LET offs == RecordOf(offset) + (i - 1) * RecordSize
        into == IF i = 1 THEN offset - RecordOf(offset) ELSE 0
        old == IF offs \in DOMAIN s.extents THEN s.extents[offs] ELSE Inline(<<>>)
        partial == Len(chunks[i]) < RecordSize
    IN [extents |-> With(s.extents, offs,
                         Inline(IF partial THEN Overlaid(Data(old), into, chunks[i]) ELSE chunks[i])),
        freed |-> s.freed \cup IF partial THEN RidsOf({old}) ELSE {},
        leaked |-> s.leaked \cup IF partial THEN {} ELSE RidsOf({old})]
RECURSIVE WriteRecords(_, _, _, _)
WriteRecords(offset, chunks, i, s) ==
    IF i > Len(chunks) THEN s
    ELSE WriteRecords(offset, chunks, i + 1, WriteRecord(offset, chunks, i, s))

Write(offset, data) ==
    /\ Call
    /\ LET r == WriteRecords(offset, IntoChunks(data, offset % RecordSize), 1,
                             [extents |-> extents, freed |-> {}, leaked |-> leaked])
       IN extents' = r.extents /\ leaked' = r.leaked /\ blobs' = Without(blobs, r.freed)
    /\ size' = Most(size, offset + Len(data))
    /\ UNCHANGED <<attrs, reader, panicked>>

-----------------------------------------------------------------------------
(* setattr.                                                                *)

\* FSKey::extent_range.
From(n) == {o \in DOMAIN extents : o >= n}

\* Mutant of Truncated: the extent that spans the end is left alone.
TruncatedFull(n) ==
    [extents |-> Without(extents, From(n)), freed |-> RidsOf({extents[o] : o \in From(n)})]
\* do_truncate.  The extent that spans the new end is cut, and becomes inline.
Truncated(n) ==
    LET gone == From(n)
        ofs == RecordOf(n)
        cut == n # ofs /\ ofs \in DOMAIN extents
        keep == SubSeq(Data(extents[ofs]), 1, Least(n - ofs, Len(Data(extents[ofs]))))
        left == Without(extents, gone)
    IN [extents |-> IF cut THEN [left EXCEPT ![ofs] = Inline(keep)] ELSE left,
        freed |-> RidsOf({extents[o] : o \in gone} \cup IF cut THEN {extents[ofs]} ELSE {})]

\* do_setattr of a size.
SetSize(n) ==
    /\ Call
    /\ LET r == IF n < size THEN Truncated(n) ELSE [extents |-> extents, freed |-> {}]
       IN extents' = r.extents /\ blobs' = Without(blobs, r.freed)
    /\ size' = n
    /\ UNCHANGED <<attrs, leaked, reader, panicked>>

-----------------------------------------------------------------------------
(* Extended attributes.                                                    *)

AttrItem(n, e) == [name |-> n] @@ e
Attr(n) == HtGet(attrs, AttrHash[n], n)
LostBlob(old) == IF old = None THEN {} ELSE RidsOf({old})

\* setextattr and deleteextattr drop the old value; its blob is not freed.
SetExtAttr(n, v) ==
    /\ Call
    /\ LET r == HtInsert(attrs, AttrHash[n], AttrItem(n, Inline(v)))
       IN attrs' = r.table /\ leaked' = leaked \cup LostBlob(r.old)
    /\ UNCHANGED <<size, extents, blobs, reader, panicked>>
DeleteExtAttr(n) ==
    /\ Call /\ Attr(n) # None
    /\ LET r == HtRemove(attrs, AttrHash[n], n)
       IN attrs' = r.table /\ leaked' = leaked \cup LostBlob(r.old)
    /\ UNCHANGED <<size, extents, blobs, reader, panicked>>

\* getextattr.
GetExtAttr(n) == IF Attr(n) = None THEN None ELSE Data(Attr(n))

\* getextattrlen.
GetExtAttrLen(n) == Attr(n).lsize

\* listxattr's packing of a name: namespace, dot, name and NUL.
Nul == <<>>
PrefixLen(namespace) == IF namespace = "user" THEN 5 ELSE 7
Pack(n) == [i \in 1 .. PrefixLen(n[1]) + NameLen(n) + 1 |-> IF i <= PrefixLen(n[1]) + NameLen(n) THEN n ELSE Nul]
\* listextattr packs the names in the order of the keys.
RECURSIVE Packed(_), PackedBucket(_)
PackedBucket(b) == IF b = <<>> THEN <<>> ELSE Pack(Head(b).name) \o PackedBucket(Tail(b))
Packed(hs) == IF hs = {} THEN <<>> ELSE PackedBucket(attrs[Min(hs)]) \o Packed(hs \ {Min(hs)})
ListExtAttr == Packed(DOMAIN attrs)

\* listextattrlen, with listxattr's function.  Mutant: without the NUL.
ListExtAttrLenShort == MapThenSumSet(LAMBDA x : PrefixLen(x.name[1]) + NameLen(x.name), AttrItems)
ListExtAttrLen == MapThenSumSet(LAMBDA x : PrefixLen(x.name[1]) + NameLen(x.name) + 1, AttrItems)

\* The daemon's getxattr and listxattr: with no room they
\* reply the length that is needed; None is ERANGE.
Reply(buf, room) == IF Len(buf) <= room THEN buf ELSE None
Getxattr(n, room) == IF room = 0 THEN GetExtAttrLen(n) ELSE Reply(GetExtAttr(n), room)
Listxattr(room) == IF room = 0 THEN ListExtAttrLen ELSE Reply(ListExtAttr, room)

-----------------------------------------------------------------------------
(* unlink of the last name; the next file that is created starts empty.    *)

\* list_extattr_rids.  Mutant: a bucket's attributes are not looked at.
SingleAttrRids == RidsOf(UNION {Range(attrs[k]) : k \in {h \in DOMAIN attrs : Len(attrs[h]) = 1}})
ListExtAttrRids == RidsOf(AttrItems)

\* do_unlink.
Unlink ==
    /\ Call
    /\ blobs' = Without(blobs, RidsOf(Range(extents)) \cup ListExtAttrRids)
    /\ size' = 0 /\ extents' = <<>> /\ attrs' = <<>>
    /\ UNCHANGED <<leaked, reader, panicked>>

-----------------------------------------------------------------------------
(* Flushing.                                                               *)

\* InlineExtent::flush, InlineExtAttr::flush.
NeedsBlob(e) == ~ IsBlob(e) /\ e.lsize > BlobThreshold

ToPut == {<<"attr", n>> : n \in {m \in AttrNames : Attr(m) # None /\ NeedsBlob(Attr(m))}}
         \cup {<<"data", o>> : o \in {p \in DOMAIN extents : NeedsBlob(extents[p])}}

Flushed(rids) ==
    LET Put(e, at) == IF at \in DOMAIN rids THEN Blob(rids[at], e.lsize) @@ e ELSE e
    IN /\ extents' = [o \in DOMAIN extents |-> Put(extents[o], <<"data", o>>)]
       /\ attrs' = [h \in DOMAIN attrs |->
                        [i \in DOMAIN attrs[h] |-> Put(attrs[h][i], <<"attr", attrs[h][i].name>>)]]
       /\ blobs' = [r \in Range(rids) |->
                        LET at == CHOOSE x \in DOMAIN rids : rids[x] = r
                        IN IF at[1] = "data" THEN extents[at[2]].buf ELSE Attr(at[2]).buf] @@ blobs

\* DML::put gives the blobs RIDs that no blob has.  Which ones does not matter.
NewRids(put, free) ==
    CHOOSE f \in [put -> {r \in free : Cardinality({q \in free : q < r}) < Cardinality(put)}] : IsInjective(f)

\* FSValue::flush.  It takes the buffer from its Arc, which panics if there is another
\* reference to it: a range query's.
Borrowed == reader # None /\ \E i \in DOMAIN reader.todo : NeedsBlob(reader.todo[i].extent)
Flush ==
    /\ panicked = None /\ (reader # None => ~ Atime) /\ ToPut # {}
    /\ Cardinality(ToPut) <= Cardinality(Rids \ DOMAIN blobs)
    /\ IF Borrowed THEN panicked' = "Arc::try_unwrap" /\ UNCHANGED <<extents, attrs, blobs>>
       ELSE Flushed(NewRids(ToPut, Rids \ DOMAIN blobs)) /\ UNCHANGED panicked
    /\ UNCHANGED <<size, leaked, reader, calls>>

-----------------------------------------------------------------------------
(* read.                                                                   *)

\* The range query of do_read copies the extents of the range.
RECURSIVE InOrder(_)
InOrder(os) ==
    IF os = {} THEN <<>>
    ELSE <<[ofs |-> Min(os), extent |-> extents[Min(os)]]>> \o InOrder(os \ {Min(os)})

\* Mutant of Filled: the hole before an extent is not filled.
FilledNoHole(r, ofs, buf) ==
    r.out \o SubSeq(buf, Most(r.offset + Len(r.out) - ofs, 0) + 1, Least(Len(buf), r.offset + r.len - ofs))
\* do_read's fold: the part of one extent that is wanted, after a hole if there is one.
Filled(r, ofs, buf) ==
    LET p == r.offset + Len(r.out)
        stop == r.offset + r.len - ofs
    IN IF ofs < p THEN r.out \o SubSeq(buf, p - ofs + 1, Least(Len(buf), stop))
       ELSE r.out \o Zeros(ofs - p) \o SubSeq(buf, 1, Least(Len(buf), stop))
Took(r) ==
    [r EXCEPT !.todo = Tail(@), !.out = Filled(r, Head(r.todo).ofs, Data(Head(r.todo).extent))]

\* The query goes on, without yielding, up to the next blob: that has to be read.
RECURSIVE UpToBlob(_)
UpToBlob(r) ==
    IF r.todo = <<>> \/ IsBlob(Head(r.todo).extent) THEN r ELSE UpToBlob(Took(r))

ReadBegins(offset, n) ==
    /\ Idle
    /\ LET len == Least(n, Most(size - offset, 0))
           there == {o \in DOMAIN extents : o >= RecordOf(offset) /\ o < offset + len}
       IN reader' = UpToBlob([offset |-> offset, len |-> len, out |-> <<>>, todo |-> InOrder(there)])
    /\ UNCHANGED <<size, extents, attrs, blobs, leaked, calls, panicked>>

\* get_blob returns.
ReadStep ==
    /\ panicked = None /\ reader # None /\ reader.todo # <<>>
    /\ reader' = UpToBlob(Took(reader))
    /\ UNCHANGED <<size, extents, attrs, blobs, leaked, calls, panicked>>

\* The hole at the end.
Result(r) == r.out \o Zeros(r.len - Len(r.out))
ReadEnds ==
    /\ panicked = None /\ reader # None /\ reader.todo = <<>>
    /\ reader' = None
    /\ UNCHANGED <<size, extents, attrs, blobs, leaked, calls, panicked>>

-----------------------------------------------------------------------------
Init ==
    /\ size = 0 /\ extents = <<>> /\ attrs = <<>> /\ blobs = <<>> /\ leaked = {}
    /\ reader = None /\ calls = 0 /\ panicked = None

Datas == {[i \in 1 .. n |-> b] : n \in 1 .. MaxSize, b \in Bytes}

Next ==
    \/ \E o \in 0 .. MaxSize, data \in Datas : o + Len(data) <= MaxSize /\ Write(o, data)
    \/ \E n \in 0 .. MaxSize : SetSize(n)
    \/ \E n \in AttrNames : DeleteExtAttr(n) \/ \E v \in AttrValues : SetExtAttr(n, v)
    \/ Unlink
    \/ Flush
    \/ \E o \in 0 .. MaxSize, n \in ReadSizes : ReadBegins(o, n)
    \/ ReadStep
    \/ ReadEnds

Spec == Init /\ [][Next]_vars

-----------------------------------------------------------------------------
(* Properties.                                                             *)

\* What the file holds: an extent that is short, or not there, reads as zeros.
ByteAt(i) ==
    LET ofs == RecordOf(i)
    IN IF ofs \notin DOMAIN extents THEN 0
       ELSE LET buf == Data(extents[ofs])
            IN IF i - ofs < Len(buf) THEN buf[i - ofs + 1] ELSE 0
Contents == [i \in 1 .. size |-> ByteAt(i - 1)]

File == INSTANCE ByteFile
    WITH bytes <- Contents, attrs <- [n \in AttrNames |-> GetExtAttr(n)],
         Offsets <- 0 .. MaxSize, Sizes <- 0 .. MaxSize, Names <- AttrNames, Values <- AttrValues

\* Through partial and whole records, holes, truncation and growth, and whatever has
\* been flushed in between, write and setattr treat the file as an array of bytes and
\* setextattr and deleteextattr treat the attributes as a map, also where their names
\* collide: bytes that were cut off never come back when the file grows.
IsByteFile == File!Spec

\* A read, whatever its offset and length and whatever is flushed while it is under
\* way, returns the bytes of the file and no others.
ReadsExact ==
    reader # None /\ reader.todo = <<>> =>
        Result(reader) = SubSeq(Contents, reader.offset + 1, reader.offset + reader.len)

\* Every RID in the tree is that of a blob, no two are the same, and the blobs that
\* are in no extent or attribute are those that an overwritten whole record, or an
\* overwritten or deleted attribute, has left behind.
BlobsExact ==
    LET items == Cardinality({o \in DOMAIN extents : IsBlob(extents[o])})
                 + Cardinality({n \in AttrNames : Attr(n) # None /\ IsBlob(Attr(n))})
    IN /\ DOMAIN blobs = RidsOf(Range(extents)) \cup RidsOf(AttrItems) \cup leaked
       /\ Cardinality(DOMAIN blobs) = items + Cardinality(leaked)

\* A client that asks how large a list of attributes or a value is, and then asks for
\* it with a buffer of that size, gets all of it; a smaller buffer is refused.  Every
\* attribute is in the list once, be it inline or a blob, alone or in a bucket.
XattrProtocol ==
    LET there == {n \in AttrNames : Attr(n) # None}
        need == Listxattr(0)
        list == Listxattr(need)
        ends == {i \in DOMAIN list : list[i] = Nul}
    IN /\ there # {} => /\ list # None /\ Len(list) = need /\ Listxattr(need - 1) = None
                        /\ Cardinality(ends) = Cardinality(there) /\ {list[i - 1] : i \in ends} = there
       /\ \A n \in there : Getxattr(n, Getxattr(n, 0)) = GetExtAttr(n)

\* "Read references are better because they can be held during txg syncs."
ReadsSurviveSync == panicked = None
=============================================================================
