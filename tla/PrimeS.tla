------------------------------- MODULE PrimeS -------------------------------
(***************************************************************************)
(* PRIME-S (prime_s.rs), the layout of the chunks of a declustered RAID:   *)
(* on which disk, and in which row of it, is a data or parity chunk?       *)
(*                                                                         *)
(* There are four algorithms: id2loc, its inverse loc2id, and two          *)
(* iterators that count the chunks on each disk instead of computing where *)
(* they are.  Integers have the widths of a release build, where the       *)
(* arithmetic wraps.  An offset that is negative here is a huge u64.       *)
(***************************************************************************)
EXTENDS Integers, Sequences, FiniteSets, FiniteSetsExt

I16(x) == ((x + 32768) % 65536) - 32768
U8(x) == x % 256

\* Division of signed integers, which truncates.
Quot(a, b) == IF a >= 0 THEN a \div b ELSE -((-a) \div b)

\* invmod: the extended Euclidean algorithm.
RECURSIVE Euclid(_, _, _, _)
Euclid(t, r, newt, newr) ==
    IF newr <= 0 THEN t
    ELSE Euclid(newt, newr, t - newt * (r \div newr), r - newr * (r \div newr))
InvMod(a, n) == LET t == Euclid(0, n, 1, a) IN IF t < 0 THEN t + n ELSE t

RECURSIVE NoFactor(_, _)
NoFactor(n, i) == i * i > n \/ (n % i # 0 /\ n % (i + 2) # 0 /\ NoFactor(n, i + 6))
IsPrime(n) == n > 1 /\ (n <= 3 \/ (n % 2 # 0 /\ n % 3 # 0 /\ NoFactor(n, 5)))

\* PrimeS::new.
Layout(n, k, f) ==
    [n |-> n, k |-> k, f |-> f, m |-> k - f, minv |-> InvMod(k - f, n),
     stripes |-> n * (n - 1), datachunks |-> n * (n - 1) * (k - f), depth |-> I16(k * (n - 1))]
LegalLayout(n, k, f) == IsPrime(n) /\ n <= 215 /\ k > 1 /\ k <= n /\ f > 0 /\ f < k

\* ChunkId; a parity chunk has the address of its stripe's first data chunk.
DataChunk(a) == [addr |-> a, parity |-> -1]
ParityChunk(a, i) == [addr |-> a, parity |-> i]
IsData(id) == id.parity < 0

-----------------------------------------------------------------------------
\* id2loc_int and id2rep_and_iter.
Id2LocInt(l, id) ==
    LET a == id.addr % l.datachunks
        z == a \div (l.m * l.n)
    IN [a |-> a, r |-> id.addr \div l.datachunks, s |-> I16(a \div l.m), y |-> (z % (l.n - 1)) + 1, z |-> z]

OffsetWithinStripe(id, a, s, m) == U8(IF IsData(id) THEN a - I16(s * m) ELSE m + id.parity)

\* The stripe of an iteration, less one, whose j-th parity chunk is on a disk.
CbStripe(l, disk, yinv, j) == ((disk * yinv - j) * l.minv - 1) % l.n

OffsetWithinIteration(l, c, b, disk) ==
    LET yinv == InvMod(c.y, l.n)
        o0 == Quot(c.s * l.m + b, l.n)
        o1 == l.f * c.z
        o2 == Cardinality({j \in 0 .. l.f - 1 : c.s % l.n > CbStripe(l, disk, yinv, j)})
    IN o0 + o1 + o2

DiskOf(l, s, b, y) == ((s * l.m + b) * y) % l.n

Id2Loc(l, id) ==
    LET c == Id2LocInt(l, id)
        b == OffsetWithinStripe(id, c.a, c.s, l.m)
        disk == DiskOf(l, c.s, b, c.y)
    IN [disk |-> disk, offset |-> OffsetWithinIteration(l, c, b, disk) + c.r * l.depth]

\* The n-th member of a set, counted from zero.
Nth(S, n) == CHOOSE x \in S : Cardinality({y \in S : y < x}) = n

\* Mutant of Loc2Id: the repetition that the offset is in is forgotten.
Loc2IdOnce(l, loc) ==
    LET off == loc.offset % l.depth
        z == off \div l.k
        yinv == InvMod((z % (l.n - 1)) + 1, l.n)
        used == {((loc.disk * yinv - i) * l.minv) % l.n : i \in 0 .. l.k - 1}
        s == I16(Nth(used, off - l.k * z) + I16(l.n * z))
        b == U8((loc.disk * yinv - s * l.m) % l.n)
    IN IF b >= l.m THEN ParityChunk(s * l.m, b - l.m) ELSE DataChunk(s * l.m + b)
\* loc2id: of the stripes that use this disk in this iteration, the offset-th.
Loc2Id(l, loc) ==
    LET off == loc.offset % l.depth
        z == off \div l.k
        yinv == InvMod((z % (l.n - 1)) + 1, l.n)
        used == {((loc.disk * yinv - i) * l.minv) % l.n : i \in 0 .. l.k - 1}
        s == I16(Nth(used, off - l.k * z) + I16(l.n * z))
        b == U8((loc.disk * yinv - s * l.m) % l.n)
        base == (loc.offset \div l.depth) * l.datachunks + s * l.m
    IN IF b >= l.m THEN ParityChunk(base, b - l.m) ELSE DataChunk(base + b)

-----------------------------------------------------------------------------
(* The iterators.  o[d + 1] counts the chunks on disk d.                   *)

\* PrimeSIter::new: the chunks of this iteration that precede the first one.
IterNew(l, id) ==
    LET c == Id2LocInt(l, id)
        sz == c.s % l.n
        b == OffsetWithinStripe(id, c.a, c.s, l.m)
        before == {p \in (0 .. sz) \X (0 .. l.k - 1) : p[1] < sz \/ p[2] < b}
        On(d) == Cardinality({p \in before : DiskOf(l, p[1], p[2], c.y) = d})
    IN [a |-> c.a, id |-> id, r |-> c.r, stripe |-> c.s, siter |-> U8(sz), y |-> c.y, z |-> c.z,
        o |-> [i \in 1 .. l.n |-> I16(I16(l.k * c.z) + On(i - 1))]]

NextElem(l, it) ==
    LET disk == DiskOf(l, it.stripe, OffsetWithinStripe(it.id, it.a, it.stripe, l.m), it.y)
    IN [disk |-> disk, offset |-> it.o[disk + 1] + it.r * l.depth]

\* On to the next stripe, after the chunks on these disks: to the next iteration
\* after n stripes, and to the next repetition after n - 1 iterations.
NextStripe(l, it, disks, step) ==
    LET counted == [d \in 1 .. l.n |-> IF d - 1 \in disks THEN it.o[d] + 1 ELSE it.o[d]]
        id == DataChunk(it.id.addr + IF IsData(it.id) THEN 1 ELSE l.m)
        next == [it EXCEPT !.id = id, !.a = @ + step, !.stripe = I16(@ + 1), !.o = counted]
    IN IF it.siter # l.n - 1 THEN [next EXCEPT !.siter = @ + 1]
       ELSE IF it.z # l.n - 2 THEN [next EXCEPT !.siter = 0, !.z = @ + 1, !.y = ((it.z + 1) % (l.n - 1)) + 1]
       ELSE [next EXCEPT !.siter = 0, !.o = [d \in 1 .. l.n |-> 0], !.a = 0, !.r = @ + 1,
                         !.stripe = 0, !.y = 1, !.z = 0]

LastOfStripe(l, it) == it.a >= I16(it.stripe + 1) * l.m - 1

\* PrimeSIter::next: data chunks, then the parity chunks of their stripe.
IterNext(l, it) ==
    LET disk == NextElem(l, it).disk
        counted == [it EXCEPT !.o[disk + 1] = @ + 1]
    IN IF IsData(it.id)
       THEN IF ~ LastOfStripe(l, it)
            THEN [counted EXCEPT !.a = @ + 1, !.id = DataChunk(it.id.addr + 1)]
            ELSE [counted EXCEPT !.a = it.stripe * l.m, !.id = ParityChunk(it.id.addr - (l.m - 1), 0)]
       ELSE IF it.id.parity < l.f - 1
            THEN [counted EXCEPT !.id = ParityChunk(it.id.addr, it.id.parity + 1)]
            ELSE NextStripe(l, it, {disk}, l.m)

\* Mutant of IterDataNext: the parity chunks that are skipped are not counted.
IterDataNextOnly(l, it) ==
    LET disk == NextElem(l, it).disk
    IN IF ~ LastOfStripe(l, it)
       THEN [it EXCEPT !.a = @ + 1, !.id = DataChunk(it.id.addr + 1), !.o[disk + 1] = @ + 1]
       ELSE NextStripe(l, it, {disk}, 1)
\* PrimeSIterData::next: data chunks only.
IterDataNext(l, it) ==
    LET disk == NextElem(l, it).disk
        parity == {DiskOf(l, it.stripe, l.m + i, it.y) : i \in 0 .. l.f - 1}
    IN IF ~ LastOfStripe(l, it)
       THEN [it EXCEPT !.a = @ + 1, !.id = DataChunk(it.id.addr + 1), !.o[disk + 1] = @ + 1]
       ELSE NextStripe(l, it, parity \cup {disk}, 1)

\* All that an iterator returns, up to a chunk.
RECURSIVE IterFrom(_, _, _), IterDataFrom(_, _, _)
IterFrom(l, it, end) ==
    IF it.id = end THEN <<>>
    ELSE <<[id |-> it.id, loc |-> NextElem(l, it)]>> \o IterFrom(l, IterNext(l, it), end)
IterDataFrom(l, it, end) ==
    IF it.id = end THEN <<>>
    ELSE <<[id |-> it.id, loc |-> NextElem(l, it)]>> \o IterDataFrom(l, IterDataNext(l, it), end)
Iter(l, start, end) == IterFrom(l, IterNew(l, start), end)
IterData(l, start, end) == IterDataFrom(l, IterNew(l, start), end)
=============================================================================
