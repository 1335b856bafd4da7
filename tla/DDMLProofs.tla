----------------------------- MODULE DDMLProofs -----------------------------
(***************************************************************************)
(* What the theorems of DDMLSyncProofs and DDMLCacheProofs rest on, for    *)
(* any number of callers, Clusters, zones and blocks: how records share    *)
(* the zones (RecInv), and the protocol between the callers of a DDML and  *)
(* its Clusters (Protocol).                                                *)
(*                                                                         *)
(* A caller has sent at most one request to each Cluster, and only         *)
(* sync_all asks more than one; what is in a channel is a request of a     *)
(* call that is still waiting, of the kind that the call makes, and it has *)
(* not been answered yet; a channel has at most one shutdown.              *)
(***************************************************************************)
EXTENDS DDML, FiniteSetTheorems, TLAPS

-----------------------------------------------------------------------------
(* The records on the disks and the space they take.                       *)

Span(d) == d.lba .. d.lba + d.len - 1
\* A record is in one zone.
Whole(d) ==
    /\ d.c \in Clusters /\ d.lba \in Nat /\ d.len \in 1 .. ZoneSize
    /\ ZoneOf(d.lba) \in Zones
    /\ ZoneOf(d.lba) * ZoneSize <= d.lba /\ d.lba + d.len <= ZoneOf(d.lba) * ZoneSize + ZoneSize
\* The blocks of the records of L in a zone.
In(d, c, z) == d.c = c /\ ZoneOf(d.lba) = z
Blocks(L, c, z) == {b \in Nat : \E d \in L : In(d, c, z) /\ b \in Span(d)}
Apart(L) == \A d, e \in L : d.c = e.c /\ (\E b \in Span(d) : b \in Span(e)) => d = e

\* The zone of an address between two zone boundaries.
LEMMA InZone ==
  ASSUME NEW z \in Nat, NEW b \in Int, z * ZoneSize <= b, b < z * ZoneSize + ZoneSize
  PROVE  ZoneOf(b) = z
<1>1. ZoneSize \in Nat /\ ZoneSize > 0
  BY PoolAssumption
<1>2. \A k \in 0 .. ZoneSize - 1 : (z * ZoneSize + k) \div ZoneSize = z
  BY <1>1
<1>3. b - z * ZoneSize \in 0 .. ZoneSize - 1 /\ b = z * ZoneSize + (b - z * ZoneSize)
  BY <1>1
<1> QED
  BY <1>2, <1>3 DEF ZoneOf

\* A record has as many blocks as it is long, all in one zone.
LEMMA SpanFacts ==
  ASSUME NEW d, Whole(d)
  PROVE  /\ Span(d) \subseteq Nat /\ IsFiniteSet(Span(d)) /\ Cardinality(Span(d)) = d.len
         /\ \A b \in Span(d) : ZoneOf(b) = ZoneOf(d.lba)
         /\ d.lba \in Span(d)
<1>1. PICK l, n, z, s : l = d.lba /\ n = d.len /\ z = ZoneOf(d.lba) /\ s = z * ZoneSize
  OBVIOUS
<1>2. l \in Nat /\ n \in Nat /\ 1 <= n /\ z \in Nat /\ s \in Int /\ s <= l /\ l + n <= s + ZoneSize /\ ZoneSize \in Nat
  BY <1>1, PoolAssumption DEF Whole, Zones
<1>3. Span(d) = l .. l + n - 1
  BY <1>1 DEF Span
<1>4. IsFiniteSet(l .. l + n - 1) /\ Cardinality(l .. l + n - 1) = n
  <2>1. l + n - 1 \in Int /\ ~ (l > l + n - 1) /\ (l + n - 1) - l + 1 = n
    BY <1>2
  <2> QED
    BY <1>2, <2>1, FS_Interval
<1>5. \A b \in l .. l + n - 1 : b \in Nat /\ s <= b /\ b < s + ZoneSize
  BY SMTT(30), <1>2
<1>6. \A b \in l .. l + n - 1 : ZoneOf(b) = z
  BY <1>1, <1>2, <1>5, InZone
<1>7. l \in l .. l + n - 1
  BY <1>2
<1> QED
  BY ZenonT(30), <1>1, <1>3, <1>4, <1>5, <1>6, <1>7

\* The blocks of the records in a zone can be counted.
LEMMA BlocksFinite ==
  ASSUME NEW L, \A d \in L : Whole(d), NEW c, NEW z \in Zones
  PROVE  IsFiniteSet(Blocks(L, c, z)) /\ Cardinality(Blocks(L, c, z)) \in Nat
<1>1. PICK s : s = z * ZoneSize /\ s \in Int
  BY SMTT(30), PoolAssumption DEF Zones
<1>2. Blocks(L, c, z) \subseteq s .. s + ZoneSize
  <2> SUFFICES ASSUME NEW b \in Blocks(L, c, z) PROVE b \in s .. s + ZoneSize
    OBVIOUS
  <2>1. PICK d \in L : In(d, c, z) /\ b \in Span(d)
    BY DEF Blocks
  <2>2. Whole(d) /\ ZoneOf(d.lba) = z /\ b \in Nat
    BY SMTT(30), <2>1 DEF In, Blocks
  <2>3. s <= d.lba /\ d.lba + d.len <= s + ZoneSize /\ d.lba \in Nat /\ d.len \in Nat
    BY <1>1, <2>2, PoolAssumption DEF Whole
  <2> QED
    BY <1>1, <2>1, <2>2, <2>3, PoolAssumption DEF Span
<1>3. IsFiniteSet(s .. s + ZoneSize)
  BY SMTT(30), <1>1, FS_Interval, PoolAssumption
<1>4. IsFiniteSet(Blocks(L, c, z))
  BY Zenon, <1>2, <1>3, FS_Subset
<1> QED
  BY <1>4, FS_CardinalityType

\* Fewer records have fewer blocks.
LEMMA BlocksFewer ==
  ASSUME NEW L, \A d \in L : Whole(d), NEW M, M \subseteq L, NEW c, NEW z \in Zones
  PROVE  Cardinality(Blocks(M, c, z)) <= Cardinality(Blocks(L, c, z))
<1>1. Blocks(M, c, z) \subseteq Blocks(L, c, z)
  BY DEF Blocks
<1> QED
  BY <1>1, BlocksFinite, FS_Subset

\* Another record adds its length at most, and only in its zone.
LEMMA BlocksMore ==
  ASSUME NEW L, \A d \in L : Whole(d), NEW n, Whole(n), NEW c, NEW z \in Zones
  PROVE  /\ In(n, c, z) => Cardinality(Blocks(L \cup {n}, c, z)) <= Cardinality(Blocks(L, c, z)) + n.len
         /\ ~ In(n, c, z) => Blocks(L \cup {n}, c, z) = Blocks(L, c, z)
<1>1. ~ In(n, c, z) => Blocks(L \cup {n}, c, z) = Blocks(L, c, z)
  BY DEF Blocks
<1>2. ASSUME In(n, c, z) PROVE Cardinality(Blocks(L \cup {n}, c, z)) <= Cardinality(Blocks(L, c, z)) + n.len
  <2>1. PICK B, S : B = Blocks(L, c, z) /\ S = Span(n)
    OBVIOUS
  <2>2. IsFiniteSet(B) /\ Cardinality(B) \in Nat /\ IsFiniteSet(S) /\ Cardinality(S) = n.len /\ n.len \in Nat
    BY SMTT(30), <2>1, BlocksFinite, SpanFacts, PoolAssumption DEF Whole
  <2>3. Blocks(L \cup {n}, c, z) \subseteq B \cup S
    BY <2>1 DEF Blocks
  <2>4. IsFiniteSet(B \cup S) /\ Cardinality(B \cup S) = Cardinality(B) + Cardinality(S) - Cardinality(B \cap S)
    BY ZenonT(30), <2>2, FS_Union
  <2>5. Cardinality(B \cap S) \in Nat
    <3>1. IsFiniteSet(B \cap S)
      BY SMTT(30), <2>2, FS_Subset
    <3> QED
      BY <3>1, FS_CardinalityType
  <2>6. Cardinality(Blocks(L \cup {n}, c, z)) <= Cardinality(B \cup S)
    BY Zenon, <2>3, <2>4, FS_Subset
  <2>7. Cardinality(Blocks(L \cup {n}, c, z)) \in Nat
    <3>1. \A d \in L \cup {n} : Whole(d)
      OBVIOUS
    <3> QED
      BY <3>1, BlocksFinite
  <2> QED
    BY SMTT(30), <2>1, <2>2, <2>4, <2>5, <2>6, <2>7
<1> QED
  BY <1>1, <1>2

\* Without a record there are fewer blocks by its length, because no other record has
\* any of them.
LEMMA BlocksLess ==
  ASSUME NEW L, \A d \in L : Whole(d), Apart(L), NEW d \in L, NEW M, M \subseteq L \ {d}, NEW z, z = ZoneOf(d.lba)
  PROVE  Cardinality(Blocks(M, d.c, z)) <= Cardinality(Blocks(L, d.c, z)) - d.len
<1>1. PICK B, S : B = Blocks(L, d.c, z) /\ S = Span(d)
  OBVIOUS
<1>2. Whole(d) /\ z \in Zones
  BY ZenonT(30) DEF Whole
<1>3. IsFiniteSet(B) /\ Cardinality(B) \in Nat /\ IsFiniteSet(S) /\ Cardinality(S) = d.len /\ d.len \in Nat /\ S \subseteq Nat
  BY SMTT(30), <1>1, <1>2, BlocksFinite, SpanFacts, PoolAssumption DEF Whole
<1>4. S \subseteq B
  BY SMTT(30), <1>1, <1>3 DEF Blocks, In
<1>5. Blocks(M, d.c, z) \subseteq B \ S
  BY <1>1 DEF Blocks, In, Apart
<1>6. IsFiniteSet(B \ S) /\ Cardinality(B \ S) = Cardinality(B) - Cardinality(B \cap S)
  BY ZenonT(30), <1>3, FS_Difference
<1>7. B \cap S = S
  BY <1>4
<1>8. Cardinality(Blocks(M, d.c, z)) <= Cardinality(B \ S)
  BY SMTT(30), <1>5, <1>6, FS_Subset
<1> QED
  BY ZenonT(30), <1>1, <1>3, <1>6, <1>7, <1>8

\* Where no blocks are in use there is no record.
LEMMA BlocksNone ==
  ASSUME NEW L, \A d \in L : Whole(d), NEW c, NEW z \in Zones, Cardinality(Blocks(L, c, z)) <= 0
  PROVE  \A d \in L : ~ In(d, c, z)
<1>1. Blocks(L, c, z) = {}
  <2>1. IsFiniteSet(Blocks(L, c, z)) /\ Cardinality(Blocks(L, c, z)) = 0
    BY BlocksFinite
  <2> QED
    BY SMTT(30), <2>1, FS_EmptySet
<1> SUFFICES ASSUME NEW d \in L, In(d, c, z) PROVE FALSE
  OBVIOUS
<1>2. d.lba \in Span(d) /\ d.lba \in Nat
  BY Zenon, SpanFacts DEF Whole
<1> QED
  BY <1>1, <1>2 DEF Blocks

\* zs are zones, m is what is on the disks.
ZoneOk(y) ==
    /\ y = Zone(y.state, y.next, y.freed)
    /\ y.next \in 0 .. ZoneSize /\ y.freed \in Nat /\ (y.state = "empty" => y = EmptyZone)
ZonesOk(zs) ==
    /\ zs = [c \in Clusters |-> zs[c]]
    /\ \A c \in Clusters : zs[c] = [z \in Zones |-> zs[c][z]] /\ \A z \in Zones : ZoneOk(zs[c][z])
Below(d, zs) == d.lba + d.len <= ZoneOf(d.lba) * ZoneSize + zs[d.c][ZoneOf(d.lba)].next
Stored(d, m) == \A b \in Span(d) : <<d.c, b>> \in DOMAIN m /\ m[<<d.c, b>>] = d.val
\* Records that are on the disks, apart from each other, in the part of their zone that has
\* been written, and that take no more space than is in use.
RecInv(L, zs, m) ==
    /\ \A d \in L : Whole(d) /\ Below(d, zs) /\ Stored(d, m)
    /\ Apart(L)
    /\ \A c \in Clusters, z \in Zones : Cardinality(Blocks(L, c, z)) <= InUse(zs[c][z])

\* The numbers of a zone.
LEMMA InUseInt ==
  ASSUME NEW y, ZoneOk(y)
  PROVE  InUse(y) \in Int /\ y.next \in Nat /\ y.next <= ZoneSize /\ y.freed \in Nat
BY SMTT(30), PoolAssumption DEF ZoneOk, InUse

\* Records may be forgotten, and zones may be finished.
LEMMA RecFewer ==
  ASSUME NEW L, NEW zs, NEW m, RecInv(L, zs, m), ZonesOk(zs), NEW M, M \subseteq L,
         NEW ys, ZonesOk(ys),
         \A c \in Clusters, z \in Zones : ys[c][z].next = zs[c][z].next /\ InUse(ys[c][z]) = InUse(zs[c][z])
  PROVE  RecInv(M, ys, m)
<1>1. \A d \in L : Whole(d) /\ Below(d, zs) /\ Stored(d, m)
  BY Zenon DEF RecInv
<1>2. \A d \in M : Whole(d) /\ Below(d, ys) /\ Stored(d, m)
  BY Zenon, <1>1 DEF Below, Whole
<1>3. Apart(M)
  BY ZenonT(30) DEF RecInv, Apart
<1>4. ASSUME NEW c \in Clusters, NEW z \in Zones PROVE Cardinality(Blocks(M, c, z)) <= InUse(ys[c][z])
  <2>1. Cardinality(Blocks(M, c, z)) <= Cardinality(Blocks(L, c, z))
    BY SMTT(30), <1>1, BlocksFewer
  <2>2. Cardinality(Blocks(L, c, z)) <= InUse(ys[c][z])
    BY Zenon DEF RecInv
  <2>3. Cardinality(Blocks(L, c, z)) \in Nat /\ Cardinality(Blocks(M, c, z)) \in Nat
    BY SMTT(30), <1>1, <1>2, BlocksFinite
  <2>4. InUse(ys[c][z]) \in Int
    BY Zenon, InUseInt DEF ZonesOk
  <2> QED
    BY SMTT(30), <2>1, <2>2, <2>3, <2>4
<1> QED
  BY Zenon, <1>2, <1>3, <1>4 DEF RecInv

\* The record n is written at the end of the zone z of the cluster c: its place, what
\* becomes of the zones, and what becomes of the disks.
AtEnd(n, zs, c, z) ==
    /\ n.c = c /\ n.len \in 1 .. ZoneSize /\ n.lba = z * ZoneSize + zs[c][z].next
    /\ zs[c][z].next + n.len <= ZoneSize /\ zs[c][z].state # "closed"
Grown(zs, ys, c, z, len) ==
    /\ ZonesOk(ys)
    /\ z \in Zones => ys[c][z] = Zone("open", zs[c][z].next + len, zs[c][z].freed)
    /\ \A d \in Clusters, y \in Zones : d # c \/ y # z =>
          ys[d][y].next = zs[d][y].next /\ InUse(ys[d][y]) = InUse(zs[d][y])
Wrote(n, c, m, k) == k = With(m, {<<c, n.lba + i>> : i \in 0 .. n.len - 1}, n.val)

\* A record that is written at the end of a zone is apart from all others.
LEMMA RecWritten ==
  ASSUME NEW L, NEW zs, NEW m, RecInv(L, zs, m), ZonesOk(zs),
         NEW c \in Clusters, NEW z \in Zones, NEW n, AtEnd(n, zs, c, z),
         NEW ys, Grown(zs, ys, c, z, n.len), NEW k, Wrote(n, c, m, k)
  PROVE  RecInv(L \cup {n}, ys, k) /\ n \notin L
<1> /\ n.c = c /\ n.len \in 1 .. ZoneSize
    /\ zs[c][z].next + n.len <= ZoneSize /\ zs[c][z].state # "closed"
    /\ n.lba = z * ZoneSize + zs[c][z].next
  BY Zenon DEF AtEnd
<1> /\ ZonesOk(ys) /\ ys[c][z] = Zone("open", zs[c][z].next + n.len, zs[c][z].freed)
    /\ \A d \in Clusters, y \in Zones : d # c \/ y # z =>
          ys[d][y].next = zs[d][y].next /\ InUse(ys[d][y]) = InUse(zs[d][y])
  BY Zenon DEF Grown
<1> k = With(m, {<<c, n.lba + i>> : i \in 0 .. n.len - 1}, n.val)
  BY ZenonT(30) DEF Wrote
<1>1. \A d \in L : Whole(d) /\ Below(d, zs) /\ Stored(d, m)
  BY ZenonT(30) DEF RecInv
<1>2. PICK s, x : s = z * ZoneSize /\ x = zs[c][z].next
  BY SMTT(30)
<1>3. s \in Nat /\ x \in Nat /\ n.len \in Nat /\ n.len >= 1 /\ x + n.len <= ZoneSize /\ ZoneSize \in Nat /\ z \in Nat /\ n.lba = s + x
  BY SMTT(30), <1>2, InUseInt, PoolAssumption DEF ZonesOk, Zones
<1>4. ZoneOf(n.lba) = z /\ n.lba \in Nat
  <2>1. n.lba \in Int /\ s <= n.lba /\ n.lba < s + ZoneSize
    BY SMTT(30), <1>3
  <2> QED
    BY SMTT(30), <1>2, <1>3, <2>1, InZone
<1>5. Whole(n)
  <2>1. n.lba + n.len <= s + ZoneSize /\ s <= n.lba
    BY SMTT(30), <1>3
  <2> QED
    BY ZenonT(30), <1>2, <1>4, <2>1 DEF Whole
<1>6. Below(n, ys)
  <2>1. ys[c][z].next = x + n.len
    BY SMTT(30), <1>2 DEF Zone
  <2>2. n.lba + n.len <= s + (x + n.len)
    BY SMTT(30), <1>3
  <2> QED
    BY ZenonT(30), <1>2, <1>4, <2>1, <2>2 DEF Below
<1>7. \A d \in L : d.c = c => \A b \in Span(d) : b \notin Span(n)
  <2> SUFFICES ASSUME NEW d \in L, d.c = c, NEW b \in Span(d), b \in Span(n) PROVE FALSE
    BY SMTT(30)
  <2>1. Whole(d) /\ ZoneOf(b) = ZoneOf(d.lba) /\ ZoneOf(b) = ZoneOf(n.lba) /\ b \in Nat
    BY ZenonT(30), <1>1, <1>5, SpanFacts
  <2>2. d.lba + d.len <= s + x
    BY ZenonT(30), <1>1, <1>2, <1>4, <2>1 DEF Below
  <2>3. d.lba \in Nat /\ d.len \in Nat
    BY SMTT(30), <2>1, PoolAssumption DEF Whole
  <2> QED
    BY SMTT(30), <1>3, <2>1, <2>2, <2>3 DEF Span
<1>8. n \notin L
  BY ZenonT(30), <1>5, <1>7, SpanFacts
<1>9. \A d \in L : Below(d, ys)
  <2> SUFFICES ASSUME NEW d \in L PROVE Below(d, ys)
    OBVIOUS
  <2>1. Whole(d) /\ Below(d, zs)
    BY ZenonT(30), <1>1
  <2>2. CASE In(d, c, z)
    <3>1. d.lba + d.len <= s + x /\ d.lba \in Nat /\ d.len \in Nat
      BY SMTT(30), <1>2, <2>1, <2>2, PoolAssumption DEF Below, In, Whole
    <3>2. ys[c][z].next = x + n.len
      BY <1>2 DEF Zone
    <3>3. d.lba + d.len <= s + (x + n.len)
      BY SMTT(30), <1>3, <3>1
    <3> QED
      BY ZenonT(30), <1>2, <2>2, <3>2, <3>3 DEF Below, In
  <2>3. CASE ~ In(d, c, z)
    BY ZenonT(30), <2>1, <2>3 DEF Below, In, Whole
  <2> QED
    BY ZenonT(30), <2>2, <2>3
<1>10. {<<c, n.lba + i>> : i \in 0 .. n.len - 1} = {<<c, b>> : b \in Span(n)}
  <2>1. \A i \in 0 .. n.len - 1 : n.lba + i \in Span(n)
    BY SMTT(30), <1>3, <1>4 DEF Span
  <2>2. \A b \in Span(n) : b - n.lba \in 0 .. n.len - 1 /\ n.lba + (b - n.lba) = b
    BY SMTT(30), <1>3, <1>4 DEF Span
  <2> QED
    BY SMTT(30), <2>1, <2>2
<1>11. DOMAIN k = DOMAIN m \cup {<<c, b>> : b \in Span(n)} /\ (\A b \in Span(n) : k[<<c, b>>] = n.val)
       /\ \A p \in DOMAIN m : p \notin {<<c, b>> : b \in Span(n)} => k[p] = m[p]
  BY Zenon, <1>10 DEF With
<1>12. Stored(n, k)
  BY ZenonT(30), <1>11 DEF Stored
<1>13. \A d \in L : Stored(d, k)
  <2> SUFFICES ASSUME NEW d \in L, NEW b \in Span(d) PROVE <<d.c, b>> \in DOMAIN k /\ k[<<d.c, b>>] = d.val
    BY ZenonT(30) DEF Stored
  <2>1. <<d.c, b>> \in DOMAIN m /\ m[<<d.c, b>>] = d.val
    BY Zenon, <1>1 DEF Stored
  <2>2. <<d.c, b>> \notin {<<c, e>> : e \in Span(n)}
    BY ZenonT(30), <1>7
  <2> QED
    BY ZenonT(30), <1>11, <2>1, <2>2
<1>14. Apart(L \cup {n})
  BY Zenon, <1>7 DEF RecInv, Apart
<1>15. ASSUME NEW d \in Clusters, NEW y \in Zones PROVE Cardinality(Blocks(L \cup {n}, d, y)) <= InUse(ys[d][y])
  <2>0. Cardinality(Blocks(L, d, y)) <= InUse(zs[d][y]) /\ Cardinality(Blocks(L, d, y)) \in Nat /\ InUse(zs[d][y]) \in Int
    BY ZenonT(30), <1>1, BlocksFinite, InUseInt DEF RecInv, ZonesOk
  <2>1. CASE d = c /\ y = z
    <3>1. Cardinality(Blocks(L \cup {n}, c, z)) <= Cardinality(Blocks(L, c, z)) + n.len
      BY ZenonT(30), <1>1, <1>4, <1>5, BlocksMore DEF In
    <3>2. InUse(ys[c][z]) = InUse(zs[c][z]) + n.len
      <4>1. InUse(zs[c][z]) = x - zs[c][z].freed /\ zs[c][z].freed \in Nat
        BY ZenonT(30), <1>2, InUseInt DEF InUse, ZonesOk
      <4>2. InUse(ys[c][z]) = (x + n.len) - zs[c][z].freed
        BY SMTT(30), <1>2 DEF InUse, Zone
      <4> QED
        BY SMTT(30), <1>3, <4>1, <4>2
    <3>3. Cardinality(Blocks(L \cup {n}, c, z)) \in Nat
      <4>1. \A e \in L \cup {n} : Whole(e)
        BY ZenonT(30), <1>1, <1>5
      <4> QED
        BY Zenon, <4>1, BlocksFinite
    <3> QED
      BY SMTT(30), <1>3, <2>0, <2>1, <3>1, <3>2, <3>3
  <2>2. CASE d # c \/ y # z
    <3>1. Blocks(L \cup {n}, d, y) = Blocks(L, d, y)
      BY SMTT(30), <1>1, <1>4, <1>5, <2>2, BlocksMore DEF In
    <3> QED
      BY ZenonT(30), <2>0, <2>2, <3>1
  <2> QED
    BY ZenonT(30), <2>1, <2>2
<1> QED
  BY ZenonT(30), <1>1, <1>5, <1>6, <1>8, <1>9, <1>12, <1>13, <1>14, <1>15 DEF RecInv

\* The record d is freed: its zone is erased when nothing in it is in use.
Frees(d, zs, ys, m, k) ==
    LET z == ZoneOf(d.lba)
        after == Freed(zs[d.c][z], d.len)
        gone == IF after = EmptyZone THEN {p \in DOMAIN m : p[1] = d.c /\ ZoneOf(p[2]) = z} ELSE {}
    IN  /\ ys = [zs EXCEPT ![d.c] = [zs[d.c] EXCEPT ![z] = after]]
        /\ k = [p \in DOMAIN m \ gone |-> m[p]]

\* A record that is freed takes nothing from the others: its zone is erased only when
\* it was the last.
LEMMA RecFreed ==
  ASSUME NEW L, NEW zs, NEW m, RecInv(L, zs, m), ZonesOk(zs), NEW d \in L, NEW M, M \subseteq L \ {d},
         NEW ys, NEW k, Frees(d, zs, ys, m, k)
  PROVE  RecInv(M, ys, k) /\ ZonesOk(ys)
<1> PICK z, after : z = ZoneOf(d.lba) /\ after = Freed(zs[d.c][z], d.len)
  OBVIOUS
<1> PICK gone : gone = IF after = EmptyZone THEN {p \in DOMAIN m : p[1] = d.c /\ ZoneOf(p[2]) = z} ELSE {}
  BY Zenon
<1> /\ ys = [zs EXCEPT ![d.c] = [zs[d.c] EXCEPT ![z] = after]]
    /\ k = [p \in DOMAIN m \ gone |-> m[p]]
  BY ZenonT(30) DEF Frees
<1>1. \A e \in L : Whole(e) /\ Below(e, zs) /\ Stored(e, m)
  BY ZenonT(30) DEF RecInv
<1>2. d.c \in Clusters /\ z \in Zones /\ d.len \in Nat /\ d.len >= 1
  BY SMTT(30), <1>1, PoolAssumption DEF Whole
<1>3. PICK y : y = zs[d.c][z] /\ ZoneOk(y)
  BY SMTT(30), <1>2 DEF ZonesOk
<1>4. y = Zone(y.state, y.next, y.freed) /\ y.next \in Nat /\ y.next <= ZoneSize /\ y.freed \in Nat /\ InUse(y) \in Int
  BY Zenon, <1>3, InUseInt DEF ZoneOk
<1>5. \/ y.state = "closed" /\ y.freed + d.len = ZoneSize /\ after = EmptyZone
      \/ after = Zone(y.state, y.next, y.freed + d.len) /\ after # EmptyZone
  <2>1. CASE y.state = "closed" /\ y.freed + d.len = ZoneSize
    BY Zenon, <1>3, <2>1 DEF Freed
  <2>2. CASE ~ (y.state = "closed" /\ y.freed + d.len = ZoneSize)
    <3>1. after = [y EXCEPT !.freed = @ + d.len]
      BY ZenonT(30), <1>3, <2>2 DEF Freed
    <3>2. after = Zone(y.state, y.next, y.freed + d.len)
      BY ZenonT(30), <1>4, <3>1 DEF Zone
    <3>3. y.freed + d.len # 0
      BY <1>2, <1>4
    <3>4. Zone(y.state, y.next, y.freed + d.len).freed = y.freed + d.len /\ EmptyZone.freed = 0
      BY ZenonT(30) DEF Zone, EmptyZone
    <3> QED
      BY ZenonT(30), <3>2, <3>3, <3>4
  <2> QED
    BY ZenonT(30), <2>1, <2>2
<1>6. ZoneOk(after)
  <2>1. ZoneOk(EmptyZone)
    BY SMTT(30), PoolAssumption DEF ZoneOk, EmptyZone, Zone
  <2>2. ASSUME after = Zone(y.state, y.next, y.freed + d.len) PROVE ZoneOk(after)
    <3>1. y.state # "empty"
      <4>1. ~ (d.lba + d.len <= z * ZoneSize + 0)
        <5>1. PICK s : s = z * ZoneSize /\ s \in Int
          BY SMTT(30), <1>2, PoolAssumption DEF Zones
        <5>2. s <= d.lba /\ d.lba \in Nat
          BY ZenonT(30), <1>1, <5>1 DEF Whole
        <5> QED
          BY SMTT(30), <1>2, <5>1, <5>2
      <4>2. d.lba + d.len <= z * ZoneSize + y.next
        BY ZenonT(30), <1>1, <1>3 DEF Below
      <4> QED
        BY SMTT(30), <1>3, <4>1, <4>2 DEF ZoneOk, EmptyZone, Zone
    <3>2. after.state = y.state /\ after.next = y.next /\ after.freed = y.freed + d.len
      BY SMTT(30), <2>2 DEF Zone
    <3>3. after.freed \in Nat
      BY SMTT(30), <1>2, <1>4, <3>2
    <3> QED
      BY ZenonT(30), <1>3, <2>2, <3>1, <3>2, <3>3 DEF ZoneOk
  <2> QED
    BY ZenonT(30), <1>5, <2>1, <2>2
<1>7. ys[d.c][z] = after /\ (\A c \in Clusters, x \in Zones : c # d.c \/ x # z => ys[c][x] = zs[c][x])
  BY Zenon, <1>2 DEF ZonesOk
<1>8. ZonesOk(ys)
  <2>1. ys = [c \in Clusters |-> ys[c]]
    BY Zenon DEF ZonesOk
  <2>2. \A c \in Clusters : ys[c] = [x \in Zones |-> ys[c][x]]
    BY ZenonT(30), <1>2 DEF ZonesOk
  <2>3. \A c \in Clusters, x \in Zones : ZoneOk(ys[c][x])
    BY ZenonT(30), <1>6, <1>7 DEF ZonesOk
  <2> QED
    BY ZenonT(30), <2>1, <2>2, <2>3 DEF ZonesOk
<1>9. Cardinality(Blocks(M, d.c, z)) <= InUse(y) - d.len
  <2>1. Cardinality(Blocks(M, d.c, z)) <= Cardinality(Blocks(L, d.c, z)) - d.len
    BY Zenon, <1>1, BlocksLess DEF RecInv
  <2>2. Cardinality(Blocks(L, d.c, z)) <= InUse(y)
    BY ZenonT(30), <1>2, <1>3 DEF RecInv
  <2>3. Cardinality(Blocks(L, d.c, z)) \in Nat /\ Cardinality(Blocks(M, d.c, z)) \in Nat
    BY ZenonT(30), <1>1, <1>2, BlocksFinite
  <2> QED
    BY SMTT(30), <1>2, <1>4, <2>1, <2>2, <2>3
<1>10. after = EmptyZone => \A e \in M : ~ In(e, d.c, z)
  <2> SUFFICES ASSUME after = EmptyZone PROVE \A e \in M : ~ In(e, d.c, z)
    OBVIOUS
  <2>1. y.state = "closed" /\ y.freed + d.len = ZoneSize
    BY ZenonT(30), <1>5
  <2>2. InUse(y) - d.len = 0
    <3>1. InUse(y) = ZoneSize - y.freed
      BY ZenonT(30), <2>1 DEF InUse
    <3> QED
      BY <1>2, <1>4, <2>1, <3>1, PoolAssumption
  <2>3. \A e \in M : Whole(e)
    BY Zenon, <1>1
  <2>4. Cardinality(Blocks(M, d.c, z)) <= 0
    BY ZenonT(30), <1>9, <2>2
  <2> QED
    BY ZenonT(30), <1>2, <2>3, <2>4, BlocksNone
<1>11. \A e \in M : Below(e, ys)
  <2> SUFFICES ASSUME NEW e \in M PROVE Below(e, ys)
    BY ZenonT(30)
  <2>1. Whole(e) /\ Below(e, zs)
    BY Zenon, <1>1
  <2>2. CASE In(e, d.c, z)
    <3>1. after.next = y.next
      BY SMTT(30), <1>5, <1>10, <2>2 DEF Zone
    <3> QED
      BY ZenonT(30), <1>3, <1>7, <2>1, <2>2, <3>1 DEF Below, In
  <2>3. CASE ~ In(e, d.c, z)
    BY ZenonT(30), <1>7, <2>1, <2>3 DEF Below, In, Whole
  <2> QED
    BY ZenonT(30), <2>2, <2>3
<1>12. \A e \in M : Stored(e, k)
  <2> SUFFICES ASSUME NEW e \in M, NEW b \in Span(e) PROVE <<e.c, b>> \in DOMAIN k /\ k[<<e.c, b>>] = e.val
    BY Zenon DEF Stored
  <2>1. <<e.c, b>> \in DOMAIN m /\ m[<<e.c, b>>] = e.val
    BY ZenonT(30), <1>1 DEF Stored
  <2>2. ZoneOf(b) = ZoneOf(e.lba)
    BY ZenonT(30), <1>1, SpanFacts
  <2>3. <<e.c, b>> \notin gone
    BY ZenonT(30), <1>10, <2>2 DEF In
  <2> QED
    BY ZenonT(30), <2>1, <2>3
<1>13. Apart(M)
  BY Zenon DEF RecInv, Apart
<1>14. ASSUME NEW c \in Clusters, NEW x \in Zones PROVE Cardinality(Blocks(M, c, x)) <= InUse(ys[c][x])
  <2>1. CASE c = d.c /\ x = z
    <3>1. InUse(after) = InUse(y) - d.len
      <4>1. CASE y.state = "closed" /\ y.freed + d.len = ZoneSize /\ after = EmptyZone
        <5>1. InUse(y) = ZoneSize - y.freed
          BY ZenonT(30), <4>1 DEF InUse
        <5>2. InUse(EmptyZone) = 0
          BY SMTT(30) DEF InUse, EmptyZone, Zone
        <5> QED
          BY SMTT(30), <1>2, <1>4, <4>1, <5>1, <5>2, PoolAssumption
      <4>2. CASE after = Zone(y.state, y.next, y.freed + d.len)
        <5>1. after.state = y.state /\ after.next = y.next /\ after.freed = y.freed + d.len
          BY SMTT(30), <4>2 DEF Zone
        <5> QED
          BY SMTT(30), <1>2, <1>4, <5>1, PoolAssumption DEF InUse
      <4> QED
        BY ZenonT(30), <1>5, <4>1, <4>2
    <3> QED
      BY ZenonT(30), <1>7, <1>9, <2>1, <3>1
  <2>2. CASE c # d.c \/ x # z
    <3>1. Cardinality(Blocks(M, c, x)) <= Cardinality(Blocks(L, c, x))
      BY Zenon, <1>1, BlocksFewer
    <3>2. Cardinality(Blocks(L, c, x)) <= InUse(zs[c][x])
      BY ZenonT(30) DEF RecInv
    <3>3. Cardinality(Blocks(L, c, x)) \in Nat /\ Cardinality(Blocks(M, c, x)) \in Nat /\ InUse(zs[c][x]) \in Int
      BY ZenonT(30), <1>1, BlocksFinite, InUseInt DEF ZonesOk
    <3>4. ys[c][x] = zs[c][x]
      BY ZenonT(30), <1>7, <2>2
    <3> QED
      BY SMTT(30), <3>1, <3>2, <3>3, <3>4
  <2> QED
    BY ZenonT(30), <2>1, <2>2
<1> QED
  BY ZenonT(30), <1>1, <1>8, <1>11, <1>12, <1>13, <1>14 DEF RecInv

-----------------------------------------------------------------------------
(* Sequences and functions.                                                *)

IsSeq(s) == \E S : s \in Seq(S)

\* The positions of a sequence, and its head.
LEMMA SeqDomain ==
  ASSUME NEW s, IsSeq(s)
  PROVE  Len(s) \in Nat /\ DOMAIN s = 1 .. Len(s) /\ (s # <<>> => 1 \in DOMAIN s /\ Head(s) = s[1])
<1>1. PICK S : s \in Seq(S)
  BY Zenon DEF IsSeq
<1> QED
  BY <1>1

\* What Append does to the positions and the elements.
LEMMA Appended ==
  ASSUME NEW s, IsSeq(s), NEW x
  PROVE  /\ IsSeq(Append(s, x))
         /\ DOMAIN Append(s, x) = DOMAIN s \cup {Len(s) + 1}
         /\ Len(s) + 1 \notin DOMAIN s
         /\ \A i \in DOMAIN s : Append(s, x)[i] = s[i] /\ i < Len(s) + 1
         /\ Append(s, x)[Len(s) + 1] = x
<1>1. PICK S : s \in Seq(S)
  BY DEF IsSeq
<1>2. s \in Seq(S \cup {x})
  BY <1>1
<1>3. Append(s, x) \in Seq(S \cup {x})
  BY <1>2
<1>4. Len(s) \in Nat /\ DOMAIN s = 1 .. Len(s) /\ DOMAIN Append(s, x) = 1 .. Len(s) + 1
  BY <1>2, <1>3
<1>5. \A i \in DOMAIN s : Append(s, x)[i] = s[i] /\ i < Len(s) + 1
  BY <1>2, <1>4
<1>6. Append(s, x)[Len(s) + 1] = x
  BY <1>2
<1> QED
  BY <1>3, <1>4, <1>5, <1>6 DEF IsSeq

\* What Tail does to them: everything moves one place forward.
LEMMA Tailed ==
  ASSUME NEW s, IsSeq(s), s # <<>>
  PROVE  /\ IsSeq(Tail(s))
         /\ \A i \in DOMAIN Tail(s) : i \in Nat /\ i + 1 \in DOMAIN s /\ i + 1 # 1 /\ Tail(s)[i] = s[i + 1]
         /\ \A i \in DOMAIN s : i # 1 => i - 1 \in DOMAIN Tail(s) /\ Tail(s)[i - 1] = s[i]
<1>1. PICK S : s \in Seq(S)
  BY DEF IsSeq
<1>2. Tail(s) \in Seq(S) /\ Len(s) \in Nat /\ Len(s) > 0 /\ Len(Tail(s)) = Len(s) - 1
  BY <1>1
<1>3. DOMAIN s = 1 .. Len(s) /\ DOMAIN Tail(s) = 1 .. Len(s) - 1
  BY <1>1, <1>2
<1>4. \A i \in 1 .. Len(s) - 1 : Tail(s)[i] = s[i + 1]
  BY <1>1, <1>2
<1>5. \A i \in 1 .. Len(s) - 1 : i \in Nat /\ i + 1 \in 1 .. Len(s) /\ i + 1 # 1
  BY <1>2
<1>6. \A i \in 1 .. Len(s) : i # 1 => i - 1 \in 1 .. Len(s) - 1 /\ (i - 1) + 1 = i
  BY <1>2
<1> QED
  BY Zenon, <1>2, <1>3, <1>4, <1>5, <1>6 DEF IsSeq

-----------------------------------------------------------------------------
(* Requests and replies.                                                   *)

\* The calls that send each request.
AskedBy ==
    {<<"write", "put">>, <<"read", "get">>, <<"read", "pop">>, <<"free", "delete">>,
     <<"sync_all", "sync_all">>, <<"find_closed_zone", "list">>}
IsCall(x) == x = [op |-> x.op, drp |-> x.drp, before |-> x.before, at |-> x.at]
CallTypes ==
    /\ puts \in Nat
    /\ call = [t \in Callers |-> call[t]]
    /\ \A t \in Callers : IsCall(call[t]) /\ call[t].before \in 0 .. puts
QueueTypes ==
    /\ queue = [c \in Clusters |-> queue[c]]
    /\ \A c \in Clusters : IsSeq(queue[c])
    /\ \A c \in Clusters : \A i \in DOMAIN queue[c] :
          queue[c][i].op # "shutdown" => queue[c][i].caller \in Callers /\ queue[c][i].val \in Nat
    /\ inbox = [t \in Callers |-> inbox[t]]
    /\ \A t \in Callers : /\ inbox[t] = [c \in DOMAIN inbox[t] |-> inbox[t][c]]
                          /\ DOMAIN inbox[t] \subseteq Clusters

\* The i-th request to Cluster c is one of t's.
Asks(t, c, i) == queue[c][i].caller = t /\ queue[c][i].op # "shutdown"
NoneAsked(t) == \A c \in Clusters : \A i \in DOMAIN queue[c] : ~ Asks(t, c, i)
\* A request is of the call that its caller is in.
Matching ==
    \A c \in Clusters : \A i \in DOMAIN queue[c] :
        queue[c][i].op # "shutdown" => <<queue[c][i].op, call[queue[c][i].caller].op>> \in AskedBy
OneShutdown ==
    \A c \in Clusters : \A i, j \in DOMAIN queue[c] :
        queue[c][i].op = "shutdown" /\ queue[c][j].op = "shutdown" => i = j
\* A caller waits for each Cluster once, and only sync_all for more than one.
OneEach(t) ==
    \A c \in Clusters :
        /\ \A i, j \in DOMAIN queue[c] : Asks(t, c, i) /\ Asks(t, c, j) => i = j
        /\ \A i \in DOMAIN queue[c] : Asks(t, c, i) => c \notin DOMAIN inbox[t]
OneOnly(t) ==
    call[t].op # "sync_all" =>
        \A c, d \in Clusters : \A i \in DOMAIN queue[c] : Asks(t, c, i) =>
            d \notin DOMAIN inbox[t] /\ \A j \in DOMAIN queue[d] : Asks(t, d, j) => c = d
Waits == \A t \in Callers : OneEach(t) /\ OneOnly(t) /\ (call[t].op = "none" => DOMAIN inbox[t] = {})
Protocol == CallTypes /\ QueueTypes /\ Matching /\ OneShutdown /\ Waits

\* An inbox without replies is the empty one.
LEMMA EmptyInbox ==
  ASSUME QueueTypes, NEW t \in Callers
  PROVE  inbox[t] = <<>> <=> DOMAIN inbox[t] = {}
<1>1. DOMAIN <<>> = {}
  OBVIOUS
<1>2. ASSUME DOMAIN inbox[t] = {} PROVE inbox[t] = <<>>
  <2>1. inbox[t] = [c \in {} |-> inbox[t][c]]
    BY Zenon, <1>2 DEF QueueTypes
  <2>2. [c \in {} |-> inbox[t][c]] = <<>>
    OBVIOUS
  <2> QED
    BY <2>1, <2>2
<1> QED
  BY <1>1, <1>2

\* A request is put at the end of some channels.
LEMMA Sent ==
  ASSUME QueueTypes, NEW cs, NEW r, SendTo(cs, r), NEW c \in Clusters
  PROVE  /\ queue' = [d \in Clusters |-> queue'[d]] /\ IsSeq(queue'[c])
         /\ \A i \in DOMAIN queue[c] : i \in DOMAIN queue'[c] /\ queue'[c][i] = queue[c][i]
         /\ \A i \in DOMAIN queue'[c] :
              i \in DOMAIN queue[c] \/ (c \in cs /\ queue'[c][i] = r /\ i = Len(queue[c]) + 1)
         /\ \A i \in DOMAIN queue[c] : i < Len(queue[c]) + 1
<1>1. queue' = [d \in Clusters |-> queue'[d]] /\ IsSeq(queue[c])
  BY Zenon DEF SendTo, QueueTypes
<1>2. CASE c \in cs
  <2>1. queue'[c] = Append(queue[c], r)
    BY Zenon, <1>2 DEF SendTo
  <2> QED
    BY <1>1, <1>2, <2>1, Appended
<1>3. CASE c \notin cs
  <2>1. queue'[c] = queue[c]
    BY SMTT(30), <1>3 DEF SendTo
  <2> QED
    BY Zenon, <1>1, <2>1, Appended
<1> QED
  BY Zenon, <1>2, <1>3

\* A caller with nothing under way sends a request, in a call that it begins or that
\* goes on.
AsksFor(t, x, cs, r) ==
    /\ NoneAsked(t)
    /\ call' = [call EXCEPT ![t] = x] /\ IsCall(x)
    /\ puts' \in Nat /\ puts <= puts' /\ x.before \in 0 .. puts'
    /\ SendTo(cs, r)
    /\ r.caller = t /\ r.val \in Nat /\ r.op # "shutdown" /\ <<r.op, x.op>> \in AskedBy
    /\ x.op # "sync_all" => \E c : cs = {c}
    /\ r.op = "write" => r.val > puts
    /\ inbox' = [inbox EXCEPT ![t] = <<>>]

\* Sending a request keeps the protocol.
LEMMA AsksKeeps ==
  ASSUME Protocol, NEW t \in Callers, NEW x, NEW cs, NEW r, AsksFor(t, x, cs, r)
  PROVE  Protocol'
<1> USE DEF AsksFor
<1>1. CallTypes /\ QueueTypes /\ Matching /\ OneShutdown /\ Waits
  BY Zenon DEF Protocol
<1>2. call'[t] = x /\ \A u \in Callers \ {t} : call'[u] = call[u]
  BY Zenon, <1>1 DEF CallTypes
<1>3. inbox'[t] = <<>> /\ \A u \in Callers \ {t} : inbox'[u] = inbox[u]
  BY Zenon, <1>1 DEF QueueTypes
<1>4. CallTypes'
  BY <1>1, <1>2 DEF CallTypes
<1>5. \A c \in Clusters :
         /\ queue' = [d \in Clusters |-> queue'[d]] /\ IsSeq(queue'[c])
         /\ \A i \in DOMAIN queue[c] : i \in DOMAIN queue'[c] /\ queue'[c][i] = queue[c][i]
         /\ \A i \in DOMAIN queue'[c] :
              i \in DOMAIN queue[c] \/ (c \in cs /\ queue'[c][i] = r /\ i = Len(queue[c]) + 1)
         /\ \A i \in DOMAIN queue[c] : i < Len(queue[c]) + 1
  BY ZenonT(30), <1>1, Sent
<1>6. QueueTypes'
  <2>1. inbox' = [u \in Callers |-> inbox'[u]]
    BY ZenonT(30), <1>1 DEF QueueTypes
  <2>2. \A u \in Callers : /\ inbox'[u] = [c \in DOMAIN inbox'[u] |-> inbox'[u][c]]
                           /\ DOMAIN inbox'[u] \subseteq Clusters
    BY <1>1, <1>3 DEF QueueTypes
  <2>3. queue' = [d \in Clusters |-> queue'[d]]
    BY ZenonT(30) DEF SendTo
  <2>4. \A c \in Clusters : \A i \in DOMAIN queue'[c] :
          queue'[c][i].op # "shutdown" => queue'[c][i].caller \in Callers /\ queue'[c][i].val \in Nat
    BY <1>1, <1>5 DEF QueueTypes
  <2> QED
    BY Zenon, <1>5, <2>1, <2>2, <2>3, <2>4 DEF QueueTypes
<1>7. Matching'
  <2> SUFFICES ASSUME NEW c \in Clusters, NEW i \in DOMAIN queue'[c], queue'[c][i].op # "shutdown"
               PROVE  <<queue'[c][i].op, call'[queue'[c][i].caller].op>> \in AskedBy
    BY ZenonT(30) DEF Matching
  <2>1. CASE i \in DOMAIN queue[c]
    <3>1. queue'[c][i] = queue[c][i] /\ queue[c][i].caller \in Callers /\ queue[c][i].caller # t
      BY <1>1, <1>5, <2>1 DEF QueueTypes, NoneAsked, Asks
    <3> QED
      BY SMTT(30), <1>1, <1>2, <2>1, <3>1 DEF Matching
  <2>2. CASE i \notin DOMAIN queue[c]
    BY ZenonT(30), <1>2, <1>5, <2>2
  <2> QED
    BY ZenonT(30), <2>1, <2>2
<1>8. OneShutdown'
  BY <1>1, <1>5 DEF OneShutdown
<1>9. ASSUME NEW u \in Callers PROVE OneEach(u)' /\ OneOnly(u)' /\ (call'[u].op = "none" => DOMAIN inbox'[u] = {})
  <2>1. CASE u = t
    <3>1. DOMAIN inbox'[u] = {}
      BY SMTT(30), <1>3, <2>1
    <3>2. \A c \in Clusters : \A i \in DOMAIN queue'[c] : Asks(t, c, i)' => c \in cs /\ i = Len(queue[c]) + 1
      BY SMTT(30), <1>5 DEF NoneAsked, Asks
    <3> QED
      BY <1>2, <2>1, <3>1, <3>2 DEF OneEach, OneOnly
  <2>2. CASE u # t
    <3>1. \A c \in Clusters : \A i \in DOMAIN queue'[c] : Asks(u, c, i)' => i \in DOMAIN queue[c] /\ Asks(u, c, i)
      BY Zenon, <1>5, <2>2 DEF Asks
    <3>2. inbox'[u] = inbox[u] /\ call'[u] = call[u]
      BY ZenonT(30), <1>2, <1>3, <2>2
    <3> QED
      BY <1>1, <3>1, <3>2 DEF Waits, OneEach, OneOnly
  <2> QED
    BY ZenonT(30), <2>1, <2>2
<1> QED
  BY Zenon, <1>4, <1>6, <1>7, <1>8, <1>9 DEF Protocol, Waits

\* A caller whose requests have all been answered returns.
LEMMA ReturnKeeps ==
  ASSUME Protocol, NEW t \in Callers, NoneAsked(t), Return(t), UNCHANGED <<queue, puts>>
  PROVE  Protocol'
<1>1. CallTypes /\ QueueTypes /\ Matching /\ OneShutdown /\ Waits
  BY DEF Protocol
<1>2. call'[t] = NoCall /\ \A u \in Callers \ {t} : call'[u] = call[u]
  BY Zenon, <1>1 DEF CallTypes, Return
<1>3. inbox'[t] = <<>> /\ \A u \in Callers \ {t} : inbox'[u] = inbox[u]
  BY ZenonT(30), <1>1 DEF QueueTypes, Return
<1>4. CallTypes'
  <2>1. IsCall(NoCall) /\ NoCall.before = 0
    BY ZenonT(30) DEF IsCall, NoCall
  <2> QED
    BY <1>1, <1>2, <2>1 DEF CallTypes, Return
<1>5. QueueTypes'
  BY <1>1, <1>3 DEF QueueTypes, Return
<1>6. Matching'
  BY <1>1, <1>2 DEF Matching, NoneAsked, Asks, QueueTypes
<1>7. OneShutdown'
  BY Zenon, <1>1 DEF OneShutdown
<1>8. ASSUME NEW u \in Callers PROVE OneEach(u)' /\ OneOnly(u)' /\ (call'[u].op = "none" => DOMAIN inbox'[u] = {})
  <2>0. \A c \in Clusters : \A i \in DOMAIN queue[c] : (Asks(u, c, i)' <=> Asks(u, c, i))
    BY Zenon DEF Asks
  <2>1. CASE u = t
    <3>1. DOMAIN inbox'[u] = {}
      BY SMTT(30), <1>3, <2>1
    <3> QED
      BY ZenonT(30), <2>0, <2>1, <3>1 DEF OneEach, OneOnly, NoneAsked
  <2>2. CASE u # t
    <3>1. inbox'[u] = inbox[u] /\ call'[u] = call[u]
      BY Zenon, <1>2, <1>3, <2>2
    <3> QED
      BY SMTT(30), <1>1, <2>0, <3>1 DEF Waits, OneEach, OneOnly
  <2> QED
    BY Zenon, <2>1, <2>2
<1> QED
  BY Zenon, <1>4, <1>5, <1>6, <1>7, <1>8 DEF Protocol, Waits

\* A ClusterServer takes a request from its channel.
LEMMA Taken ==
  ASSUME QueueTypes, NEW c \in Clusters, queue[c] # <<>>, queue' = [queue EXCEPT ![c] = Tail(@)]
  PROVE  /\ queue' = [d \in Clusters |-> queue'[d]] /\ IsSeq(queue'[c])
         /\ \A d \in Clusters \ {c} : queue'[d] = queue[d]
         /\ \A i \in DOMAIN queue'[c] :
              i \in Nat /\ i + 1 \in DOMAIN queue[c] /\ i + 1 # 1 /\ queue'[c][i] = queue[c][i + 1]
         /\ \A i \in DOMAIN queue[c] :
              i # 1 => i - 1 \in DOMAIN queue'[c] /\ queue'[c][i - 1] = queue[c][i]
         /\ 1 \in DOMAIN queue[c] /\ Head(queue[c]) = queue[c][1]
<1>1. queue'[c] = Tail(queue[c]) /\ IsSeq(queue[c])
  BY Zenon DEF QueueTypes
<1>2. queue' = [d \in Clusters |-> queue'[d]] /\ \A d \in Clusters \ {c} : queue'[d] = queue[d]
  BY Zenon DEF QueueTypes
<1>3. 1 \in DOMAIN queue[c] /\ Head(queue[c]) = queue[c][1]
  BY Zenon, <1>1, SeqDomain
<1>4. /\ IsSeq(Tail(queue[c]))
      /\ \A i \in DOMAIN Tail(queue[c]) :
           i \in Nat /\ i + 1 \in DOMAIN queue[c] /\ i + 1 # 1 /\ Tail(queue[c])[i] = queue[c][i + 1]
      /\ \A i \in DOMAIN queue[c] : i # 1 => i - 1 \in DOMAIN Tail(queue[c]) /\ Tail(queue[c])[i - 1] = queue[c][i]
  BY Zenon, <1>1, Tailed
<1> QED
  BY Zenon, <1>1, <1>2, <1>3, <1>4

\* A reply goes to the inbox of its caller, under the Cluster's number.
LEMMA Replied1 ==
  ASSUME QueueTypes, NEW c \in Clusters, NEW u \in Callers, NEW res,
         inbox' = [inbox EXCEPT ![u] = With(@, {c}, res)]
  PROVE  /\ inbox' = [t \in Callers |-> inbox'[t]]
         /\ DOMAIN inbox'[u] = DOMAIN inbox[u] \cup {c} /\ inbox'[u][c] = res
         /\ inbox'[u] = [d \in DOMAIN inbox'[u] |-> inbox'[u][d]]
         /\ \A d \in DOMAIN inbox[u] \ {c} : inbox'[u][d] = inbox[u][d]
         /\ \A t \in Callers \ {u} : inbox'[t] = inbox[t]
<1>1. inbox'[u] = [d \in {c} \cup DOMAIN inbox[u] |-> IF d = c THEN res ELSE inbox[u][d]]
  BY ZenonT(30) DEF QueueTypes, With
<1> QED
  BY Zenon, <1>1 DEF QueueTypes

\* Serving a request with a reply keeps the protocol.
LEMMA ReplyKeeps ==
  ASSUME Protocol, NEW c \in Clusters, queue[c] # <<>>, Head(queue[c]).op # "shutdown",
         NEW res, Reply(c, res), UNCHANGED <<call, puts>>
  PROVE  Protocol'
<1>1. CallTypes /\ QueueTypes /\ Matching /\ OneShutdown /\ Waits
  BY Zenon DEF Protocol
<1>2. /\ queue' = [d \in Clusters |-> queue'[d]] /\ IsSeq(queue'[c])
      /\ \A d \in Clusters \ {c} : queue'[d] = queue[d]
      /\ \A i \in DOMAIN queue'[c] :
           i \in Nat /\ i + 1 \in DOMAIN queue[c] /\ i + 1 # 1 /\ queue'[c][i] = queue[c][i + 1]
      /\ 1 \in DOMAIN queue[c] /\ Head(queue[c]) = queue[c][1]
  BY Zenon, <1>1, Taken DEF Reply
<1>3. PICK u \in Callers : u = queue[c][1].caller /\ Asks(u, c, 1)
  BY ZenonT(30), <1>1, <1>2 DEF QueueTypes, Asks
<1>4. /\ inbox' = [t \in Callers |-> inbox'[t]]
      /\ DOMAIN inbox'[u] = DOMAIN inbox[u] \cup {c}
      /\ inbox'[u] = [d \in DOMAIN inbox'[u] |-> inbox'[u][d]]
      /\ \A t \in Callers \ {u} : inbox'[t] = inbox[t]
  <2>1. inbox' = [inbox EXCEPT ![u] = With(@, {c}, res)]
    BY ZenonT(30), <1>2, <1>3 DEF Reply
  <2> QED
    BY Zenon, <1>1, <2>1, Replied1
<1>5. CallTypes'
  BY Zenon, <1>1 DEF CallTypes
<1>6. QueueTypes'
  <2>1. \A d \in Clusters : IsSeq(queue'[d])
    BY ZenonT(30), <1>1, <1>2 DEF QueueTypes
  <2>2. \A d \in Clusters : \A i \in DOMAIN queue'[d] :
          queue'[d][i].op # "shutdown" => queue'[d][i].caller \in Callers /\ queue'[d][i].val \in Nat
    BY SMTT(30), <1>1, <1>2 DEF QueueTypes
  <2>3. \A t \in Callers : /\ inbox'[t] = [d \in DOMAIN inbox'[t] |-> inbox'[t][d]]
                           /\ DOMAIN inbox'[t] \subseteq Clusters
    BY SMTT(30), <1>1, <1>4 DEF QueueTypes
  <2> QED
    BY ZenonT(30), <1>2, <1>4, <2>1, <2>2, <2>3 DEF QueueTypes
<1>7. Matching'
  <2>1. \A d \in Clusters : \A i \in DOMAIN queue'[d] : \E j \in DOMAIN queue[d] : queue'[d][i] = queue[d][j]
    BY <1>2
  <2> QED
    BY SMTT(30), <1>1, <2>1 DEF Matching
<1>8. OneShutdown'
  BY SMTT(30), <1>1, <1>2 DEF OneShutdown
<1>9. ASSUME NEW t \in Callers
      PROVE  OneEach(t)' /\ OneOnly(t)' /\ (call'[t].op = "none" => DOMAIN inbox'[t] = {})
  <2>1. \A i \in DOMAIN queue'[c] : Asks(t, c, i)' => Asks(t, c, i + 1) /\ i + 1 \in DOMAIN queue[c]
    BY Zenon, <1>2 DEF Asks
  <2>2. \A d \in Clusters \ {c} : \A i \in DOMAIN queue'[d] : Asks(t, d, i)' => Asks(t, d, i) /\ i \in DOMAIN queue[d]
    BY Zenon, <1>2 DEF Asks
  <2>3. \A i \in DOMAIN queue'[c] : ~ Asks(u, c, i)'
    <3> SUFFICES ASSUME NEW i \in DOMAIN queue'[c], Asks(u, c, i)' PROVE FALSE
      OBVIOUS
    <3>1. Asks(u, c, i + 1) /\ i + 1 \in DOMAIN queue[c] /\ i + 1 # 1
      BY ZenonT(30), <1>2 DEF Asks
    <3> QED
      BY ZenonT(30), <1>1, <1>2, <1>3, <3>1 DEF Waits, OneEach
  <2>4. OneEach(t)'
    <3>1. \A i, j \in DOMAIN queue'[c] : Asks(t, c, i)' /\ Asks(t, c, j)' => i = j
      <4> SUFFICES ASSUME NEW i \in DOMAIN queue'[c], NEW j \in DOMAIN queue'[c], Asks(t, c, i)', Asks(t, c, j)'
                   PROVE  i = j
        OBVIOUS
      <4>1. i + 1 = j + 1
        BY ZenonT(30), <1>1, <2>1 DEF Waits, OneEach
      <4> QED
        BY SMTT(30), <1>2, <4>1
    <3>2. \A d \in Clusters \ {c} : \A i, j \in DOMAIN queue'[d] : Asks(t, d, i)' /\ Asks(t, d, j)' => i = j
      BY <1>1, <2>2 DEF Waits, OneEach
    <3>3. \A d \in Clusters : \A i \in DOMAIN queue'[d] : Asks(t, d, i)' => d \notin DOMAIN inbox'[t]
      BY SMTT(30), <1>1, <1>4, <2>1, <2>2, <2>3 DEF Waits, OneEach
    <3> QED
      BY <3>1, <3>2, <3>3 DEF OneEach
  <2>5. OneOnly(t)'
    <3> SUFFICES ASSUME call[t].op # "sync_all", NEW d \in Clusters, NEW e \in Clusters, NEW i \in DOMAIN queue'[d],
                        Asks(t, d, i)'
                 PROVE  e \notin DOMAIN inbox'[t] /\ \A j \in DOMAIN queue'[e] : Asks(t, e, j)' => d = e
      BY Zenon DEF OneOnly
    <3>1. PICK k \in DOMAIN queue[d] : Asks(t, d, k) /\ (d = c => k # 1)
      BY <1>2, <2>1, <2>2
    <3>2. t # u
      <4>1. CASE d = c
        BY Zenon, <2>3, <4>1
      <4>2. CASE d # c
        BY SMTT(30), <1>1, <1>2, <1>3, <3>1, <4>2 DEF Waits, OneOnly
      <4> QED
        BY ZenonT(30), <4>1, <4>2
    <3>3. inbox'[t] = inbox[t]
      BY Zenon, <1>4, <3>2
    <3> QED
      BY <1>1, <2>1, <2>2, <3>1, <3>3 DEF Waits, OneOnly
  <2>6. call'[t].op = "none" => DOMAIN inbox'[t] = {}
    <3>1. call[u].op # "none"
      BY <1>1, <1>2, <1>3 DEF Matching, Asks, AskedBy
    <3> QED
      BY ZenonT(30), <1>1, <1>4, <3>1 DEF Waits
  <2> QED
    BY Zenon, <2>4, <2>5, <2>6
<1> QED
  BY ZenonT(30), <1>5, <1>6, <1>7, <1>8, <1>9 DEF Protocol, Waits

\* The loop of a ClusterServer ends: whoever has a request behind the shutdown gets EPIPE.
LEMMA HungUp ==
  ASSUME Protocol, NEW c \in Clusters, ServeShutdown(c)
  PROVE  /\ queue' = [d \in Clusters |-> queue'[d]] /\ queue'[c] = <<>>
         /\ \A d \in Clusters \ {c} : queue'[d] = queue[d]
         /\ inbox' = [t \in Callers |-> inbox'[t]]
         /\ \A t \in Callers :
              \/ inbox'[t] = inbox[t] /\ \A i \in DOMAIN queue[c] : ~ Asks(t, c, i)
              \/ inbox'[t] = With(inbox[t], {c}, EPIPE) /\ \E i \in DOMAIN queue[c] : Asks(t, c, i)
<1>1. CallTypes /\ QueueTypes /\ Matching /\ OneShutdown /\ Waits
  BY DEF Protocol
<1>2. queue' = [queue EXCEPT ![c] = <<>>] /\ inbox' = Hangup(c) /\ queue[c] # <<>> /\ Head(queue[c]).op = "shutdown"
  BY Zenon DEF ServeShutdown, Serving
<1>3. /\ queue' = [d \in Clusters |-> queue'[d]] /\ queue'[c] = <<>>
      /\ \A d \in Clusters \ {c} : queue'[d] = queue[d]
  BY Zenon, <1>1, <1>2 DEF QueueTypes
<1>4. Len(queue[c]) \in Nat /\ DOMAIN queue[c] = 1 .. Len(queue[c]) /\ 1 \in DOMAIN queue[c] /\ queue[c][1].op = "shutdown"
  BY ZenonT(30), <1>1, <1>2, SeqDomain DEF QueueTypes
<1>5. \A i : i \in 2 .. Len(queue[c]) <=> i \in DOMAIN queue[c] /\ i # 1
  BY <1>4
<1>6. \A t \in Callers, i \in DOMAIN queue[c] : Asks(t, c, i) <=> i # 1 /\ queue[c][i].caller = t
  BY ZenonT(30), <1>1, <1>4 DEF OneShutdown, Asks
<1> QED
  BY <1>2, <1>3, <1>5, <1>6 DEF Hangup

\* So does serving the shutdown, though it empties the channel.
LEMMA ServeShutdownKeeps ==
  ASSUME Protocol, NEW c \in Clusters, ServeShutdown(c), UNCHANGED <<call, puts>>
  PROVE  Protocol'
<1>1. CallTypes /\ QueueTypes /\ Matching /\ OneShutdown /\ Waits
  BY DEF Protocol
<1>2. /\ queue' = [d \in Clusters |-> queue'[d]] /\ queue'[c] = <<>>
      /\ \A d \in Clusters \ {c} : queue'[d] = queue[d]
      /\ inbox' = [t \in Callers |-> inbox'[t]]
      /\ \A t \in Callers :
              \/ inbox'[t] = inbox[t] /\ \A i \in DOMAIN queue[c] : ~ Asks(t, c, i)
              \/ inbox'[t] = With(inbox[t], {c}, EPIPE) /\ \E i \in DOMAIN queue[c] : Asks(t, c, i)
  BY Zenon, HungUp
<1>3. DOMAIN queue'[c] = {} /\ IsSeq(queue'[c])
  <2>1. <<>> \in Seq({}) /\ DOMAIN <<>> = {}
    OBVIOUS
  <2> QED
    BY Zenon, <1>2, <2>1 DEF IsSeq
<1>4. \A t \in Callers : DOMAIN inbox'[t] \subseteq DOMAIN inbox[t] \cup {c}
                         /\ inbox'[t] = [d \in DOMAIN inbox'[t] |-> inbox'[t][d]]
  BY ZenonT(30), <1>1, <1>2 DEF With, QueueTypes
<1>5. CallTypes'
  BY Zenon, <1>1 DEF CallTypes
<1>6. QueueTypes'
  BY SMTT(30), <1>1, <1>2, <1>3, <1>4 DEF QueueTypes
<1>7. Matching' /\ OneShutdown'
  <2>1. \A d \in Clusters : \A i \in DOMAIN queue'[d] : d # c /\ queue'[d] = queue[d]
    BY <1>2, <1>3
  <2>2. Matching'
    BY Zenon, <1>1, <2>1 DEF Matching
  <2>3. OneShutdown'
    BY Zenon, <1>1, <2>1 DEF OneShutdown
  <2> QED
    BY <2>2, <2>3
<1>8. ASSUME NEW t \in Callers
      PROVE  OneEach(t)' /\ OneOnly(t)' /\ (call'[t].op = "none" => DOMAIN inbox'[t] = {})
  <2>1. \A d \in Clusters : \A i \in DOMAIN queue'[d] : Asks(t, d, i)' => d # c /\ i \in DOMAIN queue[d] /\ Asks(t, d, i)
    BY ZenonT(30), <1>2, <1>3 DEF Asks
  <2>2. CASE inbox'[t] = inbox[t]
    BY <1>1, <1>2, <2>1, <2>2 DEF Waits, OneEach, OneOnly
  <2>3. ASSUME NEW i \in DOMAIN queue[c], Asks(t, c, i)
        PROVE OneEach(t)' /\ OneOnly(t)' /\ call[t].op # "none"
    <3>1. call[t].op # "none"
      BY Zenon, <1>1, <2>3 DEF Matching, Asks, AskedBy
    <3>2. OneEach(t)'
      BY SMTT(30), <1>1, <1>2, <1>4, <2>1 DEF Waits, OneEach
    <3>3. OneOnly(t)'
      BY <1>1, <2>1, <2>3 DEF Waits, OneOnly
    <3> QED
      BY SMTT(30), <3>1, <3>2, <3>3
  <2> QED
    BY Zenon, <1>2, <2>2, <2>3
<1> QED
  BY Zenon, <1>5, <1>6, <1>7, <1>8 DEF Protocol, Waits

\* A shutdown is put at the end of every channel.
LEMMA ShutdownSends ==
  ASSUME QueueTypes, Shutdown
  PROVE  /\ queue' = [d \in Clusters |-> queue'[d]]
         /\ \A c \in Clusters : IsSeq(queue'[c])
         /\ \A c \in Clusters : \A i \in DOMAIN queue'[c] : queue'[c][i].op # "shutdown" =>
              i \in DOMAIN queue[c] /\ queue'[c][i] = queue[c][i]
         /\ \A c \in Clusters : \A i \in DOMAIN queue'[c] : queue'[c][i].op = "shutdown" => i = Len(queue[c]) + 1
<1>1. PICK r : SendTo(Clusters, r) /\ r.op = "shutdown"
  <2> DEFINE r == Rpc("shutdown", CHOOSE t \in Callers : TRUE, 0, 0, 0)
  <2>1. SendTo(Clusters, r)
    BY DEF Shutdown, SendTo
  <2>2. r.op = "shutdown"
    BY Zenon DEF Rpc
  <2> QED
    BY <2>1, <2>2
<1>2. \A c \in Clusters :
         /\ queue' = [d \in Clusters |-> queue'[d]] /\ IsSeq(queue'[c])
         /\ \A i \in DOMAIN queue[c] : i \in DOMAIN queue'[c] /\ queue'[c][i] = queue[c][i]
         /\ \A i \in DOMAIN queue'[c] : i \in DOMAIN queue[c] \/ (queue'[c][i] = r /\ i = Len(queue[c]) + 1)
  BY <1>1, Sent
<1>3. queue' = [d \in Clusters |-> queue'[d]]
  BY Zenon, <1>1 DEF SendTo
<1>4. \A c \in Clusters : \A i \in DOMAIN queue[c] : queue[c][i].op # "shutdown"
  BY ZenonT(30) DEF Shutdown, ShuttingDown
<1> QED
  BY SMTT(30), <1>1, <1>2, <1>3, <1>4

\* Sending the shutdown keeps the protocol.
LEMMA ShutdownKeeps ==
  ASSUME Protocol, Shutdown
  PROVE  Protocol'
<1>1. CallTypes /\ QueueTypes /\ Matching /\ OneShutdown /\ Waits
  BY DEF Protocol
<1>2. /\ queue' = [d \in Clusters |-> queue'[d]]
      /\ \A c \in Clusters : IsSeq(queue'[c])
      /\ \A c \in Clusters : \A i \in DOMAIN queue'[c] : queue'[c][i].op # "shutdown" =>
              i \in DOMAIN queue[c] /\ queue'[c][i] = queue[c][i]
      /\ \A c \in Clusters : \A i \in DOMAIN queue'[c] : queue'[c][i].op = "shutdown" => i = Len(queue[c]) + 1
  BY Zenon, <1>1, ShutdownSends
<1>4. UNCHANGED <<call, puts, inbox>>
  BY ZenonT(30) DEF Shutdown
<1>6. CallTypes'
  BY ZenonT(30), <1>1, <1>4 DEF CallTypes
<1>7. QueueTypes'
  BY SMTT(30), <1>1, <1>2, <1>4 DEF QueueTypes
<1>8. Matching'
  BY Zenon, <1>1, <1>2, <1>4 DEF Matching
<1>9. OneShutdown'
  BY ZenonT(30), <1>2 DEF OneShutdown
<1>10. Waits'
  <2>1. \A t \in Callers, c \in Clusters : \A i \in DOMAIN queue'[c] : Asks(t, c, i)' =>
           i \in DOMAIN queue[c] /\ Asks(t, c, i)
    BY <1>2 DEF Asks
  <2> QED
    BY <1>1, <1>4, <2>1 DEF Waits, OneEach, OneOnly
<1> QED
  BY <1>6, <1>7, <1>8, <1>9, <1>10 DEF Protocol

-----------------------------------------------------------------------------
(* What each step of a call sends.                                         *)

\* A caller that is in no call, or has its answer, has no request in a channel.
LEMMA IdleAsksNone ==
  ASSUME Protocol, NEW t \in Callers, call[t].op = "none"
  PROVE  NoneAsked(t) /\ inbox = [inbox EXCEPT ![t] = <<>>]
<1>1. inbox[t] = <<>> /\ inbox = [u \in Callers |-> inbox[u]]
  BY Zenon, EmptyInbox DEF Protocol, Waits, QueueTypes
<1>2. NoneAsked(t)
  BY Zenon DEF Protocol, Matching, NoneAsked, Asks, AskedBy
<1> QED
  BY <1>1, <1>2

\* A caller that has its answer has no request in a channel.
LEMMA AnsweredAsksNone ==
  ASSUME Protocol, NEW t \in Callers, inbox[t] # <<>>, call[t].op # "sync_all"
  PROVE  NoneAsked(t)
<1>1. PICK d \in DOMAIN inbox[t] : TRUE
  BY EmptyInbox DEF Protocol
<1>2. d \in Clusters
  BY Zenon DEF Protocol, QueueTypes
<1> QED
  BY Zenon, <1>1, <1>2 DEF Protocol, Waits, OneOnly, NoneAsked

\* Neither has a sync_all that all Clusters have answered.
LEMMA SyncedAsksNone ==
  ASSUME Protocol, NEW t \in Callers, DOMAIN inbox[t] = Clusters
  PROVE  NoneAsked(t)
  BY Zenon DEF Protocol, Waits, OneEach, NoneAsked

\* A call begins.
LEMMA BeginAsks ==
  ASSUME Protocol, NEW t \in Callers, Idle(t), NEW x, Begin(t, x), IsCall(x),
         puts' \in {puts, puts + 1}, x.before \in {0, puts},
         NEW cs, NEW r, SendTo(cs, r), r.caller = t, r.val \in Nat, r.op # "shutdown", <<r.op, x.op>> \in AskedBy,
         x.op # "sync_all" => \E c : cs = {c},
         r.op = "write" => r.val > puts,
         UNCHANGED inbox
  PROVE  AsksFor(t, x, cs, r)
<1>1. NoneAsked(t) /\ inbox' = [inbox EXCEPT ![t] = <<>>]
  BY Zenon, IdleAsksNone DEF Idle
<1>2. puts \in Nat
  BY Zenon DEF Protocol, CallTypes
<1>3. puts' \in Nat /\ puts <= puts' /\ x.before \in 0 .. puts'
  BY SMTT(30), <1>2
<1> QED
  BY Zenon, <1>1, <1>3 DEF AsksFor, Begin

\* The fields of a call that begins.
LEMMA CallFields ==
  ASSUME NEW op, NEW drp
  PROVE  Call(op, drp) = [op |-> op, drp |-> drp, before |-> 0, at |-> Cursor(None, None)]
<1>1. [NoCall EXCEPT !.op = op] = [op |-> op, drp |-> NoDrp, before |-> 0, at |-> Cursor(None, None)]
  BY DEF NoCall
<1>2. [[op |-> op, drp |-> NoDrp, before |-> 0, at |-> Cursor(None, None)] EXCEPT !.drp = drp]
         = [op |-> op, drp |-> drp, before |-> 0, at |-> Cursor(None, None)]
  OBVIOUS
<1>3. Call(op, drp) = [[NoCall EXCEPT !.op = op] EXCEPT !.drp = drp]
  BY DEF Call
<1> QED
  BY Zenon, <1>1, <1>2, <1>3

\* The fields of a call, and what changing one of them gives.
LEMMA IsCallFields ==
  ASSUME NEW y, NEW op, NEW drp, NEW before, NEW at, y = [op |-> op, drp |-> drp, before |-> before, at |-> at]
  PROVE  /\ IsCall(y) /\ y.op = op /\ y.drp = drp /\ y.before = before /\ y.at = at
         /\ \A b : [y EXCEPT !.before = b] = [op |-> op, drp |-> drp, before |-> b, at |-> at]
         /\ \A a : [y EXCEPT !.at = a] = [op |-> op, drp |-> drp, before |-> before, at |-> a]
         /\ \A o : [y EXCEPT !.op = o] = [op |-> o, drp |-> drp, before |-> before, at |-> at]
<1>1. IsCall(y) /\ y.op = op /\ y.drp = drp /\ y.before = before /\ y.at = at
  BY Zenon DEF IsCall
<1> QED
  BY <1>1

PutSends(t, len, direct, c, x, r) ==
    /\ AsksFor(t, x, {c}, r) /\ call[t].op = "none" /\ x.op = "put" /\ r.op = "write"
    /\ x.drp = [c |-> c, lba |-> None, len |-> len, val |-> puts + 1, direct |-> direct]
    /\ r.len = len /\ r.val = puts + 1

\* put sends a write to the Cluster that was chosen, with content no write had
\* before.
LEMMA PutAsks ==
  ASSUME Protocol, NEW t \in Callers, NEW len, NEW direct, Put(t, len, direct)
  PROVE  \E c, x, r : PutSends(t, len, direct, c, x, r)
<1>1. PICK c : /\ Begin(t, Call("put", [c |-> c, lba |-> None, len |-> len, val |-> puts + 1, direct |-> direct]))
               /\ Send(c, Rpc("write", t, None, len, puts + 1))
  BY Zenon DEF Put
<1> DEFINE drp == [c |-> c, lba |-> None, len |-> len, val |-> puts + 1, direct |-> direct]
           x == Call("put", drp)
           r == Rpc("write", t, None, len, puts + 1)
<1>2. IsCall(x) /\ x.op = "put" /\ x.drp = drp /\ x.before = 0
  BY CallFields, IsCallFields
<1>3. puts \in Nat
  BY ZenonT(30) DEF Protocol, CallTypes
<1>4. r.caller = t /\ r.val \in Nat /\ r.op = "write" /\ r.val > puts /\ r.len = len /\ r.val = puts + 1
  BY <1>3 DEF Rpc
<1>5. Idle(t) /\ Begin(t, x) /\ SendTo({c}, r) /\ puts' = puts + 1 /\ UNCHANGED inbox /\ call[t].op = "none"
  BY ZenonT(30), <1>1 DEF Put, Send, Idle
<1> HIDE DEF x, r, drp
<1>6. <<r.op, x.op>> \in AskedBy
  BY <1>2, <1>4 DEF AskedBy
<1>7. AsksFor(t, x, {c}, r)
  BY ZenonT(30), <1>2, <1>4, <1>5, <1>6, BeginAsks
<1>8. x.drp = [c |-> c, lba |-> None, len |-> len, val |-> puts + 1, direct |-> direct]
  BY Zenon, <1>2 DEF drp
<1>9. PutSends(t, len, direct, c, x, r)
  BY ZenonT(30), <1>2, <1>4, <1>5, <1>7, <1>8 DEF PutSends
<1> QED
  BY <1>9

\* get and pop send a read of their record.
LEMMA ReadAsks ==
  ASSUME Protocol, NEW t \in Callers, Idle(t), NEW drp, NEW op \in {"get", "pop"}, Read(t, drp, op),
         UNCHANGED <<inbox, puts>>
  PROVE  \E x, r : /\ AsksFor(t, x, {drp.c}, r) /\ call[t].op = "none" /\ x.op = op /\ x.drp = drp
                   /\ r.op = "read" /\ r.lba = drp.lba
<1> DEFINE x == Call(op, drp)
           r == Rpc("read", t, drp.lba, drp.len, 0)
<1>1. IsCall(x) /\ x.op = op /\ x.drp = drp /\ x.before = 0
  BY ZenonT(30), CallFields, IsCallFields
<1>2. r.caller = t /\ r.val \in Nat /\ r.op = "read" /\ r.lba = drp.lba
  BY Zenon DEF Rpc
<1>3. Begin(t, x) /\ SendTo({drp.c}, r) /\ call[t].op = "none"
  BY ZenonT(30) DEF Read, Send, Idle
<1> HIDE DEF x, r
<1>4. <<r.op, x.op>> \in AskedBy
  BY <1>1, <1>2 DEF AskedBy
<1>5. AsksFor(t, x, {drp.c}, r)
  BY ZenonT(30), <1>1, <1>2, <1>3, <1>4, BeginAsks
<1> WITNESS x, r
<1> QED
  BY Zenon, <1>1, <1>2, <1>3, <1>5

\* delete sends a free of its record.
LEMMA DeleteAsks ==
  ASSUME Protocol, NEW t \in Callers, Idle(t), NEW drp, Free(t, drp), Begin(t, Call("delete", drp)),
         UNCHANGED <<inbox, puts>>
  PROVE  \E x, r : /\ AsksFor(t, x, {drp.c}, r) /\ call[t].op = "none" /\ x.op = "delete" /\ x.drp = drp
                   /\ r.op = "free" /\ r.lba = drp.lba /\ r.len = drp.len
<1> DEFINE x == Call("delete", drp)
           r == Rpc("free", t, drp.lba, drp.len, 0)
<1>1. IsCall(x) /\ x.op = "delete" /\ x.drp = drp /\ x.before = 0
  BY Zenon, CallFields, IsCallFields
<1>2. r.caller = t /\ r.val \in Nat /\ r.op = "free" /\ r.lba = drp.lba /\ r.len = drp.len
  BY ZenonT(30) DEF Rpc
<1>3. Begin(t, x) /\ SendTo({drp.c}, r) /\ call[t].op = "none"
  BY Zenon DEF Free, Send, Idle
<1> HIDE DEF x, r
<1>4. <<r.op, x.op>> \in AskedBy
  BY SMTT(30), <1>1, <1>2 DEF AskedBy
<1>5. AsksFor(t, x, {drp.c}, r)
  BY ZenonT(30), <1>1, <1>2, <1>3, <1>4, BeginAsks
<1> WITNESS x, r
<1> QED
  BY ZenonT(30), <1>1, <1>2, <1>3, <1>5

\* sync_all sends to every Cluster, and notes what was put before.
LEMMA SyncAsks ==
  ASSUME Protocol, NEW t \in Callers, SyncAll(t)
  PROVE  \E x, r : /\ AsksFor(t, x, Clusters, r) /\ call[t].op = "none" /\ x.op = "sync_all" /\ x.drp = NoDrp
                   /\ x.before = puts /\ r.op = "sync_all"
<1> DEFINE x == [Call("sync_all", NoDrp) EXCEPT !.before = puts]
           r == Rpc("sync_all", t, None, 0, 0)
<1>0. x = [op |-> "sync_all", drp |-> NoDrp, before |-> puts, at |-> Cursor(None, None)]
  BY SMTT(30), CallFields, IsCallFields
<1>1. IsCall(x) /\ x.op = "sync_all" /\ x.drp = NoDrp /\ x.before = puts
  BY <1>0, IsCallFields
<1>2. r.caller = t /\ r.val \in Nat /\ r.op = "sync_all"
  BY Zenon DEF Rpc
<1>3. Idle(t) /\ Begin(t, x) /\ SendTo(Clusters, r) /\ UNCHANGED <<inbox, puts>> /\ call[t].op = "none"
  BY Zenon DEF SyncAll, Everywhere, Idle
<1> HIDE DEF x, r
<1>4. <<r.op, x.op>> \in AskedBy
  BY SMTT(30), <1>1, <1>2 DEF AskedBy
<1>5. AsksFor(t, x, Clusters, r)
  BY ZenonT(30), <1>1, <1>2, <1>3, <1>4, BeginAsks
<1> WITNESS x, r
<1> QED
  BY <1>1, <1>2, <1>3, <1>5

\* list_closed_zones asks the first Cluster for its first closed zone.
LEMMA ListAsks ==
  ASSUME Protocol, NEW t \in Callers, List(t)
  PROVE  \E x, r : /\ AsksFor(t, x, {0}, r) /\ call[t].op = "none" /\ x.op = "list" /\ x.drp = NoDrp
                   /\ x.at = Cursor(0, 0) /\ r.op = "find_closed_zone" /\ r.lba = 0
<1> DEFINE x == [Call("list", NoDrp) EXCEPT !.at = Cursor(0, 0)]
           r == Rpc("find_closed_zone", t, 0, 0, 0)
<1>0. x = [op |-> "list", drp |-> NoDrp, before |-> 0, at |-> Cursor(0, 0)]
  BY CallFields, IsCallFields
<1>1. IsCall(x) /\ x.op = "list" /\ x.drp = NoDrp /\ x.before = 0 /\ x.at = Cursor(0, 0)
  BY <1>0, IsCallFields
<1>2. r.caller = t /\ r.val \in Nat /\ r.op = "find_closed_zone" /\ r.lba = 0
  BY Zenon DEF Rpc
<1>3. Idle(t) /\ Begin(t, x) /\ SendTo({0}, r) /\ UNCHANGED <<inbox, puts>> /\ call[t].op = "none"
  BY Zenon DEF List, Send, Idle
<1> HIDE DEF x, r
<1>4. <<r.op, x.op>> \in AskedBy
  BY SMTT(30), <1>1, <1>2 DEF AskedBy
<1>5. AsksFor(t, x, {0}, r)
  BY ZenonT(30), <1>1, <1>2, <1>3, <1>4, BeginAsks
<1> WITNESS x, r
<1> QED
  BY ZenonT(30), <1>1, <1>2, <1>3, <1>5

\* pop goes on to free what it has read.
LEMMA PopAsks ==
  ASSUME Protocol, NEW t \in Callers, PopRead(t), Answer(t) = call[t].drp.val
  PROVE  \E x, r : /\ AsksFor(t, x, {call[t].drp.c}, r) /\ x.op = "delete" /\ x.drp = call[t].drp
                   /\ r.op = "free" /\ r.lba = call[t].drp.lba /\ r.len = call[t].drp.len
<1>1. PICK y : y = call[t] /\ y.op = "pop" /\ IsCall(y) /\ y.before \in 0 .. puts
  BY ZenonT(30) DEF Protocol, CallTypes, PopRead, Replied
<1>2. inbox[t] # <<>> /\ call[t].op # "sync_all" /\ puts \in Nat
  BY Zenon DEF PopRead, Replied, Protocol, CallTypes
<1>3. NoneAsked(t)
  BY SMTT(30), <1>2, AnsweredAsksNone
<1> DEFINE x == [y EXCEPT !.op = "delete"]
           r == Rpc("free", t, y.drp.lba, y.drp.len, 0)
<1>4. IsCall(x) /\ x.op = "delete" /\ x.drp = y.drp /\ x.before = y.before
  <2>1. x = [op |-> "delete", drp |-> y.drp, before |-> y.before, at |-> y.at]
    BY <1>1, IsCallFields DEF IsCall
  <2> QED
    BY <2>1, IsCallFields
<1>5. r.caller = t /\ r.val \in Nat /\ r.op = "free" /\ r.lba = y.drp.lba /\ r.len = y.drp.len
  BY Zenon DEF Rpc
<1>6. /\ call' = [call EXCEPT ![t] = x] /\ inbox' = [inbox EXCEPT ![t] = <<>>]
      /\ SendTo({y.drp.c}, r) /\ UNCHANGED puts
  BY ZenonT(30), <1>1 DEF PopRead, Free, Send
<1> HIDE DEF x, r
<1>7. <<r.op, x.op>> \in AskedBy
  BY <1>4, <1>5 DEF AskedBy
<1>8. AsksFor(t, x, {y.drp.c}, r)
  <2>1. puts' \in Nat /\ puts <= puts' /\ x.before \in 0 .. puts'
    BY <1>1, <1>2, <1>4, <1>6
  <2>2. r.op # "shutdown" /\ r.op # "write"
    BY SMTT(30), <1>5
  <2> QED
    BY ZenonT(30), <1>3, <1>4, <1>5, <1>6, <1>7, <2>1, <2>2 DEF AsksFor
<1> WITNESS x, r
<1> QED
  BY Zenon, <1>1, <1>4, <1>5, <1>8

\* list_closed_zones goes on from the next cursor.
LEMMA ListMoreAsks ==
  ASSUME Protocol, NEW t \in Callers, ListMore(t), NEW next, next = NextCursor(call[t].at, Answer(t)),
         next.c # None, Answer(t) # EPIPE
  PROVE  \E x, r : /\ AsksFor(t, x, {next.c}, r) /\ x.op = "list" /\ x.drp = call[t].drp
                   /\ x.at = next /\ r.op = "find_closed_zone" /\ r.lba = next.z
<1>1. PICK y : y = call[t] /\ y.op = "list" /\ IsCall(y) /\ y.before \in 0 .. puts
  BY Zenon DEF Protocol, CallTypes, ListMore, Replied
<1>2. inbox[t] # <<>> /\ call[t].op # "sync_all" /\ puts \in Nat
  BY ZenonT(30) DEF ListMore, Replied, Protocol, CallTypes
<1>3. NoneAsked(t)
  BY Zenon, <1>2, AnsweredAsksNone
<1> DEFINE x == [y EXCEPT !.at = next]
           r == Rpc("find_closed_zone", t, next.z, 0, 0)
<1>4. IsCall(x) /\ x.op = "list" /\ x.drp = y.drp /\ x.before = y.before /\ x.at = next
  <2>1. x = [op |-> "list", drp |-> y.drp, before |-> y.before, at |-> next]
    BY <1>1, IsCallFields DEF IsCall
  <2> QED
    BY SMTT(30), <2>1, IsCallFields
<1>5. r.caller = t /\ r.val \in Nat /\ r.op = "find_closed_zone" /\ r.lba = next.z
  BY Zenon DEF Rpc
<1>6. /\ call' = [call EXCEPT ![t] = x] /\ inbox' = [inbox EXCEPT ![t] = <<>>]
      /\ SendTo({next.c}, r) /\ UNCHANGED puts
  BY Zenon, <1>1 DEF ListMore, Send
<1> HIDE DEF x, r
<1>7. <<r.op, x.op>> \in AskedBy
  BY ZenonT(30), <1>4, <1>5 DEF AskedBy
<1>8. AsksFor(t, x, {next.c}, r)
  <2>1. puts' \in Nat /\ puts <= puts' /\ x.before \in 0 .. puts'
    BY SMTT(30), <1>1, <1>2, <1>4, <1>6
  <2>2. r.op # "shutdown" /\ r.op # "write"
    BY ZenonT(30), <1>5
  <2> QED
    BY ZenonT(30), <1>3, <1>4, <1>5, <1>6, <1>7, <2>1, <2>2 DEF AsksFor
<1> WITNESS x, r
<1> QED
  BY ZenonT(30), <1>1, <1>4, <1>5, <1>8

\* The kinds of steps there are.
Asking(t) ==
    /\ \E x, cs, r : AsksFor(t, x, cs, r) /\ (List(t) \/ ListMore(t) \/ (x.op # "list" /\ UNCHANGED <<throughout, listed>>))
    /\ UNCHANGED <<zones, media, stable>>
Returning(t) ==
    /\ NoneAsked(t) /\ Return(t)
    /\ ListMore(t) \/ UNCHANGED listed
    /\ UNCHANGED <<queue, puts, zones, media, stable, throughout>>
Serving1(c) == Serve(c) /\ UNCHANGED <<call, puts, listed>>
Resting == UNCHANGED <<queue, inbox, call, puts, zones, media, stable, throughout, listed>>

\* put is a step that asks.
LEMMA PutKind ==
  ASSUME Protocol, NEW t \in Callers, NEW len, NEW direct, Put(t, len, direct)
  PROVE  Asking(t)
<1>1. PICK c, x, r : PutSends(t, len, direct, c, x, r)
  BY SMTT(30), PutAsks
<1> QED
  BY Zenon, <1>1 DEF Asking, Put, PutSends

\* So is every beginning of a call.
LEMMA BeginKind ==
  ASSUME Protocol, NEW t \in Callers,
         \/ \E len \in Lens : Put(t, len, len \in DirectLens)
         \/ Get(t) \/ Delete(t) \/ Pop(t) \/ List(t) \/ SyncAll(t)
  PROVE  Asking(t)
<1>1. ASSUME NEW len \in Lens, Put(t, len, len \in DirectLens) PROVE Asking(t)
  BY ZenonT(30), <1>1, PutKind, Zenon
<1>2. ASSUME Get(t) \/ Pop(t) PROVE Asking(t)
  <2>1. PICK drp \in drps, op \in {"get", "pop"} : Read(t, drp, op) /\ Idle(t) /\ UNCHANGED <<inbox, puts>>
    BY ZenonT(30), <1>2 DEF Get, Pop
  <2>2. PICK x, r :
           /\ AsksFor(t, x, {drp.c}, r) /\ call[t].op = "none" /\ x.op = op /\ x.drp = drp
           /\ r.op = "read" /\ r.lba = drp.lba
    BY SMTT(30), <2>1, ReadAsks
  <2> QED
    BY Zenon, <1>2, <2>2 DEF Asking, Get, Pop
<1>3. ASSUME Delete(t) PROVE Asking(t)
  <2>1. PICK drp \in drps : Free(t, drp) /\ Begin(t, Call("delete", drp)) /\ Idle(t) /\ UNCHANGED <<inbox, puts>>
    BY ZenonT(30), <1>3 DEF Delete
  <2>2. PICK x, r : AsksFor(t, x, {drp.c}, r) /\ x.op = "delete"
    BY SMTT(30), <2>1, DeleteAsks
  <2> QED
    BY ZenonT(30), <1>3, <2>2 DEF Asking, Delete
<1>4. ASSUME SyncAll(t) PROVE Asking(t)
  <2>1. PICK x, r : AsksFor(t, x, Clusters, r) /\ x.op = "sync_all"
    BY SMTT(30), <1>4, SyncAsks
  <2> QED
    BY ZenonT(30), <1>4, <2>1 DEF Asking, SyncAll
<1>5. ASSUME List(t) PROVE Asking(t)
  <2>1. PICK x, r : AsksFor(t, x, {0}, r)
    BY ZenonT(30), <1>5, ListAsks
  <2> QED
    BY Zenon, <1>5, <2>1 DEF Asking, List
<1> QED
  BY SMTT(30), <1>1, <1>2, <1>3, <1>4, <1>5

\* What a call does with a reply is to ask for more or to return.
LEMMA StepKind ==
  ASSUME Protocol, NEW t \in Callers, Step(t)
  PROVE  Asking(t) \/ Returning(t)
<1>1. CASE PutDone(t) \/ GetDone(t) \/ DeleteDone(t)
  <2>1. NoneAsked(t)
    BY Zenon, <1>1, AnsweredAsksNone DEF PutDone, GetDone, DeleteDone, Replied
  <2> QED
    BY ZenonT(30), <1>1, <2>1 DEF Returning, PutDone, GetDone, DeleteDone
<1>2. CASE SyncDone(t)
  <2>1. NoneAsked(t)
    BY ZenonT(30), <1>2, SyncedAsksNone DEF SyncDone, Everywhere
  <2> QED
    BY ZenonT(30), <1>2, <2>1 DEF Returning, SyncDone
<1>3. CASE PopRead(t)
  <2>1. CASE Answer(t) = call[t].drp.val
    <3>1. PICK x, r : AsksFor(t, x, {call[t].drp.c}, r) /\ x.op = "delete"
      BY ZenonT(30), <1>3, <2>1, PopAsks
    <3> QED
      BY ZenonT(30), <1>3, <3>1 DEF Asking, PopRead
  <2>2. CASE Answer(t) # call[t].drp.val
    <3>1. NoneAsked(t)
      BY Zenon, <1>3, AnsweredAsksNone DEF PopRead, Replied
    <3> QED
      BY ZenonT(30), <1>3, <2>2, <3>1 DEF Returning, PopRead
  <2> QED
    BY <2>1, <2>2
<1>4. CASE ListMore(t)
  <2>1. PICK next : next = NextCursor(call[t].at, Answer(t))
    OBVIOUS
  <2>2. CASE next.c # None /\ Answer(t) # EPIPE
    <3>1. PICK x, r : AsksFor(t, x, {next.c}, r)
      BY Zenon, <1>4, <2>1, <2>2, ListMoreAsks
    <3> QED
      BY ZenonT(30), <1>4, <3>1 DEF Asking, ListMore
  <2>3. CASE next.c = None \/ Answer(t) = EPIPE
    <3>1. NoneAsked(t)
      BY Zenon, <1>4, AnsweredAsksNone DEF ListMore, Replied
    <3> QED
      BY ZenonT(30), <1>4, <2>1, <2>3, <3>1 DEF Returning, ListMore
  <2> QED
    BY <2>2, <2>3
<1> QED
  BY <1>1, <1>2, <1>3, <1>4 DEF Step

\* Every step of the system is of one of these kinds.
LEMMA Kinds ==
  ASSUME Protocol, [Next]_vars
  PROVE  \/ \E t \in Callers : Asking(t) \/ Returning(t)
         \/ \E c \in Clusters : Serving1(c)
         \/ Shutdown
         \/ Resting
<1>1. CASE Evict \/ Open \/ UNCHANGED vars
  BY Zenon, <1>1 DEF Evict, Open, vars, Resting
<1>2. ASSUME NEW c \in Clusters, Serves(c) PROVE Serving1(c)
  BY SMTT(30), <1>2 DEF Serves, Serving1
<1> QED
  BY ZenonT(30), <1>1, <1>2, BeginKind, StepKind DEF Next

\* Every step keeps the protocol.
LEMMA ProtocolStep ==
  ASSUME Protocol, [Next]_vars
  PROVE  Protocol'
<1>1. ASSUME NEW t \in Callers, Asking(t) PROVE Protocol'
  BY SMTT(30), <1>1, AsksKeeps DEF Asking
<1>2. ASSUME NEW t \in Callers, Returning(t) PROVE Protocol'
  BY <1>2, ReturnKeeps DEF Returning
<1>3. ASSUME NEW c \in Clusters, Serving1(c) PROVE Protocol'
  <2>1. CASE ServeShutdown(c)
    BY SMTT(30), <1>3, <2>1, ServeShutdownKeeps DEF Serving1
  <2>2. CASE ~ ServeShutdown(c)
    <3>1. queue[c] # <<>> /\ Head(queue[c]).op # "shutdown" /\ \E res : Reply(c, res)
      BY ZenonT(30), <1>3, <2>2 DEF Serving1, Serve, Serving, ServeWrite, ServeRead, ServeFree,
         ServeSync,
         ServeFindClosedZone
    <3> QED
      BY SMTT(30), <1>3, <3>1, ReplyKeeps DEF Serving1
  <2> QED
    BY SMTT(30), <2>1, <2>2
<1>4. ASSUME Resting PROVE Protocol'
  BY SMTT(30), <1>4 DEF Resting, Protocol, CallTypes, QueueTypes, Matching, OneShutdown, Waits,
     OneEach,
     OneOnly, Asks
<1> QED
  BY SMTT(30), <1>1, <1>2, <1>3, <1>4, Kinds, ShutdownKeeps

\* The protocol holds at first.
LEMMA ProtocolInit == Init => Protocol
<1> SUFFICES ASSUME Init PROVE Protocol
  OBVIOUS
<1>1. <<>> \in Seq({}) /\ DOMAIN <<>> = {}
  OBVIOUS
<1>2. queue = [c \in Clusters |-> <<>>] /\ inbox = [t \in Callers |-> <<>>] /\ call = [t \in Callers |-> NoCall] /\ puts = 0
  BY Zenon DEF Init, PoolInit
<1>3. IsCall(NoCall) /\ NoCall.before = 0
  BY Zenon DEF NoCall, IsCall
<1>4. CallTypes
  BY SMTT(30), <1>2, <1>3 DEF CallTypes
<1>5. QueueTypes
  BY SMTT(30), <1>1, <1>2 DEF QueueTypes, IsSeq
<1>6. Matching /\ OneShutdown /\ Waits
  BY SMTT(30), <1>1, <1>2 DEF Matching, OneShutdown, Waits, OneEach, OneOnly
<1> QED
  BY <1>4, <1>5, <1>6 DEF Protocol

\* A caller never waits for two answers of one Cluster, and what is in a channel is a
\* request of the call that its caller is in: DDML's calls and the oneshot channels that
\* ClusterServer answers on, for any callers, Clusters, zones and records.
THEOREM ProtocolHolds == Spec => []Protocol
<1>1. Protocol /\ [Next]_vars => Protocol'
  BY ProtocolStep
<1> QED
  BY <1>1, ProtocolInit, PTL DEF Spec
=============================================================================
