---------------------------- MODULE ClusterProofs ----------------------------
(***************************************************************************)
(* Proofs about the zone allocator, for every number and size of zones,    *)
(* every stripe width and every set of record sizes.                       *)
(***************************************************************************)
EXTENDS Cluster, FiniteSetTheorems, WellFoundedInduction, TLAPS

-----------------------------------------------------------------------------
(* Facts about the operators the model is built from.                      *)

\* FindEmpty is well defined: a nonempty set of naturals has a least element.
LEMMA MinOfNats ==
    ASSUME NEW S, S \subseteq Nat, S # {}
    PROVE  Min(S) \in S /\ \A y \in S : Min(S) <= y
<1> DEFINE R == {ss \in Nat \X Nat : ss[1] < ss[2]}
<1>1. IsWellFoundedOn(R, Nat)
  BY NatLessThanWellFounded DEF OpToRel
<1>2. \E x \in S : \A y \in S : ~ (<<y, x>> \in R)
  <2> HIDE DEF R
  <2> QED
    BY Zenon, <1>1, WFMin
<1>3. \E x \in S : \A y \in S : x <= y
  <2>1. PICK x \in S : \A y \in S : ~ (<<y, x>> \in R)
    BY <1>2
  <2>2. \A y \in S : ~ (y < x)
    BY Zenon, <2>1
  <2> QED
    BY <2>2
<1> QED
  BY Zenon, <1>3 DEF Min

\* The truncation of the zone vector is well defined: a nonempty set of
\* naturals below n has a greatest element.
LEMMA MaxOfNats ==
    ASSUME NEW n \in Nat, NEW S, S \subseteq 0 .. n - 1, S # {}
    PROVE  Max(S) \in S /\ \A y \in S : y <= Max(S)
<1> DEFINE T == {n - y : y \in S}
<1>1. T \subseteq Nat /\ T # {}
  <2>1. \A y \in S : n - y \in Nat
    OBVIOUS
  <2>2. PICK y \in S : TRUE
    BY Zenon
  <2>3. n - y \in T
    BY <2>2
  <2> QED
    BY <2>1, <2>3
<1>2. Min(T) \in T /\ \A y \in T : Min(T) <= y
  BY Zenon, <1>1, MinOfNats
<1>3. PICK x \in S : Min(T) = n - x
  BY Zenon, <1>2
<1>4. \A y \in S : y <= x
  <2> TAKE y \in S
  <2>1. Min(T) <= n - y
    BY <1>2
  <2> QED
    BY <2>1, <1>3
<1>5. \E x1 \in S : \A y \in S : x1 >= y
  BY <1>4
<1> QED
  BY Zenon, <1>5 DEF Max

\* The padding of a flush ends at a stripe boundary and stays in the zone.
LEMMA PaddingFits ==
    ASSUME NEW s \in Nat \ {0}, NEW a \in Nat, NEW b \in Nat, a <= b, b % s = 0
    PROVE  LET gap == (s - (a % s)) % s
           IN gap \in Nat /\ a + gap <= b /\ (a + gap) % s = 0
<1> DEFINE q == a \div s
           p == b \div s
           r == a % s
<1>1. q \in Nat /\ p \in Nat /\ r \in 0 .. s - 1 /\ a = s * q + r /\ b = s * p
  OBVIOUS
<1> HIDE DEF q, p, r
<1>2. CASE r = 0
  BY <1>1, <1>2 DEF r
<1>3. CASE r # 0
  <2>1. (s - r) % s = s - r
    BY <1>1, <1>3
  <2>2. q < p
    BY <1>1, <1>3
  <2>3. a + (s - r) = s * (q + 1)
    BY <1>1
  <2>4. s * (q + 1) <= s * p
    BY <2>2, <1>1
  <2>5. (s * (q + 1)) % s = 0
    BY <1>1
  <2> QED
    BY <1>1, <2>1, <2>3, <2>4, <2>5 DEF r
<1> QED
  BY <1>2, <1>3

-----------------------------------------------------------------------------
(* How the blocks of a set of records change when one is added or removed. *)

LEMMA AddExtent ==
    ASSUME NEW L, L \subseteq Extent, NEW e \in Extent, NEW z
    PROVE  /\ e.zone = z => BlocksIn(L \cup {e}, z) = BlocksIn(L, z) \cup Lbas(e)
           /\ e.zone # z => BlocksIn(L \cup {e}, z) = BlocksIn(L, z)
BY DEF BlocksIn, ExtentsIn

LEMMA RemoveExtent ==
    ASSUME NEW L, L \subseteq Extent, NEW e \in L, Disjoint(L), NEW z
    PROVE  /\ e.zone = z => BlocksIn(L \ {e}, z) = BlocksIn(L, z) \ Lbas(e)
           /\ e.zone # z => BlocksIn(L \ {e}, z) = BlocksIn(L, z)
           /\ Lbas(e) \subseteq BlocksIn(L, e.zone)
BY DEF BlocksIn, ExtentsIn, Disjoint

LEMMA LbasCardinality ==
    ASSUME NEW e \in Extent
    PROVE  IsFiniteSet(Lbas(e)) /\ Cardinality(Lbas(e)) = e.len
<1>1. e.off \in Int /\ e.off + e.len - 1 \in Int /\ e.len > 0 /\ e.len \in Int
  BY DEF Extent
<1> DEFINE a == e.off
           b == e.off + e.len - 1
<1> HIDE DEF a, b
<1>2. IsFiniteSet(a .. b) /\ Cardinality(a .. b) = IF a > b THEN 0 ELSE b - a + 1
  <2>1. a \in Int /\ b \in Int
    BY <1>1 DEF a, b
  <2> QED
    BY <2>1, FS_Interval
<1>3. Lbas(e) = a .. b
  BY DEF Lbas, a, b
<1>4. (IF a > b THEN 0 ELSE b - a + 1) = e.len
  BY <1>1 DEF a, b
<1> QED
  BY <1>2, <1>3, <1>4

LEMMA BoundedIsFinite ==
    ASSUME NEW S, NEW n \in Int, S \subseteq 0 .. n - 1
    PROVE  IsFiniteSet(S) /\ Cardinality(S) \in Nat
<1> DEFINE b == n - 1
<1> HIDE DEF b
<1>1. IsFiniteSet(0 .. b)
  <2>1. 0 \in Int /\ b \in Int
    BY DEF b
  <2> QED
    BY <2>1, FS_Interval
<1>2. S \in SUBSET (0 .. b)
  BY DEF b
<1> QED
  BY Zenon, <1>1, <1>2, FS_Subset, FS_CardinalityType

\* A record written at or above the limit of the others adds its length.
LEMMA AddCardinality ==
    ASSUME NEW L, L \subseteq Extent, NEW e \in Extent,
           BlocksIn(L, e.zone) \subseteq 0 .. e.off - 1
    PROVE  Cardinality(BlocksIn(L \cup {e}, e.zone))
             = Cardinality(BlocksIn(L, e.zone)) + e.len
<1>1. e.off \in Int
  BY DEF Extent
<1>2. IsFiniteSet(BlocksIn(L, e.zone))
  BY <1>1, BoundedIsFinite
<1>3. BlocksIn(L, e.zone) \cap Lbas(e) = {}
  BY <1>1 DEF Lbas, Extent
<1>4. Cardinality(BlocksIn(L, e.zone)) \in Nat /\ e.len \in Nat
  BY <1>2, FS_CardinalityType DEF Extent
<1>5. Cardinality(BlocksIn(L, e.zone) \cup Lbas(e))
        = Cardinality(BlocksIn(L, e.zone)) + Cardinality(Lbas(e)) - 0
  BY <1>2, <1>3, LbasCardinality, FS_Union, FS_EmptySet
<1>6. BlocksIn(L \cup {e}, e.zone) = BlocksIn(L, e.zone) \cup Lbas(e)
  BY AddExtent
<1>7. Cardinality(Lbas(e)) = e.len
  BY LbasCardinality
<1>8. Cardinality(BlocksIn(L \cup {e}, e.zone)) = Cardinality(BlocksIn(L, e.zone) \cup Lbas(e))
  BY <1>6, Zenon
<1> QED
  <2> DEFINE m == Cardinality(BlocksIn(L, e.zone))
             k == Cardinality(BlocksIn(L \cup {e}, e.zone))
  <2>1. m \in Nat /\ k = m + Cardinality(Lbas(e)) - 0 /\ Cardinality(Lbas(e)) = e.len
    BY <1>4, <1>5, <1>7, <1>8
  <2> HIDE DEF m, k
  <2>2. k = m + e.len
    BY <2>1, <1>4
  <2> QED
    BY <2>2 DEF m, k

\* Freeing a record subtracts its length, and when that is all there was, no
\* record is left in the zone.
LEMMA RemoveCardinality ==
    ASSUME NEW L, L \subseteq Extent, NEW e \in L, Disjoint(L), NEW n \in Nat,
           BlocksIn(L, e.zone) \subseteq 0 .. n - 1
    PROVE  /\ Cardinality(BlocksIn(L \ {e}, e.zone))
                = Cardinality(BlocksIn(L, e.zone)) - e.len
           /\ Cardinality(BlocksIn(L, e.zone)) \in Nat
           /\ e.len <= Cardinality(BlocksIn(L, e.zone))
           /\ Cardinality(BlocksIn(L, e.zone)) = e.len => ExtentsIn(L \ {e}, e.zone) = {}
<1> DEFINE B == BlocksIn(L, e.zone)
<1>0. e \in Extent
  OBVIOUS
<1>1. IsFiniteSet(B) /\ Cardinality(B) \in Nat
  BY BoundedIsFinite
<1>2. Lbas(e) \subseteq B /\ BlocksIn(L \ {e}, e.zone) = B \ Lbas(e)
  BY RemoveExtent
<1>3. Cardinality(Lbas(e)) = e.len /\ IsFiniteSet(Lbas(e)) /\ e.len \in Nat
  BY <1>0, LbasCardinality DEF Extent
<1>4. B \cap Lbas(e) = Lbas(e)
  BY <1>2
<1>5. Cardinality(B \ Lbas(e)) = Cardinality(B) - Cardinality(Lbas(e))
  <2> HIDE DEF B
  <2>1. Cardinality(B \ Lbas(e)) = Cardinality(B) - Cardinality(B \cap Lbas(e))
    BY Zenon, <1>1, <1>3, FS_Difference
  <2> QED
    BY <1>4, <2>1
<1>6. e.len <= Cardinality(B)
  BY <1>1, <1>2, <1>3, FS_Subset
<1>7. ASSUME Cardinality(B) = e.len
      PROVE  ExtentsIn(L \ {e}, e.zone) = {}
  <2>1. B = Lbas(e)
    BY <1>1, <1>2, <1>3, <1>7, FS_Subset
  <2>2. BlocksIn(L \ {e}, e.zone) = {}
    BY <2>1, <1>2
  <2>3. \A d \in ExtentsIn(L \ {e}, e.zone) : d.off \in Lbas(d)
    BY DEF ExtentsIn, Lbas, Extent
  <2> QED
    BY Zenon, <2>2, <2>3 DEF BlocksIn
<1> QED
  BY Zenon, <1>1, <1>2, <1>3, <1>5, <1>6, <1>7

-----------------------------------------------------------------------------
(* The inductive invariant holds initially and is preserved by every       *)
(* action: one lemma per action.                                           *)

LEMMA LiveBounded ==
    ASSUME TypeOK, ExtentsIntact, NEW z \in Zones
    PROVE  Limit(z) \in Nat /\ BlocksIn(live, z) \subseteq 0 .. Limit(z) - 1
<1>1. Limit(z) \in Nat
  BY SpaceAssumption DEF TypeOK, Limit
<1>2. \A e \in ExtentsIn(live, z) : Lbas(e) \subseteq 0 .. Limit(z) - 1
  <2> TAKE e \in ExtentsIn(live, z)
  <2>1. e.off \in Nat /\ e.len \in Nat /\ e.off + e.len <= Limit(z)
    BY DEF TypeOK, ExtentsIntact, ExtentsIn, Extent
  <2> QED
    BY <2>1, <1>1 DEF Lbas
<1> QED
  BY <1>1, <1>2 DEF BlocksIn

LEMMA InitIndInv == Init => IndInv
<1> SUFFICES ASSUME Init PROVE IndInv
  OBVIOUS
<1> USE DEF Init
<1>1. TypeOK
  BY TotalZonesAssumption DEF TypeOK, Zone, ZoneOnDisk, NoZone, NoZoneOnDisk
<1>2. Shape /\ OneOpenZone
  BY DEF Shape, OneOpenZone, IsOpen, IsEmpty
<1>3. ExtentsIntact /\ LiveTxgsInRange
  BY DEF ExtentsIntact, Disjoint, LiveTxgsInRange
<1>4. InUseIsLive
  <2>1. \A z \in Zones : BlocksIn(live, z) = {} /\ InUse(z) = 0
    BY DEF BlocksIn, ExtentsIn, InUse, IsEmpty, Zones
  <2> QED
    BY <2>1, FS_EmptySet DEF InUseIsLive
<1>5. TxgsBounded
  BY TotalZonesAssumption, SpaceAssumption DEF TxgsBounded, Zones
<1>6. SpacemapCurrent
  BY DEF SpacemapCurrent, Blocks
<1>7. SpacemapReopens
  BY DEF SpacemapReopens, OpenOnDisk, OnDisk, NoZoneOnDisk
<1> QED
  BY <1>1, <1>2, <1>3, <1>4, <1>5, <1>6, <1>7 DEF IndInv, FlushedOnce

\* An operation that marks the blocks of the zones it changes as dirty, and
\* writes no spacemap, keeps the spacemap current.
LEMMA DirtyMarked ==
    ASSUME SpacemapCurrent, UNCHANGED smap, dirty \subseteq dirty',
           \A z \in Zones : Block(z) \notin dirty' =>
               /\ (IsEmpty(z)' <=> IsEmpty(z)) /\ (IsOpen(z)' <=> IsOpen(z))
               /\ ~ IsEmpty(z) => /\ zones'[z] = zones[z]
                                 /\ allocated'[z] = allocated[z]
    PROVE  SpacemapCurrent'
<1> SUFFICES ASSUME NEW z \in Zones, Block(z) \notin dirty'
             PROVE  smap'[0][z] = Serialize(z, zones, allocated)'
  BY DEF SpacemapCurrent, OnDisk
<1>1. smap[0][z] = Serialize(z, zones, allocated)
  BY DEF SpacemapCurrent, OnDisk
<1>2. Serialize(z, zones, allocated)' = Serialize(z, zones, allocated)
  BY DEF Serialize
<1> QED
  BY <1>1, <1>2

LEMMA FreeOnlyStep ==
    ASSUME IndInv, NEW e \in live, FreeOnly(e)
    PROVE  IndInv'
<1> USE DEF IndInv, FreeOnly
<1>0. e \in Extent /\ e.zone \in Zones /\ e.len \in Nat /\ zones[e.zone] \in Zone
  BY DEF TypeOK, Extent
<1>1. \A z \in Zones : /\ zones'[z] = IF z = e.zone THEN [zones[z] EXCEPT !.freed = @ + e.len]
                                                    ELSE zones[z]
                       /\ zones'[z].start = zones[z].start /\ zones'[z].end = zones[z].end
                       /\ zones'[z].freed = IF z = e.zone THEN zones[z].freed + e.len
                                                          ELSE zones[z].freed
                       /\ (IsEmpty(z)' <=> IsEmpty(z)) /\ (IsOpen(z)' <=> IsOpen(z))
                       /\ (IsClosed(z)' <=> IsClosed(z)) /\ Limit(z)' = Limit(z)
  BY Zenon, <1>0 DEF TypeOK, Zone, IsEmpty, IsOpen, IsClosed, Limit
<1>2. TypeOK'
  BY <1>0 DEF TypeOK, Zone, Blocks
<1>3. Shape' /\ OneOpenZone'
  BY DEF Shape, OneOpenZone, IsOpen, IsEmpty
<1>4. ExtentsIntact'
  <2>1. \A d \in live : d.zone \in Zones
    BY DEF TypeOK, Extent
  <2> QED
    BY ZenonT(30), <1>1, <2>1 DEF ExtentsIntact, Disjoint
<1>5. InUseIsLive'
  <2> SUFFICES ASSUME NEW z \in Zones
               PROVE  InUse(z)' = Cardinality(BlocksIn(live', z))
    BY DEF InUseIsLive
  <2>0. InUse(z) = Cardinality(BlocksIn(live, z))
    BY DEF InUseIsLive
  <2>1. live \subseteq Extent /\ Disjoint(live)
    BY DEF TypeOK, ExtentsIntact
  <2>2. CASE z # e.zone
    <3>1. BlocksIn(live', z) = BlocksIn(live, z)
      BY <2>1, <2>2, RemoveExtent
    <3> QED
      BY ZenonT(30), <1>1, <2>0, <2>2, <3>1 DEF InUse
  <2>3. CASE z = e.zone
    <3>1. Cardinality(BlocksIn(live', z)) = InUse(z) - e.len
      BY Zenon, <2>0, <2>1, <2>3, <1>0, LiveBounded, RemoveCardinality
    <3>2. ~ IsEmpty(z)
      BY <2>3 DEF ExtentsIntact
    <3>3. zones[z].freed \in Nat /\ allocated[z] \in Nat /\ Space[z] \in Nat
      BY Zenon, SpaceAssumption DEF TypeOK, Zone
    <3> QED
      BY SMTT(30), <1>0, <1>1, <2>3, <3>1, <3>2, <3>3 DEF InUse
  <2> QED
    BY <2>2, <2>3
<1>6. TxgsBounded'
  BY <1>1 DEF TxgsBounded, TypeOK, Zones
<1>7. LiveTxgsInRange'
  BY <1>1 DEF LiveTxgsInRange, TypeOK, Extent
<1>8. SpacemapCurrent'
  <2>1. \A z \in Zones : Block(z) \notin dirty' => z # e.zone
    OBVIOUS
  <2> QED
    BY Zenon, <1>1, <2>1, DirtyMarked
<1>9. SpacemapReopens'
  BY DEF SpacemapReopens, OpenOnDisk, OnDisk
<1>99. FlushedOnce'
  BY DEF FlushedOnce, FreeOnly
<1> QED
  BY <1>2, <1>3, <1>4, <1>5, <1>6, <1>7, <1>8, <1>9, <1>99

\* Where the zone vector ends after the trailing empty zones are dropped.
LEMMA TrailingEmpty ==
    ASSUME TypeOK, NEW empty
    PROVE  LET n == FirstTrailingEmpty(empty)
           IN /\ n \in 0 .. len
              /\ \A y \in 0 .. len - 1 : y \notin empty => y < n
              /\ n > 0 => n - 1 \notin empty
<1> DEFINE S == (0 .. len - 1) \ empty
<1>1. len \in Nat
  BY TotalZonesAssumption DEF TypeOK
<1>2. CASE S = {}
  BY <1>1, <1>2 DEF FirstTrailingEmpty
<1>3. CASE S # {}
  <2>1. Max(S) \in S /\ \A y \in S : y <= Max(S)
    BY <1>1, <1>3, MaxOfNats
  <2>2. FirstTrailingEmpty(empty) = Max(S) + 1
    BY <1>3 DEF FirstTrailingEmpty
  <2> HIDE DEF S
  <2>3. Max(S) \in 0 .. len - 1 /\ Max(S) \notin empty
    BY <2>1 DEF S
  <2>4. \A y \in 0 .. len - 1 : y \notin empty => y \in S
    BY DEF S
  <2> QED
    BY <1>1, <2>1, <2>2, <2>3, <2>4
<1> QED
  BY <1>2, <1>3

LEMMA FreeAndEraseStep ==
    ASSUME IndInv, NEW e \in live, FreeAndErase(e)
    PROVE  IndInv'
<1> USE DEF IndInv
<1> DEFINE z == e.zone
           empty == emptyZones \cup {z}
<1>0. /\ e \in Extent /\ z \in Zones /\ e.len \in Nat /\ zones[z] \in Zone
      /\ len \in Nat /\ len <= TotalZones /\ IsClosed(z)
  BY TotalZonesAssumption DEF TypeOK, Extent, FreeAndErase
<1>1. /\ len' \in 0 .. len
      /\ \A y \in 0 .. len - 1 : y \notin empty => y < len'
      /\ len' > 0 => len' - 1 \notin empty
  <2>1. CASE z = len - 1
    <3>1. len' = FirstTrailingEmpty(empty)
      BY <2>1 DEF FreeAndErase
    <3> QED
      BY <3>1, TrailingEmpty
  <2>2. CASE z # len - 1
    <3>1. len' = len
      BY <2>2 DEF FreeAndErase
    <3> QED
      BY <1>0, <2>2, <3>1 DEF Shape, IsEmpty
  <2> QED
    BY <2>1, <2>2
<1>1a. /\ len' \in Nat /\ len' <= TotalZones /\ TotalZones \in Nat
       /\ \A y \in openZones : y \in Zones /\ y \in 0 .. len - 1 /\ y \notin empty
       /\ \A y \in empty : y \in Nat
  BY SMTT(30), TotalZonesAssumption, <1>0, <1>1 DEF TypeOK, Shape, IsClosed, Zones
<1>2. /\ zones' = [zones EXCEPT ![z] = [freed |-> @.freed + e.len, start |-> 0, end |-> 0]]
      /\ emptyZones' = {y \in empty : y < len'}
      /\ dirty' = dirty \cup {Block(z)}
      /\ live' = live \ {e}
      /\ UNCHANGED <<openZones, allocated, smap, txg, phase>>
      /\ InUse(z) = e.len
  BY DEF FreeAndErase
<1>3. \A y \in Zones : IsEmpty(y)' <=> (IsEmpty(y) \/ y = z)
  BY <1>0, <1>1, <1>2 DEF IsEmpty, TypeOK, Zones
<1>4. \A y \in Zones : (IsOpen(y)' <=> IsOpen(y)) /\ Limit(y)' = Limit(y)
  BY <1>2 DEF IsOpen, Limit
<1>5. \A y \in Zones : y # z => zones'[y] = zones[y]
  BY <1>2 DEF TypeOK
<1>6. live \subseteq Extent /\ Disjoint(live) /\ \A d \in live : d.zone \in Zones
  BY DEF TypeOK, ExtentsIntact, Extent
<1>7. ExtentsIn(live', z) = {}
  <2>1. Cardinality(BlocksIn(live, z)) = e.len
    BY <1>0, <1>2 DEF InUseIsLive
  <2> QED
    BY Zenon, <1>0, <1>2, <1>6, <2>1, LiveBounded, RemoveCardinality
<1>8. \A d \in live' : d \in live /\ d.zone # z
  BY <1>2, <1>7 DEF ExtentsIn
<1>9. TypeOK'
  <2>1. emptyZones' \subseteq 0 .. len' - 1
    BY <1>1a, <1>2
  <2>2. openZones' \subseteq 0 .. len' - 1
    BY <1>1, <1>1a, <1>2
  <2>3. zones' \in [Zones -> Zone]
    BY <1>0, <1>2 DEF TypeOK, Zone
  <2>4. len' \in 0 .. TotalZones
    BY SMTT(30), <1>1a
  <2>5. dirty' \subseteq Blocks
    BY <1>0, <1>2 DEF TypeOK, Blocks
  <2> QED
    BY ZenonT(30), <1>2, <2>1, <2>2, <2>3, <2>4, <2>5 DEF TypeOK
<1>10. Shape'
  <2>1. emptyZones' \cap openZones' = {}
    BY <1>0, <1>2 DEF Shape, IsClosed
  <2>2. len' > 0 => ~ IsEmpty(len - 1)'
    <3>1. len' > 0 => len' - 1 \notin emptyZones'
      BY Zenon, <1>1, <1>2
    <3>2. \A n \in Nat : ~ (n - 1 >= n)
      OBVIOUS
    <3>3. len' \in Nat
      BY <1>1a
    <3> QED
      BY Zenon, <3>1, <3>2, <3>3 DEF IsEmpty
  <2>3. \A y \in Zones : (IF IsOpen(y) THEN 0 < allocated[y] /\ allocated[y] <= Space[y]
                                      ELSE allocated[y] = 0)'
    BY <1>2, <1>4 DEF Shape
  <2> QED
    BY <2>1, <2>2, <2>3 DEF Shape
<1>11. OneOpenZone'
  BY <1>2 DEF OneOpenZone
<1>12. ExtentsIntact'
  BY <1>2, <1>3, <1>4, <1>6, <1>8 DEF ExtentsIntact, Disjoint
<1>13. InUseIsLive'
  <2> SUFFICES ASSUME NEW y \in Zones
               PROVE  InUse(y)' = Cardinality(BlocksIn(live', y))
    BY DEF InUseIsLive
  <2>0. InUse(y) = Cardinality(BlocksIn(live, y))
    BY DEF InUseIsLive
  <2>1. CASE y # z
    <3>1. BlocksIn(live', y) = BlocksIn(live, y)
      BY <1>2, <1>6, <2>1, RemoveExtent
    <3> QED
      BY SMTT(30), <1>2, <1>3, <1>4, <1>5, <2>0, <2>1, <3>1 DEF InUse
  <2>2. CASE y = z
    <3>1. BlocksIn(live', y) = {}
      BY <1>7, <2>2 DEF BlocksIn
    <3>2. InUse(y)' = 0
      BY SMTT(30), <1>3, <2>2 DEF InUse
    <3> QED
      BY <3>1, <3>2, FS_EmptySet
  <2> QED
    BY <2>1, <2>2
<1>14. TxgsBounded'
  <2>1. \A y \in openZones : y \in Zones /\ y # z
    BY SMTT(30), <1>1a
  <2> QED
    BY <1>2, <1>5, <1>8, <2>1 DEF TxgsBounded
<1>15. LiveTxgsInRange'
  BY <1>5, <1>6, <1>8 DEF LiveTxgsInRange
<1>16. SpacemapCurrent'
  <2>1. \A y \in Zones : Block(y) \notin dirty' => y # z
    BY <1>2
  <2>2. UNCHANGED smap /\ dirty \subseteq dirty' /\ UNCHANGED allocated
    BY SMTT(30), <1>2
  <2>3. ASSUME NEW y \in Zones, Block(y) \notin dirty'
        PROVE  /\ (IsEmpty(y)' <=> IsEmpty(y)) /\ (IsOpen(y)' <=> IsOpen(y))
               /\ zones'[y] = zones[y] /\ allocated'[y] = allocated[y]
    BY SMTT(30), <1>3, <1>4, <1>5, <2>1, <2>2, <2>3
  <2> QED
    BY SMTT(30), <2>2, <2>3, DirtyMarked
<1>17. SpacemapReopens'
  BY <1>2 DEF SpacemapReopens, OpenOnDisk, OnDisk
<1>99. FlushedOnce'
  BY DEF FlushedOnce, FreeAndErase
<1> QED
  BY SMTT(30), <1>9, <1>10, <1>11, <1>12, <1>13, <1>14, <1>15, <1>16, <1>17, <1>99

\* As at most one zone is open, a write that finds room takes that zone and
\* finishes none.
LEMMA OpenZoneChosen ==
    ASSUME TypeOK, OneOpenZone, NEW space, HasRoom(space) # {}
    PROVE  LET z == Min(HasRoom(space))
           IN /\ z \in openZones /\ z \in Zones /\ z \in 0 .. len - 1
              /\ Available(z) >= space
              /\ NearlyFull(space) = {}
<1>1. HasRoom(space) \subseteq openZones /\ openZones \subseteq Nat /\ openZones \subseteq Zones
  BY TotalZonesAssumption DEF HasRoom, TypeOK, Zones
<1>2. Min(HasRoom(space)) \in HasRoom(space)
  BY Zenon, <1>1, MinOfNats
<1>3. \A y \in openZones : y = Min(HasRoom(space))
  BY Zenon, <1>1, <1>2 DEF OneOpenZone
<1>4. NearlyFull(space) = {}
  <2>1. \A y \in Nat : ~ (y < y)
    OBVIOUS
  <2>2. \A y \in openZones : y \in HasRoom(space) /\ ~ (y < y)
    BY SMTT(30), <1>1, <1>2, <1>3, <2>1
  <2> QED
    BY <2>2 DEF NearlyFull
<1> QED
  BY Zenon, <1>1, <1>2, <1>4 DEF HasRoom, TypeOK

LEMMA WriteOpenStep ==
    ASSUME IndInv, NEW space \in WriteSizes, WriteOpen(space)
    PROVE  IndInv'
<1> USE DEF IndInv
<1> DEFINE z == Min(HasRoom(space))
           e == NewExtent(z, allocated[z], space)
<1> HIDE DEF z
<1>1. /\ z \in openZones /\ z \in Zones /\ z \in 0 .. len - 1
      /\ Available(z) >= space /\ NearlyFull(space) = {}
  BY SMTT(30), OpenZoneChosen DEF WriteOpen, z
<1>2. /\ space \in Nat \ {0} /\ allocated[z] \in Nat /\ Space[z] \in Nat
      /\ allocated[z] + space <= Space[z] /\ Space[z] < U32Max
  BY <1>1, SizesAssumption, SpaceAssumption DEF TypeOK, Available, IsOpen
<1>3. /\ zones' = zones /\ openZones' = openZones
      /\ allocated' = [allocated EXCEPT ![z] = @ + space]
      /\ dirty' = dirty \cup {Block(z)}
      /\ live' = live \cup {e}
      /\ UNCHANGED <<len, emptyZones, smap, txg, phase>>
  <2>1. FinishZones({}) = zones /\ Unallocate({}) = allocated
    BY DEF FinishZones, Unallocate, TypeOK
  <2>2. {Block(y) : y \in {} \cup {z}} = {Block(z)}
    BY SMTT(30)
  <2>3. openZones \ {} = openZones
    BY SMTT(30)
  <2> QED
    BY <1>1, <2>1, <2>2, <2>3 DEF WriteOpen, z
<1>4. \A y \in Zones : /\ IsEmpty(y)' <=> IsEmpty(y)
                       /\ IsOpen(y)' <=> IsOpen(y)
                       /\ allocated'[y] = IF y = z THEN allocated[z] + space ELSE allocated[y]
  BY SMTT(30), <1>3 DEF IsEmpty, IsOpen, TypeOK
<1>5. e \in Extent /\ e.zone = z /\ e.off = allocated[z] /\ e.len = space /\ e.txg = txg
  BY <1>1, <1>2 DEF NewExtent, Extent, TypeOK
<1>6. live \subseteq Extent /\ \A d \in live : d.zone \in Zones /\ d.off \in Nat /\ d.len \in Nat
  BY DEF TypeOK, Extent
<1>7. BlocksIn(live, z) \subseteq 0 .. allocated[z] - 1
  BY <1>1, LiveBounded DEF Limit, IsOpen
<1>8. TypeOK'
  <2>1. allocated' \in [Zones -> Nat]
    <3>1. allocated[z] + space \in Nat
      BY SMTT(30), <1>2
    <3> QED
      BY Zenon, <1>3, <3>1 DEF TypeOK
  <2> QED
    BY <1>1, <1>3, <1>5, <2>1 DEF TypeOK, Blocks
<1>9. Shape'
  <2>1. \A y \in Zones : (IF IsOpen(y) THEN 0 < allocated[y] /\ allocated[y] <= Space[y]
                                      ELSE allocated[y] = 0)'
    BY <1>1, <1>2, <1>4 DEF Shape, IsOpen
  <2> QED
    BY <1>3, <2>1 DEF Shape, IsEmpty
<1>10. OneOpenZone'
  BY <1>3 DEF OneOpenZone
<1>11. ExtentsIntact'
  <2>1. \A d \in live : d.zone = z => Lbas(d) \cap Lbas(e) = {}
    <3> SUFFICES ASSUME NEW d \in live, d.zone = z
                 PROVE  Lbas(d) \cap Lbas(e) = {}
      BY SMTT(30)
    <3>1. d.off + d.len <= allocated[z]
      BY SMTT(30), <1>1 DEF ExtentsIntact, Limit, IsOpen
    <3> QED
      BY <1>2, <1>5, <1>6, <3>1 DEF Lbas
  <2>2. Disjoint(live')
    BY SMTT(30), <1>3, <1>5, <2>1 DEF ExtentsIntact, Disjoint
  <2>3. \A d \in live' : (~ IsEmpty(d.zone) /\ d.off + d.len <= Limit(d.zone))'
    <3> SUFFICES ASSUME NEW d \in live'
                 PROVE  ~ IsEmpty(d.zone)' /\ d.off + d.len <= Limit(d.zone)'
      BY SMTT(30)
    <3>1. CASE d = e
      <4>1. ~ IsEmpty(z)
        BY SMTT(30), <1>1 DEF IsEmpty, Shape, TypeOK
      <4> QED
        BY <1>1, <1>2, <1>4, <1>5, <3>1, <4>1 DEF Limit, IsOpen
    <3>2. CASE d \in live
      <4>1. ~ IsEmpty(d.zone) /\ d.off + d.len <= Limit(d.zone)
        BY SMTT(30), <3>2 DEF ExtentsIntact
      <4>2. ASSUME NEW y \in Zones
            PROVE  Limit(y) \in Nat /\ Limit(y)' \in Nat /\ Limit(y) <= Limit(y)'
        <5>1. allocated[y] \in Nat /\ Space[y] \in Nat
          BY SpaceAssumption DEF TypeOK
        <5> QED
          BY <1>1, <1>2, <1>4, <5>1 DEF Limit
      <4> QED
        BY <1>4, <1>6, <3>2, <4>1, <4>2
    <3> QED
      BY <1>3, <3>1, <3>2
  <2> QED
    BY SMTT(30), <2>2, <2>3 DEF ExtentsIntact
<1>12. InUseIsLive'
  <2> SUFFICES ASSUME NEW y \in Zones
               PROVE  InUse(y)' = Cardinality(BlocksIn(live', y))
    BY SMTT(30) DEF InUseIsLive
  <2>0. InUse(y) = Cardinality(BlocksIn(live, y))
    BY SMTT(30) DEF InUseIsLive
  <2>1. CASE y # z
    <3>1. BlocksIn(live', y) = BlocksIn(live, y)
      BY ZenonT(30), <1>3, <1>5, <1>6, <2>1, AddExtent
    <3> QED
      BY SMTT(30), <1>3, <1>4, <2>0, <2>1, <3>1 DEF InUse
  <2>2. CASE y = z
    <3>1. Cardinality(BlocksIn(live', z)) = InUse(z) + space
      <4>1. live' = live \cup {e} /\ BlocksIn(live, e.zone) \subseteq 0 .. e.off - 1
        BY <1>3, <1>5, <1>7
      <4> HIDE DEF e
      <4>2. Cardinality(BlocksIn(live', e.zone)) = Cardinality(BlocksIn(live, e.zone)) + e.len
        BY ZenonT(30), <1>5, <1>6, <4>1, AddCardinality
      <4> QED
        BY SMTT(30), <1>5, <2>0, <2>2, <4>2
    <3>2. ~ IsEmpty(z) /\ IsOpen(z) /\ zones[z].freed \in Nat
      BY <1>1 DEF IsEmpty, IsOpen, Shape, TypeOK, Zone
    <3> QED
      BY SMTT(30), <1>1, <1>2, <1>3, <1>4, <2>2, <3>1, <3>2 DEF InUse
  <2> QED
    BY <2>1, <2>2
<1>13. TxgsBounded'
  BY SMTT(30), <1>3, <1>5 DEF TxgsBounded, TypeOK
<1>14. LiveTxgsInRange'
  BY SMTT(30), <1>1, <1>3, <1>5 DEF LiveTxgsInRange, TxgsBounded
<1>15. SpacemapCurrent'
  <2>1. \A y \in Zones : Block(y) \notin dirty' => y # z
    BY SMTT(30), <1>3
  <2> QED
    BY SMTT(30), <1>3, <1>4, <2>1, DirtyMarked
<1>16. SpacemapReopens'
  BY SMTT(30), <1>3 DEF SpacemapReopens, OpenOnDisk, OnDisk
<1>99. FlushedOnce'
  BY SMTT(30) DEF FlushedOnce, WriteOpen
<1> QED
  BY SMTT(30), <1>8, <1>9, <1>10, <1>11, <1>12, <1>13, <1>14, <1>15, <1>16, <1>99

\* When no open zone has room, every open zone is finished.
LEMMA AllFinished ==
    ASSUME IndInv, NEW space, HasRoom(space) = {}
    PROVE  LET F == NearlyFull(space)
           IN /\ F = openZones /\ openZones \ F = {}
              /\ Unallocate(F) = [y \in Zones |-> 0]
              /\ FinishZones(F) \in [Zones -> Zone]
              /\ \A y \in Zones :
                   IF IsOpen(y)
                   THEN /\ FinishZones(F)[y].freed = zones[y].freed + Space[y] - allocated[y]
                        /\ FinishZones(F)[y].start = zones[y].start
                        /\ FinishZones(F)[y].end = txg + 1
                   ELSE FinishZones(F)[y] = zones[y]
<1> USE DEF IndInv
<1>1. NearlyFull(space) = openZones
  BY DEF NearlyFull
<1>2. Unallocate(openZones) = [y \in Zones |-> 0]
  BY DEF Unallocate, Shape, IsOpen
<1>3. \A y \in Zones : zones[y] \in Zone /\ Space[y] \in Nat /\ allocated[y] \in Nat /\ txg \in Nat
  BY SpaceAssumption DEF TypeOK
<1>4. \A y \in Zones : IsOpen(y) => Available(y) \in Nat /\ Available(y) = Space[y] - allocated[y]
  BY SMTT(30), <1>3 DEF Available, Shape
<1>5. ASSUME NEW y \in Zones
      PROVE  /\ FinishZones(openZones)[y] \in Zone
             /\ IF IsOpen(y)
                THEN /\ FinishZones(openZones)[y].freed = zones[y].freed + Space[y] - allocated[y]
                     /\ FinishZones(openZones)[y].start = zones[y].start
                     /\ FinishZones(openZones)[y].end = txg + 1
                ELSE FinishZones(openZones)[y] = zones[y]
  <2>1. CASE IsOpen(y)
    <3>1. FinishZones(openZones)[y]
            = [zones[y] EXCEPT !.freed = @ + Available(y), !.end = txg + 1]
      BY <2>1 DEF FinishZones, IsOpen
    <3>2. zones[y].freed \in Nat /\ zones[y].start \in Nat /\ zones[y].end \in Nat
      BY SMTT(30), <1>3 DEF Zone
    <3>3. FinishZones(openZones)[y]
            = [freed |-> zones[y].freed + Available(y), start |-> zones[y].start, end |-> txg + 1]
      BY Zenon, <1>3, <3>1 DEF Zone
    <3>4. zones[y].freed + Available(y) = zones[y].freed + Space[y] - allocated[y]
      BY SMTT(30), <1>3, <1>4, <2>1, <3>2
    <3>5. zones[y].freed + Available(y) \in Nat /\ txg + 1 \in Nat
      BY <1>3, <1>4, <2>1, <3>2
    <3> QED
      BY SMTT(30), <2>1, <3>2, <3>3, <3>4, <3>5 DEF Zone
  <2>2. CASE ~ IsOpen(y)
    BY <1>3, <2>2 DEF FinishZones, IsOpen
  <2> QED
    BY SMTT(30), <2>1, <2>2
<1>6. FinishZones(openZones) \in [Zones -> Zone]
  BY Zenon, <1>5 DEF FinishZones
<1> QED
  BY <1>1, <1>2, <1>5, <1>6

LEMMA FindEmptyZone ==
    ASSUME TypeOK, HasEmpty
    PROVE  /\ FindEmpty \in Zones /\ IsEmpty(FindEmpty) /\ FindEmpty <= len
           /\ FindEmpty >= len => FindEmpty = len /\ emptyZones = {}
<1>1. CASE emptyZones # {}
  <2>1. emptyZones \subseteq Nat /\ len \in Nat /\ len <= TotalZones /\ TotalZones \in Nat
    BY TotalZonesAssumption DEF TypeOK
  <2>2. FindEmpty \in emptyZones
    BY Zenon, <1>1, <2>1, MinOfNats DEF FindEmpty
  <2>3. FindEmpty \in 0 .. len - 1
    BY <2>2 DEF TypeOK
  <2> QED
    BY <2>1, <2>2, <2>3 DEF IsEmpty, Zones
<1>2. CASE emptyZones = {}
  BY <1>2, TotalZonesAssumption DEF HasEmpty, TypeOK, FindEmpty, IsEmpty, Zones
<1> QED
  BY <1>1, <1>2

LEMMA WriteFailsStep ==
    ASSUME IndInv, NEW space \in WriteSizes, WriteFails(space)
    PROVE  IndInv'
<1> USE DEF IndInv
<1>1. /\ openZones' = {} /\ allocated' = [y \in Zones |-> 0]
      /\ zones' \in [Zones -> Zone]
      /\ UNCHANGED <<len, emptyZones, smap, live, txg, phase>>
  BY SMTT(30), AllFinished DEF WriteFails
<1>2. \A y \in Zones : IF IsOpen(y)
                       THEN /\ zones'[y].freed = zones[y].freed + Space[y] - allocated[y]
                            /\ zones'[y].start = zones[y].start /\ zones'[y].end = txg + 1
                       ELSE zones'[y] = zones[y]
  BY AllFinished DEF WriteFails
<1>3. dirty \subseteq dirty' /\ dirty' \subseteq Blocks /\ \A y \in openZones : Block(y) \in dirty'
  <2>1. openZones \subseteq Zones
    BY SMTT(30), TotalZonesAssumption DEF TypeOK, Zones
  <2>2. NearlyFull(space) = openZones
    BY AllFinished DEF WriteFails
  <2> QED
    BY SMTT(30), <2>1, <2>2, FindEmptyZone DEF WriteFails, TypeOK, Blocks
<1>4. \A y \in Zones : (IsEmpty(y)' <=> IsEmpty(y)) /\ ~ IsOpen(y)'
  BY <1>1 DEF IsEmpty, IsOpen
<1>5. \A d \in live : d.zone \in Zones /\ d.off \in Nat /\ d.len \in Nat /\ d.txg \in Nat
  BY SMTT(30) DEF TypeOK, Extent
<1>6. \A y \in Zones : /\ zones[y].freed \in Nat /\ Space[y] \in Nat /\ allocated[y] \in Nat
                       /\ IsOpen(y) => allocated[y] <= Space[y]
  BY SpaceAssumption DEF TypeOK, Zone, Shape
<1>7. TypeOK'
  BY SMTT(30), <1>1, <1>3 DEF TypeOK
<1>8. Shape' /\ OneOpenZone'
  BY <1>1 DEF Shape, OneOpenZone, IsOpen, IsEmpty
<1>9. ExtentsIntact'
  <2>1. ASSUME NEW d \in live
        PROVE  ~ IsEmpty(d.zone)' /\ d.off + d.len <= Limit(d.zone)'
    <3>1. ~ IsEmpty(d.zone) /\ d.off + d.len <= Limit(d.zone)
      BY DEF ExtentsIntact
    <3> QED
      BY <1>4, <1>5, <1>6, <3>1 DEF Limit
  <2> QED
    BY SMTT(30), <1>1, <2>1 DEF ExtentsIntact, Disjoint
<1>10. InUseIsLive'
  <2> SUFFICES ASSUME NEW y \in Zones
               PROVE  InUse(y)' = InUse(y)
    BY SMTT(30), <1>1 DEF InUseIsLive
  <2>1. CASE IsOpen(y)
    BY SMTT(30), <1>2, <1>4, <1>6, <2>1 DEF InUse
  <2>2. CASE ~ IsOpen(y)
    BY SMTT(30), <1>2, <1>4, <2>2 DEF InUse
  <2> QED
    BY <2>1, <2>2
<1>11. TxgsBounded'
  BY SMTT(30), <1>1 DEF TxgsBounded
<1>12. LiveTxgsInRange'
  <2> SUFFICES ASSUME NEW d \in live
               PROVE  zones'[d.zone].start <= d.txg /\ d.txg < zones'[d.zone].end
    BY <1>1 DEF LiveTxgsInRange
  <2>1. zones[d.zone].start <= d.txg /\ d.txg < zones[d.zone].end /\ d.txg <= txg /\ txg \in Nat
    BY SMTT(30) DEF LiveTxgsInRange, TxgsBounded, TypeOK
  <2> QED
    BY SMTT(30), <1>2, <1>5, <2>1
<1>13. SpacemapCurrent'
  <2>1. ASSUME NEW y \in Zones, Block(y) \notin dirty'
        PROVE  /\ (IsEmpty(y)' <=> IsEmpty(y)) /\ (IsOpen(y)' <=> IsOpen(y))
               /\ zones'[y] = zones[y] /\ allocated'[y] = allocated[y]
    <3>1. ~ IsOpen(y)
      BY SMTT(30), <1>3, <2>1 DEF IsOpen
    <3> QED
      BY SMTT(30), <1>1, <1>2, <1>4, <3>1 DEF Shape
  <2> QED
    BY SMTT(30), <1>1, <1>3, <2>1, DirtyMarked
<1>14. SpacemapReopens'
  BY SMTT(30), <1>1 DEF SpacemapReopens, OpenOnDisk, OnDisk
<1>99. FlushedOnce'
  BY SMTT(30) DEF FlushedOnce, WriteFails
<1> QED
  BY SMTT(30), <1>7, <1>8, <1>9, <1>10, <1>11, <1>12, <1>13, <1>14, <1>99

LEMMA WriteNewZoneStep ==
    ASSUME IndInv, NEW space \in WriteSizes, WriteNewZone(space)
    PROVE  IndInv'
<1> USE DEF IndInv
<1> DEFINE z == FindEmpty
           e == NewExtent(z, 0, space)
<1> HIDE DEF z, e
<1>1. /\ z \in Zones /\ IsEmpty(z) /\ z <= len
      /\ len \in Nat /\ z \in Nat /\ TotalZones \in Nat /\ len <= TotalZones
  BY SMTT(30), FindEmptyZone, TotalZonesAssumption DEF WriteNewZone, z, TypeOK, Zones
<1>2. space \in Nat \ {0} /\ Space[z] \in Nat /\ space <= Space[z] /\ txg \in Nat /\ U32Max \in Nat
  BY <1>1, SizesAssumption, SpaceAssumption DEF WriteNewZone, z, TypeOK
<1>3. e \in Extent /\ e.zone = z /\ e.off = 0 /\ e.len = space /\ e.txg = txg
  BY SMTT(30), <1>1, <1>2 DEF e, NewExtent, Extent
<1>4. /\ len' = IF z >= len THEN z + 1 ELSE len
      /\ emptyZones' = emptyZones \ {z}
      /\ openZones' = {z}
      /\ live' = live \cup {e}
      /\ UNCHANGED <<smap, txg, phase>>
  <2>1. NearlyFull(space) = openZones
    BY Zenon, AllFinished DEF WriteNewZone
  <2>2. len .. z - 1 = {}
    BY <1>1
  <2> QED
    BY <2>1, <2>2 DEF WriteNewZone, z, e
<1>5. allocated' = [y \in Zones |-> IF y = z THEN space ELSE 0]
  <2>1. Unallocate(NearlyFull(space)) = [y \in Zones |-> 0]
    BY SMTT(30), AllFinished DEF WriteNewZone
  <2>2. allocated' = [Unallocate(NearlyFull(space)) EXCEPT ![z] = space]
    BY SMTT(30) DEF WriteNewZone, z
  <2> QED
    BY ZenonT(30), <1>1, <2>1, <2>2
<1>6. /\ zones' \in [Zones -> Zone]
      /\ zones'[z] = [freed |-> 0, start |-> txg, end |-> U32Max]
      /\ \A y \in Zones : y # z =>
           IF IsOpen(y)
           THEN /\ zones'[y].freed = zones[y].freed + Space[y] - allocated[y]
                /\ zones'[y].start = zones[y].start /\ zones'[y].end = txg + 1
           ELSE zones'[y] = zones[y]
  <2> DEFINE Z == FinishZones(NearlyFull(space))
             new == [freed |-> 0, start |-> txg, end |-> U32Max]
  <2>1. zones' = [Z EXCEPT ![z] = new]
    BY SMTT(30) DEF WriteNewZone, z
  <2>2. Z \in [Zones -> Zone] /\ new \in Zone
    BY SMTT(30), <1>2, AllFinished DEF WriteNewZone, Zone
  <2>3. \A y \in Zones : IF IsOpen(y)
                         THEN /\ Z[y].freed = zones[y].freed + Space[y] - allocated[y]
                              /\ Z[y].start = zones[y].start /\ Z[y].end = txg + 1
                         ELSE Z[y] = zones[y]
    BY SMTT(30), AllFinished DEF WriteNewZone
  <2> HIDE DEF Z, new
  <2>4. zones' \in [Zones -> Zone] /\ zones'[z] = new /\ \A y \in Zones : y # z => zones'[y] = Z[y]
    BY <1>1, <2>1, <2>2
  <2> QED
    BY SMTT(30), <2>3, <2>4 DEF new
<1>7. /\ dirty \subseteq dirty' /\ dirty' \subseteq Blocks /\ Block(z) \in dirty'
      /\ \A y \in openZones : Block(y) \in dirty'
  <2>1. openZones \subseteq Zones
    BY TotalZonesAssumption DEF TypeOK, Zones
  <2>2. dirty' = dirty \cup {Block(y) : y \in openZones \cup {z}}
    BY ZenonT(30), AllFinished DEF WriteNewZone, z
  <2> QED
    BY <1>1, <2>1, <2>2 DEF TypeOK, Blocks
<1>8. \A y \in Zones : /\ IsEmpty(y)' <=> IsEmpty(y) /\ y # z
                       /\ IsOpen(y)' <=> y = z
  BY <1>1, <1>4 DEF IsEmpty, IsOpen, Zones
<1>9. \A d \in live : /\ d.zone \in Zones /\ d.off \in Nat /\ d.len \in Nat /\ d.txg \in Nat
                      /\ d.zone # z
  BY SMTT(30), <1>1 DEF TypeOK, Extent, ExtentsIntact
<1>10. \A y \in Zones : /\ zones[y].freed \in Nat /\ Space[y] \in Nat /\ allocated[y] \in Nat
                        /\ IsOpen(y) => allocated[y] <= Space[y]
  BY SMTT(30), SpaceAssumption DEF TypeOK, Zone, Shape
<1>11. TypeOK'
  <2>1. len' \in 0 .. TotalZones
    <3>1. z + 1 <= TotalZones
      BY SMTT(30), <1>1 DEF Zones
    <3> QED
      BY <1>1, <1>4, <3>1
  <2>2. emptyZones' \subseteq 0 .. len' - 1 /\ openZones' \subseteq 0 .. len' - 1
    BY <1>1, <1>4 DEF TypeOK
  <2>3. allocated' \in [Zones -> Nat]
    BY SMTT(30), <1>2, <1>5
  <2>4. live' \subseteq Extent
    BY <1>3, <1>4 DEF TypeOK
  <2> QED
    BY SMTT(30), <1>4, <1>6, <1>7, <2>1, <2>2, <2>3, <2>4 DEF TypeOK
<1>12. Shape' /\ OneOpenZone'
  <2>1. len' > 0 => ~ IsEmpty(len - 1)'
    <3>1. \A n \in Nat : ~ (n - 1 >= n)
      OBVIOUS
    <3>2. len' \in Nat
      BY <1>1, <1>4
    <3>3. CASE z >= len
      <4>1. len' - 1 = z
        BY <1>1, <1>4, <3>3
      <4> QED
        BY SMTT(30), <1>4, <3>1, <3>2, <4>1 DEF IsEmpty
    <3>4. CASE ~ (z >= len)
      <4>1. len' = len /\ len > 0 /\ len - 1 \notin emptyZones
        BY <1>1, <1>4, <3>4 DEF Shape, IsEmpty
      <4> QED
        BY SMTT(30), <1>4, <3>1, <3>2, <4>1 DEF IsEmpty
    <3> QED
      BY <3>3, <3>4
  <2>2. \A y \in Zones : (IF IsOpen(y) THEN 0 < allocated[y] /\ allocated[y] <= Space[y]
                                      ELSE allocated[y] = 0)'
    BY SMTT(30), <1>2, <1>5, <1>8
  <2> QED
    BY ZenonT(30), <1>4, <2>1, <2>2 DEF Shape, OneOpenZone
<1>13. ExtentsIntact'
  <2>1. Disjoint(live')
    BY SMTT(30), <1>3, <1>4, <1>9 DEF ExtentsIntact, Disjoint
  <2>2. ASSUME NEW d \in live'
        PROVE  ~ IsEmpty(d.zone)' /\ d.off + d.len <= Limit(d.zone)'
    <3>1. CASE d = e
      BY SMTT(30), <1>1, <1>2, <1>3, <1>5, <1>8, <3>1 DEF Limit
    <3>2. CASE d \in live
      <4>1. ~ IsEmpty(d.zone) /\ d.off + d.len <= Limit(d.zone)
        BY SMTT(30), <3>2 DEF ExtentsIntact
      <4>2. ~ IsEmpty(d.zone)' /\ ~ IsOpen(d.zone)'
        BY <1>8, <1>9, <3>2, <4>1
      <4> QED
        BY <1>9, <1>10, <3>2, <4>1, <4>2 DEF Limit
    <3> QED
      BY <1>4, <3>1, <3>2
  <2> QED
    BY <2>1, <2>2 DEF ExtentsIntact
<1>14. InUseIsLive'
  <2> SUFFICES ASSUME NEW y \in Zones
               PROVE  InUse(y)' = Cardinality(BlocksIn(live', y))
    BY DEF InUseIsLive
  <2>0. InUse(y) = Cardinality(BlocksIn(live, y)) /\ live \subseteq Extent
    BY DEF InUseIsLive, TypeOK
  <2>1. CASE y = z
    <3>1. BlocksIn(live, z) = {}
      BY SMTT(30), <1>9 DEF BlocksIn, ExtentsIn
    <3>2. BlocksIn(live', y) = BlocksIn(live, y) \cup Lbas(e)
      BY <1>3, <1>4, <2>0, <2>1, AddExtent
    <3>3. Cardinality(BlocksIn(live', y)) = space
      <4>1. BlocksIn(live', y) = Lbas(e)
        BY SMTT(30), <2>1, <3>1, <3>2
      <4> QED
        BY SMTT(30), <1>3, <4>1, LbasCardinality
    <3>4. InUse(y)' = space
      <4>1. IsOpen(y)' /\ ~ IsEmpty(y)'
        BY Zenon, <1>1, <1>8, <2>1
      <4>2. allocated'[y] = space /\ zones'[y].freed = 0
        <5>1. allocated'[z] = space
          BY Zenon, <1>1, <1>5
        <5>2. zones'[z].freed = 0
          <6>1. zones'[z] = [freed |-> 0, start |-> txg, end |-> U32Max]
            BY Zenon, <1>6
          <6> QED
            BY <6>1
        <5> QED
          BY ZenonT(30), <2>1, <5>1, <5>2
      <4>3. InUse(y)' = allocated'[y] - zones'[y].freed
        BY SMTT(30), <4>1 DEF InUse
      <4> QED
        BY <1>2, <4>2, <4>3
    <3> QED
      BY <3>3, <3>4
  <2>2. CASE y # z
    <3>1. BlocksIn(live', y) = BlocksIn(live, y)
      BY SMTT(30), <1>3, <1>4, <2>0, <2>2, AddExtent
    <3>2. InUse(y)' = InUse(y)
      <4>1. CASE IsOpen(y)
        <5>1. zones'[y].freed = zones[y].freed + Space[y] - allocated[y]
          BY SMTT(30), <1>6, <2>2, <4>1
        <5>2. ~ IsOpen(y)' /\ (IsEmpty(y)' <=> IsEmpty(y))
          BY SMTT(30), <1>8, <2>2
        <5>3. zones[y].freed \in Nat /\ Space[y] \in Nat /\ allocated[y] \in Nat
          BY SMTT(30), <1>10
        <5>4. InUse(y) = IF IsEmpty(y) THEN 0 ELSE allocated[y] - zones[y].freed
          BY SMTT(30), <4>1 DEF InUse
        <5>5. InUse(y)' = IF IsEmpty(y)' THEN 0 ELSE Space[y] - zones'[y].freed
          BY SMTT(30), <5>2 DEF InUse
        <5> QED
          BY SMTT(30), <5>1, <5>2, <5>3, <5>4, <5>5
      <4>2. CASE ~ IsOpen(y)
        BY ZenonT(30), <1>6, <1>8, <2>2, <4>2 DEF InUse
      <4> QED
        BY SMTT(30), <4>1, <4>2
    <3> QED
      BY <2>0, <3>1, <3>2
  <2> QED
    BY SMTT(30), <2>1, <2>2
<1>15. TxgsBounded'
  <2>1. zones'[z].start = txg /\ zones'[z].end = U32Max
    BY <1>6
  <2> QED
    BY SMTT(30), <1>2, <1>3, <1>4, <2>1 DEF TxgsBounded
<1>16. LiveTxgsInRange'
  <2> SUFFICES ASSUME NEW d \in live'
               PROVE  zones'[d.zone].start <= d.txg /\ d.txg < zones'[d.zone].end
    BY SMTT(30) DEF LiveTxgsInRange
  <2>1. CASE d = e
    <3>1. zones'[z].start = txg /\ zones'[z].end = U32Max
      BY SMTT(30), <1>6
    <3> QED
      BY SMTT(30), <1>2, <1>3, <2>1, <3>1 DEF TxgsBounded
  <2>2. CASE d \in live
    <3>1. zones[d.zone].start <= d.txg /\ d.txg < zones[d.zone].end /\ d.txg <= txg
      BY <2>2 DEF LiveTxgsInRange, TxgsBounded
    <3> QED
      BY SMTT(30), <1>2, <1>6, <1>9, <2>2, <3>1
  <2> QED
    BY ZenonT(30), <1>4, <2>1, <2>2
<1>17. SpacemapCurrent'
  <2>1. ASSUME NEW y \in Zones, Block(y) \notin dirty'
        PROVE  /\ (IsEmpty(y)' <=> IsEmpty(y)) /\ (IsOpen(y)' <=> IsOpen(y))
               /\ zones'[y] = zones[y] /\ allocated'[y] = allocated[y]
    <3>1. ~ IsOpen(y) /\ y # z
      BY SMTT(30), <1>7, <2>1 DEF IsOpen
    <3> QED
      BY SMTT(30), <1>5, <1>6, <1>8, <3>1 DEF Shape
  <2> QED
    BY ZenonT(30), <1>4, <1>7, <2>1, DirtyMarked
<1>18. SpacemapReopens'
  BY SMTT(30), <1>4 DEF SpacemapReopens, OpenOnDisk, OnDisk
<1>99. FlushedOnce'
  BY DEF FlushedOnce, WriteNewZone
<1> QED
  BY SMTT(30), <1>11, <1>12, <1>13, <1>14, <1>15, <1>16, <1>17, <1>18, <1>99

\* What a flush does to every zone, whichever spacemap it writes.
LEMMA FlushZones ==
    ASSUME IndInv, NEW idx \in {0, 1}, Flush(idx), NEW z \in Zones
    PROVE  /\ zones[z] \in Zone /\ allocated[z] \in Nat /\ Space[z] \in Nat
           /\ (IsEmpty(z)' <=> IsEmpty(z)) /\ (IsOpen(z)' <=> IsOpen(z))
           /\ IF IsOpen(z)
              THEN /\ FlushZone(z) \in Nat
                   /\ allocated'[z] = allocated[z] + FlushZone(z)
                   /\ allocated'[z] <= Space[z] /\ allocated'[z] % StripeLbas = 0
                   /\ zones'[z] = [zones[z] EXCEPT !.freed = @ + FlushZone(z)]
                   /\ zones'[z].freed = zones[z].freed + FlushZone(z)
                   /\ zones'[z].start = zones[z].start /\ zones'[z].end = zones[z].end
              ELSE allocated'[z] = allocated[z] /\ zones'[z] = zones[z]
<1> USE DEF IndInv
<1>1. zones[z] \in Zone /\ allocated[z] \in Nat /\ Space[z] \in Nat
  BY SpaceAssumption DEF TypeOK
<1>2. (IsEmpty(z)' <=> IsEmpty(z)) /\ (IsOpen(z)' <=> IsOpen(z))
  BY DEF Flush, IsEmpty, IsOpen
<1>3. CASE ~ IsOpen(z)
  BY <1>1, <1>2, <1>3 DEF Flush, WasteFreed, WasteAllocated
<1>4. CASE IsOpen(z)
  <2>1. /\ allocated'[z] = allocated[z] + FlushZone(z)
        /\ zones'[z] = [zones[z] EXCEPT !.freed = @ + FlushZone(z)]
    BY <1>4 DEF Flush, WasteFreed, WasteAllocated
  <2>2. /\ FlushZone(z) \in Nat
        /\ allocated[z] + FlushZone(z) <= Space[z]
        /\ (allocated[z] + FlushZone(z)) % StripeLbas = 0
    <3>1. allocated[z] <= Space[z] /\ Space[z] % StripeLbas = 0 /\ StripeLbas \in Nat \ {0}
      BY <1>4, SpaceAssumption DEF Shape
    <3> QED
      BY ZenonT(30), <1>1, <3>1, PaddingFits DEF FlushZone
  <2>3. /\ zones'[z].freed = zones[z].freed + FlushZone(z)
        /\ zones'[z].start = zones[z].start /\ zones'[z].end = zones[z].end
    BY SMTT(30), <1>1, <2>1 DEF Zone
  <2> QED
    BY <1>1, <1>2, <1>4, <2>1, <2>2, <2>3
<1> QED
  BY SMTT(30), <1>3, <1>4

\* A zone with nothing to pad, in a block that is not dirty, is on disk already.
LEMMA FlushSpacemap ==
    ASSUME IndInv, NEW idx \in {0, 1}, Flush(idx), idx = 1 => phase = "label0"
    PROVE  \A z \in Zones : smap'[0][z] = Serialize(z, zones, allocated)'
<1> USE DEF IndInv
<1> TAKE z \in Zones
<1>0. /\ zones' = WasteFreed /\ allocated' = WasteAllocated
      /\ (IsEmpty(z)' <=> IsEmpty(z)) /\ (IsOpen(z)' <=> IsOpen(z))
  BY ZenonT(30), FlushZones DEF Flush
<1>1. Serialize(z, zones, allocated)' = Serialize(z, WasteFreed, WasteAllocated)
  BY <1>0 DEF Serialize
<1>2. smap \in [{0, 1} -> [Zones -> ZoneOnDisk]]
  BY DEF TypeOK
<1>3. ASSUME ~ IsOpen(z) \/ FlushZone(z) = 0, Block(z) \notin dirty
      PROVE  smap[0][z] = Serialize(z, zones, allocated)'
  <2>1. zones'[z] = zones[z] /\ allocated'[z] = allocated[z]
    <3>1. CASE ~ IsOpen(z)
      BY Zenon, <3>1, FlushZones
    <3>2. CASE IsOpen(z)
      <4>1. FlushZone(z) = 0 /\ zones[z] \in Zone /\ allocated[z] \in Nat
        BY ZenonT(30), <1>3, <3>2, FlushZones
      <4>2. /\ allocated'[z] = allocated[z] + FlushZone(z)
            /\ zones'[z] = [zones[z] EXCEPT !.freed = @ + FlushZone(z)]
        BY <3>2, FlushZones
      <4> QED
        BY <4>1, <4>2 DEF Zone
    <3> QED
      BY <3>1, <3>2
  <2>2. smap[0][z] = Serialize(z, zones, allocated)
    BY SMTT(30), <1>3 DEF SpacemapCurrent, OnDisk
  <2> QED
    BY ZenonT(30), <1>0, <2>1, <2>2 DEF Serialize
<1>4. CASE idx = 0
  <2> DEFINE wasted == dirty \cup {Block(y) : y \in openZones}
  <2>1. smap'[0][z] = IF Block(z) \in wasted THEN Serialize(z, WasteFreed, WasteAllocated)
                                            ELSE smap[0][z]
    BY SMTT(30), <1>2, <1>4 DEF Flush
  <2>2. CASE Block(z) \in wasted
    BY <1>1, <2>1, <2>2
  <2>3. CASE Block(z) \notin wasted
    BY SMTT(30), <1>3, <2>1, <2>3 DEF IsOpen
  <2> QED
    BY <2>2, <2>3
<1>5. CASE idx = 1
  <2>1. dirty = {} /\ smap'[0] = smap[0]
    BY SMTT(30), <1>2, <1>5 DEF Flush, FlushedOnce
  <2>2. IsOpen(z) => FlushZone(z) = 0
    <3> SUFFICES ASSUME IsOpen(z) PROVE FlushZone(z) = 0
      OBVIOUS
    <3>1. allocated[z] % StripeLbas = 0 /\ StripeLbas \in Nat \ {0}
      BY <1>5, SpaceAssumption DEF FlushedOnce, IsOpen
    <3>2. \A s \in Nat \ {0} : (s - 0) % s = 0
      BY SMTT(30)
    <3> QED
      BY <3>1, <3>2 DEF FlushZone
  <2> QED
    BY <1>3, <2>1, <2>2
<1> QED
  BY <1>4, <1>5

LEMMA FlushStep ==
    ASSUME IndInv, NEW idx \in {0, 1}, Flush(idx), idx = 1 => phase = "label0",
           txg' \in {txg, txg + 1}, txg' < U32Max,
           \/ phase' = "label0" /\ txg' + 1 < U32Max
           \/ phase' = "running"
    PROVE  IndInv'
<1> USE DEF IndInv
<1>1. UNCHANGED <<len, emptyZones, openZones, live>> /\ dirty' = {} /\ txg \in Nat
  BY SMTT(30) DEF Flush, TypeOK
<1>2. \A z \in openZones : z \in Zones
  BY TotalZonesAssumption DEF TypeOK, Zones
<1>3. \A d \in live : d.zone \in Zones /\ d.off \in Nat /\ d.len \in Nat /\ d.txg \in Nat
  BY DEF TypeOK, Extent
<1>4. ASSUME NEW z \in Zones
      PROVE  zones'[z] \in Zone /\ allocated'[z] \in Nat
  <2>1. CASE IsOpen(z)
    <3>1. /\ zones[z] \in Zone /\ allocated[z] \in Nat /\ FlushZone(z) \in Nat
          /\ zones'[z] = [zones[z] EXCEPT !.freed = @ + FlushZone(z)]
          /\ allocated'[z] = allocated[z] + FlushZone(z)
      BY <2>1, FlushZones
    <3>2. zones[z].freed + FlushZone(z) \in Nat /\ allocated[z] + FlushZone(z) \in Nat
      BY <3>1 DEF Zone
    <3> QED
      BY <3>1, <3>2 DEF Zone
  <2>2. CASE ~ IsOpen(z)
    BY Zenon, <2>2, FlushZones
  <2> QED
    BY <2>1, <2>2
<1>5. \A z \in Zones : smap'[0][z] = Serialize(z, zones, allocated)'
  BY SMTT(30), FlushSpacemap
<1>6. TypeOK'
  <2>1. zones' \in [Zones -> Zone] /\ allocated' \in [Zones -> Nat]
    BY ZenonT(30), <1>4 DEF Flush, WasteFreed, WasteAllocated
  <2>2. ASSUME NEW z \in Zones
        PROVE  Serialize(z, WasteFreed, WasteAllocated) \in ZoneOnDisk
    <3>1. WasteFreed[z] \in Zone /\ WasteAllocated[z] \in Nat
      BY SMTT(30), <2>1 DEF Flush
    <3>2. /\ WasteFreed[z].freed \in Nat /\ WasteFreed[z].start \in Nat
          /\ WasteFreed[z].end \in Nat /\ U32Max \in Nat
      BY <3>1, SpaceAssumption DEF Zone
    <3> QED
      BY <3>1, <3>2 DEF Serialize, ZoneOnDisk, NoZoneOnDisk
  <2>3. smap' \in [{0, 1} -> [Zones -> ZoneOnDisk]]
    <3> DEFINE new == [z \in Zones |->
                         IF Block(z) \in dirty \cup {Block(y) : y \in openZones}
                         THEN Serialize(z, WasteFreed, WasteAllocated) ELSE smap[idx][z]]
    <3>1. smap' = [smap EXCEPT ![idx] = new]
      BY DEF Flush
    <3>2. new \in [Zones -> ZoneOnDisk]
      BY SMTT(30), <2>2 DEF TypeOK
    <3> HIDE DEF new
    <3> QED
      BY SMTT(30), <3>1, <3>2 DEF TypeOK
  <2>4. txg' \in Nat /\ phase' \in {"running", "label0"}
    BY SMTT(30), <1>1
  <2> QED
    BY <1>1, <2>1, <2>3, <2>4 DEF TypeOK
<1>7. Shape' /\ OneOpenZone'
  <2>1. ASSUME NEW z \in Zones
        PROVE  IF IsOpen(z)' THEN 0 < allocated'[z] /\ allocated'[z] <= Space[z]
                             ELSE allocated'[z] = 0
    <3>1. CASE IsOpen(z)
      <4>1. /\ allocated'[z] = allocated[z] + FlushZone(z) /\ allocated'[z] <= Space[z]
            /\ FlushZone(z) \in Nat /\ allocated[z] \in Nat /\ IsOpen(z)'
        BY Zenon, <3>1, FlushZones
      <4> QED
        BY <3>1, <4>1 DEF Shape
    <3>2. CASE ~ IsOpen(z)
      BY ZenonT(30), <3>2, FlushZones DEF Shape
    <3> QED
      BY SMTT(30), <3>1, <3>2
  <2>2. emptyZones' \cap openZones' = {} /\ (len' > 0 => ~ IsEmpty(len - 1)')
    BY <1>1 DEF Shape, IsEmpty
  <2> QED
    BY SMTT(30), <1>1, <2>1, <2>2 DEF Shape, OneOpenZone
<1>8. ExtentsIntact'
  <2>1. ASSUME NEW z \in Zones
        PROVE  Limit(z) <= Limit(z)' /\ Limit(z) \in Nat /\ Limit(z)' \in Nat
    <3>1. /\ allocated[z] \in Nat /\ Space[z] \in Nat /\ (IsOpen(z)' <=> IsOpen(z))
      BY Zenon, FlushZones
    <3>2. IsOpen(z) => allocated'[z] = allocated[z] + FlushZone(z) /\ FlushZone(z) \in Nat
      BY Zenon, FlushZones
    <3> QED
      BY <3>1, <3>2 DEF Limit
  <2>2. \A z \in Zones : IsEmpty(z)' <=> IsEmpty(z)
    BY ZenonT(30), FlushZones
  <2>3. \A d \in live : ~ IsEmpty(d.zone)' /\ d.off + d.len <= Limit(d.zone)'
    BY <1>3, <2>1, <2>2 DEF ExtentsIntact
  <2> QED
    BY SMTT(30), <1>1, <2>3 DEF ExtentsIntact, Disjoint
<1>9. InUseIsLive'
  <2> SUFFICES ASSUME NEW z \in Zones
               PROVE  InUse(z)' = InUse(z)
    BY SMTT(30), <1>1 DEF InUseIsLive
  <2>1. CASE IsOpen(z)
    <3>1. /\ allocated'[z] = allocated[z] + FlushZone(z)
          /\ zones'[z].freed = zones[z].freed + FlushZone(z)
          /\ FlushZone(z) \in Nat /\ allocated[z] \in Nat /\ zones[z] \in Zone
          /\ (IsEmpty(z)' <=> IsEmpty(z)) /\ IsOpen(z)'
      BY ZenonT(30), <2>1, FlushZones
    <3>2. zones[z].freed \in Nat
      BY SMTT(30), <3>1 DEF Zone
    <3> QED
      BY SMTT(30), <2>1, <3>1, <3>2 DEF InUse
  <2>2. CASE ~ IsOpen(z)
    <3>1. /\ allocated'[z] = allocated[z] /\ zones'[z] = zones[z]
          /\ (IsEmpty(z)' <=> IsEmpty(z)) /\ ~ IsOpen(z)'
      BY ZenonT(30), <2>2, FlushZones
    <3> QED
      BY <2>2, <3>1 DEF InUse
  <2> QED
    BY SMTT(30), <2>1, <2>2
<1>10. \A z \in Zones : zones'[z].start = zones[z].start /\ zones'[z].end = zones[z].end
  <2> TAKE z \in Zones
  <2>1. CASE IsOpen(z)
    BY Zenon, <2>1, FlushZones
  <2>2. CASE ~ IsOpen(z)
    BY ZenonT(30), <2>2, FlushZones
  <2> QED
    BY <2>1, <2>2
<1>11. TxgsBounded'
  <2>1. ASSUME NEW z \in openZones'
        PROVE  zones'[z].start <= txg' /\ zones'[z].end = U32Max
    <3>1. z \in openZones /\ z \in Zones
      BY <1>1, <1>2
    <3>2. zones[z].start <= txg /\ zones[z].end = U32Max /\ zones[z].start \in Nat
      BY SMTT(30), <3>1 DEF TxgsBounded, TypeOK, Zone
    <3> QED
      BY SMTT(30), <1>1, <1>10, <3>1, <3>2
  <2>2. \A d \in live' : d.txg <= txg'
    BY SMTT(30), <1>1, <1>3 DEF TxgsBounded
  <2> QED
    BY <2>1, <2>2 DEF TxgsBounded
<1>12. LiveTxgsInRange'
  BY SMTT(30), <1>1, <1>3, <1>10 DEF LiveTxgsInRange
<1>13. SpacemapCurrent'
  BY ZenonT(30), <1>5 DEF SpacemapCurrent, OnDisk
<1>14. SpacemapReopens'
  <2>1. ASSUME NEW z \in OpenOnDisk'
        PROVE  z \in Zones /\ IsOpen(z) /\ smap'[0][z].allocated = allocated'[z]
    <3>1. z \in Zones /\ smap'[0][z].allocated \notin {0, U32Max}
      BY DEF OpenOnDisk, OnDisk
    <3>2. smap'[0][z] = Serialize(z, zones, allocated)'
      BY <1>5, <3>1
    <3>3. IsOpen(z)' <=> IsOpen(z)
      BY ZenonT(30), <3>1, FlushZones
    <3>4. ~ IsEmpty(z)'
      <4>1. ASSUME IsEmpty(z)' PROVE smap'[0][z].allocated = 0
        <5>1. smap'[0][z] = NoZoneOnDisk
          BY ZenonT(30), <3>2, <4>1 DEF Serialize
        <5> QED
          BY SMTT(30), <5>1 DEF NoZoneOnDisk
      <4> QED
        BY ZenonT(30), <3>1, <4>1
    <3>5. smap'[0][z].allocated = IF IsOpen(z)' THEN allocated'[z] ELSE U32Max
      BY SMTT(30), <3>2, <3>4 DEF Serialize
    <3> QED
      BY Zenon, <3>1, <3>3, <3>5
  <2>2. ASSUME NEW z \in OpenOnDisk'
        PROVE  smap'[0][z].allocated % StripeLbas = 0
    <3>1. z \in Zones /\ IsOpen(z) /\ smap'[0][z].allocated = allocated'[z]
      BY SMTT(30), <2>1
    <3>2. allocated'[z] % StripeLbas = 0
      BY Zenon, <3>1, FlushZones
    <3> QED
      BY <3>1, <3>2
  <2>3. \A y, z \in OpenOnDisk' : y = z
    BY SMTT(30), <2>1 DEF OneOpenZone, IsOpen
  <2> QED
    BY SMTT(30), <2>2, <2>3 DEF SpacemapReopens, OnDisk
<1>15. FlushedOnce'
  <2>1. \A z \in openZones' : allocated'[z] % StripeLbas = 0
    BY ZenonT(30), <1>1, <1>2, FlushZones DEF IsOpen
  <2> QED
    BY <1>1, <2>1 DEF FlushedOnce
<1> QED
  BY SMTT(30), <1>6, <1>7, <1>8, <1>9, <1>11, <1>12, <1>13, <1>14, <1>15

LEMMA ReopenStep ==
    ASSUME IndInv, Reopen
    PROVE  IndInv' /\ UNCHANGED <<len, emptyZones, openZones, allocated>>
<1> USE DEF IndInv
<1>1. UNCHANGED <<dirty, smap, live, txg, phase>> /\ dirty = {}
  BY DEF Reopen
<1>2. \A z \in Zones : OnDisk(z) = Serialize(z, zones, allocated)
  BY <1>1 DEF SpacemapCurrent
<1>3. \A z \in openZones : z \in Zones
  BY SMTT(30), TotalZonesAssumption DEF TypeOK, Zones
<1>4. ASSUME NEW z \in Zones
      PROVE  /\ z \in EmptyOnDisk <=> IsEmpty(z)
             /\ z \in OpenOnDisk <=> IsOpen(z)
             /\ IsOpen(z) => ~ IsEmpty(z)
  <2>1. /\ OnDisk(z) = Serialize(z, zones, allocated) /\ zones[z] \in Zone
        /\ allocated[z] \in Nat /\ Space[z] \in Nat /\ Space[z] < U32Max /\ U32Max \in Nat
    BY SMTT(30), <1>2, SpaceAssumption DEF TypeOK
  <2>2. IsOpen(z) => ~ IsEmpty(z) /\ 0 < allocated[z] /\ allocated[z] <= Space[z]
    BY SMTT(30), TotalZonesAssumption DEF Shape, IsOpen, IsEmpty, TypeOK, Zones
  <2>3. OnDisk(z).allocated = IF IsEmpty(z) THEN 0 ELSE IF IsOpen(z) THEN allocated[z] ELSE U32Max
    BY SMTT(30), <2>1 DEF Serialize, NoZoneOnDisk
  <2> QED
    BY <2>1, <2>2, <2>3 DEF EmptyOnDisk, OpenOnDisk
<1>5. openZones' = openZones
  BY SMTT(30), <1>3, <1>4 DEF Reopen, IsOpen, OpenOnDisk
<1>6. allocated' = allocated
  <2>1. ASSUME NEW z \in Zones
        PROVE  allocated'[z] = allocated[z]
    <3>1. CASE IsOpen(z)
      BY SMTT(30), <1>2, <1>4, <3>1 DEF Reopen, Serialize
    <3>2. CASE ~ IsOpen(z)
      BY <1>4, <3>2 DEF Reopen, Shape
    <3> QED
      BY SMTT(30), <3>1, <3>2
  <2> QED
    BY SMTT(30), <2>1 DEF Reopen, TypeOK
<1>7. LenOnDisk = len
  <2>1. CASE len = 0
    <3>1. \A z \in Zones : IsEmpty(z)
      BY SMTT(30), <2>1, TotalZonesAssumption DEF IsEmpty, Zones
    <3> QED
      BY <1>4, <2>1, <3>1 DEF LenOnDisk
  <2>2. CASE len > 0
    <3> DEFINE full == Zones \ EmptyOnDisk
    <3>1. len - 1 \in Zones /\ ~ IsEmpty(len - 1) /\ len \in Nat
      BY SMTT(30), <2>2, TotalZonesAssumption DEF Shape, TypeOK, Zones
    <3>2. len - 1 \in full
      BY <1>4, <3>1
    <3>3. \A z \in full : z \in Nat /\ z <= len - 1
      BY <1>4, <3>1, TotalZonesAssumption DEF IsEmpty, Zones
    <3>4. Max(full) = len - 1
      <4> HIDE DEF full
      <4> SUFFICES (CHOOSE x \in full : \A y \in full : x >= y) = len - 1
        BY DEF Max
      <4>1. \A y \in full : len - 1 >= y
        BY <3>1, <3>3
      <4>2. ASSUME NEW x \in full, \A y \in full : x >= y
            PROVE  x = len - 1
        <5>1. x >= len - 1 /\ x <= len - 1 /\ x \in Nat
          BY <3>2, <3>3, <4>2
        <5> QED
          BY SMTT(30), <3>1, <5>1
      <4> QED
        BY <3>2, <4>1, <4>2
    <3> QED
      BY SMTT(30), <3>1, <3>2, <3>4 DEF LenOnDisk
  <2> QED
    BY SMTT(30), <2>1, <2>2 DEF TypeOK
<1>8. len' = len
  BY SMTT(30), <1>7 DEF Reopen
<1>9. emptyZones' = emptyZones
  <2>1. \A z \in emptyZones : z \in Zones /\ z < len /\ IsEmpty(z)
    BY TotalZonesAssumption DEF TypeOK, Zones, IsEmpty
  <2>2. \A z \in EmptyOnDisk : z \in Zones
    BY DEF EmptyOnDisk
  <2>3. \A z \in Zones : IsEmpty(z) /\ z < len => z \in emptyZones
    BY SMTT(30), TotalZonesAssumption DEF IsEmpty, Zones, TypeOK
  <2>4. emptyZones' = {z \in EmptyOnDisk : z < len}
    BY <1>7 DEF Reopen
  <2> QED
    BY <1>4, <2>1, <2>2, <2>3, <2>4
<1>10. \A z \in Zones : (IsEmpty(z)' <=> IsEmpty(z)) /\ (IsOpen(z)' <=> IsOpen(z))
  BY SMTT(30), <1>5, <1>8, <1>9 DEF IsEmpty, IsOpen
<1>11. ASSUME NEW z \in Zones
       PROVE  zones'[z] \in Zone /\ (~ IsEmpty(z) => zones'[z] = zones[z])
  <2>1. CASE IsEmpty(z)
    BY SMTT(30), <1>4, <2>1 DEF Reopen, NoZone, Zone
  <2>2. CASE ~ IsEmpty(z)
    <3>1. /\ OnDisk(z).freed = zones[z].freed /\ OnDisk(z).start = zones[z].start
          /\ OnDisk(z).end = zones[z].end
      BY SMTT(30), <1>2, <2>2 DEF Serialize
    <3>2. zones'[z] = [freed |-> zones[z].freed, start |-> zones[z].start, end |-> zones[z].end]
      BY <1>4, <2>2, <3>1 DEF Reopen
    <3>3. zones[z] \in Zone
      BY SMTT(30) DEF TypeOK
    <3> QED
      BY SMTT(30), <3>2, <3>3 DEF Zone
  <2> QED
    BY SMTT(30), <2>1, <2>2
<1>12. TypeOK'
  <2>1. zones' \in [Zones -> Zone]
    BY ZenonT(30), <1>11 DEF Reopen
  <2> QED
    BY <1>1, <1>5, <1>6, <1>8, <1>9, <2>1 DEF TypeOK
<1>13. Shape' /\ OneOpenZone' /\ FlushedOnce'
  BY SMTT(30), <1>1, <1>5, <1>6, <1>8, <1>9 DEF Shape, OneOpenZone, IsEmpty, IsOpen, FlushedOnce
<1>14. ExtentsIntact'
  BY SMTT(30), <1>1, <1>5, <1>6, <1>8, <1>9 DEF ExtentsIntact, IsEmpty, IsOpen, Limit, Disjoint
<1>15. InUseIsLive'
  <2>1. \A z \in Zones : InUse(z)' = InUse(z)
    BY SMTT(30), <1>6, <1>10, <1>11 DEF InUse
  <2> QED
    BY SMTT(30), <1>1, <2>1 DEF InUseIsLive
<1>16. TxgsBounded'
  BY SMTT(30), <1>1, <1>3, <1>4, <1>5, <1>11 DEF TxgsBounded, IsOpen
<1>17. LiveTxgsInRange'
  BY SMTT(30), <1>1, <1>11 DEF LiveTxgsInRange, ExtentsIntact, TypeOK, Extent
<1>18. SpacemapCurrent'
  <2>1. \A z \in Zones : Serialize(z, zones, allocated)' = Serialize(z, zones, allocated)
    BY SMTT(30), <1>6, <1>10, <1>11 DEF Serialize
  <2> QED
    BY SMTT(30), <1>1, <2>1 DEF SpacemapCurrent, OnDisk
<1>19. SpacemapReopens'
  BY <1>1 DEF SpacemapReopens, OpenOnDisk, OnDisk
<1> QED
  BY SMTT(30), <1>5, <1>6, <1>8, <1>9, <1>12, <1>13, <1>14, <1>15, <1>16, <1>17, <1>18, <1>19

-----------------------------------------------------------------------------
(* The theorems.                                                           *)

LEMMA NextIndInv == IndInv /\ [Next]_vars => IndInv'
<1> SUFFICES ASSUME IndInv, [Next]_vars PROVE IndInv'
  OBVIOUS
<1>1. ASSUME NEW space \in WriteSizes, WriteOpen(space) PROVE IndInv'
  BY <1>1, WriteOpenStep
<1>2. ASSUME NEW space \in WriteSizes, WriteNewZone(space) PROVE IndInv'
  BY <1>2, WriteNewZoneStep
<1>3. ASSUME NEW space \in WriteSizes, WriteFails(space) PROVE IndInv'
  BY <1>3, WriteFailsStep
<1>4. ASSUME NEW e \in live, FreeOnly(e) PROVE IndInv'
  BY <1>4, FreeOnlyStep
<1>5. ASSUME NEW e \in live, FreeAndErase(e) PROVE IndInv'
  BY SMTT(30), <1>5, FreeAndEraseStep
<1>6. CASE FlushFirst
  <2>1. txg \in Nat /\ U32Max \in Nat
    BY SpaceAssumption DEF IndInv, TypeOK
  <2>2. Flush(0) /\ txg' = txg /\ phase' = "label0" /\ txg + 1 < U32Max
    BY <1>6 DEF FlushFirst
  <2>3. txg' < U32Max
    BY SMTT(30), <2>1, <2>2
  <2> QED
    BY <2>2, <2>3, FlushStep
<1>7. CASE FlushSecond
  <2>1. Flush(1) /\ txg' = txg + 1 /\ phase = "label0" /\ phase' = "running"
    BY <1>7 DEF FlushSecond
  <2>2. txg' < U32Max
    BY <2>1 DEF IndInv, FlushedOnce
  <2> QED
    BY <2>1, <2>2, FlushStep
<1>8. CASE Reopen
  BY SMTT(30), <1>8, ReopenStep
<1>9. CASE UNCHANGED vars
  BY ZenonT(30), <1>9 DEF vars, IndInv, TypeOK, Shape, OneOpenZone, ExtentsIntact, InUseIsLive,
     TxgsBounded, LiveTxgsInRange, SpacemapCurrent, SpacemapReopens, FlushedOnce, IsEmpty,
     IsOpen, InUse, Limit, Disjoint, BlocksIn, ExtentsIn, OnDisk, OpenOnDisk, Serialize
<1> QED
  BY SMTT(30), <1>1, <1>2, <1>3, <1>4, <1>5, <1>6, <1>7, <1>8, <1>9 DEF Next, Write, Free

LEMMA NextLifecycle == IndInv /\ Next => LifecycleStep
<1> SUFFICES ASSUME IndInv, Next, NEW z \in Zones
             PROVE  /\ IsOpen(z) => /\ ~ IsEmpty(z)'
                                    /\ IsOpen(z)' => allocated'[z] >= allocated[z]
                    /\ IsClosed(z) => ~ IsOpen(z)'
  BY DEF LifecycleStep
<1> USE DEF IndInv
<1>0. allocated \in [Zones -> Nat] /\ allocated[z] \in Nat /\ z \in Nat /\ len \in Nat
  BY SMTT(30), TotalZonesAssumption DEF TypeOK, Zones
<1>a. IsOpen(z) => ~ IsEmpty(z)
  BY <1>0 DEF Shape, IsOpen, IsEmpty, TypeOK
<1>1. ASSUME NEW space \in WriteSizes, WriteOpen(space)
      PROVE  /\ IsOpen(z) => ~ IsEmpty(z)' /\ (IsOpen(z)' => allocated'[z] >= allocated[z])
             /\ IsClosed(z) => ~ IsOpen(z)'
  <2>1. UNCHANGED <<len, emptyZones>> /\ openZones' \subseteq openZones /\ space \in Nat
    BY SMTT(30), <1>1, SizesAssumption DEF WriteOpen
  <2>2. IsOpen(z)' => z \notin NearlyFull(space)
    BY SMTT(30), <1>1 DEF WriteOpen, IsOpen
  <2>3. IsOpen(z)' => allocated'[z] \in {allocated[z], allocated[z] + space}
    BY <1>0, <1>1, <2>2 DEF WriteOpen, Unallocate
  <2> QED
    BY SMTT(30), <1>0, <1>a, <2>1, <2>3 DEF IsOpen, IsEmpty, IsClosed
<1>2. ASSUME NEW space \in WriteSizes, WriteNewZone(space)
      PROVE  /\ IsOpen(z) => ~ IsEmpty(z)' /\ (IsOpen(z)' => allocated'[z] >= allocated[z])
             /\ IsClosed(z) => ~ IsOpen(z)'
  <2>1. HasRoom(space) = {} /\ HasEmpty
    BY <1>2 DEF WriteNewZone
  <2>2. FindEmpty \in Zones /\ IsEmpty(FindEmpty)
    BY SMTT(30), <2>1, FindEmptyZone
  <2>3. openZones' = {FindEmpty}
    BY Zenon, <1>2, <2>1, AllFinished DEF WriteNewZone
  <2>4. IsOpen(z) \/ IsClosed(z) => ~ IsOpen(z)'
    <3>1. IsClosed(z) => ~ IsEmpty(z)
      BY <1>0 DEF IsClosed, IsEmpty
    <3>2. IsOpen(z)' => z = FindEmpty
      BY SMTT(30), <2>3 DEF IsOpen
    <3> QED
      BY SMTT(30), <1>a, <2>2, <3>1, <3>2
  <2>5. len' >= len /\ \A y \in emptyZones' : y \in emptyZones \/ y >= len
    BY SMTT(30), <1>0, <1>2, <2>2, TotalZonesAssumption DEF WriteNewZone, Zones
  <2>6. len' \in Nat
    BY SMTT(30), <1>0, <1>2, <2>2, TotalZonesAssumption DEF WriteNewZone, Zones
  <2>7. IsOpen(z) => ~ IsEmpty(z)'
    BY <1>0, <1>a, <2>5, <2>6 DEF IsEmpty
  <2> QED
    BY ZenonT(30), <2>4, <2>7
<1>3. ASSUME NEW space \in WriteSizes, WriteFails(space)
      PROVE  /\ IsOpen(z) => ~ IsEmpty(z)' /\ (IsOpen(z)' => allocated'[z] >= allocated[z])
             /\ IsClosed(z) => ~ IsOpen(z)'
  <2>1. UNCHANGED <<len, emptyZones>> /\ openZones' = {}
    BY Zenon, <1>3, AllFinished DEF WriteFails
  <2> QED
    BY <1>a, <2>1 DEF IsOpen, IsEmpty, IsClosed
<1>4. ASSUME NEW e \in live, FreeOnly(e)
      PROVE  /\ IsOpen(z) => ~ IsEmpty(z)' /\ (IsOpen(z)' => allocated'[z] >= allocated[z])
             /\ IsClosed(z) => ~ IsOpen(z)'
  BY SMTT(30), <1>0, <1>a, <1>4 DEF FreeOnly, IsOpen, IsEmpty, IsClosed
<1>5. ASSUME NEW e \in live, FreeAndErase(e)
      PROVE  /\ IsOpen(z) => ~ IsEmpty(z)' /\ (IsOpen(z)' => allocated'[z] >= allocated[z])
             /\ IsClosed(z) => ~ IsOpen(z)'
  <2>1. UNCHANGED <<openZones, allocated>> /\ IsClosed(e.zone)
    BY SMTT(30), <1>5 DEF FreeAndErase
  <2>2. IsOpen(z) => z \notin emptyZones \cup {e.zone} /\ z \in 0 .. len - 1
    BY SMTT(30), <1>0, <1>a, <2>1 DEF IsOpen, IsClosed, IsEmpty, TypeOK
  <2>3. \A y \in 0 .. len - 1 : y \notin emptyZones \cup {e.zone}
                                  => y < FirstTrailingEmpty(emptyZones \cup {e.zone})
    BY SMTT(30), TrailingEmpty
  <2>4. len' \in {len, FirstTrailingEmpty(emptyZones \cup {e.zone})}
    BY <1>5 DEF FreeAndErase
  <2>5. IsOpen(z) => z < len' /\ z \notin emptyZones'
    <3>1. IsOpen(z) => z < len'
      BY SMTT(30), <1>0, <2>2, <2>3, <2>4
    <3>2. \A y \in emptyZones' : y \in emptyZones \cup {e.zone}
      BY SMTT(30), <1>5 DEF FreeAndErase
    <3> QED
      BY SMTT(30), <2>2, <3>1, <3>2
  <2>6. len' \in Nat
    BY <1>0, <1>5, FreeAndEraseStep DEF TypeOK
  <2>7. IsOpen(z) => ~ IsEmpty(z)'
    BY SMTT(30), <1>0, <2>5, <2>6 DEF IsEmpty
  <2> QED
    BY SMTT(30), <1>0, <2>1, <2>7 DEF IsOpen, IsClosed
<1>6. ASSUME NEW idx \in {0, 1}, Flush(idx)
      PROVE  /\ IsOpen(z) => ~ IsEmpty(z)' /\ (IsOpen(z)' => allocated'[z] >= allocated[z])
             /\ IsClosed(z) => ~ IsOpen(z)'
  <2>1. /\ IsOpen(z) => allocated'[z] = allocated[z] + FlushZone(z) /\ FlushZone(z) \in Nat
        /\ IsEmpty(z)' <=> IsEmpty(z)
        /\ IsOpen(z)' <=> IsOpen(z)
    BY ZenonT(30), <1>6, FlushZones
  <2> QED
    BY <1>0, <1>a, <2>1 DEF IsClosed, IsOpen
<1>7. CASE Reopen
  <2>1. UNCHANGED <<len, emptyZones, openZones, allocated>>
    BY <1>7, ReopenStep
  <2> QED
    BY <1>0, <1>a, <2>1 DEF IsOpen, IsEmpty, IsClosed
<1> QED
  BY ZenonT(30), <1>1, <1>2, <1>3, <1>4, <1>5, <1>6, <1>7 DEF Next, Write, Free, FlushFirst,
     FlushSecond

THEOREM Inductive == Spec => []IndInv
BY InitIndInv, NextIndInv, PTL DEF Spec

\* Every variable keeps the type its declaration in the source gives it: in
\* particular the empty and the open zones lie inside the vector of zones.
THEOREM TypeCorrect == Spec => []TypeOK
<1>1. IndInv => TypeOK
  BY DEF IndInv
<1> QED
  BY <1>1, Inductive, PTL

\* Cluster::write never hands out a block of a live record, and Cluster::free
\* never erases a zone that holds one, whatever the sequence of calls.
THEOREM NoLiveBlockIsReused == Spec => []ExtentsIntact
<1>1. IndInv => ExtentsIntact
  BY DEF IndInv
<1> QED
  BY <1>1, Inductive, PTL

\* FreeSpaceMap::in_use counts exactly the blocks of live records: no double
\* counting of padding, of the tail of a finished zone, or of freed blocks.
THEOREM InUseIsExact == Spec => []InUseIsLive
<1>1. IndInv => InUseIsLive
  BY DEF IndInv
<1> QED
  BY <1>1, Inductive, PTL

\* Cluster::write never leaves two zones open, so the replay of allocations in
\* FreeSpaceMap::deserialize always gets back the zone that it reopened.
THEOREM AtMostOneOpenZone == Spec => []OneOpenZone
<1>1. IndInv => OneOpenZone
  BY DEF IndInv
<1> QED
  BY <1>1, Inductive, PTL

\* The transaction range that a zone records bounds every live record in it,
\* also after the pool has been closed and reopened.
THEOREM ZoneRangesBoundRecords == Spec => []LiveTxgsInRange
<1>1. IndInv => LiveTxgsInRange
  BY DEF IndInv
<1> QED
  BY <1>1, Inductive, PTL

\* All of the allocator's accounting together, as the model checker checks it.
THEOREM AccountingExact == Spec => []Accounted
<1>1. IndInv => Accounted
  BY DEF IndInv, Accounted
<1> QED
  BY <1>1, Inductive, PTL

\* Every change to the map is marked dirty until Cluster::flush writes it, and
\* any spacemap that a flush leaves behind can be reopened.
THEOREM SpacemapFaithful == Spec => []SpacemapSound
<1>1. IndInv => SpacemapSound
  BY DEF IndInv, SpacemapSound
<1> QED
  BY <1>1, Inductive, PTL

\* Zones go from empty to open to closed to empty, and the write pointer of an
\* open zone never moves back, reopening included.
THEOREM Lifecycle == Spec => ZoneLifecycle
<1>1. IndInv /\ [Next]_vars => [LifecycleStep]_vars
  BY NextLifecycle
<1> QED
  BY <1>1, Inductive, PTL DEF Spec, ZoneLifecycle
=============================================================================
