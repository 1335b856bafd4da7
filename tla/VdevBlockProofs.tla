--------------------------- MODULE VdevBlockProofs ---------------------------
(***************************************************************************)
(* Proofs that the scheduler's state is sound, that it implements          *)
(* BlockQueue and that it issues the writes of a zone in order, for any    *)
(* queue depth, zones and number of operations.                            *)
(***************************************************************************)
EXTENDS VdevBlock, FiniteSetTheorems, TLAPS

Known == ahead \cup behind \cup afterSync \cup delayed \cup issued

\* An operation is in one place only, and has an id of its own, so that what is
\* issued was not at the disk already.
OnePlace ==
    /\ ahead \cap behind = {} /\ ahead \cap afterSync = {} /\ ahead \cap delayed = {}
    /\ ahead \cap issued = {} /\ behind \cap afterSync = {} /\ behind \cap delayed = {}
    /\ behind \cap issued = {} /\ afterSync \cap delayed = {} /\ afterSync \cap issued = {}
    /\ delayed \cap issued = {}
OwnId ==
    /\ \A o \in Known : o.id < submitted
    /\ \A o, p \in Known : o.id = p.id => o = p

\* The users' write pointers stay in their zones.
InZones == \A z \in ZoneIds : wp[z] \in ZoneStart[z] .. ZoneEnd[z] + 1

IndInv ==
    /\ TypeOK
    /\ IsFiniteSet(issued) /\ IsFiniteSet(delayed)
    /\ OnePlace
    /\ OwnId
    /\ InZones
    /\ DepthExact
    /\ SyncInFront
    /\ NeverStalls

-----------------------------------------------------------------------------
(* Facts about operations and small sets.                                  *)

\* Every LBA is a natural number, and every zone's LBAs are LBAs.
LEMMA LbaFacts == Lba \subseteq Nat /\ \A z \in ZoneIds : ZoneStart[z] .. ZoneEnd[z] \subseteq Lba
<1>1. \A z \in ZoneIds : ZoneStart[z] \in Nat /\ ZoneEnd[z] \in Nat
  BY ZoneAssumption
<1> QED
  BY <1>1 DEF Lba

\* An operation's id and LBA are numbers.
LEMMA OpFacts == \A o \in Op : o.id \in Int /\ o.lba \in Nat
<1> SUFFICES ASSUME NEW o \in Op PROVE o.id \in Int /\ o.lba \in Nat
  OBVIOUS
<1>1. o.id \in 0 .. MaxOps - 1 /\ o.lba \in Lba
  BY DEF Op
<1>2. o.id \in Int
  BY <1>1
<1>3. o.lba \in Nat
  BY <1>1, LbaFacts, Zenon
<1> QED
  BY <1>2, <1>3

\* The commands that the users submit.
LEMMA CmdFacts == Cmd = {"ReadAt", "WriteAt", "FinishZone", "WriteLabel", "WriteSpacemap", "SyncAll"}
BY DEF Cmd, Discriminant

\* A set with one element, and what Inner::delayed may be.
LEMMA Single == ASSUME NEW x PROVE IsFiniteSet({x}) /\ Cardinality({x}) = 1
BY FS_Singleton

LEMMA None == IsFiniteSet({}) /\ Cardinality({}) = 0
BY FS_EmptySet

LEMMA DelayedIsOne ==
  ASSUME IsFiniteSet(delayed), Cardinality(delayed) <= 1, NEW op \in delayed
  PROVE  delayed = {op} /\ Cardinality(delayed) = 1
<1>1. IsFiniteSet(delayed \ {op}) /\ Cardinality(delayed \ {op}) = Cardinality(delayed) - 1
  BY FS_RemoveElement
<1>2. Cardinality(delayed) \in Nat /\ Cardinality(delayed \ {op}) \in Nat
  BY <1>1, FS_CardinalityType
<1>3. Cardinality(delayed \ {op}) = 0
  BY <1>1, <1>2
<1>4. delayed \ {op} = {}
  BY <1>1, <1>3, FS_EmptySet
<1> QED
  BY <1>1, <1>2, <1>3, <1>4

-----------------------------------------------------------------------------
LEMMA InitIndInv == Init => IndInv
<1> SUFFICES ASSUME Init PROVE IndInv
  OBVIOUS
<1>1. TypeOK
  <2>1. submitted \in 0 .. MaxOps /\ queueDepth \in 0 .. QueueDepth /\ lastLba \in Nat /\ timers \in Nat
    BY DepthAssumption, BoundAssumption DEF Init
  <2>2. syncing \in BOOLEAN /\ running \in BOOLEAN /\ dropped \in BOOLEAN
    BY ZenonT(30) DEF Init
  <2>3. wp \in [ZoneIds -> Nat]
    BY ZoneAssumption DEF Init
  <2> QED
    BY <2>1, <2>2, <2>3 DEF Init, TypeOK
<1>2. OnePlace /\ OwnId /\ SyncInFront /\ NeverStalls
  BY DEF Init, OnePlace, OwnId, Known, SyncInFront, NeverStalls, pending
<1>3. InZones
  BY ZoneAssumption DEF Init, InZones
<1>4. DepthExact /\ IsFiniteSet(issued) /\ IsFiniteSet(delayed)
  BY None DEF Init, DepthExact
<1> QED
  BY <1>1, <1>2, <1>3, <1>4 DEF IndInv

\* Submitting: the operation goes to one of the queues, with an id that is new.
LEMMA SubmitOne ==
  ASSUME IndInv, NEW cmd \in Cmd, NEW lba \in Lba, SchedAndIssue(cmd, lba),
         wp' \in [ZoneIds -> Nat], finished' \subseteq ZoneIds, InZones'
  PROVE  IndInv'
<1> DEFINE op == [id |-> submitted, lba |-> lba, cmd |-> cmd]
<1>1. op \in Op /\ op.id = submitted /\ op.lba = lba /\ op.cmd = cmd
  BY BoundAssumption DEF SchedAndIssue, Op, IndInv, TypeOK
<1>2. op \notin Known
  BY <1>1 DEF IndInv, OwnId, TypeOK
<1>3. Sched(op) /\ submitted' = submitted + 1 /\ running' = TRUE
      /\ UNCHANGED <<lastLba, delayed, queueDepth, issued, timers, dropped>>
  BY DEF SchedAndIssue
<1>4. /\ ahead' \cup behind' \cup afterSync' = ahead \cup behind \cup afterSync \cup {op}
      /\ ahead' \subseteq ahead \cup {op} /\ behind' \subseteq behind \cup {op}
      /\ afterSync' \subseteq afterSync \cup {op}
      /\ \/ op \in ahead' /\ op \notin behind' /\ op \notin afterSync'
         \/ op \notin ahead' /\ op \in behind' /\ op \notin afterSync'
         \/ op \notin ahead' /\ op \notin behind' /\ op \in afterSync'
  <2> HIDE DEF op
  <2> QED BY <1>2, <1>3 DEF Sched, Known
<1>5. TypeOK'
  <2>1. ahead' \subseteq Op /\ behind' \subseteq Op /\ afterSync' \subseteq Op
    <3> HIDE DEF op
    <3> QED BY <1>1, <1>4 DEF IndInv, TypeOK
  <2>2. syncing' \in BOOLEAN
    BY ZenonT(30), <1>3 DEF Sched, IndInv, TypeOK
  <2>3. submitted' \in 0 .. MaxOps
    BY <1>3, BoundAssumption DEF SchedAndIssue, IndInv, TypeOK
  <2> QED
    BY <1>3, <2>1, <2>2, <2>3 DEF IndInv, TypeOK
<1>6. OnePlace'
  <2> HIDE DEF op
  <2> QED BY <1>2, <1>3, <1>4 DEF IndInv, OnePlace, Known
<1>7. OwnId'
  <2>1. Known' = Known \cup {op}
    <3> HIDE DEF op
    <3> QED BY <1>3, <1>4 DEF Known
  <2>2. \A o \in Known : o \in Op
    BY DEF Known, IndInv, TypeOK
  <2>3. \A o \in Known : o.id < submitted /\ o.id \in Int
    BY <2>2, BoundAssumption DEF Op, IndInv, OwnId
  <2> HIDE DEF op
  <2> QED BY <1>1, <1>3, <2>1, <2>3 DEF IndInv, OwnId, TypeOK
<1>8. SyncInFront'
  <2>1. \A o \in afterSync : o \in Op /\ o.id < submitted
    BY DEF IndInv, TypeOK, OwnId, Known
  <2> HIDE DEF op
  <2> QED BY <1>1, <1>3, <2>1, BoundAssumption DEF Sched, IndInv, SyncInFront, TypeOK, Op
<1>9. DepthExact' /\ NeverStalls' /\ IsFiniteSet(issued') /\ IsFiniteSet(delayed')
  BY <1>3 DEF IndInv, DepthExact, NeverStalls
<1> QED
  BY <1>5, <1>6, <1>7, <1>8, <1>9 DEF IndInv

LEMMA SubmitIndInv == IndInv /\ Submit => IndInv'
<1> SUFFICES ASSUME IndInv, Submit PROVE IndInv'
  OBVIOUS
<1>0. TypeOK /\ InZones /\ Lba \subseteq Nat
  BY LbaFacts DEF IndInv
<1>1. ASSUME NEW cmd \in Cmd, NEW lba \in {0, 1}, SchedAndIssue(cmd, lba), UNCHANGED <<wp, finished>>
      PROVE  IndInv'
  <2>1. lba \in Lba
    BY DEF Lba
  <2> QED
    BY <1>0, <1>1, <2>1, SubmitOne DEF TypeOK, InZones
<1>2. ASSUME NEW z \in ZoneIds, ReadAt(z) PROVE IndInv'
  <2>1. PICK lba \in ZoneStart[z] .. wp[z] - 1 : SchedAndIssue("ReadAt", lba)
    BY <1>2 DEF ReadAt
  <2>2. lba \in Lba
    BY <1>0, LbaFacts, ZoneAssumption DEF InZones, TypeOK
  <2>3. UNCHANGED <<wp, finished>>
    BY <1>2 DEF ReadAt
  <2> QED
    BY <1>0, <2>1, <2>2, <2>3, SubmitOne, CmdFacts DEF TypeOK, InZones
<1>3. ASSUME NEW z \in ZoneIds, WriteAt(z) PROVE IndInv'
  <2>1. SchedAndIssue("WriteAt", wp[z]) /\ UNCHANGED finished /\ wp' = [wp EXCEPT ![z] = @ + 1] /\ wp[z] <= ZoneEnd[z]
    BY <1>3 DEF WriteAt
  <2>2. wp[z] \in Lba
    BY <1>0, <2>1, LbaFacts, ZoneAssumption DEF InZones, TypeOK
  <2>3. wp \in [ZoneIds -> Nat] /\ ZoneStart[z] \in Nat /\ ZoneEnd[z] \in Nat
    BY <1>0, ZoneAssumption DEF TypeOK
  <2>4. wp' \in [ZoneIds -> Nat] /\ wp'[z] = wp[z] + 1 /\ \A y \in ZoneIds : y # z => wp'[y] = wp[y]
    BY <2>1, <2>3
  <2>5. wp'[z] \in ZoneStart[z] .. ZoneEnd[z] + 1
    BY <1>0, <2>1, <2>3, <2>4 DEF InZones
  <2>6. InZones'
    BY SMTT(30), <1>0, <2>4, <2>5 DEF InZones
  <2> QED
    BY <1>0, <2>1, <2>2, <2>4, <2>6, SubmitOne, CmdFacts DEF TypeOK
<1>4. ASSUME NEW z \in ZoneIds, FinishZone(z) PROVE IndInv'
  <2>1. SchedAndIssue("FinishZone", ZoneEnd[z]) /\ UNCHANGED wp /\ finished' = finished \cup {z}
    BY <1>4 DEF FinishZone
  <2>2. ZoneEnd[z] \in Lba
    BY LbaFacts, ZoneAssumption
  <2> QED
    BY <1>0, <2>1, <2>2, SubmitOne, CmdFacts DEF TypeOK, InZones
<1> QED
  BY <1>1, <1>2, <1>3, <1>4, CmdFacts DEF Submit, SyncAll, WriteLabel, WriteSpacemap

-----------------------------------------------------------------------------
(* An iteration of issue_all takes an operation out of the queues.         *)

Queued == ahead \cup behind \cup afterSync

\* What the queues are after op has been taken out of them.
TakenOut(op) ==
    /\ ahead' \cup behind' \cup afterSync' = Queued \ {op}
    /\ ahead' \cap behind' = {} /\ ahead' \cap afterSync' = {} /\ behind' \cap afterSync' = {}
    /\ syncing' \in BOOLEAN /\ lastLba' \in Nat
    /\ SyncInFront'

\* pop_op takes one operation, which was not at the disk, and schedules the others;
\* the front of after_sync, if it is what is taken, is a sync_all.
LEMMA PopTakesOut ==
  ASSUME IndInv, NEW op \in pending, Pop(op)
  PROVE  TakenOut(op) /\ op \in Queued /\ op \in Op /\ op \notin issued /\ delayed = {}
<1>0. TypeOK /\ OnePlace /\ OwnId /\ SyncInFront
  BY DEF IndInv
<1>b. op \in Op
  BY <1>0 DEF TypeOK, pending
<1>a. op \in Op /\ op.lba \in Nat /\ op.id \in Int
  BY <1>b, OpFacts
<1>1. CASE PopAhead(op)
  <2>1. op \in ahead /\ ahead' = ahead \ {op} /\ lastLba' = op.lba /\ delayed = {}
        /\ UNCHANGED <<behind, afterSync, syncing>>
    BY <1>1 DEF PopAhead, Tops
  <2>2. SyncInFront'
    BY <1>0, <2>1 DEF SyncInFront
  <2> QED
    BY <1>0, <1>a, <2>1, <2>2 DEF TakenOut, Queued, OnePlace, TypeOK
<1>2. CASE PopBehind(op)
  <2>1. op \in behind /\ ahead = {} /\ ahead' = behind \ {op} /\ behind' = {} /\ lastLba' = op.lba /\ delayed = {}
        /\ UNCHANGED <<afterSync, syncing>>
    BY <1>2 DEF PopBehind, Tops
  <2>2. SyncInFront'
    BY <1>0, <2>1 DEF SyncInFront
  <2> QED
    BY <1>0, <1>a, <2>1, <2>2 DEF TakenOut, Queued, OnePlace, TypeOK
<1>3. CASE PopSync(op)
  <2> DEFINE rest == afterSync \ {op}
             next == UntilNextSync(rest)
  <2>1. delayed = {} /\ ahead = {} /\ behind = {} /\ op \in afterSync /\ UNCHANGED lastLba
        /\ \A p \in afterSync : op.id <= p.id
    BY <1>3 DEF PopSync
  <2>2. op.cmd = "SyncAll"
    <3>1. PICK s \in afterSync : s.cmd = "SyncAll" /\ s.id <= op.id
      BY <1>0, <2>1 DEF SyncInFront
    <3>2. s \in Op /\ s.id \in Int /\ op.id <= s.id
      BY <1>0, <2>1 DEF TypeOK, Op
    <3>3. s = op
      BY <1>0, <1>a, <2>1, <3>1, <3>2 DEF OwnId, Known
    <3> QED
      BY <3>1, <3>3
  <2>3. /\ afterSync' = rest \ next
        /\ syncing' = (rest \ next # {})
        /\ ahead' = {o \in next : o.lba >= lastLba}
        /\ behind' = {o \in next : o.lba < lastLba}
    BY <1>3, <2>2 DEF PopSync
  <2>4. next \subseteq rest /\ rest \subseteq Op
    BY <1>0 DEF UntilNextSync, TypeOK
  <2>5. ahead' \cup behind' = next /\ ahead' \cap behind' = {}
    <3>1. \A o \in next : o.lba \in Nat
      BY <2>4, OpFacts
    <3>2. lastLba \in Nat
      BY <1>0 DEF TypeOK
    <3> HIDE DEF rest, next
    <3> QED BY <2>3, <3>1, <3>2
  <2>6. \A o \in rest \ next : \E s \in rest \ next : s.cmd = "SyncAll" /\ s.id <= o.id
    <3> SUFFICES ASSUME NEW o \in rest \ next
                 PROVE  \E s \in rest \ next : s.cmd = "SyncAll" /\ s.id <= o.id
      OBVIOUS
    <3>1. \A x \in rest : x.id \in Int
      BY <2>4 DEF Op
    <3>2. PICK s \in rest : s.cmd = "SyncAll" /\ ~ (o.id < s.id)
      BY DEF UntilNextSync
    <3>3. s \notin next
      BY <3>1, <3>2 DEF UntilNextSync
    <3> QED
      BY <3>1, <3>2, <3>3
  <2>7. SyncInFront'
    <3> HIDE DEF rest, next
    <3> QED BY ZenonT(30), <2>3, <2>6 DEF SyncInFront
  <2>8. syncing' \in BOOLEAN /\ lastLba' \in Nat
    BY <1>0, <2>1, <2>3 DEF TypeOK
  <2>9. TakenOut(op)
    <3>1. Queued \ {op} = rest
      BY <2>1 DEF Queued
    <3> HIDE DEF rest, next
    <3> QED BY <2>3, <2>4, <2>5, <2>7, <2>8, <3>1 DEF TakenOut
  <2> QED
    BY <1>0, <1>a, <2>1, <2>9 DEF Queued, OnePlace
<1> QED
  BY <1>1, <1>2, <1>3 DEF Pop

\* A delayed operation leaves the queues as they are.
LEMMA DelayedTakesOut ==
  ASSUME IndInv, NEW op, TakeDelayed(op)
  PROVE  TakenOut(op) /\ op \notin Queued /\ op \in Op /\ op \notin issued /\ op \in delayed
<1>0. TypeOK /\ OnePlace /\ SyncInFront
  BY DEF IndInv
<1>1. op \in delayed /\ UNCHANGED <<ahead, behind, afterSync, syncing, lastLba>>
  BY DEF TakeDelayed
<1>2. op \notin Queued
  BY <1>0, <1>1 DEF OnePlace, Queued
<1>3. SyncInFront'
  BY <1>0, <1>1 DEF SyncInFront
<1>4. TakenOut(op)
  BY <1>0, <1>1, <1>2, <1>3 DEF TakenOut, Queued, OnePlace, TypeOK
<1> QED
  BY <1>0, <1>1, <1>2, <1>4 DEF OnePlace, TypeOK

\* The conjuncts that do not depend on whether the disk accepts what was taken.
LEMMA TakenPlaces ==
  ASSUME IndInv, NEW op \in Op, op \in Queued \cup delayed, op \notin issued, TakenOut(op),
         op \in Queued => delayed = {}, delayed \subseteq {op},
         issued' \subseteq issued \cup {op}, delayed' \subseteq {op},
         issued' \cap delayed' = {}, UNCHANGED <<submitted, dropped, wp, finished>>
  PROVE  /\ OnePlace' /\ OwnId' /\ InZones' /\ SyncInFront'
         /\ ahead' \subseteq Op /\ behind' \subseteq Op /\ afterSync' \subseteq Op
         /\ delayed' \subseteq Op /\ issued' \subseteq Op
<1>0. TypeOK /\ OnePlace /\ OwnId /\ InZones
  BY DEF IndInv
<1>1. Queued \subseteq Op /\ issued \subseteq Op /\ Queued \cap issued = {}
  BY <1>0 DEF Queued, TypeOK, OnePlace
<1>2. ahead' \subseteq Queued \ {op} /\ behind' \subseteq Queued \ {op} /\ afterSync' \subseteq Queued \ {op}
  BY DEF TakenOut
<1>3. OnePlace'
  BY <1>1, <1>2 DEF TakenOut, OnePlace
<1>4. Known' \subseteq Known
  BY <1>2 DEF Known, Queued
<1>5. OwnId'
  BY <1>0, <1>4 DEF OwnId
<1>6. InZones' /\ SyncInFront'
  BY <1>0 DEF InZones, TakenOut
<1> QED
  BY <1>1, <1>2, <1>3, <1>5, <1>6

\* The disk accepts the operation: it is at the disk now, or complete already.
LEMMA AcceptIndInv ==
  ASSUME IndInv, NEW op \in Op, op \in Queued \cup delayed, op \notin issued, TakenOut(op),
         op \in Queued => delayed = {}, running, queueDepth < QueueDepth,
         NEW depth, depth = Cardinality(issued) + 1, depth \in 0 .. QueueDepth,
         delayed \subseteq {op},
         Accept(op, depth), UNCHANGED <<submitted, dropped, wp, finished>>
  PROVE  IndInv'
<1>0. TypeOK /\ IsFiniteSet(issued) /\ Cardinality(issued) \in Nat
  BY FS_CardinalityType DEF IndInv
<1>1. delayed' = {} /\ UNCHANGED <<running, timers>>
      /\ \/ issued' = issued \cup {op} /\ queueDepth' = depth
         \/ issued' = issued /\ queueDepth' = depth - 1
  BY DEF Accept
<1>2. IsFiniteSet(issued') /\ queueDepth' = Cardinality(issued') /\ queueDepth' \in 0 .. QueueDepth
  <2>1. IsFiniteSet(issued \cup {op}) /\ Cardinality(issued \cup {op}) = Cardinality(issued) + 1
    BY SMTT(30), <1>0, FS_AddElement
  <2>2. CASE issued' = issued \cup {op} /\ queueDepth' = depth
    <3>1. IsFiniteSet(issued') /\ Cardinality(issued') = Cardinality(issued) + 1
      BY <2>1, <2>2
    <3> QED
      BY <2>2, <3>1
  <2>3. CASE issued' = issued /\ queueDepth' = depth - 1
    <3>1. IsFiniteSet(issued') /\ Cardinality(issued') = Cardinality(issued)
      BY <1>0, <2>3
    <3>2. depth - 1 = Cardinality(issued) /\ depth - 1 \in 0 .. QueueDepth
      BY <1>0, DepthAssumption
    <3> QED
      BY <2>3, <3>1, <3>2
  <2> QED
    BY <1>1, <2>2, <2>3
<1>3. /\ OnePlace' /\ OwnId' /\ InZones' /\ SyncInFront'
      /\ ahead' \subseteq Op /\ behind' \subseteq Op /\ afterSync' \subseteq Op
      /\ delayed' \subseteq Op /\ issued' \subseteq Op
  BY <1>1, TakenPlaces
<1>4. DepthExact' /\ IsFiniteSet(delayed')
  BY SMTT(30), <1>0, <1>1, <1>2, None DEF DepthExact
<1>5. NeverStalls'
  BY <1>1 DEF NeverStalls
<1>6. TypeOK'
  BY SMTT(30), <1>0, <1>1, <1>2, <1>3 DEF TypeOK, TakenOut
<1> QED
  BY <1>2, <1>3, <1>4, <1>5, <1>6 DEF IndInv

\* The disk refuses it: something is at the disk, or a timer is started.
LEMMA RefuseIndInv ==
  ASSUME IndInv, NEW op \in Op, op \in Queued \cup delayed, op \notin issued, TakenOut(op),
         op \in Queued => delayed = {}, running, queueDepth < QueueDepth,
         NEW depth, depth = Cardinality(issued) + 1, depth \in 0 .. QueueDepth,
         delayed \subseteq {op},
         Refuse(op, depth), UNCHANGED <<submitted, dropped, wp, finished>>
  PROVE  IndInv'
<1>0. TypeOK /\ IsFiniteSet(issued) /\ Cardinality(issued) \in Nat
  BY FS_CardinalityType DEF IndInv
<1>1. delayed' = {op} /\ issued' = issued /\ queueDepth' = depth /\ running' = FALSE
      /\ timers' = IF depth = 1 THEN timers + 1 ELSE timers
  BY DEF Refuse
<1>2. IsFiniteSet(delayed') /\ Cardinality(delayed') = 1
  BY ZenonT(30), <1>1, Single
<1>3. /\ OnePlace' /\ OwnId' /\ InZones' /\ SyncInFront'
      /\ ahead' \subseteq Op /\ behind' \subseteq Op /\ afterSync' \subseteq Op
      /\ delayed' \subseteq Op /\ issued' \subseteq Op
  BY <1>1, TakenPlaces
<1>4. DepthExact'
  BY <1>0, <1>1, <1>2 DEF DepthExact
<1>5. timers' \in Nat
  BY <1>0, <1>1 DEF TypeOK
<1>6. issued' # {} \/ timers' > 0
  <2>1. CASE depth = 1
    BY <1>0, <1>1, <2>1 DEF TypeOK
  <2>2. CASE depth # 1
    <3>1. Cardinality(issued) # 0
      BY SMTT(30), <1>0, <2>2
    <3>2. issued # {}
      BY <3>1, None
    <3> QED
      BY <1>1, <3>2
  <2> QED
    BY <2>1, <2>2
<1>7. NeverStalls'
  BY SMTT(30), <1>1, <1>6 DEF NeverStalls
<1>8. TypeOK'
  <2>1. running' \in BOOLEAN /\ dropped' \in BOOLEAN /\ syncing' \in BOOLEAN
    BY ZenonT(30), <1>0, <1>1 DEF TypeOK, TakenOut
  <2> QED
    BY SMTT(30), <1>0, <1>1, <1>3, <1>5, <2>1 DEF TypeOK, TakenOut
<1> QED
  BY <1>0, <1>1, <1>2, <1>3, <1>4, <1>7, <1>8 DEF IndInv

\* What both lemmas need to know of a step of the loop.
LEMMA TakeCount ==
  ASSUME IndInv, queueDepth < QueueDepth, NEW op \in delayed
  PROVE  delayed = {op} /\ queueDepth = Cardinality(issued) + 1 /\ queueDepth \in 0 .. QueueDepth
<1>1. delayed = {op} /\ Cardinality(delayed) = 1
  BY DelayedIsOne DEF IndInv, DepthExact
<1> QED
  BY <1>1 DEF IndInv, DepthExact, TypeOK

LEMMA PopCount ==
  ASSUME IndInv, queueDepth < QueueDepth, delayed = {}
  PROVE  queueDepth + 1 = Cardinality(issued) + 1 /\ queueDepth + 1 \in 0 .. QueueDepth
<1>1. queueDepth \in Nat /\ Cardinality(issued) \in Nat /\ queueDepth = Cardinality(issued) + Cardinality(delayed)
  BY FS_CardinalityType DEF IndInv, TypeOK, DepthExact
<1>2. Cardinality(delayed) = 0
  BY None
<1> QED
  BY <1>1, <1>2, DepthAssumption

LEMMA IssueIndInv == IndInv /\ (IssueAccepted \/ IssueRefused) => IndInv'
<1> SUFFICES ASSUME IndInv, IssueAccepted \/ IssueRefused PROVE IndInv'
  OBVIOUS
<1>0. running /\ queueDepth < QueueDepth /\ UNCHANGED <<submitted, dropped, wp, finished>>
  BY DEF IssueAccepted, IssueRefused
<1>1. ASSUME NEW op, TakeDelayed(op), Accept(op, queueDepth) \/ Refuse(op, queueDepth) PROVE IndInv'
  <2>1. TakenOut(op) /\ op \notin Queued /\ op \in Op /\ op \notin issued /\ op \in delayed
    BY <1>1, DelayedTakesOut
  <2>2. delayed = {op} /\ queueDepth = Cardinality(issued) + 1 /\ queueDepth \in 0 .. QueueDepth
    BY SMTT(30), <1>0, <2>1, TakeCount
  <2>3. delayed \subseteq {op} /\ op \in Queued \cup delayed /\ (op \in Queued => delayed = {})
    BY <2>1, <2>2
  <2>4. CASE Accept(op, queueDepth)
    BY SMTT(30), <1>0, <2>1, <2>2, <2>3, <2>4, AcceptIndInv
  <2>5. CASE Refuse(op, queueDepth)
    BY <1>0, <2>1, <2>2, <2>3, <2>5, RefuseIndInv
  <2> QED
    BY SMTT(30), <1>1, <2>4, <2>5
<1>2. ASSUME NEW op \in pending, Pop(op), Accept(op, queueDepth + 1) \/ Refuse(op, queueDepth + 1) PROVE IndInv'
  <2>1. TakenOut(op) /\ op \in Queued /\ op \in Op /\ op \notin issued /\ delayed = {}
    BY <1>2, PopTakesOut
  <2>2. queueDepth + 1 = Cardinality(issued) + 1 /\ queueDepth + 1 \in 0 .. QueueDepth
    BY SMTT(30), <1>0, <2>1, PopCount
  <2>3. delayed \subseteq {op} /\ op \in Queued \cup delayed
    BY <2>1
  <2>4. CASE Accept(op, queueDepth + 1)
    BY SMTT(30), <1>0, <2>1, <2>2, <2>3, <2>4, AcceptIndInv
  <2>5. CASE Refuse(op, queueDepth + 1)
    BY <1>0, <2>1, <2>2, <2>3, <2>5, RefuseIndInv
  <2> QED
    BY SMTT(30), <1>2, <2>4, <2>5
<1> QED
  BY <1>1, <1>2 DEF IssueAccepted, IssueRefused

-----------------------------------------------------------------------------
LEMMA StopsIndInv == IndInv /\ IssueStops => IndInv'
<1> SUFFICES ASSUME IndInv, IssueStops PROVE IndInv'
  OBVIOUS
<1>0. /\ running' = FALSE /\ (queueDepth < QueueDepth => pending = {})
      /\ UNCHANGED <<submitted, ahead, behind, afterSync, syncing, lastLba, delayed, queueDepth,
                     issued, timers, dropped, wp, finished>>
  BY DEF IssueStops
<1>1. TypeOK /\ DepthExact /\ Cardinality(issued) \in Nat /\ Cardinality(delayed) \in Nat
  BY FS_CardinalityType DEF IndInv
<1>2. pending # {} => issued # {}
  <2> SUFFICES ASSUME pending # {} PROVE issued # {}
    OBVIOUS
  <2>1. Cardinality(issued) # 0
    BY SMTT(30), <1>0, <1>1, DepthAssumption DEF DepthExact, TypeOK
  <2> QED
    BY SMTT(30), <2>1, None
<1>3. NeverStalls'
  BY <1>0, <1>2 DEF NeverStalls, pending
<1>4. TypeOK'
  BY ZenonT(30), <1>0, <1>1 DEF TypeOK
<1>5. OnePlace' /\ OwnId' /\ InZones' /\ DepthExact' /\ SyncInFront' /\ IsFiniteSet(issued') /\ IsFiniteSet(delayed')
  BY <1>0 DEF IndInv, OnePlace, OwnId, Known, InZones, DepthExact, SyncInFront
<1> QED
  BY SMTT(30), <1>3, <1>4, <1>5 DEF IndInv

LEMMA FinishIndInv == IndInv /\ Finish => IndInv'
<1> SUFFICES ASSUME IndInv, NEW op \in issued, Complete(op) PROVE IndInv'
  BY DEF Finish
<1>0. /\ issued' = issued \ {op} /\ queueDepth' = queueDepth - 1 /\ running' = TRUE
      /\ UNCHANGED <<submitted, ahead, behind, afterSync, syncing, lastLba, delayed, timers, dropped, wp, finished>>
  BY SMTT(30) DEF Complete
<1>1. TypeOK /\ DepthExact /\ Cardinality(issued) \in Nat /\ Cardinality(delayed) \in Nat
  BY SMTT(30), FS_CardinalityType DEF IndInv
<1>2. IsFiniteSet(issued') /\ Cardinality(issued') = Cardinality(issued) - 1 /\ Cardinality(issued') \in Nat
  BY SMTT(30), <1>0, FS_RemoveElement, FS_CardinalityType DEF IndInv
<1>3. DepthExact' /\ queueDepth' \in 0 .. QueueDepth
  BY SMTT(30), <1>0, <1>1, <1>2, DepthAssumption DEF DepthExact, TypeOK
<1>4. TypeOK'
  BY SMTT(30), <1>0, <1>1, <1>3 DEF TypeOK
<1>5. OnePlace' /\ OwnId' /\ InZones' /\ SyncInFront' /\ NeverStalls' /\ IsFiniteSet(delayed')
  BY SMTT(30), <1>0 DEF IndInv, OnePlace, OwnId, Known, InZones, SyncInFront, NeverStalls
<1> QED
  BY <1>2, <1>3, <1>4, <1>5 DEF IndInv

\* Neither a timer nor dropping the device touches the queues.
LEMMA OtherIndInv == IndInv /\ (TimerFires \/ Drop \/ UNCHANGED vars) => IndInv'
<1> SUFFICES ASSUME IndInv, TimerFires \/ Drop \/ UNCHANGED vars PROVE IndInv'
  BY SMTT(30)
<1>0. UNCHANGED <<submitted, ahead, behind, afterSync, syncing, lastLba, delayed, queueDepth, issued, wp, finished>>
  BY SMTT(30) DEF TimerFires, Drop, vars
<1>1. OnePlace' /\ OwnId' /\ InZones' /\ DepthExact' /\ SyncInFront' /\ IsFiniteSet(issued') /\ IsFiniteSet(delayed')
  BY ZenonT(30), <1>0 DEF IndInv, OnePlace, OwnId, Known, InZones, DepthExact, SyncInFront
<1>2. TypeOK
  BY DEF IndInv
<1>3. CASE TimerFires
  <2>1. running' = TRUE /\ timers' = timers - 1 /\ timers > 0 /\ UNCHANGED dropped
    BY SMTT(30), <1>3 DEF TimerFires
  <2>2. TypeOK'
    BY SMTT(30), <1>0, <1>2, <2>1 DEF TypeOK
  <2> QED
    BY SMTT(30), <1>1, <2>1, <2>2 DEF IndInv, NeverStalls
<1>4. CASE Drop
  <2>1. dropped' = TRUE /\ pending = {} /\ UNCHANGED <<running, timers>>
    BY SMTT(30), <1>4 DEF Drop
  <2>2. TypeOK'
    BY SMTT(30), <1>0, <1>2, <2>1 DEF TypeOK
  <2>3. NeverStalls'
    BY SMTT(30), <1>0, <2>1 DEF NeverStalls, pending
  <2> QED
    BY SMTT(30), <1>1, <2>2, <2>3 DEF IndInv
<1>5. CASE UNCHANGED vars
  BY SMTT(30), <1>1, <1>5 DEF IndInv, vars, TypeOK, NeverStalls, pending
<1> QED
  BY <1>3, <1>4, <1>5

-----------------------------------------------------------------------------
\* The inductive invariant holds in every state that calls and completions lead to.
THEOREM Inductive == Spec => []IndInv
<1>1. IndInv /\ [Next]_vars => IndInv'
  BY ZenonT(30), SubmitIndInv, IssueIndInv, StopsIndInv, FinishIndInv, OtherIndInv DEF Next
<1> QED
  BY <1>1, InitIndInv, PTL DEF Spec

\* For any depth of the queue, any zones and any number of operations, issue_all and
\* pop_op find the scheduler's state as they expect it: the depth is exact, a sync_all
\* is at the front of after_sync, and nothing waits with nobody to issue it.
THEOREM SchedulerIsSound == Spec => []SchedulerSound
<1>1. IndInv => SchedulerSound
  BY SMTT(30) DEF IndInv, SchedulerSound
<1> QED
  BY <1>1, Inductive, PTL

-----------------------------------------------------------------------------
(* The barrier of sync_all.                                               *)

\* What makes sync_all a barrier: no sync_all is in a heap, what is in the heaps or
\* delayed was submitted before everything in after_sync, and a delayed sync_all was
\* submitted before everything in the heaps.
Heaps == ahead \cup behind
Barrier ==
    /\ \A o \in Heaps : o.cmd # "SyncAll"
    /\ \A o \in Heaps \cup delayed : \A p \in afterSync : o.id < p.id
    /\ \A d \in delayed : d.cmd = "SyncAll" => \A o \in Heaps : d.id < o.id

\* What holds when op has been taken out of the queues.
Barred(op) ==
    /\ \A o \in Heaps' : o.cmd # "SyncAll"
    /\ \A o \in Heaps' \cup {op} : \A p \in afterSync' : o.id < p.id
    /\ op.cmd = "SyncAll" => \A o \in Heaps' : op.id < o.id
    /\ \A p \in pending : p.id < op.id => p.cmd # "SyncAll" /\ op.cmd # "SyncAll"

\* Everything that is queued is an operation, with a number for its id.
LEMMA PendingIds == IndInv => pending \subseteq Op /\ \A o \in pending : o.id \in Int
<1> SUFFICES ASSUME IndInv PROVE pending \subseteq Op /\ \A o \in pending : o.id \in Int
  BY SMTT(30)
<1>1. pending \subseteq Op
  BY SMTT(30) DEF IndInv, TypeOK, pending
<1> QED
  BY SMTT(30), <1>1, OpFacts

-----------------------------------------------------------------------------
(* Submitting.                                                             *)

\* The scheduler's submission is the queue's, and keeps the barrier: with a sync_all
\* waiting everything goes behind it.
LEMMA SubmitOneRefines ==
  ASSUME IndInv, Barrier, NEW cmd \in Cmd, NEW lba \in Lba, SchedAndIssue(cmd, lba)
  PROVE  Barrier' /\ \E o \in Op : Queue!Submit(o)
<1> DEFINE op == [id |-> submitted, lba |-> lba, cmd |-> cmd]
<1>1. op \in Op /\ op.id = submitted /\ op.cmd = cmd
  BY SMTT(30), BoundAssumption DEF SchedAndIssue, Op, IndInv, TypeOK
<1>2. Sched(op) /\ submitted' = submitted + 1 /\ UNCHANGED <<delayed, issued>>
  BY SMTT(30) DEF SchedAndIssue
<1>3. (\A o \in pending : o.id < submitted /\ o.id \in Int) /\ submitted \in Int
  BY SMTT(30), PendingIds DEF IndInv, OwnId, Known, pending, TypeOK
<1> HIDE DEF op
<1>4. pending' = pending \cup {op}
  BY SMTT(30), <1>2 DEF Sched, pending
<1>5. CASE cmd = "SyncAll" \/ syncing
  <2>1. afterSync' = afterSync \cup {op} /\ Heaps' = Heaps
    BY SMTT(30), <1>1, <1>2, <1>5 DEF Sched, Heaps
  <2>2. \A o \in Heaps \cup delayed : o.id < op.id
    BY SMTT(30), <1>1, <1>3 DEF Heaps, pending
  <2> QED
    BY SMTT(30), <1>1, <1>2, <1>4, <2>1, <2>2 DEF Barrier, Queue!Submit
<1>6. CASE ~ (cmd = "SyncAll" \/ syncing)
  <2>1. afterSync' = {} /\ Heaps' = Heaps \cup {op}
    <3>1. afterSync = {}
      BY SMTT(30), <1>6 DEF IndInv, SyncInFront
    <3> QED
      BY SMTT(30), <1>1, <1>2, <1>6, <3>1 DEF Sched, Heaps
  <2>2. \A d \in delayed : d.id < op.id
    BY SMTT(30), <1>1, <1>3 DEF pending
  <2> QED
    BY SMTT(30), <1>1, <1>2, <1>4, <1>6, <2>1, <2>2 DEF Barrier, Queue!Submit
<1> QED
  BY SMTT(30), <1>5, <1>6

LEMMA SubmitRefines == IndInv /\ Barrier /\ Submit => Barrier' /\ \E o \in Op : Queue!Submit(o)
<1> SUFFICES ASSUME IndInv, Barrier, Submit PROVE \E cmd \in Cmd, lba \in Lba : SchedAndIssue(cmd, lba)
  BY SMTT(30), SubmitOneRefines
<1>0. TypeOK /\ InZones /\ 0 \in Lba /\ 1 \in Lba
  BY SMTT(30) DEF IndInv, Lba
<1>1. ASSUME NEW z \in ZoneIds, ReadAt(z) PROVE \E cmd \in Cmd, lba \in Lba : SchedAndIssue(cmd, lba)
  <2>1. PICK lba \in ZoneStart[z] .. wp[z] - 1 : SchedAndIssue("ReadAt", lba)
    BY SMTT(30), <1>1 DEF ReadAt
  <2>2. lba \in Lba
    BY SMTT(30), <1>0, LbaFacts, ZoneAssumption DEF InZones, TypeOK
  <2> QED
    BY SMTT(30), <2>1, <2>2, CmdFacts
<1>2. ASSUME NEW z \in ZoneIds, WriteAt(z) PROVE \E cmd \in Cmd, lba \in Lba : SchedAndIssue(cmd, lba)
  <2>1. SchedAndIssue("WriteAt", wp[z]) /\ wp[z] <= ZoneEnd[z]
    BY SMTT(30), <1>2 DEF WriteAt
  <2>2. wp[z] \in Lba
    BY SMTT(30), <1>0, <2>1, LbaFacts, ZoneAssumption DEF InZones, TypeOK
  <2> QED
    BY SMTT(30), <2>1, <2>2, CmdFacts
<1>3. ASSUME NEW z \in ZoneIds, FinishZone(z) PROVE \E cmd \in Cmd, lba \in Lba : SchedAndIssue(cmd, lba)
  <2>1. SchedAndIssue("FinishZone", ZoneEnd[z])
    BY SMTT(30), <1>3 DEF FinishZone
  <2>2. ZoneEnd[z] \in Lba
    BY SMTT(30), LbaFacts, ZoneAssumption
  <2> QED
    BY SMTT(30), <2>1, <2>2, CmdFacts
<1> QED
  BY SMTT(30), <1>0, <1>1, <1>2, <1>3, CmdFacts DEF Submit, SyncAll, WriteLabel, WriteSpacemap

-----------------------------------------------------------------------------
(* Issuing.                                                                *)

\* pop_op: a heap holds no sync_all and nothing that follows one, and the sync_all it
\* takes from after_sync is the oldest operation of all.
LEMMA PopBarred == ASSUME IndInv, Barrier, NEW op \in pending, Pop(op) PROVE Barred(op)
<1>0. TypeOK /\ SyncInFront /\ OwnId /\ OnePlace
  BY SMTT(30) DEF IndInv
<1>1. delayed = {} /\ pending \subseteq Op /\ \A o \in pending : o.id \in Int
  BY SMTT(30), PendingIds DEF Pop, PopAhead, PopBehind, PopSync
<1>2. CASE PopAhead(op) \/ PopBehind(op)
  <2>1. op \in Heaps /\ Heaps' = Heaps \ {op} /\ afterSync' = afterSync
    BY SMTT(30), <1>0, <1>2 DEF PopAhead, PopBehind, Tops, Heaps, OnePlace
  <2>2. op.cmd # "SyncAll" /\ pending = Heaps \cup afterSync
    BY SMTT(30), <1>1, <2>1 DEF Barrier, pending, Heaps
  <2>3. \A p \in pending : p.id < op.id => p.cmd # "SyncAll"
    BY SMTT(30), <1>1, <2>1, <2>2 DEF Barrier
  <2> QED
    BY SMTT(30), <2>1, <2>2, <2>3 DEF Barred, Barrier
<1>3. CASE PopSync(op)
  <2> DEFINE rest == afterSync \ {op}
             next == UntilNextSync(rest)
  <2>1. Heaps = {} /\ pending = afterSync /\ op \in afterSync /\ \A p \in afterSync : op.id <= p.id
    BY SMTT(30), <1>1, <1>3 DEF PopSync, Heaps, pending
  <2>2. op.cmd = "SyncAll"
    <3>1. PICK s \in afterSync : s.cmd = "SyncAll" /\ s.id <= op.id
      BY SMTT(30), <1>0, <2>1 DEF SyncInFront
    <3>2. s = op
      BY SMTT(30), <1>0, <1>1, <2>1, <3>1 DEF OwnId, Known
    <3> QED
      BY <3>1, <3>2
  <2>3. afterSync' = rest \ next /\ Heaps' \subseteq next
    BY SMTT(30), <1>3, <2>2 DEF PopSync, Heaps
  <2>4. \A p \in rest : op.id < p.id
    BY SMTT(30), <1>0, <1>1, <2>1 DEF OwnId, Known
  <2>5. \A o \in next : o \in rest /\ o.cmd # "SyncAll" /\ \A p \in rest \ next : o.id < p.id
    <3> SUFFICES ASSUME NEW o \in next, NEW p \in rest \ next
                 PROVE  o \in rest /\ o.cmd # "SyncAll" /\ o.id < p.id
      BY <1>1, <2>1 DEF UntilNextSync
    <3>1. PICK s \in rest : s.cmd = "SyncAll" /\ ~ (p.id < s.id)
      BY SMTT(30) DEF UntilNextSync
    <3>2. o \in rest /\ o.id < s.id /\ o.cmd # "SyncAll"
      BY <1>1, <2>1, <3>1 DEF UntilNextSync
    <3> QED
      BY SMTT(30), <1>1, <2>1, <3>1, <3>2
  <2>6. \A p \in pending : ~ (p.id < op.id)
    BY <1>1, <2>1
  <2> HIDE DEF rest, next
  <2>7. rest \subseteq afterSync
    BY DEF rest
  <2> QED
    BY SMTT(30), <2>2, <2>3, <2>4, <2>5, <2>6, <2>7 DEF Barred
<1> QED
  BY SMTT(30), <1>2, <1>3 DEF Pop

\* The delayed operation, which is alone, is tried before any other.
LEMMA DelayedBarred == ASSUME IndInv, Barrier, NEW op, TakeDelayed(op) PROVE Barred(op)
<1>1. op \in delayed /\ Heaps' = Heaps /\ afterSync' = afterSync
  BY DEF TakeDelayed, Heaps
<1>2. delayed = {op} /\ pending = Heaps \cup afterSync \cup {op}
  BY SMTT(30), <1>1, DelayedIsOne DEF IndInv, DepthExact, pending, Heaps
<1>3. \A o \in pending : o.id \in Int
  BY PendingIds
<1>4. \A p \in pending : p.id < op.id => p.cmd # "SyncAll" /\ op.cmd # "SyncAll"
  BY SMTT(30), <1>2, <1>3 DEF Barrier
<1> QED
  BY SMTT(30), <1>1, <1>2, <1>4 DEF Barred, Barrier

\* An operation that the disk accepts is issued; one that it refuses still waits.
LEMMA IssueRefines ==
  ASSUME IndInv, Barrier, IssueAccepted \/ IssueRefused
  PROVE  Barrier' /\ ((\E o \in pending : Queue!Issue(o)) \/ UNCHANGED Queue!vars)
<1>0. UNCHANGED submitted
  BY SMTT(30) DEF IssueAccepted, IssueRefused
<1>1. PICK op \in pending :
        /\ TakeDelayed(op) \/ Pop(op)
        /\ \E depth : Accept(op, depth) \/ Refuse(op, depth)
  BY DEF IssueAccepted, IssueRefused
<1>2. Barred(op)
  BY SMTT(30), <1>1, PopBarred, DelayedBarred
<1>3. (ahead' \cup behind' \cup afterSync') = pending \ {op}
  <2>1. CASE TakeDelayed(op)
    <3>1. delayed = {op} /\ op \notin Queued /\ TakenOut(op)
      BY <2>1, DelayedTakesOut, DelayedIsOne DEF IndInv, DepthExact
    <3> QED
      BY SMTT(30), <3>1 DEF TakenOut, Queued, pending
  <2>2. CASE Pop(op)
    <3>1. delayed = {} /\ TakenOut(op)
      BY <2>2, PopTakesOut
    <3> QED
      BY SMTT(30), <3>1 DEF TakenOut, Queued, pending
  <2> QED
    BY SMTT(30), <1>1, <2>1, <2>2
<1>4. delayed' \subseteq {op}
  BY SMTT(30), <1>1 DEF Accept, Refuse
<1>5. Barrier'
  BY <1>2, <1>4 DEF Barrier, Barred
<1>6. CASE \E depth : Accept(op, depth)
  <2>1. pending' = pending \ {op} /\ issued' \in {issued, issued \cup {op}}
    BY SMTT(30), <1>3, <1>6 DEF Accept, pending
  <2>2. Queue!Issue(op)
    BY SMTT(30), <1>0, <1>2, <2>1 DEF Queue!Issue, Barred
  <2> QED
    BY SMTT(30), <1>5, <2>2
<1>7. CASE \E depth : Refuse(op, depth)
  <2>1. pending' = pending /\ issued' = issued
    BY SMTT(30), <1>3, <1>7 DEF Refuse, pending
  <2> QED
    BY SMTT(30), <1>0, <1>5, <2>1 DEF Queue!vars
<1> QED
  BY <1>1, <1>6, <1>7

-----------------------------------------------------------------------------
LEMMA OtherRefines ==
  ASSUME Barrier, IssueStops \/ Finish \/ TimerFires \/ Drop \/ UNCHANGED vars
  PROVE  Barrier' /\ ((\E o \in issued : Queue!Complete(o)) \/ UNCHANGED Queue!vars)
<1>1. UNCHANGED <<submitted, ahead, behind, afterSync, delayed>>
  BY SMTT(30) DEF IssueStops, Finish, Complete, TimerFires, Drop, vars
<1>2. Barrier' /\ pending' = pending
  BY SMTT(30), <1>1 DEF Barrier, Heaps, pending
<1>3. (\E o \in issued : issued' = issued \ {o}) \/ UNCHANGED issued
  BY SMTT(30) DEF IssueStops, Finish, Complete, TimerFires, Drop, vars
<1> QED
  BY SMTT(30), <1>1, <1>2, <1>3 DEF Queue!Complete, Queue!vars

\* For any depth of the queue, any zones and any number of operations, Inner's heaps,
\* after_sync queue and delayed operation are together a queue with barriers: nothing
\* is lost or issued twice, and a sync_all is issued after everything that was
\* submitted before it and before everything that was submitted after it.
THEOREM SchedulerRefinesQueue == Spec => IsBlockQueue
<1>1. Init => Queue!Init /\ Barrier
  BY SMTT(30) DEF Init, Queue!Init, pending, Barrier, Heaps
<1>2. IndInv /\ Barrier /\ [Next]_vars => Barrier' /\ [Queue!Next]_(Queue!vars)
  <2> SUFFICES ASSUME IndInv, Barrier, [Next]_vars PROVE Barrier' /\ [Queue!Next]_(Queue!vars)
    BY SMTT(30)
  <2>1. CASE Submit
    BY <2>1, SubmitRefines DEF Queue!Next
  <2>2. CASE IssueAccepted \/ IssueRefused
    BY SMTT(30), <2>2, IssueRefines DEF Queue!Next
  <2>3. CASE IssueStops \/ Finish \/ TimerFires \/ Drop \/ UNCHANGED vars
    BY <2>3, OtherRefines DEF Queue!Next
  <2> QED
    BY <2>1, <2>2, <2>3 DEF Next
<1> QED
  BY <1>1, <1>2, Inductive, PTL DEF Spec, IsBlockQueue, Queue!Spec

-----------------------------------------------------------------------------
(* Zones are written sequentially.                                         *)

\* How the elevator keeps a zone sequential.
ZoneLbas(z) == ZoneStart[z] .. ZoneEnd[z]
Sequential(z) ==
    \* Operations on the zone are below its write pointer, or finish it;
    /\ \A q \in pending : q.lba \in ZoneLbas(z) =>
          \/ q.cmd \in {"ReadAt", "WriteAt"} /\ q.lba < wp[z]
          \/ q.cmd = "FinishZone" /\ q.lba = ZoneEnd[z] /\ z \in finished
    /\ lastLba \in ZoneLbas(z) => lastLba < wp[z] \/ z \in finished
    \* the elevator has not passed a write that waits, nor will what came before it pass it;
    /\ \A o \in pending : InZone(o, z) =>
          /\ \A q \in pending : q.lba \in ZoneLbas(z) /\ q.id < o.id => q.lba <= o.lba
          /\ \A p \in pending : InZone(p, z) /\ p.id < o.id => Sooner(p, o)
          /\ o \notin delayed /\ lastLba \in ZoneLbas(z) => lastLba <= o.lba
    \* and what is delayed is the oldest.
    /\ \A d \in delayed, p \in pending : InZone(d, z) /\ InZone(p, z) => d.id <= p.id
Elevator ==
    /\ \A o \in ahead : o.lba >= lastLba
    /\ \A o \in behind : o.lba < lastLba
ZoneInv == Elevator /\ \A z \in ZoneIds : Sequential(z)

LEMMA Numbers ==
  ASSUME IndInv
  PROVE  /\ \A o \in pending : o.id \in Int /\ o.lba \in Int /\ o.id < submitted
         /\ submitted \in Int /\ lastLba \in Int
         /\ \A z \in ZoneIds : wp[z] \in Int /\ ZoneStart[z] \in Int /\ ZoneEnd[z] \in Int
<1>1. \A o \in pending : o.id \in Int /\ o.lba \in Int
  BY PendingIds, OpFacts
<1>2. \A o \in pending : o.id < submitted
  BY SMTT(30) DEF IndInv, OwnId, Known, pending
<1>3. submitted \in Int /\ lastLba \in Int
  BY SMTT(30) DEF IndInv, TypeOK
<1>4. \A z \in ZoneIds : wp[z] \in Int /\ ZoneStart[z] \in Int /\ ZoneEnd[z] \in Int
  BY SMTT(30), ZoneAssumption DEF IndInv, TypeOK
<1> QED
  BY SMTT(30), <1>1, <1>2, <1>3, <1>4

\* What a new operation is to a zone, given the zone's write pointer before and after it.
NewIn(z, cmd, lba) ==
    \/ cmd = "ReadAt" /\ lba < wp'[z]
    \/ cmd = "WriteAt" /\ lba = wp[z] /\ lba < wp'[z] /\ z \notin finished
    \/ cmd = "FinishZone" /\ lba = ZoneEnd[z] /\ z \notin finished /\ z \in finished'

LEMMA SubmitKeepsZone ==
  ASSUME IndInv, NEW z \in ZoneIds, Sequential(z), NEW op, op \notin delayed, op.id = submitted,
         pending' = pending \cup {op}, UNCHANGED <<delayed, lastLba>>,
         wp[z] <= wp'[z], wp'[z] \in Int, finished \subseteq finished',
         op.lba \in Int, op.lba \in ZoneLbas(z) => NewIn(z, op.cmd, op.lba)
  PROVE  Sequential(z)'
<1>0. /\ \A o \in pending : o.id \in Int /\ o.lba \in Int /\ o.id < submitted
      /\ submitted \in Int /\ lastLba \in Int /\ wp[z] \in Int /\ ZoneEnd[z] \in Int /\ ZoneStart[z] \in Int
  BY ZenonT(30), Numbers
<1>1. \A q \in pending' : q.lba \in ZoneLbas(z) =>
          \/ q.cmd \in {"ReadAt", "WriteAt"} /\ q.lba < wp'[z]
          \/ q.cmd = "FinishZone" /\ q.lba = ZoneEnd[z] /\ z \in finished'
  BY SMTT(30), <1>0 DEF Sequential, NewIn
<1>2. lastLba \in ZoneLbas(z) => lastLba < wp'[z] \/ z \in finished'
  BY SMTT(30), <1>0 DEF Sequential
<1>3. ASSUME InZone(op, z)
      PROVE  /\ \A q \in pending : q.lba \in ZoneLbas(z) => q.lba <= op.lba
             /\ \A p \in pending : InZone(p, z) => Sooner(p, op)
             /\ lastLba \in ZoneLbas(z) => lastLba <= op.lba
  <2>1. op.lba \in ZoneLbas(z) /\ op.cmd \in {"WriteAt", "FinishZone"}
    BY SMTT(30), <1>3 DEF InZone, ZoneLbas
  <2>2. z \notin finished
    BY SMTT(30), <2>1 DEF NewIn
  <2>3. \A q \in pending : q.lba \in ZoneLbas(z) => q.cmd \in {"ReadAt", "WriteAt"} /\ q.lba < wp[z]
    BY SMTT(30), <2>2 DEF Sequential
  <2>4. CASE op.cmd = "WriteAt"
    <3>1. op.lba = wp[z]
      BY SMTT(30), <2>1, <2>4 DEF NewIn
    <3> QED
      BY SMTT(30), <1>0, <2>2, <2>3, <3>1 DEF Sequential, Sooner, InZone, ZoneLbas
  <2>5. CASE op.cmd = "FinishZone"
    <3>1. op.lba = ZoneEnd[z]
      BY SMTT(30), <2>1, <2>5 DEF NewIn
    <3>2. \A x \in ZoneLbas(z) : x <= op.lba
      BY SMTT(30), <1>0, <3>1 DEF ZoneLbas
    <3>3. \A p \in pending : InZone(p, z) => p.cmd = "WriteAt" /\ p.lba \in ZoneLbas(z)
      BY SMTT(30), <2>3 DEF InZone, ZoneLbas
    <3>4. Discriminant["WriteAt"] < Discriminant["FinishZone"]
      BY SMTT(30) DEF Discriminant
    <3>5. \A p \in pending : InZone(p, z) => Sooner(p, op)
      BY SMTT(30), <1>0, <2>5, <3>2, <3>3, <3>4 DEF Sooner
    <3> QED
      BY SMTT(30), <3>2, <3>5
  <2> QED
    BY SMTT(30), <2>1, <2>4, <2>5
<1>4. \A o \in pending' : InZone(o, z) =>
          /\ \A q \in pending' : q.lba \in ZoneLbas(z) /\ q.id < o.id => q.lba <= o.lba
          /\ \A p \in pending' : InZone(p, z) /\ p.id < o.id => Sooner(p, o)
          /\ o \notin delayed /\ lastLba \in ZoneLbas(z) => lastLba <= o.lba
  <2> SUFFICES ASSUME NEW o \in pending', InZone(o, z)
               PROVE  /\ \A q \in pending' : q.lba \in ZoneLbas(z) /\ q.id < o.id => q.lba <= o.lba
                      /\ \A p \in pending' : InZone(p, z) /\ p.id < o.id => Sooner(p, o)
                      /\ o \notin delayed /\ lastLba \in ZoneLbas(z) => lastLba <= o.lba
    BY SMTT(30)
  <2>1. CASE o \in pending
    <3>1. \A q \in pending' : q.id < o.id => q \in pending
      BY SMTT(30), <1>0, <2>1
    <3> QED
      BY SMTT(30), <2>1, <3>1 DEF Sequential
  <2>2. CASE o = op
    <3>1. \A q \in pending' : q.id < o.id => q \in pending
      BY SMTT(30), <1>0, <2>2
    <3> QED
      BY SMTT(30), <1>3, <2>2, <3>1
  <2> QED
    BY SMTT(30), <2>1, <2>2
<1>5. \A d \in delayed, p \in pending' : InZone(d, z) /\ InZone(p, z) => d.id <= p.id
  <2>1. delayed \subseteq pending
    BY SMTT(30) DEF pending
  <2> QED
    BY SMTT(30), <1>0, <2>1 DEF Sequential
<1> QED
  BY ZenonT(30), <1>1, <1>2, <1>4, <1>5 DEF Sequential, InZone, ZoneLbas, Sooner

\* An iteration of issue_all that does not move the elevator.
LEMMA Kept ==
  ASSUME NEW z \in ZoneIds, Sequential(z), pending' \subseteq pending, UNCHANGED <<lastLba, wp, finished>>,
         \A d \in delayed' : d \in delayed \/ ~ InZone(d, z),
         \A o \in pending' : o \in delayed => o \in delayed'
  PROVE  Sequential(z)'
BY ZenonT(30) DEF Sequential, InZone, ZoneLbas, Sooner

\* pop_op takes the oldest of a zone's writes, and does not pass any.
LEMMA PopHeap ==
  ASSUME IndInv, Barrier, ZoneInv, NEW q \in pending, PopAhead(q) \/ PopBehind(q), NEW z \in ZoneIds
  PROVE  /\ \A p \in pending : InZone(q, z) /\ InZone(p, z) => q.id <= p.id
         /\ \A o \in pending : InZone(o, z) /\ q.lba \in ZoneLbas(z) => q.lba <= o.lba
<1>0. /\ \A o \in pending : o.id \in Int /\ o.lba \in Int
      /\ lastLba \in Int /\ ZoneEnd[z] \in Int /\ ZoneStart[z] \in Int
  BY SMTT(30), Numbers
<1>1. Sequential(z) /\ Elevator /\ delayed = {} /\ pending = ahead \cup behind \cup afterSync
  BY SMTT(30) DEF ZoneInv, PopAhead, PopBehind, pending
<1>2. \A p \in afterSync : q \in Heaps /\ q.id < p.id
  BY SMTT(30) DEF PopAhead, PopBehind, Tops, Heaps, Barrier
<1>3. \A o \in pending : InZone(o, z) => o.lba \in ZoneLbas(z)
  BY SMTT(30) DEF InZone, ZoneLbas
<1>4. CASE PopAhead(q)
  <2>1. q \in ahead /\ q.lba >= lastLba /\ \A p \in ahead : ~ Sooner(p, q)
    BY SMTT(30), <1>1, <1>4 DEF PopAhead, Tops, Elevator
  <2>2. \A o \in behind : ~ (InZone(o, z) /\ q.lba \in ZoneLbas(z))
    <3> SUFFICES ASSUME NEW o \in behind, InZone(o, z), q.lba \in ZoneLbas(z) PROVE FALSE
      OBVIOUS
    <3>1. o.lba < lastLba /\ o.lba \in ZoneLbas(z) /\ o \in pending
      BY SMTT(30), <1>1, <1>3 DEF Elevator
    <3>2. lastLba \in ZoneLbas(z)
      BY SMTT(30), <1>0, <1>1, <2>1, <3>1 DEF ZoneLbas
    <3>3. lastLba <= o.lba
      BY SMTT(30), <1>1, <3>1, <3>2 DEF Sequential
    <3> QED
      BY SMTT(30), <1>0, <3>1, <3>3
  <2>3. \A p \in ahead : q.lba <= p.lba
    BY <1>0, <1>1, <2>1 DEF Sooner
  <2>4. \A p \in ahead : InZone(q, z) /\ InZone(p, z) => q.id <= p.id
    BY SMTT(30), <1>0, <1>1, <2>1 DEF Sequential
  <2>5. \A p \in afterSync : q.lba \in ZoneLbas(z) /\ InZone(p, z) => q.lba <= p.lba
    BY SMTT(30), <1>1, <1>2 DEF Sequential
  <2> QED
    BY SMTT(30), <1>0, <1>1, <1>2, <1>3, <2>1, <2>2, <2>3, <2>4, <2>5
<1>5. CASE PopBehind(q)
  <2>1. q \in behind /\ ahead = {} /\ \A p \in behind : ~ Sooner(p, q)
    BY SMTT(30), <1>5 DEF PopBehind, Tops
  <2>2. \A p \in behind : q.lba <= p.lba
    BY SMTT(30), <1>0, <1>1, <2>1 DEF Sooner
  <2>3. \A p \in behind : InZone(q, z) /\ InZone(p, z) => q.id <= p.id
    BY SMTT(30), <1>0, <1>1, <2>1 DEF Sequential
  <2>4. \A p \in afterSync : q.lba \in ZoneLbas(z) /\ InZone(p, z) => q.lba <= p.lba
    BY ZenonT(30), <1>1, <1>2 DEF Sequential
  <2> QED
    BY SMTT(30), <1>0, <1>1, <1>2, <2>1, <2>2, <2>3, <2>4
<1> QED
  BY SMTT(30), <1>4, <1>5

\* Sched puts an operation on its side of the elevator.
LEMMA SubmitKeeps ==
  ASSUME IndInv, ZoneInv, NEW cmd \in Cmd, NEW lba \in Lba, SchedAndIssue(cmd, lba),
         \A z \in ZoneIds : wp'[z] \in Int /\ wp[z] <= wp'[z],
         finished \subseteq finished',
         \A z \in ZoneIds : lba \in ZoneLbas(z) => NewIn(z, cmd, lba)
  PROVE  ZoneInv'
<1> DEFINE op == [id |-> submitted, lba |-> lba, cmd |-> cmd]
<1>1. op.id = submitted /\ op.cmd = cmd /\ op.lba = lba /\ lba \in Int
  BY SMTT(30), LbaFacts
<1>2. Sched(op) /\ UNCHANGED <<delayed, lastLba>>
  BY SMTT(30) DEF SchedAndIssue
<1>3. \A o \in pending : o.id < submitted /\ o.id \in Int
  BY SMTT(30), Numbers
<1>4. op \notin delayed
  BY SMTT(30), <1>1, <1>3 DEF pending
<1> HIDE DEF op
<1>5. pending' = pending \cup {op}
  BY ZenonT(30), <1>2 DEF Sched, pending
<1>6. Elevator'
  <2>1. lastLba \in Int
    BY SMTT(30), Numbers
  <2> QED
    BY SMTT(30), <1>1, <1>2, <2>1 DEF Sched, ZoneInv, Elevator
<1>7. ASSUME NEW z \in ZoneIds PROVE Sequential(z)'
  <2>1. Sequential(z)
    BY ZenonT(30) DEF ZoneInv
  <2>2. op.lba \in ZoneLbas(z) => NewIn(z, op.cmd, op.lba)
    BY SMTT(30), <1>1
  <2> QED
    BY ZenonT(30), <1>1, <1>2, <1>4, <1>5, <2>1, <2>2, SubmitKeepsZone
<1> QED
  BY SMTT(30), <1>6, <1>7 DEF ZoneInv

LEMMA SubmitZones == ASSUME IndInv, ZoneInv, Submit PROVE ZoneInv'
<1>0. /\ TypeOK /\ InZones /\ wp \in [ZoneIds -> Nat]
      /\ \A z \in ZoneIds : wp[z] \in Int /\ ZoneStart[z] \in Int /\ ZoneEnd[z] \in Int
  BY SMTT(30), Numbers DEF IndInv, TypeOK
<1>1. \A y, z \in ZoneIds : y # z => ZoneLbas(y) \cap ZoneLbas(z) = {}
  <2> SUFFICES ASSUME NEW y \in ZoneIds, NEW z \in ZoneIds, y # z, NEW x \in ZoneLbas(y), x \in ZoneLbas(z)
               PROVE  FALSE
    BY SMTT(30)
  <2>1. ZoneEnd[y] < ZoneStart[z] \/ ZoneEnd[z] < ZoneStart[y]
    BY ZoneAssumption
  <2> QED
    BY <1>0, <2>1 DEF ZoneLbas
<1>2. \A z \in ZoneIds : 0 \notin ZoneLbas(z) /\ 1 \notin ZoneLbas(z)
  BY SMTT(30), <1>0, ZoneAssumption DEF ZoneLbas
<1>3. ASSUME NEW cmd \in Cmd, NEW lba \in {0, 1}, SchedAndIssue(cmd, lba), UNCHANGED <<wp, finished>>
      PROVE  ZoneInv'
  <2>1. lba \in Lba
    BY SMTT(30) DEF Lba
  <2> QED
    BY SMTT(30), <1>0, <1>2, <1>3, <2>1, SubmitKeeps
<1>4. ASSUME NEW z \in ZoneIds, ReadAt(z) PROVE ZoneInv'
  <2>1. PICK lba \in ZoneStart[z] .. wp[z] - 1 : SchedAndIssue("ReadAt", lba)
    BY SMTT(30), <1>4 DEF ReadAt
  <2>2. lba \in ZoneLbas(z) /\ lba < wp[z] /\ UNCHANGED <<wp, finished>>
    BY SMTT(30), <1>0, <1>4 DEF ReadAt, ZoneLbas, InZones
  <2>3. lba \in Lba
    BY SMTT(30), <2>2, LbaFacts DEF ZoneLbas
  <2>4. \A y \in ZoneIds : lba \in ZoneLbas(y) => y = z
    BY SMTT(30), <1>1, <2>2
  <2>5. \A y \in ZoneIds : lba \in ZoneLbas(y) => NewIn(y, "ReadAt", lba)
    BY SMTT(30), <2>2, <2>4 DEF NewIn
  <2> QED
    BY SMTT(30), <1>0, <2>1, <2>2, <2>3, <2>5, SubmitKeeps, CmdFacts
<1>5. ASSUME NEW z \in ZoneIds, WriteAt(z) PROVE ZoneInv'
  <2>1. /\ SchedAndIssue("WriteAt", wp[z]) /\ wp' = [wp EXCEPT ![z] = @ + 1] /\ UNCHANGED finished
        /\ wp[z] <= ZoneEnd[z] /\ z \notin finished
    BY SMTT(30), <1>5 DEF WriteAt
  <2>2. wp[z] \in ZoneLbas(z) /\ wp'[z] = wp[z] + 1 /\ \A y \in ZoneIds : y # z => wp'[y] = wp[y]
    BY SMTT(30), <1>0, <2>1 DEF ZoneLbas, InZones
  <2>3. wp[z] \in Lba
    BY SMTT(30), <2>2, LbaFacts DEF ZoneLbas
  <2>4. \A y \in ZoneIds : wp'[y] \in Int /\ wp[y] <= wp'[y]
    BY SMTT(30), <1>0, <2>2
  <2>5. \A y \in ZoneIds : wp[z] \in ZoneLbas(y) => y = z
    BY SMTT(30), <1>1, <2>2
  <2>6. \A y \in ZoneIds : wp[z] \in ZoneLbas(y) => NewIn(y, "WriteAt", wp[z])
    BY SMTT(30), <1>0, <2>1, <2>2, <2>5 DEF NewIn
  <2> QED
    BY SMTT(30), <2>1, <2>3, <2>4, <2>6, SubmitKeeps, CmdFacts
<1>6. ASSUME NEW z \in ZoneIds, FinishZone(z) PROVE ZoneInv'
  <2>1. /\ SchedAndIssue("FinishZone", ZoneEnd[z]) /\ UNCHANGED wp
        /\ finished' = finished \cup {z} /\ z \notin finished
    BY <1>6 DEF FinishZone
  <2>2. ZoneEnd[z] \in ZoneLbas(z) /\ ZoneEnd[z] \in Lba
    BY SMTT(30), <1>0, ZoneAssumption, LbaFacts DEF ZoneLbas
  <2>3. \A y \in ZoneIds : ZoneEnd[z] \in ZoneLbas(y) => y = z
    BY SMTT(30), <1>1, <2>2
  <2>4. \A y \in ZoneIds : ZoneEnd[z] \in ZoneLbas(y) => NewIn(y, "FinishZone", ZoneEnd[z])
    BY SMTT(30), <2>1, <2>3 DEF NewIn
  <2> QED
    BY SMTT(30), <1>0, <2>1, <2>2, <2>4, SubmitKeeps, CmdFacts
<1> QED
  BY SMTT(30), <1>3, <1>4, <1>5, <1>6, CmdFacts DEF Submit, SyncAll, WriteLabel, WriteSpacemap

\* What leaves the queues, if it is an operation on a zone, is the zone's oldest.
OldestLeaves(z) == \A o \in pending \ pending' : InZone(o, z) => \A p \in pending : InZone(p, z) => o.id <= p.id

LEMMA IssueZones ==
  ASSUME IndInv, Barrier, ZoneInv, IssueAccepted \/ IssueRefused
  PROVE  ZoneInv' /\ \A z \in ZoneIds : OldestLeaves(z)
<1>0. UNCHANGED <<wp, finished>>
  BY SMTT(30) DEF IssueAccepted, IssueRefused
<1>1. PICK op \in pending :
        /\ TakeDelayed(op) \/ Pop(op)
        /\ \E depth : Accept(op, depth) \/ Refuse(op, depth)
  BY DEF IssueAccepted, IssueRefused
<1>2. /\ \A o \in pending : o.id \in Int /\ o.lba \in Int
      /\ lastLba \in Int
  BY SMTT(30), Numbers
<1>3. \/ delayed' = {} /\ pending' = ahead' \cup behind' \cup afterSync'
      \/ delayed' = {op} /\ pending' = ahead' \cup behind' \cup afterSync' \cup {op}
  BY <1>1 DEF Accept, Refuse, pending
<1>4. CASE TakeDelayed(op)
  <2>1. op \in delayed /\ UNCHANGED <<ahead, behind, afterSync, lastLba>>
    BY <1>4 DEF TakeDelayed
  <2>2. delayed = {op} /\ op \notin Queued
    BY SMTT(30), <1>4, <2>1, DelayedTakesOut, DelayedIsOne DEF IndInv, DepthExact
  <2>3. pending' \subseteq pending /\ (\A d \in delayed' : d \in delayed) /\ pending \ pending' \subseteq {op}
        /\ \A o \in pending' : o \in delayed => o \in delayed'
    BY <1>3, <2>1, <2>2 DEF pending, Queued
  <2>4. \A z \in ZoneIds : Sequential(z)'
    BY SMTT(30), <1>0, <2>1, <2>3, Kept DEF ZoneInv
  <2>5. \A z \in ZoneIds : OldestLeaves(z)
    BY SMTT(30), <2>1, <2>3 DEF OldestLeaves, ZoneInv, Sequential
  <2> QED
    BY SMTT(30), <2>1, <2>4, <2>5 DEF ZoneInv, Elevator
<1>5. CASE PopSync(op)
  <2>1. UNCHANGED lastLba /\ delayed = {} /\ TakenOut(op) /\ lastLba \in Int
    BY ZenonT(30), <1>2, <1>5, PopTakesOut DEF PopSync, Pop
  <2>2. op.cmd = "SyncAll"
    <3>1. op \in afterSync /\ \A p \in afterSync : op.id <= p.id
      BY SMTT(30), <1>5 DEF PopSync
    <3>2. PICK s \in afterSync : s.cmd = "SyncAll" /\ s.id <= op.id
      BY SMTT(30), <3>1 DEF IndInv, SyncInFront
    <3>3. s = op
      BY SMTT(30), <1>2, <3>1, <3>2 DEF IndInv, OwnId, Known, pending
    <3> QED
      BY SMTT(30), <3>2, <3>3
  <2>3. \A z \in ZoneIds : ~ InZone(op, z)
    BY SMTT(30), <2>2 DEF InZone
  <2>4. pending' \subseteq pending /\ pending \ pending' \subseteq {op}
    BY SMTT(30), <1>3, <2>1 DEF TakenOut, Queued, pending
  <2>5. \A z \in ZoneIds : Sequential(z)'
    BY SMTT(30), <1>0, <1>3, <2>1, <2>3, <2>4, Kept DEF ZoneInv
  <2>6. Elevator'
    BY SMTT(30), <1>5, <2>1 DEF PopSync, Elevator
  <2> QED
    BY SMTT(30), <2>3, <2>4, <2>5, <2>6 DEF ZoneInv, OldestLeaves
<1>6. CASE PopAhead(op) \/ PopBehind(op)
  <2>1. delayed = {} /\ lastLba' = op.lba /\ TakenOut(op)
    BY SMTT(30), <1>6, PopTakesOut DEF PopAhead, PopBehind, Pop
  <2>2. pending' \subseteq pending /\ pending \ pending' \subseteq {op} /\ (delayed' = {} \/ delayed' = {op})
    BY <1>3, <2>1 DEF TakenOut, Queued, pending
  <2>3. Elevator'
    <3>1. CASE PopAhead(op)
      <4>1. op \in ahead /\ ahead' = ahead \ {op} /\ behind' = behind /\ op.lba >= lastLba
            /\ \A p \in ahead : ~ Sooner(p, op)
        BY <3>1 DEF PopAhead, Tops, ZoneInv, Elevator
      <4>2. \A p \in ahead \cup behind : p.lba \in Int
        BY SMTT(30), <1>2 DEF pending
      <4> QED
        BY SMTT(30), <1>2, <2>1, <4>1, <4>2 DEF ZoneInv, Elevator, Sooner
    <3>2. CASE PopBehind(op)
      <4>1. ahead' = behind \ {op} /\ behind' = {} /\ \A p \in behind : ~ Sooner(p, op)
        BY <3>2 DEF PopBehind, Tops
      <4>2. \A p \in behind : p.lba \in Int
        BY SMTT(30), <1>2 DEF pending
      <4> QED
        BY SMTT(30), <1>2, <2>1, <4>1, <4>2 DEF Elevator, Sooner
    <3> QED
      BY SMTT(30), <1>6, <3>1, <3>2
  <2>4. ASSUME NEW z \in ZoneIds PROVE Sequential(z)' /\ OldestLeaves(z)
    <3>1. /\ \A p \in pending : InZone(op, z) /\ InZone(p, z) => op.id <= p.id
          /\ \A o \in pending : InZone(o, z) /\ op.lba \in ZoneLbas(z) => op.lba <= o.lba
      BY SMTT(30), <1>6, PopHeap
    <3>2. Sequential(z)
      BY SMTT(30) DEF ZoneInv
    <3>3. op.lba \in ZoneLbas(z) => op.lba < wp[z] \/ z \in finished
      BY SMTT(30), <3>2 DEF Sequential
    <3>4. Sequential(z)'
      BY ZenonT(30), <1>0, <2>1, <2>2, <3>1, <3>2, <3>3 DEF Sequential, InZone, ZoneLbas, Sooner
    <3> QED
      BY SMTT(30), <2>2, <3>1, <3>4 DEF OldestLeaves
  <2> QED
    BY SMTT(30), <2>3, <2>4 DEF ZoneInv
<1> QED
  BY <1>1, <1>4, <1>5, <1>6 DEF Pop

LEMMA OtherZones ==
  ASSUME ZoneInv, IssueStops \/ Finish \/ TimerFires \/ Drop \/ UNCHANGED vars
  PROVE  ZoneInv' /\ pending' = pending
<1>1. UNCHANGED <<ahead, behind, afterSync, delayed, lastLba, wp, finished>>
  BY SMTT(30) DEF IssueStops, Finish, Complete, TimerFires, Drop, vars
<1>2. pending' = pending
  BY SMTT(30), <1>1 DEF pending
<1>3. \A z \in ZoneIds : Sequential(z)'
  BY SMTT(30), <1>1, <1>2, Kept DEF ZoneInv
<1> QED
  BY SMTT(30), <1>1, <1>2, <1>3 DEF ZoneInv, Elevator

\* For any zones and any queue depth, a zone's writes reach the disk in the order in
\* which they were submitted and its finish_zone reaches it last, whatever reads of the
\* zone, refusals, wrap-arounds and syncs come between them.
THEOREM ZonesAreSequential == Spec => ZoneSequential
<1>1. Init => ZoneInv /\ Barrier
  <2> SUFFICES ASSUME Init PROVE ZoneInv /\ Barrier
    OBVIOUS
  <2>1. pending = {} /\ ahead = {} /\ behind = {} /\ delayed = {} /\ lastLba = 0
    BY SMTT(30) DEF Init, pending
  <2>2. \A z \in ZoneIds : 0 \notin ZoneLbas(z)
    BY ZoneAssumption DEF ZoneLbas
  <2> QED
    BY <2>1, <2>2 DEF ZoneInv, Elevator, Sequential, Barrier, Heaps
<1>2. IndInv /\ Barrier /\ ZoneInv /\ [Next]_vars =>
        ZoneInv' /\ Barrier' /\ [\A z \in ZoneIds : OldestLeaves(z)]_vars
  <2> SUFFICES ASSUME IndInv, Barrier, ZoneInv, [Next]_vars
               PROVE  ZoneInv' /\ Barrier' /\ \A z \in ZoneIds : OldestLeaves(z)
    OBVIOUS
  <2>1. CASE Submit
    <3>1. pending \subseteq pending'
      BY <2>1, SubmitRefines DEF Queue!Submit
    <3> QED
      BY SMTT(30), <2>1, <3>1, SubmitZones, SubmitRefines DEF OldestLeaves
  <2>2. CASE IssueAccepted \/ IssueRefused
    BY SMTT(30), <2>2, IssueZones, IssueRefines
  <2>3. CASE IssueStops \/ Finish \/ TimerFires \/ Drop \/ UNCHANGED vars
    BY <2>3, OtherZones, OtherRefines DEF OldestLeaves
  <2> QED
    BY SMTT(30), <2>1, <2>2, <2>3 DEF Next
<1>3. [\A z \in ZoneIds : OldestLeaves(z)]_vars =>
        [\A z \in ZoneIds : \A o \in pending \ pending' :
            InZone(o, z) => \A p \in pending : InZone(p, z) => o.id <= p.id]_vars
  BY DEF OldestLeaves
<1> QED
  BY <1>1, <1>2, <1>3, Inductive, PTL DEF Spec, ZoneSequential
=============================================================================
