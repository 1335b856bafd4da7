------------------------------ MODULE VdevBlock ------------------------------
(***************************************************************************)
(* The I/O scheduler of a block device (src/bfffs/src/common/vdev_block.rs)*)
(*                                                                         *)
(* Operations wait in two heaps, ahead of and behind the LBA that was last *)
(* issued, and are issued in LBA order (C-LOOK).  At most                  *)
(* optimum_queue_depth of them are at the disk.  An operation the disk     *)
(* refuses with EAGAIN is kept as delayed and is the next one tried.       *)
(* Operations that follow a sync_all wait in a queue of their own.         *)
(*                                                                         *)
(* Everything runs in one thread.  issue_all is a loop; it is modelled one *)
(* iteration at a time, with nothing else enabled while it is running.     *)
(***************************************************************************)
EXTENDS Integers, FiniteSets, FiniteSetsExt

CONSTANTS
    QueueDepth,     \* VdevLeaf::optimum_queue_depth
    ZoneIds,        \* zones of the disk
    ZoneStart,      \* first LBA of each zone
    ZoneEnd,        \* last LBA of each zone
    MaxOps          \* bound on the number of operations submitted

ASSUME DepthAssumption == QueueDepth \in Nat /\ QueueDepth >= 2
ASSUME ZoneAssumption ==
    /\ ZoneStart \in [ZoneIds -> Nat] /\ ZoneEnd \in [ZoneIds -> Nat]
    /\ \A z \in ZoneIds : 1 < ZoneStart[z] /\ ZoneStart[z] <= ZoneEnd[z]
    /\ \A y, z \in ZoneIds : y # z => ZoneEnd[y] < ZoneStart[z] \/ ZoneEnd[z] < ZoneStart[y]
ASSUME BoundAssumption == MaxOps \in Nat

VARIABLES
    submitted,      \* number of operations submitted so far
    ahead, behind,  \* Inner::ahead and Inner::behind
    afterSync,      \* Inner::after_sync, a queue: its front has the least id
    syncing,        \* Inner::syncing
    lastLba,        \* Inner::last_lba
    delayed,        \* Inner::delayed, at most one operation
    queueDepth,     \* Inner::queue_depth
    issued,         \* operations at the disk
    running,        \* issue_all is on the stack
    timers,         \* retry timers that have not fired
    dropped,        \* the VdevBlock has been dropped
    wp, finished    \* the users' write pointer in each zone, the finished zones

vars == <<submitted, ahead, behind, afterSync, syncing, lastLba, delayed, queueDepth, issued,
          running, timers, dropped, wp, finished>>

\* Cmd::discriminant, the order of commands with the same LBA.  The scheduler
\* tells commands apart by nothing else, except for SyncAll; the vectored reads
\* and writes, open_zone and erase_zone are left out.
Discriminant ==
    [ReadAt |-> 1, WriteAt |-> 4, FinishZone |-> 7, WriteLabel |-> 8, WriteSpacemap |-> 9,
     SyncAll |-> 10]
Cmd == DOMAIN Discriminant
Lba == {0, 1} \cup UNION {ZoneStart[z] .. ZoneEnd[z] : z \in ZoneIds}
Op == [id : 0 .. MaxOps - 1, lba : Lba, cmd : Cmd]

pending == ahead \cup behind \cup afterSync \cup delayed

\* Mutant of Sooner: commands with the same LBA are not ordered.
SoonerByLba(p, o) == p.lba < o.lba

\* BlockOp::cmp: the heaps pop the least LBA, then the least command.
Sooner(p, o) == \/ p.lba < o.lba
                \/ p.lba = o.lba /\ Discriminant[p.cmd] < Discriminant[o.cmd]
Tops(heap) == {o \in heap : \A p \in heap : ~ Sooner(p, o)}

-----------------------------------------------------------------------------
(* Submitting an operation: the first poll of its future.                  *)

\* Mutant of Sched: the flag is not set.
SchedNoFlag(op) ==
    /\ IF op.cmd = "SyncAll" \/ syncing
       THEN afterSync' = afterSync \cup {op} /\ UNCHANGED <<ahead, behind>>
       ELSE ahead' = ahead \cup {op} /\ UNCHANGED <<afterSync, behind>>
    /\ UNCHANGED syncing

\* Inner::sched.
Sched(op) ==
    IF op.cmd = "SyncAll" \/ syncing
    THEN /\ syncing' = TRUE
         /\ afterSync' = afterSync \cup {op}
         /\ UNCHANGED <<ahead, behind>>
    ELSE /\ ahead' = IF op.lba >= lastLba THEN ahead \cup {op} ELSE ahead
         /\ behind' = IF op.lba >= lastLba THEN behind ELSE behind \cup {op}
         /\ UNCHANGED <<syncing, afterSync>>

\* Inner::sched_and_issue, up to the loop of issue_all.
SchedAndIssue(cmd, lba) ==
    /\ ~ running /\ ~ dropped
    /\ submitted < MaxOps
    /\ submitted' = submitted + 1
    /\ Sched([id |-> submitted, lba |-> lba, cmd |-> cmd])
    /\ running' = TRUE
    /\ UNCHANGED <<lastLba, delayed, queueDepth, issued, timers, dropped>>

\* The operations of VdevBlock, as its users call them: a zone is written
\* sequentially and read up to its write pointer, and it is finished last.
SyncAll == SchedAndIssue("SyncAll", 0) /\ UNCHANGED <<wp, finished>>
WriteLabel == SchedAndIssue("WriteLabel", 0) /\ UNCHANGED <<wp, finished>>
WriteSpacemap == SchedAndIssue("WriteSpacemap", 1) /\ UNCHANGED <<wp, finished>>
ReadAt(z) ==
    /\ \E lba \in ZoneStart[z] .. wp[z] - 1 : SchedAndIssue("ReadAt", lba)
    /\ UNCHANGED <<wp, finished>>
WriteAt(z) ==
    /\ wp[z] <= ZoneEnd[z] /\ z \notin finished
    /\ SchedAndIssue("WriteAt", wp[z])
    /\ wp' = [wp EXCEPT ![z] = @ + 1]
    /\ UNCHANGED finished
FinishZone(z) ==
    /\ wp[z] > ZoneStart[z] /\ z \notin finished
    /\ SchedAndIssue("FinishZone", ZoneEnd[z])
    /\ finished' = finished \cup {z}
    /\ UNCHANGED wp

Submit ==
    \/ SyncAll \/ WriteLabel \/ WriteSpacemap
    \/ \E z \in ZoneIds : ReadAt(z) \/ WriteAt(z) \/ FinishZone(z)

-----------------------------------------------------------------------------
(* One iteration of issue_all: the operation it takes, and what the disk   *)
(* does with it.                                                           *)

TakeDelayed(op) ==
    /\ op \in delayed
    /\ UNCHANGED <<ahead, behind, afterSync, syncing, lastLba>>

PopAhead(op) ==
    /\ delayed = {}
    /\ op \in Tops(ahead)
    /\ ahead' = ahead \ {op}
    /\ lastLba' = op.lba
    /\ UNCHANGED <<behind, afterSync, syncing>>

PopBehind(op) ==
    /\ delayed = {} /\ ahead = {}
    /\ op \in Tops(behind)
    /\ ahead' = behind \ {op}
    /\ behind' = {}
    /\ lastLba' = op.lba
    /\ UNCHANGED <<afterSync, syncing>>

\* Mutant of UntilNextSync: does not stop at the next sync_all.
BeyondNextSync(q) == {o \in q : o.cmd # "SyncAll"}

\* The sync_all itself; what follows it, up to the next one, is scheduled.
UntilNextSync(q) == {o \in q : \A s \in q : s.cmd = "SyncAll" => o.id < s.id}

PopSync(op) ==
    /\ delayed = {} /\ ahead = {} /\ behind = {} /\ syncing
    /\ op \in afterSync /\ \A p \in afterSync : op.id <= p.id
    /\ LET rest == afterSync \ {op}
           next == IF op.cmd = "SyncAll" THEN UntilNextSync(rest) ELSE {}
       IN /\ afterSync' = rest \ next
          /\ syncing' = IF op.cmd = "SyncAll" THEN rest \ next # {} ELSE syncing
          /\ ahead' = {o \in next : o.lba >= lastLba}
          /\ behind' = {o \in next : o.lba < lastLba}
    /\ UNCHANGED lastLba

\* Inner::pop_op, after which make_fut counts the operation in queue_depth.
Pop(op) == PopAhead(op) \/ PopBehind(op) \/ PopSync(op)

\* issue_fut: the first poll of the future finds the operation under way, or
\* already complete.
Accept(op, depth) ==
    /\ delayed' = {}
    /\ \/ issued' = issued \cup {op} /\ queueDepth' = depth
       \/ UNCHANGED issued /\ queueDepth' = depth - 1
    /\ UNCHANGED <<running, timers>>

\* Mutants of Refuse: a retried operation is counted again; the timer is only
\* started when nothing is counted at all.
RefuseCountsTwice(op, depth) ==
    /\ delayed' = {op}
    /\ queueDepth' = depth + 1
    /\ timers' = IF depth = 1 THEN timers + 1 ELSE timers
    /\ running' = FALSE
    /\ UNCHANGED issued
RefuseNoTimer(op, depth) ==
    /\ delayed' = {op}
    /\ queueDepth' = depth
    /\ timers' = IF depth = 0 THEN timers + 1 ELSE timers
    /\ running' = FALSE
    /\ UNCHANGED issued

\* The disk is out of resources (EAGAIN).  The operation is delayed and still
\* counts in queue_depth; if it is alone, a timer will call issue_all again.
Refuse(op, depth) ==
    /\ delayed' = {op}
    /\ queueDepth' = depth
    /\ timers' = IF depth = 1 THEN timers + 1 ELSE timers
    /\ running' = FALSE
    /\ UNCHANGED issued

IssueAccepted ==
    /\ running /\ queueDepth < QueueDepth
    /\ \E op \in pending : \/ TakeDelayed(op) /\ Accept(op, queueDepth)
                           \/ Pop(op) /\ Accept(op, queueDepth + 1)
    /\ UNCHANGED <<submitted, dropped, wp, finished>>

IssueRefused ==
    /\ running /\ queueDepth < QueueDepth
    /\ \E op \in pending : \/ TakeDelayed(op) /\ Refuse(op, queueDepth)
                           \/ Pop(op) /\ Refuse(op, queueDepth + 1)
    /\ UNCHANGED <<submitted, dropped, wp, finished>>

\* The queue is full, or there is nothing left to issue.
IssueStops ==
    /\ running
    /\ queueDepth < QueueDepth => pending = {}
    /\ running' = FALSE
    /\ UNCHANGED <<submitted, ahead, behind, afterSync, syncing, lastLba, delayed, queueDepth,
                   issued, timers, dropped, wp, finished>>

-----------------------------------------------------------------------------
\* Mutant of Complete: the slot of the queue is not given back.
CompleteLeaks(op) ==
    /\ ~ running
    /\ op \in issued
    /\ issued' = issued \ {op}
    /\ running' = TRUE
    /\ UNCHANGED <<submitted, ahead, behind, afterSync, syncing, lastLba, delayed, queueDepth,
                   timers, dropped, wp, finished>>

\* The disk completes an operation: the future that issue_fut spawned.
Complete(op) ==
    /\ ~ running
    /\ op \in issued
    /\ issued' = issued \ {op}
    /\ queueDepth' = queueDepth - 1
    /\ running' = TRUE
    /\ UNCHANGED <<submitted, ahead, behind, afterSync, syncing, lastLba, delayed, timers,
                   dropped, wp, finished>>

\* The retry timer of issue_all.
TimerFires ==
    /\ ~ running /\ ~ dropped
    /\ timers > 0
    /\ timers' = timers - 1
    /\ running' = TRUE
    /\ UNCHANGED <<submitted, ahead, behind, afterSync, syncing, lastLba, delayed, queueDepth,
                   issued, dropped, wp, finished>>

\* The device is dropped once all its futures have resolved: every unresolved
\* one, and every operation at the disk, holds a reference to it.
Drop ==
    /\ ~ running /\ ~ dropped
    /\ pending = {} /\ issued = {}
    /\ dropped' = TRUE
    /\ UNCHANGED <<submitted, ahead, behind, afterSync, syncing, lastLba, delayed, queueDepth,
                   issued, running, timers, wp, finished>>

-----------------------------------------------------------------------------
\* VdevBlock::new.
Init ==
    /\ ahead = {} /\ behind = {} /\ afterSync = {} /\ delayed = {}
    /\ issued = {} /\ submitted = 0
    /\ syncing = FALSE /\ running = FALSE /\ dropped = FALSE
    /\ lastLba = 0 /\ queueDepth = 0 /\ timers = 0
    /\ wp = ZoneStart /\ finished = {}

Finish == \E op \in issued : Complete(op)

Next == Submit \/ IssueAccepted \/ IssueRefused \/ IssueStops \/ Finish \/ TimerFires \/ Drop

\* The loop runs on, timers fire and the disk completes what it accepted.  It
\* may refuse an operation many times, but not forever.
Fairness ==
    /\ WF_vars(IssueAccepted \/ IssueRefused \/ IssueStops)
    /\ SF_vars(IssueAccepted)
    /\ WF_vars(TimerFires)
    /\ WF_vars(Finish)

Spec == Init /\ [][Next]_vars
FairSpec == Spec /\ Fairness

-----------------------------------------------------------------------------
(* Properties.                                                             *)

TypeOK ==
    /\ ahead \subseteq Op /\ behind \subseteq Op /\ afterSync \subseteq Op
    /\ delayed \subseteq Op /\ issued \subseteq Op /\ submitted \in 0 .. MaxOps
    /\ syncing \in BOOLEAN /\ running \in BOOLEAN /\ dropped \in BOOLEAN
    /\ lastLba \in Nat /\ queueDepth \in 0 .. QueueDepth /\ timers \in Nat
    /\ wp \in [ZoneIds -> Nat] /\ finished \subseteq ZoneIds

\* The scheduler keeps the promises of a BlockQueue: whatever the elevator, the
\* delays and the wrap-arounds do to the order, no operation is lost or issued
\* twice, and sync_all is a barrier in both directions.
Queue == INSTANCE BlockQueue
IsBlockQueue == Queue!Spec

\* queue_depth counts the operations at the disk and the delayed one, so that
\* the disk never holds more than it should and no slot of the queue leaks.
DepthExact == queueDepth = Cardinality(issued) + Cardinality(delayed) /\ Cardinality(delayed) <= 1

\* While operations wait, something will call issue_all again: the completion
\* of an operation at the disk, or a retry timer.
NeverStalls == ~ running /\ pending # {} => issued # {} \/ (delayed # {} /\ timers > 0)

\* Whenever pop_op looks at after_sync it finds a sync_all at its front, which
\* is what its debug_assert and unwrap take for granted.
SyncInFront ==
    /\ syncing <=> afterSync # {}
    /\ \A o \in afterSync : \E s \in afterSync : s.cmd = "SyncAll" /\ s.id <= o.id

\* Within a zone, writes are issued in the order they were submitted, and
\* finish_zone after all of them: the order that a zoned disk requires and for
\* which finish_zone sorts at the zone's last LBA.
InZone(o, z) == o.cmd \in {"WriteAt", "FinishZone"} /\ o.lba \in ZoneStart[z] .. ZoneEnd[z]
ZoneSequential ==
    [][\A z \in ZoneIds : \A o \in pending \ pending' :
         InZone(o, z) => \A p \in pending : InZone(p, z) => o.id <= p.id]_vars

\* Every operation that is submitted completes.
Completes == \A n \in 0 .. MaxOps - 1 :
    submitted > n ~> \A o \in pending \cup issued : o.id # n

\* The scheduler's own state is consistent whenever issue_all or pop_op looks at it: no
\* slot of the queue leaks, a sync_all is at the front of after_sync, and operations
\* never wait with nobody left to issue them.
SchedulerSound == TypeOK /\ DepthExact /\ SyncInFront /\ NeverStalls

-----------------------------------------------------------------------------
(* What comments of the source promise and the code does not do.           *)

\* A retry timer never outlives the device: issue_all expects to find it, and
\* says "VdevBlock dropped with outstanding I/O" otherwise.
TimerFindsDevice == timers > 0 => ~ dropped

\* Operations submitted after a sync_all are not issued before it is complete
\* (Inner::after_sync: "we can't correctly schedule them until the sync_all is
\* complete").
SyncCompletesFirst ==
    \A s, o \in issued : s.cmd = "SyncAll" => o.id <= s.id
=============================================================================
