----------------------------- MODULE BlockQueue -----------------------------
(***************************************************************************)
(* What a VdevBlock promises its users: an operation that is submitted is  *)
(* issued to the disk once and completes once, in any order, except that   *)
(* sync_all is a barrier.  Every operation submitted before it is issued   *)
(* before it, and every operation submitted after it is issued after it.   *)
(***************************************************************************)
EXTENDS Integers

CONSTANT Op        \* operations, with a command cmd and a serial number id

VARIABLES
    submitted,     \* how many operations were submitted so far
    pending,       \* those that have not reached the disk
    issued         \* those the disk is working on

vars == <<submitted, pending, issued>>

Init == submitted = 0 /\ pending = {} /\ issued = {}

Submit(o) ==
    /\ o.id = submitted
    /\ submitted' = submitted + 1
    /\ pending' = pending \cup {o}
    /\ UNCHANGED issued

\* The disk may complete an operation at once.
Issue(o) ==
    /\ \A p \in pending : p.id < o.id => p.cmd # "SyncAll" /\ o.cmd # "SyncAll"
    /\ pending' = pending \ {o}
    /\ issued' \in {issued, issued \cup {o}}
    /\ UNCHANGED submitted

Complete(o) ==
    /\ issued' = issued \ {o}
    /\ UNCHANGED <<submitted, pending>>

Next ==
    \/ \E o \in Op : Submit(o)
    \/ \E o \in pending : Issue(o)
    \/ \E o \in issued : Complete(o)

Spec == Init /\ [][Next]_vars
=============================================================================
