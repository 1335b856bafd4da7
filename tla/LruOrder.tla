------------------------------ MODULE LruOrder ------------------------------
(***************************************************************************)
(* What a least-recently-used cache promises: its keys are ordered by      *)
(* their last use, a key that is looked up or added for the first time     *)
(* becomes the first, and making room for a key expires only the last.     *)
(***************************************************************************)
EXTENDS Sequences, Integers

CONSTANTS Keys, None

VARIABLES
    order,    \* the cached keys, the most recently used one first
    adding    \* the key being added, or None

Cached == {order[i] : i \in DOMAIN order}
Without(k) == SelectSeq(order, LAMBDA j : j # k)

Init == order = <<>> /\ adding = None

\* Calls, which come one at a time.
Use(k) == k \in Cached /\ order' = <<k>> \o Without(k)
Remove(k) == k \in Cached /\ order' = Without(k)
Clear == order' = <<>>
Call == adding = None /\ UNCHANGED adding /\ (Clear \/ \E k \in Keys : Use(k) \/ Remove(k))

\* Adding a key: make room for it, then add it if it is not there.
Begin == adding = None /\ adding' \in Keys /\ UNCHANGED order
Expire ==
    /\ adding # None /\ order # <<>>
    /\ order' = SubSeq(order, 1, Len(order) - 1)
    /\ UNCHANGED adding
Add ==
    /\ adding # None
    /\ order' = IF adding \in Cached THEN order ELSE <<adding>> \o order
    /\ adding' = None

Next == Call \/ Begin \/ Expire \/ Add

Spec == Init /\ [][Next]_<<order, adding>>
=============================================================================
