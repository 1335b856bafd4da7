----------------------------- MODULE OrderedMap -----------------------------
(***************************************************************************)
(* What a Tree promises to its callers: it is a map from keys to values    *)
(* on which insertions, removals and deletions of a range of keys each     *)
(* take effect at one moment, and return what was there before.            *)
(***************************************************************************)
CONSTANTS
    Keys, Values,
    InRange(_, _),  \* does a key lie in a range of keys?
    Ranges,
    None            \* the absence of a value: Option::None

VARIABLES
    map,            \* the value of every key, or None
    reply           \* what the last insertion or removal returned

Init == map \in [Keys -> Values \cup {None}] /\ reply = None

Insert(k, v) == map' = [map EXCEPT ![k] = v] /\ reply' = map[k]
Remove(k) == map' = [map EXCEPT ![k] = None] /\ reply' = map[k]
RangeDelete(r) ==
    /\ map' = [k \in Keys |-> IF InRange(k, r) THEN None ELSE map[k]]
    /\ reply' = None

Next ==
    \/ \E k \in Keys : Remove(k) \/ \E v \in Values : Insert(k, v)
    \/ \E r \in Ranges : RangeDelete(r)

Spec == Init /\ [][Next]_<<map, reply>>
=============================================================================
