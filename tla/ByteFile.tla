------------------------------ MODULE ByteFile ------------------------------
(***************************************************************************)
(* What a file promises to its users: a sequence of bytes, with zeros      *)
(* where nothing has been written, and extended attributes by name.        *)
(***************************************************************************)
EXTENDS Integers, Sequences

CONSTANTS Offsets, Datas, Sizes, Names, Values, None

VARIABLES bytes, attrs

NewFile == bytes = <<>> /\ attrs = [n \in Names |-> None]

Written(o, data) ==
    [i \in 1 .. IF Len(bytes) > o + Len(data) THEN Len(bytes) ELSE o + Len(data) |->
        IF i > o /\ i <= o + Len(data) THEN data[i - o]
        ELSE IF i <= Len(bytes) THEN bytes[i] ELSE 0]

Write(o, data) == bytes' = Written(o, data) /\ UNCHANGED attrs
Truncate(n) ==
    /\ bytes' = [i \in 1 .. n |-> IF i <= Len(bytes) THEN bytes[i] ELSE 0]
    /\ UNCHANGED attrs
SetAttr(n, v) == attrs' = [attrs EXCEPT ![n] = v] /\ UNCHANGED bytes
Delete == bytes' = <<>> /\ attrs' = [n \in Names |-> None]

Next ==
    \/ \E o \in Offsets, data \in Datas : Write(o, data)
    \/ \E n \in Sizes : Truncate(n)
    \/ \E n \in Names, v \in Values \cup {None} : SetAttr(n, v)
    \/ Delete

Spec == NewFile /\ [][Next]_<<bytes, attrs>>
=============================================================================
