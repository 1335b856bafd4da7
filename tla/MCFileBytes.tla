----------------------------- MODULE MCFileBytes -----------------------------
(* An attribute name in both namespaces, with the same hash.                *)
EXTENDS FileBytes
MCNames == {<<"user", "a">>, <<"system", "a">>}
MCNameLen(n) == 1
MCHash == [n \in AttrNames |-> 7]
MCValues == {<<1>>, <<1, 1>>}
MCRids == 1 .. 4
=============================================================================
