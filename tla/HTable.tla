------------------------------- MODULE HTable -------------------------------
(***************************************************************************)
(* Hash tables in a tree (fs.rs, module htable): directory entries and     *)
(* extended attributes are found by the hash of their names.  Under a key  *)
(* the tree has one item, or a bucket of several whose names collide: a    *)
(* sequence of one, or of two and more.  An item has a field "name", which *)
(* for an extended attribute includes the namespace (HTItem::same).        *)
(***************************************************************************)
EXTENDS Integers, Sequences, TLC

CONSTANT None

Without(table, keys) == [k \in DOMAIN table \ keys |-> table[k]]
With(table, key, items) == (key :> items) @@ table
Bucket(table, key) == IF key \in DOMAIN table THEN table[key] ELSE <<>>
At(items, name) == {i \in DOMAIN items : items[i].name = name}

\* htable::get.
HtGet(table, key, name) ==
    LET b == Bucket(table, key)
    IN IF At(b, name) = {} THEN None ELSE b[CHOOSE i \in At(b, name) : TRUE]

\* Mutant of HtInsert: a single item is replaced, whatever its name.
HtInsertOver(table, key, item) ==
    LET b == Bucket(table, key)
    IN [table |-> With(table, key, IF Len(b) < 2 THEN <<item>> ELSE Append(b, item)),
        old |-> HtGet(table, key, item.name)]
\* htable::insert: replace the item of this name, or add it to the others.
HtInsert(table, key, item) ==
    LET b == Bucket(table, key)
    IN [table |-> With(table, key, IF At(b, item.name) = {} THEN Append(b, item)
                                   ELSE [i \in DOMAIN b |-> IF i \in At(b, item.name) THEN item ELSE b[i]]),
        old |-> HtGet(table, key, item.name)]

\* htable::remove.  The last item takes the place of the one removed (swap_remove);
\* what is not found is put back.
SwapRemoved(b, i) == SubSeq([b EXCEPT ![i] = b[Len(b)]], 1, Len(b) - 1)
HtRemove(table, key, name) ==
    LET b == Bucket(table, key)
        left == SwapRemoved(b, CHOOSE i \in At(b, name) : TRUE)
    IN IF At(b, name) = {} THEN [table |-> table, old |-> None]
       ELSE [table |-> IF Len(b) = 1 THEN Without(table, {key}) ELSE With(table, key, left),
             old |-> HtGet(table, key, name)]
=============================================================================
