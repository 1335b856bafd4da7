----------------------------- MODULE PrimeSIter -----------------------------
(***************************************************************************)
(* An iterator over the chunks of a PRIME-S layout, from any chunk on.     *)
(***************************************************************************)
EXTENDS PrimeS

CONSTANTS
    Layouts,   \* triples: disks, disks per stripe, redundancy
    Starts(_), \* the data chunks where an iteration of a layout may start
    MaxSteps(_)

ASSUME LayoutsAssumption == \A t \in Layouts : LegalLayout(t[1], t[2], t[3])

VARIABLES layout, it, onlyData, left

walk == <<layout, it, onlyData, left>>

WalkInit ==
    /\ \E t \in Layouts : layout = Layout(t[1], t[2], t[3]) /\ left = MaxSteps(layout)
    /\ onlyData \in BOOLEAN
    /\ \E a \in Starts(layout), p \in {-1} \cup 0 .. layout.f - 1 :
        /\ p >= 0 => ~ onlyData /\ a % layout.m = 0
        /\ it = IterNew(layout, [addr |-> a, parity |-> p])

WalkNext ==
    /\ left > 0 /\ left' = left - 1
    /\ it' = IF onlyData THEN IterDataNext(layout, it) ELSE IterNext(layout, it)
    /\ UNCHANGED <<layout, onlyData>>

-----------------------------------------------------------------------------
\* Wherever an iteration has begun, and through the ends of stripes, iterations and
\* repetitions, both iterators place every chunk where id2loc places it.  As they count
\* chunks, this also says that every disk is filled without gaps and in the order of
\* the addresses, on which write_at_multi and zoned disks rely.
IterAgrees == NextElem(layout, it) = Id2Loc(layout, it.id)

\* loc2id finds the chunk that id2loc has placed.
Invertible == Loc2Id(layout, Id2Loc(layout, it.id)) = it.id

\* The three ways in which the layout can be computed, by the iterators, by id2loc and
\* backwards by loc2id, agree on every chunk.
LayoutExact == IterAgrees /\ Invertible

\* "Large layouts work.  In particular, they don't cause integer overflow errors."
LargeLayoutsWork == Invertible
=============================================================================
