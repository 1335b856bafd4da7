------------------------------- MODULE MCTree -------------------------------
(* Instances of Tree for TLC.                                              *)
EXTENDS Tree

\* Keys inserted in ascending order, from a to b, two apart.
Run(a, b) == [i \in 1 .. (b - a) \div 2 + 1 |-> a + 2 * (i - 1)]

\* Trees of height 1, 2 and 3; the last one was written in two syncs.
AllBatches == {<<Run(1, 5)>>, <<Run(1, 7)>>, <<Run(1, 23)>>, <<Run(1, 13), Run(15, 23)>>}
LowBatches == {<<Run(1, 7)>>}

\* The oldest blocks, or the root of a small tree.
MCZones == {1 .. 6, 3 .. 3}

MCRanges ==
    {[start |-> s, end |-> e] :
        s \in {Unbounded, Included(3), Excluded(6)},
        e \in {Unbounded, Included(13), Excluded(17)}}
=============================================================================
