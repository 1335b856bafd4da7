----------------------------- MODULE MCVdevRaid -----------------------------
(* First the iterators of several layouts are walked.  Small layouts are    *)
(* walked from every data chunk of a repetition into the next one.  In the  *)
(* layout of 37 disks, s * m exceeds an i16 in the last stripes of a        *)
(* repetition; the layout of 211 disks has more than 2^15 stripes.          *)
(*                                                                          *)
(* Then the array that has the layout (5, 3, 1) is used: chunks of two      *)
(* LBAs, and zones that do not line up with chunks or stripes.              *)
EXTENDS VdevRaid, PrimeSIter
MCLayouts == {<<2, 2, 1>>, <<3, 2, 1>>, <<3, 3, 2>>, <<5, 3, 1>>, <<5, 4, 2>>, <<7, 5, 2>>, <<37, 37, 2>>}
LargeLayouts == {<<211, 37, 5>>}
MCStarts(l) ==
    IF l.n < 10 THEN 0 .. l.datachunks - 1
    ELSE IF l.n < 100 THEN {l.datachunks - 2 * l.m - 1} ELSE {32766 * l.m}
MCMaxSteps(l) == IF l.n < 10 THEN l.k + 1 ELSE 3 * l.k

\* The walk that started at the array's first chunk has gone through a stripe.
Walked == left = 0 /\ layout = L /\ ~ onlyData /\ it.id = DataChunk(L.m + 1) /\ UNCHANGED walk
MCInit == Init /\ WalkInit
MCNext == (WalkNext /\ UNCHANGED vars) \/ (Walked /\ Next)
MCSpec == MCInit /\ [][MCNext]_<<vars, walk>>
=============================================================================
