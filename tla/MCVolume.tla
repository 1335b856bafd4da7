------------------------------ MODULE MCVolume ------------------------------
EXTENDS Volume, TLC

CONSTANTS c1, c2, d1, d2, v1, t1, t2

\* Two clusters, each of a single disk.
TwoClusters == <<c1, c2>>
TwoDisks == (c1 :> <<d1>>) @@ (c2 :> <<d2>>)
=============================================================================
