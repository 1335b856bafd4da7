------------------------------ MODULE MCCache ------------------------------
EXTENDS Cache

CONSTANTS k1, k2, k3, k4, k5

\* Blocks of several sizes, so that one insertion can expire several entries.
MCBufLen == [k \in Keys |-> IF k = k1 THEN 3 ELSE IF k \in {k2, k3} THEN 2 ELSE 1]
=============================================================================
