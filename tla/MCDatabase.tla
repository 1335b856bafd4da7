----------------------------- MODULE MCDatabase -----------------------------
EXTENDS Database, TLC

CONSTANTS w1, w2, s1, s2

\* The writers are interchangeable, and so are the syncers.
TaskSymmetry == Permutations(Writers) \cup Permutations(Syncers)
=============================================================================
