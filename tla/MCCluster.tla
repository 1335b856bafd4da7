------------------------------ MODULE MCCluster ------------------------------
(* Three zones, the first smaller than the others because the labels take    *)
(* some of it, and a spacemap of two blocks.                                 *)
EXTENDS Cluster

CONSTANT MaxTxg   \* bound on the transaction group

MCSpace == [z \in Zones |-> IF z = 0 THEN 2 ELSE 4]

TxgBound == txg <= MaxTxg
=============================================================================
