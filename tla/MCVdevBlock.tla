----------------------------- MODULE MCVdevBlock -----------------------------
(* Two zones of two LBAs after the LBAs of the labels and the spacemap.      *)
EXTENDS VdevBlock

MCZoneStart == [z \in ZoneIds |-> 2 * z]
MCZoneEnd == [z \in ZoneIds |-> 2 * z + 1]
=============================================================================
