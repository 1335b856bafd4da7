------------------------------- MODULE MCDDML -------------------------------
(* Two Clusters, each of one zone that is full at first, and two threads.   *)
EXTENDS DDML
=============================================================================
