------------------------------ MODULE MCFuseFs ------------------------------
(* Instances of FuseFs for TLC.                                            *)
EXTENDS FuseFs

\* Two of the names collide.
MCNames == {"a", "b", "c"}
MCHash == [n \in MCNames \cup {".", ".."} |->
              CASE n \in {"a", "b"} -> 2 [] n = "c" -> 5 [] n = "." -> 3 [] n = ".." -> 1]
=============================================================================
