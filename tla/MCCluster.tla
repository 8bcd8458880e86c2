----------------------------- MODULE MCCluster -----------------------------
(* Instances of Cluster.  The rows of two keys hash to the nodes of their  *)
(* strings, the other way round (Swapped), or to one node (Crossed).       *)
EXTENDS Cluster, TLC

CONSTANTS k1, k2

TwoKeys   == {k1, k2}
Apart     == k1 :> 0 @@ k2 :> 1
Swapped   == k1 :> 1 @@ k2 :> 0
Crossed   == k1 :> 1 @@ k2 :> 1
=============================================================================
