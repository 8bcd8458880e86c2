--------------------------- MODULE MCClusterCrash ---------------------------
(* Instances of ClusterCrash. *)
EXTENDS ClusterCrash, TLC

CONSTANTS k1

AtZero  == k1 :> 0
=============================================================================
