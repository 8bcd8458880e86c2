------------------------------ MODULE MCZSet ------------------------------
(* Instances of ZSet.  The handlers are interchangeable, and so are values. *)
EXTENDS ZSet, TLC

Symmetry == Permutations(Threads) \cup Permutations(Values)
=============================================================================
