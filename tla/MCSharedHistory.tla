-------------------------- MODULE MCSharedHistory --------------------------
(* An instance of SharedHistory: two keys, one of them for strings only. *)
EXTENDS SharedHistory, TLC

CONSTANTS k1, k2

TwoKeys  == {k1, k2}
OneKey   == {k1}
Symmetry == Permutations(Threads) \cup Permutations(ZSets) \cup Permutations(Members)
=============================================================================
