-------------------------- MODULE MCShardedStorage --------------------------
(* An instance of ShardedStorage: two keys on different cores, and a core   *)
(* that is no key's.                                                        *)
EXTENDS ShardedStorage, TLC

CONSTANTS k1, k2, c1, c2, c3

TwoKeys    == {k1, k2}
ThreeCores == {c1, c2, c3}
Apart      == k1 :> c1 @@ k2 :> c2
=============================================================================
