---------------------------- MODULE NodeHistory ----------------------------
(***************************************************************************)
(* Node with history variables: what was flushed of each key while nobody  *)
(* wrote the key.  It is forgotten when a request or the loader begins to  *)
(* write the key.                                                          *)
(***************************************************************************)
EXTENDS Node

CONSTANT Unknown       \* nothing is promised of the key

VARIABLES kept,        \* kept[k]: what kv held when db was flushed
          zkept        \* zkept[k]: what zsets held when zset_db was flushed

hvars == <<vars, kept, zkept>>

\* What is remembered of each key after a step that recorded `memo'.
Remember(memo) == [k \in Keys |-> IF Quiet(k)' THEN memo[k] ELSE Unknown]

Recorded(store, memo) == [k \in Keys |-> IF Quiet(k) THEN store[k] ELSE memo[k]]

HInit == /\ Init
         /\ kept = [k \in Keys |-> Unknown]
         /\ zkept = [k \in Keys |-> Unknown]

Others == \/ \E t \in Threads : Call(t) \/ Handle(t)
          \/ StartLoad \/ Loaded \/ \E d \in Dirs : Load(d)
          \/ Crash \/ Restart

HNext == \/ FlushDb     /\ kept' = Recorded(kv, kept) /\ UNCHANGED zkept
         \/ FlushZsetDb /\ zkept' = Recorded(zsets, zkept) /\ UNCHANGED kept
         \/ Others      /\ kept' = Remember(kept) /\ zkept' = Remember(zkept)

HSpec == HInit /\ [][HNext]_hvars

\* What a query returned when db was flushed is what it returns until somebody
\* writes the key again, whatever crashes and restarts come between.
FlushedKeysSurvive ==
    up => \A k \in Keys : kept[k] # Unknown => kv[k] = kept[k]

\* Likewise every member of a sorted set, with its score.
FlushedMembersSurvive ==
    up => \A k \in Keys : zkept[k] # Unknown => \A m \in Members :
             zkept[k][m] # Missing => zexists[k] /\ zsets[k][m] = zkept[k][m]

\* README on /del, and the client's test of it: a key that was deleted, or
\* replaced by an add, has no sorted set.  Nor has it one after a restart.
FlushedZsetsStayDeleted ==
    up => \A k \in Keys : zkept[k] # Unknown => \A m \in Members :
             zkept[k][m] = Missing => zsets[k][m] = Missing
=============================================================================
