------------------------------- MODULE MCNode -------------------------------
(* Instances of Node. *)
EXTENDS Node

\* The directories of INIT_DIRS: each holds one key, or there is none.
OneRow == [dir \in Dirs |-> {CHOOSE k \in Keys : TRUE}]
NoRows == [dir \in Dirs |-> {}]

\* The key of OneRow, or none.
OneKey == {CHOOSE k \in Keys : TRUE}
NoKeys == {}
=============================================================================
