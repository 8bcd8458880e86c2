---------------------------- MODULE MCNodeHistory ----------------------------
(* Instances of Node with its histories. *)
EXTENDS NodeHistory

OneRow == [dir \in Dirs |-> {CHOOSE k \in Keys : TRUE}]
NoRows == [dir \in Dirs |-> {}]

NoKeys == {}
=============================================================================
