------------------------------ MODULE MCClient ------------------------------
(***************************************************************************)
(* Client for TLC: three tasks for two permits, a last chunk that is not   *)
(* full, and a second run on what the first has left.                      *)
(***************************************************************************)
EXTENDS Client
=============================================================================
