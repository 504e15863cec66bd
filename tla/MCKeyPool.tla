------------------------------ MODULE MCKeyPool ------------------------------
(* KeyPool for TLC: more searches than keys, and fewer slots than keys. *)
EXTENDS KeyPool
=============================================================================
