--------------------------- MODULE MCTaskService ---------------------------
(* TaskService for TLC: more tasks than the store keeps, and a restart. *)
EXTENDS TaskService
=============================================================================
