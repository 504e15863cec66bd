---------------------------- MODULE MCExtraction ----------------------------
(* Extraction for TLC: two extractions compete for one slot, with one retry; *)
(* two documents that fit together, alone or not at all.                     *)
EXTENDS Extraction
CONSTANTS e1, e2
=============================================================================
