-------------------------- MODULE MCResearchGraph --------------------------
(* ResearchGraph for TLC: every plan of three tasks, with cycles and unknown *)
(* dependencies, and room for the follow-ups.                                *)
EXTENDS ResearchGraph
=============================================================================
