------------------------- MODULE MCVerifiedReport -------------------------
(* VerifiedReport for TLC.  The main list has a repeated fact, a fact with *)
(* one blocked source, a fact with none but a late one, and one fact more  *)
(* than may be verified; in the others a source is unknown, or all of them *)
(* are blocked.                                                            *)
EXTENDS VerifiedReport

CONSTANTS a, b, c, blocked, late, stray, t1, t2

Found(claim, task, cites) == [claim |-> claim, task |-> task, cites |-> cites]

Main == << Found(1, t1, <<a, b>>), Found(2, t1, <<blocked, a>>), Found(1, t2, <<b>>),
           Found(3, t1, <<late>>), Found(4, t1, <<b>>), Found(5, t2, <<c>>) >>

MCInputs == {Main, << Found(1, t1, <<a, stray>>) >>, << Found(1, t1, <<blocked>>) >>}
MCCitations == <<blocked, a, late, b, c>>
=============================================================================
