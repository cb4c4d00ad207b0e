--------------------------- MODULE MCPassageStage ---------------------------
(* A small instance of PassageStage for TLC.                                *)
EXTENDS PassageStage
CONSTANTS p1, p2
MCPassages == {p1, p2}
=============================================================================
