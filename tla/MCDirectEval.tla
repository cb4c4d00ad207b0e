--------------------------- MODULE MCDirectEval ----------------------------
(* A small instance of DirectEval for TLC.                                *)
EXTENDS DirectEval
CONSTANTS r1, r2
MCRows == {r1, r2}
============================================================================
