--------------------------- MODULE MCQaAdmission ---------------------------
(* A small instance of QaAdmission for TLC.                               *)
EXTENDS QaAdmission
CONSTANTS w1, w2
MCWork == {w1, w2}
============================================================================
