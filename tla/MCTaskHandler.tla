---------------------------- MODULE MCTaskHandler ----------------------------
(* Small instances of TaskHandler for TLC.                                 *)
EXTENDS TaskHandler

CONSTANTS c1, c2, i1
==============================================================================
