-------------------------- MODULE MCNemoServices --------------------------
(* Small instances of NemoServices for TLC.                               *)
EXTENDS NemoServices
=============================================================================
