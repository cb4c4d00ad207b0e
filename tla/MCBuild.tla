------------------------------ MODULE MCBuild ------------------------------
(* A small instance of Build for TLC: all stages, and a durable one that  *)
(* also runs alone.                                                       *)
EXTENDS Build
MCStageArgs == {"all", "1b"}
============================================================================
