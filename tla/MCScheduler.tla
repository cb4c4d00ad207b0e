----------------------------- MODULE MCScheduler -----------------------------
(* Small instances of Scheduler for TLC.                                   *)
EXTENDS Scheduler, TLC

CONSTANTS s1, s2, s3

IdSymmetry == Permutations(Ids)
==============================================================================
