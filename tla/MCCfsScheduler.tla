---------------------------- MODULE MCCfsScheduler ----------------------------
(* Instances of CfsScheduler for TLC.                                        *)
EXTENDS CfsScheduler, TLC

TaskSymmetry == Permutations(Tasks)
================================================================================
