--------------------------- MODULE MCFifoCentralized ---------------------------
(* Instances of FifoCentralized for TLC.                                      *)
EXTENDS FifoCentralized, TLC

TaskSymmetry == Permutations(Tasks)
================================================================================
