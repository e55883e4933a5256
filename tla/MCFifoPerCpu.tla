---------------------------- MODULE MCFifoPerCpu ----------------------------
(* Instances of FifoPerCpu for TLC.                                         *)
EXTENDS FifoPerCpu, TLC

TaskSymmetry == Permutations(Tasks)
=============================================================================
