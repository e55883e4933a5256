SPECIFICATION Spec
CONSTANTS
  Tasks = {t1, t2}
  NoTask = NoTask
  NCpus = 2
  Events = {"depart", "exit", "yield", "cfs"}
  CfsEvents = {"affinity", "tick", "balance"}
  MaxSeq = 4
  MaxDisturb = 1
SYMMETRY TaskSymmetry
INVARIANTS
  RunqueueOK
  ChecksHold
  ViewAgrees
  NoLostWakeup
CHECK_DEADLOCK FALSE
