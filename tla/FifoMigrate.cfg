SPECIFICATION Spec
CONSTANTS
  Tasks = {t1, t2}
  NoTask = NoTask
  NCpus = 2
  Events = {"deferrable", "depart"}
  MaxSeq = 4
  MaxDisturb = 0
SYMMETRY TaskSymmetry
INVARIANT NothingPendingAfterWakeup
CHECK_DEADLOCK FALSE
