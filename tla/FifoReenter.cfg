SPECIFICATION Spec
CONSTANTS
  Tasks = {t1, t2}
  NoTask = NoTask
  NCpus = 2
  Events = {"deferrable", "depart", "reenter"}
  MaxSeq = 3
  MaxDisturb = 1
SYMMETRY TaskSymmetry
INVARIANT NoTaskForgotten
CHECK_DEADLOCK FALSE
