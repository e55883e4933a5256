SPECIFICATION Spec
CONSTANTS
  Tasks = {t1, t2}
  NoTask = NoTask
  NCpus = 2
  Events = {"deferrable", "depart", "exit", "yield", "switchto"}
  MaxSeq = 5
  MaxDisturb = 0
SYMMETRY TaskSymmetry
INVARIANTS
  TypeOK
  RunqueueOK
  ViewAgrees
  NoTaskForgotten
  ChecksHold
  NoLostWakeup
  OnlyDefaultAgentMigrates
CHECK_DEADLOCK FALSE
