SPECIFICATION FairSpec
CONSTANTS
  Tasks = {t1, t2}
  NoTask = NoTask
  NCpus = 2
  Events = {"depart", "exit", "yield", "cfs"}
  MaxDisturb = 2
INVARIANTS
  RunqueueOK
  ChecksHold
  OneGlobalAgent
  ViewAgrees
PROPERTY
  RunnableRuns
CHECK_DEADLOCK FALSE
