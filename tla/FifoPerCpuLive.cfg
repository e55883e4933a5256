SPECIFICATION FairSpec
CONSTANTS
  Tasks = {t1, t2}
  NoTask = NoTask
  NCpus = 2
  Events = {"deferrable", "cfs", "yield"}
  MaxSeq = 4
  MaxDisturb = 1
PROPERTY RunnableRuns
CHECK_DEADLOCK FALSE
