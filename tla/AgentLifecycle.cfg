SPECIFICATION FairSpec
CONSTANTS
  NCpus = 2
  Main = main
  Threads <- MCThreads
  Notes <- MCNotes
  NoNote = NoNote
  Orders = {FALSE, TRUE}
  MaxArrivals = 1
INVARIANTS
  ChecksHold
  SchedulesAfterDiscovery
  DetachedAfterAllJoined
  PingsLiveAgent
PROPERTIES
  StartupCompletes BarrierFirstTerminates
CHECK_DEADLOCK FALSE
