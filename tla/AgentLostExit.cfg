SPECIFICATION FairSpec
CONSTANTS
  NCpus = 2
  Main = main
  Threads <- MCThreads
  Notes <- MCNotes
  NoNote = NoNote
  Orders = {FALSE}
  MaxArrivals = 1
PROPERTIES
  TerminationCompletes
CHECK_DEADLOCK FALSE
