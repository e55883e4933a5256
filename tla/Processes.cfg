SPECIFICATION ProcSpec
CONSTANTS
  Callers = {c1, c2}
  Parent = parent
  Child = child
  Handler = handler
  NoThread = NoThread
  NoNote = NoNote
  Threads <- MCThreads
  Notes <- MCNotes
  MaxRpcs = 2
  Clients = {o1, o2}
  NoClient = NoClient
  MaxCrashes = 2
  MaxMetrics = 2
INVARIANTS
  AnswersOwnRequest ChecksHold HandlerUsesLiveAgent
  OneSchedulerAtATime AckedWhenActive
PROPERTIES
  RpcReturns ShutdownCompletes RequestsAnswered
CHECK_DEADLOCK FALSE
