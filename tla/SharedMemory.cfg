SPECIFICATION MemSpec
CONSTANTS
  Main = main
  Threads = {main, w1, w2, w3}
  Notes = {ready, exit}
  NoNote = NoNote
  Notifier <- MainNotifies
  NElems = 8
  IndexWrap = 16
  SlotSize = 2
  LenWrap = 4
  Lengths = {2, 3}
  Clients = {c1, c2}
  NItems = 3
  StCap = 2
  NumRetries = 1
  MaxUpdates = 3
  Gtids = {g1, g2}
  NoGtid = NoGtid
  NWords = 3
  MaxKernel = 4
INVARIANTS
  SleepersAreSeen
  PeeksOldest DropIsNoticed
  NoUpdateLost NoTornCopy
  DiscoveryAgrees AbortsOnlyOnReentry
PROPERTY IsTrigger
CHECK_DEADLOCK FALSE
