\* Two threads that come and go flood two rings; one slot of each a pass.
CONSTANTS
  t1 = t1
  t2 = t2
  Reader = Reader
  Threads <- AppThreads
  MaxThreads = 2
  QueueSize = 1
  Batch = 1
  MaxWait = 0
  MaxNest = 0
  Payload = {p1}
  NoEvent = NoEvent
  Calls = {"call", "write"}
  Traced = {"call", "write"}
  ThreadsExit = TRUE
  OwnSigterm = FALSE
SPECIFICATION ReaderSpec
INVARIANTS NoSlotRace
PROPERTIES EventuallyEmitted
