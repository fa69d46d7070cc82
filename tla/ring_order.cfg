\* One thread and its ring: order, wholeness and loss across wrap-around.
CONSTANTS
  t1 = t1
  t2 = t2
  Reader = Reader
  Threads <- OneThread
  MaxThreads = 1
  QueueSize = 3
  Batch = 2
  MaxWait = 0
  MaxNest = 0
  Payload = {p1, p2}
  NoEvent = NoEvent
  Calls = {"call", "write", "log"}
  Traced = {"write"}
  ThreadsExit = FALSE
  OwnSigterm = FALSE
SPECIFICATION ThreadSpec
INVARIANTS LineInv WholeRecords
PROPERTIES DropOnlyWhenFull ImplementsLossyTrace CallsReturn
