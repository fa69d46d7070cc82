\* Signal handlers that write, on threads that come and go, fork and exit, and on
\* the reader.
CONSTANTS
  t1 = t1
  t2 = t2
  Reader = Reader
  Threads <- OneThread
  MaxThreads = 2
  QueueSize = 1
  Batch = 1
  MaxWait = 0
  MaxNest = 1
  Payload = {p1}
  NoEvent = NoEvent
  Calls = {"write", "fork", "exit"}
  Traced = {"write"}
  ThreadsExit = TRUE
  OwnSigterm = FALSE
SPECIFICATION Spec
INVARIANTS NestInv QueueExclusive NoSelfTrace
