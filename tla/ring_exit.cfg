\* Exit, SIGTERM, fork and execve of two threads, against the reader.
CONSTANTS
  t1 = t1
  t2 = t2
  Reader = Reader
  Threads <- AppThreads
  MaxThreads = 1
  QueueSize = 1
  Batch = 1
  MaxWait = 1
  MaxNest = 0
  Payload = {p1}
  NoEvent = NoEvent
  Calls = {"fork", "exit", "execve"}
  Traced = {"fork"}
  ThreadsExit = FALSE
  OwnSigterm = TRUE
SPECIFICATION FlushSpec
INVARIANTS ChildNeverWaits
PROPERTIES FlushEnds
