\* A short-lived program: one call, then exit.
CONSTANTS
  t1 = t1
  t2 = t2
  Reader = Reader
  Threads <- OneThread
  MaxThreads = 1
  QueueSize = 1
  Batch = 1
  MaxWait = 1
  MaxNest = 0
  Payload = {p1}
  NoEvent = NoEvent
  Calls = {"call", "exit"}
  Traced = {"call", "exit"}
  ThreadsExit = FALSE
  OwnSigterm = FALSE
SPECIFICATION Spec
INVARIANTS DoneMeansDrained
