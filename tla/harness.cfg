\* Two threads and every kind of handler; a panic is caught.
CONSTANTS
  Threads = {"t1", "t2"}
  Loader = "loader"
  Symbols <- Library
  Registered <- Hooks
  Missing = {"gone"}
  Sealed = {"shut"}
  Handler <- Kinds
  Panics = {"write"}
  Legacy = TRUE
  EventCap = 2
  MaxCalls <- Budget
SPECIFICATION FairSpec
INVARIANTS HarnessInv NoneMissed LogFaithful
PROPERTIES CallsReturn
