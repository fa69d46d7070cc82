\* A thread runs a handler whose trampoline has not been stored.
CONSTANTS
  Funcs <- Functions
  Fork = "fork"
  Write = "write"
  Pages <- CodePages
  PageOf <- Layout
  Sealed = {"S"}
  Plan <- TwoHooks
  Full = {"close"}
  Relocated <- Lengths
  PageSize = 16384
  CacheSize = 2
  Threads = {1}
  Modes = {"attach"}
SPECIFICATION Spec
INVARIANTS HandlersForward
