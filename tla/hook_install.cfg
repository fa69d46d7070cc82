\* Both modes, with room for all trampolines but the last.
CONSTANTS
  Funcs <- Functions
  Fork = "fork"
  Write = "write"
  Pages <- CodePages
  PageOf <- Layout
  Sealed = {"S"}
  Plan <- AllHooks
  Full = {"close"}
  Relocated <- Lengths
  PageSize = 232
  CacheSize = 2
  Threads = {1, 2}
  Modes = {"launch", "attach"}
SPECIFICATION Spec
INVARIANTS HookInv NeverFaults SealedUntouched TableMatchesCode TrampolinesIntact
PROPERTIES Settles
