\* Every combination of options, a second mtdi, and a signal at every point.
CONSTANTS
  Requests <- CommandLines
  PathLengths = {255, 256, 257, 280, 281, 352, 353, 369}
  MaxPolls = 2
  Me = "me"
  Other = "other"
  Texts = {"checked", "rejected"}
  Safe = {"checked"}
SPECIFICATION Spec
INVARIANTS ToolInv SuccessAccounted HandlerReachesChild TargetUnharmed LoadedIsLoaded FailureExplained RunsVerified
PROPERTIES ImplementsSession Ends
