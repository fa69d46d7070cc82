\* A function that calls another among its first four instructions.
CONSTANTS
  F <- Function
  Trampoline <- HookPlace
  Thunk <- ThunkPlace
  Windows <- CallWindows
  Stubs <- StubPlaces
  MaxSteps = 30
SPECIFICATION Spec
INVARIANT TrampolineReexecutes
