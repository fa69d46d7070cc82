\* Every class of instruction, in every place, through both builders.
CONSTANTS
  F <- Function
  Trampoline <- HookPlace
  Thunk <- ThunkPlace
  Windows <- AllWindows
  Stubs <- StubPlaces
  MaxSteps = 30
SPECIFICATION Spec
INVARIANTS RelocatorInv SameEffect MovesWhatItMust
