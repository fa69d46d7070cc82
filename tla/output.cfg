\* The sizes of the code; every environment the tool sets, and attach mode.
CONSTANTS
  Names <- Paths
  Filters <- Words
  NameMax = 512
  SlotText = 1024
  LineMax = 8192
  Rest = {30, 512}
  RingSize = 1
SPECIFICATION Spec
INVARIANTS OutputInv OwnCallsUntraced Selected RightLog OneObjectPerLine NamesKept
