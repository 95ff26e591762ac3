\* Two I/O commands.
SPECIFICATION Spec
CONSTANTS
  Machines <- SmallMachines
  LastAddress = 4
  MaxDevices = 3
  Word = 64
  Size = 4
  MaxIo = 2
INVARIANTS
  AnswersAreOwn
CHECK_DEADLOCK FALSE
