\* Six I/O commands go once round rings of four entries.
SPECIFICATION FairSpec
CONSTANTS
  Machines <- SmallMachines
  LastAddress = 4
  MaxDevices = 3
  Word = 64
  Size = 4
  MaxIo = 6
INVARIANTS
  ControllerTaken
  QueuesKnown
  FirstLapAnswers
PROPERTIES
  CommandsReturn
CHECK_DEADLOCK FALSE
