\* The timer alone.
SPECIFICATION Spec
CONSTANTS
  Unhandled = {}
  Level = {}
INVARIANTS
  TicksFindList
CHECK_DEADLOCK FALSE
