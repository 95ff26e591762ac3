\* A letter, Caps Lock, a shift, and a control key with an extended code; devices without a handler on one
\* line of each controller.
SPECIFICATION FairSpec
CONSTANTS
  Unhandled = {7, 11}
  Level = {11}
  Keys = {"A", "RCTRL", "LSHIFT", "CAPSLOCK"}
  MaxStrokes = 3
INVARIANTS
  NoneLeftInService
  ShownAsMeant
PROPERTIES
  TimerServed
  KeysAreShown
