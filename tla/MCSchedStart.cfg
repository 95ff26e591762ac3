\* kmain may add tasks before it calls scheduler_schedule, and more than one.
SPECIFICATION Spec
CONSTANTS
  Boot = boot0
  NULL = NULL
  Tasks = {boot0, t1, t2}
  Objects = {}
  MaxTicks = 2
  LateStart = FALSE
INVARIANTS
  HaltedInterruptible
