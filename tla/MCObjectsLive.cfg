\* Liveness: two tasks that sleep, join, exit and contend for a mutex (no
\* symmetry: the properties are temporal).
SPECIFICATION FairObjectsSpec
CONSTANTS
  Boot = boot0
  t1 = t1
  t2 = t2
  t3 = t3
  m1 = m1
  s1 = s1
  e1 = e1
  AnyMutex = m1
  NULL = NULL
  Tasks = {boot0, t1, t2}
  Mutexes = {m1}
  Semaphores = {}
  Events = {}
  Objects = {m1}
  Initial <- OneEach
  MaxCount = 1
  MaxTicks = 3
  LateStart = TRUE
PROPERTIES
  NoEarlyWake
  ReadyRuns
  DeadAreFreed
  LockersEnter
