\* Safety: a mutex, a semaphore and an event shared by three tasks.
SPECIFICATION ObjectsSpec
CONSTANTS
  Boot = boot0
  t1 = t1
  t2 = t2
  t3 = t3
  m1 = m1
  s1 = s1
  e1 = e1
  AnyMutex = m1
  NULL = NULL
  Tasks = {boot0, t1, t2, t3}
  Mutexes = {m1}
  Semaphores = {s1}
  Events = {e1}
  Objects = {m1, s1, e1}
  Initial <- OneEach
  MaxCount = 1
  MaxTicks = 2
  LateStart = TRUE
SYMMETRY TaskSymmetry
INVARIANTS
  ObjectsTypeOK
  RunlistSound
  RunningIsCurrent
  ReapSafe
  BlockedIsQueued
  HaltedInterruptible
  TasksRunMasked
  MutualExclusion
  SemaphoreBalance
  NoLostWakeup
PROPERTIES
  JoinWaits
  WaitsAreWhole
  ImplementsLock
