CONSTANTS
  Items = {a, b}
  Capacity = 4
  Undefined = Undefined
  LockTasks = {t1, t2, t3, t4}
  ZeroTimeouts = 2
  QueueTasks = {t1, t2, t3}
  Priorities = {1, 2, 3}
  MaxItems = 5
SPECIFICATION MCSpec
CHECK_DEADLOCK FALSE
INVARIANTS
  LockNoLostWakeup
PROPERTIES
  ImplementsQueue
  LockServesWaiters
  QueueImplementsBag
  MutexServesWaiters
