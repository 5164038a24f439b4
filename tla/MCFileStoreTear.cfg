CONSTANTS
  t1 = t1
  f1 = f1
  f2 = f2
  waitingV = waitingV
  queuedV = queuedV
  completedV = completedV
  errorV = errorV
  None = None
  New = waitingV
  Task <- MCTask
  File <- MCFile
  Value <- MCValue
  StatusOf <- MCFewStatus
  MaxLog = 4
  Faults <- MCTear
SPECIFICATION Spec
INVARIANT Durable
CHECK_DEADLOCK FALSE
