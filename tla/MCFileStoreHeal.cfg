CONSTANTS
  t1 = t1
  f1 = f1
  f2 = f2
  waitingV = waitingV
  queuedV = queuedV
  completedV = completedV
  errorV = errorV
  None = None
  New = waitingV
  Task <- MCTask
  File <- MCFile
  Value <- MCValue
  StatusOf <- MCFewStatus
  MaxLog = 4
  Faults <- AllFaults
SPECIFICATION Spec
INVARIANT Healed
CHECK_DEADLOCK FALSE
