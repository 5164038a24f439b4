CONSTANTS
  t1 = t1
  f1 = f1
  f2 = f2
  waitingV = waitingV
  queuedV = queuedV
  completedV = completedV
  errorV = errorV
  None = None
  New = waitingV
  Task <- MCTask
  File <- MCFiles
  Value <- MCValues
  StatusOf <- MCStatuses
  MaxLog = 5
  Faults <- MCLoss
SPECIFICATION Spec
SYMMETRY Symmetry
INVARIANTS TypeOK NoGap
PROPERTY ImplementsMap
CHECK_DEADLOCK FALSE
