CONSTANTS
  t1 = t1
  w1 = w1
  w2 = w2
  a1 = a1
  r1 = r1
  None = None
  Task <- MCTask
  Worker <- MCOneWorker
  Api <- MCNoApi
  Retry <- MCRetry
  MaxFiles = 2
  QueueSize = 1
  UseCache = TRUE
  AtStart <- MCAny
  StoreFaults = FALSE
  MayClose = FALSE
SPECIFICATION Spec
PROPERTY EnqueueQueuesAll
CHECK_DEADLOCK FALSE
