CONSTANTS
  t1 = t1
  w1 = w1
  w2 = w2
  a1 = a1
  r1 = r1
  None = None
  Task <- MCTask
  Worker <- MCWorker
  Api <- MCApi
  Retry <- MCRetry
  MaxFiles = 2
  QueueSize = 2
  UseCache = FALSE
  AtStart <- MCFresh
  StoreFaults = FALSE
  MayClose = FALSE
SPECIFICATION Spec
PROPERTY CompletedIsFinal
CHECK_DEADLOCK FALSE
