CONSTANTS
  w1 = w1
  w2 = w2
  s1 = s1
  s2 = s2
  c1 = c1
  c2 = c2
  j1 = j1
  j2 = j2
  j3 = j3
  None = None
  Worker <- MCWorker
  Submitter <- MCSubmitter
  Stopper <- MCStopper
  Job <- MCJob
  QueueSize = 1
SPECIFICATION FairSpec
INVARIANTS TypeOK NoJobLost StoppedDrained IInv SubmitNeverBlocks
PROPERTIES ImplementsQueue JobsHandled StopReturns
CHECK_DEADLOCK FALSE
