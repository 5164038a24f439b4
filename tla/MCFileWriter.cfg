CONSTANTS
  f1 = f1
  f2 = f2
  n1 = n1
  n2 = n2
  w1 = w1
  w2 = w2
  None = None
  File <- MCFile
  Name <- MCName
  Worker <- MCWorker
  Chunks = 2
  Attempts = 2
  MaxJobs = 2
  MaxCrash = 1
SPECIFICATION FairSpec
INVARIANTS TypeOK FinalWhole CompletedHasBody NoLeftover IInv
PROPERTY HandleEnds
CHECK_DEADLOCK FALSE
