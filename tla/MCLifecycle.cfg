CONSTANTS
  t1 = t1
  h1 = h1
  None = None
  Task <- MCTask
  Handler <- MCHandler
  Modes <- MCModes
  MaxHup = 2
SPECIFICATION FairSpec
INVARIANTS TypeOK OneOpen ClosedIdle NoPanic IInv
PROPERTIES ClosedUnused RestartEnds ExitEnds HandlersReturn WrittenForFuture
CHECK_DEADLOCK FALSE
