CONSTANTS
  t1 = t1
  h1 = h1
  None = None
  Task <- MCTask
  Handler <- MCHandler
  Modes <- MCMemory
  MaxHup = 1
SPECIFICATION FairSpec
PROPERTY RestartsApp
CHECK_DEADLOCK FALSE
