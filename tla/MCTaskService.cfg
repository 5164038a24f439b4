CONSTANTS
  t1 = t1
  t2 = t2
  p1 = p1
  p2 = p2
  None = None
  Task <- MCTask
  Proc <- MCProc
  MaxFiles = 2
  UseCache = TRUE
SYMMETRY Symmetry
SPECIFICATION Spec
INVARIANTS TypeOK CacheMatchesStore StatusDerived IInv
PROPERTIES CompletedIsFinal ImplementsLedger
CHECK_DEADLOCK FALSE
