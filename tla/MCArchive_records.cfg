\* Two dictations, of which one recording is kept and both rows are shown.
SPECIFICATION Spec
CONSTANTS
  Keep = 1
  Cap = 2
  NumDictations = 2
  LastSecond = 2
  MaxMishaps = 1
INVARIANTS
  NewestKept
  DeletionIsExact
  StopButtonShown
\* Every dictation was made and the window may stay closed.
CHECK_DEADLOCK FALSE
