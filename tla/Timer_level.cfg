SPECIFICATION TimerSpec
CONSTANTS
  NULL = NULL
  StartTime = 1
  MaxLag = 3
  MaxTime = 13
INVARIANTS TimerTypeOK ListOK
PROPERTY ImplementsQueue
