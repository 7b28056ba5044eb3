SPECIFICATION Spec
CONSTANTS
  MaxClients = 2
  save_interval = 3
  Recheck = 2
  StartTime = 1
  MaxLag = 1
  MaxTime = 24
INVARIANT SavedEachInterval
