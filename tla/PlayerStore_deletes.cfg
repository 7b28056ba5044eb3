SPECIFICATION Spec
CONSTANTS
  s1 = s1
  s2 = s2
  n1 = n1
  n2 = n2
  MaxClients = 2
  Keys = {s1, n1, n2}
  NameKeys = {n1, n2}
  MaxLevel = 2
  MaxItem = 0
  ItemCap = 0
  MaxRow = 2
  FaultKinds = {}
  MaxFaults = 0
  DelPlayerUsed = TRUE
  NoPlayer = NoPlayer
  NoRow = NoRow
SYMMETRY Symmetry
INVARIANTS ItemsRowsLinked SteamRowExclusive
PROPERTY SaveDataOffFreezesDatabase
