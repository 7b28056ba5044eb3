SPECIFICATION Spec
CONSTANTS
  s1 = s1
  s2 = s2
  n1 = n1
  n2 = n2
  MaxClients = 2
  Keys = {s1, s2}
  NameKeys = {}
  MaxLevel = 2
  MaxItem = 1
  ItemCap = 1
  MaxRow = 2
  FaultKinds = {}
  MaxFaults = 0
  DelPlayerUsed = FALSE
  NoPlayer = NoPlayer
  NoRow = NoRow
SYMMETRY Symmetry
INVARIANT MapChangeSavesEveryone
PROPERTY DisconnectSaves
