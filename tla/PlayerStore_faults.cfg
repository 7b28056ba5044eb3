SPECIFICATION Spec
CONSTANTS
  s1 = s1
  s2 = s2
  n1 = n1
  n2 = n2
  MaxClients = 2
  Keys = {s1, s2}
  NameKeys = {}
  MaxLevel = 2
  MaxItem = 1
  ItemCap = 0
  MaxRow = 3
  FaultKinds = {"select_player", "select_items", "link_items", "update_player", "update_items", "delete_items"}
  MaxFaults = 1
  DelPlayerUsed = FALSE
  NoPlayer = NoPlayer
  NoRow = NoRow
SYMMETRY Symmetry
INVARIANTS TypeOK ConnectedRowExists NoRollback RankWithinCount
