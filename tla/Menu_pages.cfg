SPECIFICATION Spec
CONSTANTS
  MaxClients = 1
  ItemCount = 3
  MaxLevel = 1
  PageSize = 2
  MaxPage = 2
  cz = cz
  de = de
  fr = fr
  xx = xx
  readme = readme
  damaged = damaged
  link = link
  Default = Default
  Freed = Freed
  Folders <- MCFolders
  NoText = NoText
INVARIANTS TypeOK EveryLineHasItsPlace
PROPERTIES PressDoesWhatItSays NothingUndefined
CHECK_DEADLOCK FALSE
