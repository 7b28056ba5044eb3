SPECIFICATION Spec
CONSTANTS
  MaxClients = 2
  Bots = {2}
  ExpStart = 1
  ExpInc = 1
  ExpMax = 3
  ExpKill = 1
  ExpHeadshot = 2
  ExpTeamWin = 40
  BotMaxLevel = 2
  Objectives = {100}
  Damages = {1}
  MaxLevel = 3
  MaxAbandoned = 2
INVARIANTS TypeOK CountsAccount LevelsAreEarned NoLevelOwed
