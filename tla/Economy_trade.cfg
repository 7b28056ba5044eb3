SPECIFICATION Spec
CONSTANTS
  MaxClients = 2
  Bots = {2}
  ItemCount = 1
  Refusing = {}
  StartCost <- MCStartCost
  IncCost <- MCIncCost
  Barrier <- MCBarrier
  DefaultMax <- MCDefaultMax
  CreditsStart = 1
  CreditsInc = 2
  SalePercent = 75
  BotMaxLevel = 3
  MaxLevel = 5
  Word = 16
  Uses = {"sellall"}
  Capped = {0}
  MassSold = {}
INVARIANTS TypeOK PaidFor WithinMax WorthItsLevels
