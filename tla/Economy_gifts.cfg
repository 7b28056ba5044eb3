SPECIFICATION FairSpec
CONSTANTS
  MaxClients = 1
  Bots = {1}
  ItemCount = 2
  Refusing = {1}
  StartCost <- MCStartCost
  IncCost <- MCIncCost
  Barrier <- MCBarrier
  DefaultMax <- MCDefaultMax
  CreditsStart = 1
  CreditsInc = 2
  SalePercent = 75
  BotMaxLevel = 0
  MaxLevel = 4
  Word = 16
  Uses = {"gifts"}
  Capped = {1}
  MassSold = {0}
INVARIANTS PaidFor
PROPERTY CappingEnds
