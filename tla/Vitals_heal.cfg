SPECIFICATION Spec
CONSTANTS
  MaxClients = 2
  BaseHealth = 3
  HBONUS_INC = 2
  MEDIC_INC = 1
  VAMP_INC = 50
  ArmorStep = 1
  FullArmor = 1
  MaxBonus = 1
  Levels = {0, 2}
  MaxStealth = 1
  STEALTH_INC = 1
  Opaque = 1
  icestab_lmtdmg = 1
  Damages = {1, 4}
  Word = 32
INVARIANTS TypeOK HealthWithinMaximum
PROPERTIES HealingNeverHurts VisibilityFollows
