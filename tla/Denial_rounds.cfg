SPECIFICATION Spec
CONSTANTS
  MaxClients = 2
  Primaries = {"ak47", "awp"}
  Pistols = {"glock", "deagle"}
  Equipment = {"hegrenade"}
  Defaults = {"glock"}
  Grenades = {"hegrenade"}
  Servers <- MCServers
  Restricted = {"awp"}
INVARIANTS TypeOK OnlyTheirOwn
PROPERTIES SurvivorsKeepTheirs ArmedAgain EverybodyIsArmed
