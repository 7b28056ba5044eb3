SPECIFICATION Spec
CONSTANTS
  MaxClients = 2
  Team <- MCTeam
  Levels = {0, 1, 2}
  Speeds = {40, 70}
  MaxLeft = 2
  FadeFrames = 2
  Switched = {"impulse"}
  MaxHits = 3
INVARIANTS TypeOK EveryEffectIsRecorded RecordedEffectLasts RecordsOfThePresent
PROPERTY EffectsEnd
