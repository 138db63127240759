SPECIFICATION Spec
CONSTANTS
  ZoneList <- OneBed
  Config <- MCConfig
  Cfg <- MCCfg
  Soils = {20}
  Temps = {38}
  Rains = {0, 2}
  Probs = {0}
  Et0s = {4}
  PlanQuarters = {1, 3}
  MaxAge = 1
  MaxTime = 1
INVARIANTS RainIsAwaited
