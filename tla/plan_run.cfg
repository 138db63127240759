SPECIFICATION Spec
CONSTANTS
  ZoneList <- TwoBeds
  Config <- MCConfig
  Cfg <- MCCfg
  Soils = {20}
  Temps = {38}
  Rains = {0}
  Probs = {0}
  Et0s = {4}
  PlanQuarters = {1}
  MaxAge = 0
  MaxTime = 1
INVARIANTS TypeOK FreshUnlessPushed
PROPERTIES ReadAtOnce
