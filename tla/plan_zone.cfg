SPECIFICATION Spec
CONSTANTS
  ZoneSet <- MCZones
  Cfg <- MCCfg
  SoilRange <- MCSoils
  TempRange <- MCTemps
  Weathers <- MCWeathers
  Asked <- AllAsked
  MaxWatered = 6
INVARIANTS ClampIsNearest DayWithinAllowance DrierNotLess ProposalIsGranted
