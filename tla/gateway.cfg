SPECIFICATION FairSpec
CONSTANTS
  Zones <- BedAndPot
  NoZone = NoZone
  CapsOf <- MCCaps
  Requests <- MCRequests
  ConfirmAttempts = 2
  FaultSets <- MCFaultSets
  MaxDay = 2
  PourBound <- MCPourBound
INVARIANTS TypeOK ChargedWithinAllowance RunWithinAllowance DayPourWithinAllowance
INVARIANTS PourIsCharged OpenValveIsArmed AlwaysArmed ReturnIsAudited
PROPERTIES BudgetSpec CallsEnd ValvesClose LeftAloneValvesClose
