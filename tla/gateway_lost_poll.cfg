SPECIFICATION Spec
CONSTANTS
  Zones <- BedAndPot
  NoZone = NoZone
  CapsOf <- MCCaps
  Requests <- MCRequests
  ConfirmAttempts = 2
  FaultSets <- LostPoll
  MaxDay = 2
  PourBound <- MCPourBound
INVARIANT DayPourWithinAllowance
