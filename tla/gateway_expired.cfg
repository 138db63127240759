SPECIFICATION Spec
CONSTANTS
  Zones <- BedAndPot
  NoZone = NoZone
  CapsOf <- MCCaps
  Requests <- MCRequests
  ConfirmAttempts = 2
  FaultSets <- OnlyExpiry
  MaxDay = 2
  PourBound <- MCPourBound
PROPERTY StopCloses
