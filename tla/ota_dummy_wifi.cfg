SPECIFICATION BoardsSpec
CONSTANTS
  Versions <- ThreeVersions
  FirstVersion = 1
  RoverUsbVersion = 2
  Existing <- InService
  GardenTags <- AllTags
  RoverTags <- TwoRoverTags
  MaxFailures = 3
  FaultSets <- NoFaultSets
  Environments <- NoFault
  AttemptBound = 4
  MaxResets = 2
PROPERTIES ReleaseArrives
CHECK_DEADLOCK FALSE
