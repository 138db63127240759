SPECIFICATION BoardsSpec
CONSTANTS
  Versions <- ThreeVersions
  FirstVersion = 1
  RoverUsbVersion = 2
  Existing <- InService
  GardenTags <- OneNewTag
  RoverTags <- TwoRoverTags
  MaxFailures = 3
  FaultSets <- OnlyRoverFaultSets
  Environments <- OnlyRover
  AttemptBound = 4
  MaxResets = 2
PROPERTIES ReleaseArrives
CHECK_DEADLOCK FALSE
