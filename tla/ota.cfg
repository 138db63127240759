SPECIFICATION BoardsSpec
CONSTANTS
  Versions <- ThreeVersions
  FirstVersion = 1
  RoverUsbVersion = 2
  Existing <- InService
  GardenTags <- AllTags
  RoverTags <- TwoRoverTags
  MaxFailures = 3
  FaultSets <- AllFaultSets
  Environments <- EveryEnvironment
  AttemptBound = 4
  MaxResets = 2
INVARIANTS TypeOK AttemptsBounded EachReleaseOnce AlwaysBootable RunsItsReleases
PROPERTIES LockoutHolds ArrivesOrLocks RoverTriesAgain RoverComesBack
CHECK_DEADLOCK FALSE
