SPECIFICATION LiveSpec
CONSTANTS
  g1 = g1
  r1 = r1
  d1 = d1
  d2 = d2
  Gardens <- OneGarden
  Rovers <- OneRover
  Simulated <- TwoDevices
  Simulator = Simulator
  LabelOf <- DefaultLabel
  Nobody = Nobody
  FaultSets <- MCFaultSets
INVARIANTS TypeOK OkIsStored TokenOutlivesPublish
PROPERTIES ReadingsArrive
